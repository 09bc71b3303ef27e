------------------------------ MODULE Containers ------------------------------
(***************************************************************************)
(* What surrounds the records: the container of a state file               *)
(* (persistence.cpp) and the frame of a message (protocol.cpp, net.cpp).   *)
(*                                                                         *)
(* A container is its header fields and the bytes of its body.  The FNV    *)
(* checksum is modelled as the checked data itself: two different bodies   *)
(* never have the same sum.                                                *)
(***************************************************************************)
EXTENDS RecordCodec

Sum(data) == data

-----------------------------------------------------------------------------
(* The state file. *)

Header == 28                            \* kPersistenceHeaderSize
Magic == "LSCHED01"
Format == 1                             \* kPersistenceFormatVersion

WriteDurable == Record(
    One("format_version", U32) \o One("epoch", Id) \o One("limits", WriteLimits)
    \o One("default_weights", WriteWeights) \o One("id_counter", U64)
    \o One("product", AnyText) \o One("resources", AnyList(WriteResource))
    \o One("requests", AnyList(WriteStoredRequest))
    \o One("placements", AnyList(WritePlacement))
    \o One("reservations", AnyList(WriteReservation)))

ReadDurable ==
    LET Records(type) == List(type, Limit["max_persistence_records"], "any")
    IN  Record(
            One("format_version", Number(4, 0, Format, Format)) \o One("epoch", Id)
            \o One("limits", ReadLimits) \o One("default_weights", ReadWeights)
            \o One("id_counter", U64) \o One("product", BoundedText)
            \o One("resources", Records(ReadResource))
            \o One("requests", Records(ReadStoredRequest))
            \o One("placements", Records(ReadPlacement))
            \o One("reservations", Records(ReadReservation)))

EncodeDurableState(durable) ==
    LET body == Write(WriteDurable, durable)
    IN  [size |-> Header + Len(body), magic |-> Magic, format |-> Format,
         length |-> Len(body), checksum |-> Sum(body), body |-> body]

(* The checks in order: an evaluation stops at the first that fails. *)
DecodeDurableState(container) ==
    LET available == container.size - Header
    IN  IF /\ container.size >= Header
           /\ container.magic = Magic
           /\ container.format = Format
           /\ container.length \in 1 .. Limit["max_persistence_bytes"]
           /\ container.length = available
           /\ Sum(container.body) = container.checksum
        THEN ReadWhole(ReadDurable, container.body)
        ELSE Refused

LoadDurableState(container) ==
    IF container.size > Limit["max_persistence_bytes"] + Header
    THEN Refused
    ELSE DecodeDurableState(container)

-----------------------------------------------------------------------------
(* The payloads of the messages, as their senders write them. *)

WriteHello == Record(All(<<"worker", "boot">>, Id) \o One("authority", AnyText))
WriteHelloAck == Record(One("epoch", Id) \o One("coordinator", AnyText))
WriteRetire == Record(All(<<"resource", "generation">>, Id))
WriteResourceAck == Record(
    All(<<"resource", "generation">>, Id) \o One("lifecycle", U8) \o One("code", U16)
    \o One("detail", AnyText))
WriteDecision == Record(
    One("decision", Id) \o One("outcome", U8) \o One("failure", U16)
    \o One("failure_detail", AnyText) \o One("placement", WritePlacement)
    \o One("authority", WriteAuthorityEnvelope) \o One("explanation", AnyText))
WriteAssign == Record(One("authority", WriteAuthorityEnvelope) \o One("workload", AnyText))
WriteAuthority == Record(All(<<"placement", "generation", "epoch", "worker_boot">>, Id))
WriteCompletionAck == Record(
    One("placement", Id) \o One("state", U8) \o All(<<"accepted", "duplicate">>, Flag)
    \o One("code", U16) \o One("detail", AnyText) \o One("released_reservations", U32))
WriteCancelPlacement == Record(
    All(<<"placement", "generation", "epoch">>, Id) \o One("reason", AnyText))
WriteCancelRequest == Record(One("request", Id) \o One("reason", AnyText))
WriteLifecycleAck == Record(
    All(<<"placement", "generation">>, Id) \o One("state", U8) \o One("code", U16)
    \o One("detail", AnyText) \o All(<<"released_reservations", "affected">>, U32))
WriteInspect == Record(One("subject", AnyText))
WriteInspectReply == Record(All(<<"subject", "text">>, AnyText))
WriteError == Record(One("code", U16) \o One("message", AnyText))
WriteSaveState == Record(One("path", AnyText))
WriteStateAck == Record(
    One("path", AnyText) \o One("epoch", Id)
    \o All(<<"resources", "requests", "placements", "reservations">>, U32)
    \o One("code", U16) \o One("detail", AnyText))
WriteDisconnectWorker == Record(All(<<"worker", "boot">>, Id) \o One("detail", AnyText))

(* What each kind of message is sent with.  Nobody reads the payload of a Shutdown. *)
WritePayload ==
    [Hello |-> WriteHello, HelloAck |-> WriteHelloAck,
     RegisterResource |-> WriteResource, PublishState |-> WriteResource,
     RetireResource |-> WriteRetire, ResourceAck |-> WriteResourceAck,
     ScheduleRequest |-> WriteRequest, Decision |-> WriteDecision, Assign |-> WriteAssign,
     AssignAck |-> WriteAuthority, Running |-> WriteAuthority,
     Completion |-> WriteCompletionClaim, CompletionAck |-> WriteCompletionAck,
     CancelPlacement |-> WriteCancelPlacement, CancelRequest |-> WriteCancelRequest,
     Reassign |-> WriteCancelPlacement, Preempt |-> WriteCancelPlacement,
     LifecycleAck |-> WriteLifecycleAck, Inspect |-> WriteInspect,
     InspectReply |-> WriteInspectReply, SaveState |-> WriteSaveState,
     StateAck |-> WriteStateAck, Shutdown |-> Record(<< >>), ShutdownAck |-> WriteStateAck,
     Error |-> WriteError, DisconnectWorker |-> WriteDisconnectWorker]

-----------------------------------------------------------------------------
(* The payloads, as their receivers read them. *)

ErrorCode == Number(2, 0, 0, 38)        \* read_error_code: the last code is Busy
Outcome == Enum(1)                      \* read_outcome
PlacementStateByte == Enum(8)           \* read_placement_state
LifecycleByte == Enum(3)                \* read_resource_lifecycle
LongText == Text(Limit["max_explanation_entries"] * Limit["max_string_length"])

ReadHello == Record(All(<<"worker", "boot">>, Id) \o One("authority", BoundedText))
ReadHelloAck == Record(One("epoch", Id) \o One("coordinator", BoundedText))
ReadRetire == Record(All(<<"resource", "generation">>, Id))
ReadResourceAck == Record(
    All(<<"resource", "generation">>, Id) \o One("lifecycle", LifecycleByte)
    \o One("code", ErrorCode) \o One("detail", BoundedText))
ReadDecision == Record(
    One("decision", Id) \o One("outcome", Outcome) \o One("failure", ErrorCode)
    \o One("failure_detail", BoundedText) \o One("placement", ReadPlacement)
    \o One("authority", ReadAuthorityEnvelope) \o One("explanation", LongText))
ReadAssign == Record(One("authority", ReadAuthorityEnvelope) \o One("workload", BoundedText))
ReadAuthority == Record(All(<<"placement", "generation", "epoch", "worker_boot">>, Id))
ReadCompletionAck == Record(
    One("placement", Id) \o One("state", PlacementStateByte)
    \o All(<<"accepted", "duplicate">>, Flag) \o One("code", ErrorCode)
    \o One("detail", BoundedText) \o One("released_reservations", U32))
ReadCancelPlacement == Record(
    All(<<"placement", "generation", "epoch">>, Id) \o One("reason", BoundedText))
ReadCancelRequest == Record(One("request", Id) \o One("reason", BoundedText))
ReadLifecycleAck == Record(
    All(<<"placement", "generation">>, Id) \o One("state", PlacementStateByte)
    \o One("code", ErrorCode) \o One("detail", BoundedText)
    \o All(<<"released_reservations", "affected">>, U32))
ReadInspect == Record(One("subject", BoundedText))
ReadInspectReply == Record(One("subject", BoundedText) \o One("text", LongText))
ReadError == Record(One("code", ErrorCode) \o One("message", BoundedText))
ReadSaveState == Record(One("path", BoundedText))
ReadStateAck == Record(
    One("path", BoundedText) \o One("epoch", Id)
    \o All(<<"resources", "requests", "placements", "reservations">>, U32)
    \o One("code", ErrorCode) \o One("detail", BoundedText))
ReadDisconnectWorker == Record(
    All(<<"worker", "boot">>, Id) \o One("detail", BoundedText))

(* The decoder each kind of message is given to. *)
ReadPayload ==
    [Hello |-> ReadHello, HelloAck |-> ReadHelloAck,
     RegisterResource |-> ReadResource, PublishState |-> ReadResource,
     RetireResource |-> ReadRetire, ResourceAck |-> ReadResourceAck,
     ScheduleRequest |-> ReadRequest, Decision |-> ReadDecision, Assign |-> ReadAssign,
     AssignAck |-> ReadAuthority, Running |-> ReadAuthority,
     Completion |-> ReadCompletionClaim, CompletionAck |-> ReadCompletionAck,
     CancelPlacement |-> ReadCancelPlacement, CancelRequest |-> ReadCancelRequest,
     Reassign |-> ReadCancelPlacement, Preempt |-> ReadCancelPlacement,
     LifecycleAck |-> ReadLifecycleAck, Inspect |-> ReadInspect,
     InspectReply |-> ReadInspectReply, SaveState |-> ReadSaveState,
     StateAck |-> ReadStateAck, Shutdown |-> Record(<< >>), ShutdownAck |-> ReadStateAck,
     Error |-> ReadError, DisconnectWorker |-> ReadDisconnectWorker]

MessageType == DOMAIN WritePayload      \* kMessageTypeNames

(* The messages after which the handler saves, when the engine accepted. *)
MutatingTypes ==
    {"RegisterResource", "PublishState", "RetireResource", "ScheduleRequest", "AssignAck",
     "Running", "Completion", "CancelPlacement", "CancelRequest", "Reassign", "Preempt",
     "DisconnectWorker"}

-----------------------------------------------------------------------------
(* Frames. *)

FrameHeader == 36                       \* kFrameHeaderSize, the length field included
FrameFields == 32                       \* kFrameHeaderFields
ProtocolVersion == 1                    \* kProtocolVersion

(* Slip: the checksum covers the payload only. *)
CoveredPayload(frame) == <<frame.payload>>

(* The checksum covers the header after the length field, and the payload. *)
Covered(frame) ==
    <<frame.version, frame.type, frame.flags, frame.correlation, frame.epoch,
      frame.payload_length, frame.payload>>

Sealed(frame) == [checksum |-> Sum(Covered(frame))] @@ frame

EncodeFrame(type, correlation, epoch, payload) ==
    Sealed([length |-> FrameFields + Len(payload), version |-> ProtocolVersion, type |-> type,
            flags |-> 0, correlation |-> correlation, epoch |-> epoch,
            payload_length |-> Len(payload), payload |-> payload])

(* receive_frame: as many bytes as the length field says, if there are as many. *)
Delivered(frame) ==
    /\ frame.length \in 1 .. Limit["max_frame_size"] - 4
    /\ frame.length <= FrameFields + Len(frame.payload)

(* decode_frame, of the bytes that were read. *)
DecodeFrame(frame) ==
    LET payload == SubSeq(frame.payload, 1, frame.length - FrameFields)
    IN  IF /\ frame.length + 4 >= FrameHeader
           /\ frame.version = ProtocolVersion
           /\ frame.type \in MessageType
           /\ frame.flags = 0
           /\ frame.payload_length = frame.length - FrameFields
           /\ frame.checksum = Sum(Covered([frame EXCEPT !.payload = payload]))
        THEN [ok |-> TRUE, type |-> frame.type, correlation |-> frame.correlation,
              epoch |-> frame.epoch, payload |-> payload]
        ELSE Refused

(* A message on its way: written and framed, then received and read. *)
Advertises(type) == type \in {"RegisterResource", "PublishState"}

Framed(message) ==
    EncodeFrame(message.type, message.correlation, message.epoch,
                Write(WritePayload[message.type],
                      IF Advertises(message.type) THEN AdvertisementToRecord(message.content)
                      ELSE message.content))

Received(frame) ==
    LET view == DecodeFrame(frame)
        content == ReadWhole(ReadPayload[view.type], view.payload)
    IN  IF ~ Delivered(frame) \/ ~ view.ok \/ ~ content.ok
        THEN Refused
        ELSE [ok |-> TRUE,
              message |-> [type |-> view.type, correlation |-> view.correlation,
                           epoch |-> view.epoch,
                           content |-> IF Advertises(view.type)
                                       THEN RecordToAdvertisement(content.value)
                                       ELSE content.value]]

=============================================================================
