----------------------------- MODULE MCStateFile -----------------------------
(***************************************************************************)
(* The state file with the codec: sample states and messages, written,     *)
(* possibly damaged, and read back byte by byte.                           *)
(***************************************************************************)
EXTENDS Containers, StateFile

CONSTANTS c1, c2

(***************************************************************************)
(* A value a reader accepts, different in neighbouring fields; size says   *)
(* how long lists are and whether optional fields are there.               *)
(***************************************************************************)
Span(type) == IF type.high - type.low > 250 THEN 251 ELSE type.high - type.low + 1

RECURSIVE Sample(_, _, _)
Sample(type, seed, size) ==
    CASE type.form = "number" -> type.low + (seed % Span(type)) - type.bias
      [] type.form = "signed" -> type.low + ((seed * 37) % (type.high - type.low + 1))
      [] type.form = "flag" -> (seed + size) % 2 = 0
      [] type.form = "text" -> [i \in 1 .. (seed % 4) |-> (seed + i) % 256]
      [] type.form = "optional" -> IF size = 0 THEN << >> ELSE <<Sample(type.of, seed + 1, size)>>
      [] type.form = "list" ->
            [i \in 1 .. size |->
                CASE type.order = "any" -> Sample(type.of, seed + 11 * i, size)
                  [] type.order = "named" -> [id |-> NameHash(<<96 + i>>), name |-> <<96 + i>>]
                  [] type.order = "ascending" -> (seed % 200) + i
                  [] type.order = "lexical" -> [j \in 1 .. i |-> 7 * i]]
      [] type.form = "record" ->
            LET Position(name) == CHOOSE i \in DOMAIN type.fields : type.fields[i][1] = name
            IN  [name \in {type.fields[i][1] : i \in DOMAIN type.fields} |->
                    Sample(type.fields[Position(name)][2], seed + 5 * Position(name), size)]

TooLong == [i \in 1 .. 4 |-> 65]

\* Durable states: a new engine, one of everything, a detail too long, two of everything.
SampleStates ==
    LET single == Sample(ReadDurable, 2, 1)
    IN  <<Sample(ReadDurable, 1, 0), single,
          [single EXCEPT !.requests[1].detail = TooLong],
          Sample(ReadDurable, 3, 2)>>

(* The same function, all its values computed. *)
Tabulated(f) == f @@ << >>

FilesLoadAs ==
    LET containers == [v \in Version |-> EncodeDurableState(SampleStates[v])]
        Cut(container) ==
            [container EXCEPT !.size = @ - 1, !.body = SubSeq(@, 1, Len(@) - 1)]
    IN  Tabulated([image \in Image |->
            LET result == LoadDurableState(IF image.whole THEN containers[image.version]
                                           ELSE Cut(containers[image.version]))
                same == {v \in Version : result.value = SampleStates[v]}
            IN  IF ~ result.ok THEN Nothing
                ELSE IF same = {} THEN Garbled ELSE CHOOSE v \in same : TRUE])

\* Messages: one of each type, and a decision whose failure detail is too long.
LongDecision == "Decision with a long detail"
SampleMessages ==
    [m \in MessageType \cup {LongDecision} |->
        LET type == IF m = LongDecision THEN "Decision" ELSE m
            content == Sample(ReadPayload[type], 4, 2)
        IN  [type |-> type, correlation |-> 7, epoch |-> 2,
             content |-> IF m = LongDecision
                         THEN [content EXCEPT !.failure_detail = TooLong]
                         ELSE IF Advertises(m) THEN RecordToAdvertisement(content)
                         ELSE content]]

Twins == [AssignAck |-> "Running", Reassign |-> "Preempt", CancelPlacement |-> "Reassign"]
SampleFrames ==
    (DOMAIN SampleMessages) \X {"intact", "cut", "trailing"}
    \cup (DOMAIN SampleMessages \ {"Shutdown"}) \X {"byte"}
    \cup (DOMAIN Twins) \X {"type", "epoch", "flags"}

Harmed(frame, damage) ==
    CASE damage = "intact" -> frame
      [] damage = "cut" -> [frame EXCEPT !.length = @ + 1]          \* a byte never came
      [] damage = "byte" -> [frame EXCEPT !.payload[1] = (@ + 1) % 256]
      [] damage = "trailing" ->                                     \* sealed by its sender
            EncodeFrame(frame.type, frame.correlation, frame.epoch, Append(frame.payload, 0))
      [] damage = "type" -> [frame EXCEPT !.type = Twins[frame.type]]
      [] damage = "epoch" -> [frame EXCEPT !.epoch = @ + 1]
      [] damage = "flags" -> [frame EXCEPT !.flags = 1]

FramesArriveAs ==
    LET frames == [m \in DOMAIN SampleMessages |-> Framed(SampleMessages[m])]
    IN  Tabulated([f \in SampleFrames |->
            LET result == Received(Harmed(frames[f[1]], f[2]))
                same == {m \in DOMAIN SampleMessages : result.message = SampleMessages[m]}
            IN  IF ~ result.ok THEN Nothing
                ELSE IF same = {} THEN Garbled ELSE CHOOSE m \in same : TRUE])

SampleLimit ==
    [name \in {WriteLimits.fields[i][1] : i \in DOMAIN WriteLimits.fields} |->
        CASE name = "max_string_length" -> 3
          [] name = "max_persistence_bytes" -> 60000
          [] name = "max_frame_size" -> 20000
          [] OTHER -> 4]
HashOfName(name) == 10 * name[1] + Len(name)
MessageNames == DOMAIN SampleMessages
=============================================================================
