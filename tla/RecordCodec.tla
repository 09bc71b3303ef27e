----------------------------- MODULE RecordCodec -----------------------------
(***************************************************************************)
(* The bytes of a record: codec.cpp and record_codec.cpp.                  *)
(*                                                                         *)
(* The code has one writer and one reader per record, each a list of calls *)
(* in some order.  Both lists are tables here, the writers' from write_*   *)
(* and the readers' from read_*; Write and Read interpret them byte by     *)
(* byte.  That the tables agree is not built in: it is what is checked.    *)
(*                                                                         *)
(* A record is a function of its field names, a text the sequence of its   *)
(* bytes, an optional field a sequence of at most one element.             *)
(***************************************************************************)
EXTENDS Integers, Sequences, SequencesExt, TLC

CONSTANTS
    Limit,              \* Limits: what the readers accept, by name
    NameHash(_)         \* the hash behind capability_id_from_name, of a name

Huge == 256 * 256 * 256     \* stands for every number of more than three bytes

(* Types.  Writers ignore the bounds; they are what readers accept. *)
Number(width, bias, low, high) ==
    [form |-> "number", width |-> width, bias |-> bias, low |-> low, high |-> high]
U8 == Number(1, 0, 0, Huge)
U16 == Number(2, 0, 0, Huge)
U32 == Number(4, 0, 0, Huge)
U64 == Number(8, 0, 0, Huge)
Id == U64
Enum(last) == Number(1, 0, 0, last)
AtMost(bound) == Number(4, 0, 0, bound)
Signed(low, high) == [form |-> "signed", low |-> low, high |-> high]
Flag == [form |-> "flag"]
Text(max) == [form |-> "text", max |-> max]
AnyText == Text(Huge)
Optional(type) == [form |-> "optional", of |-> type]
List(type, max, order) == [form |-> "list", of |-> type, max |-> max, order |-> order]
AnyList(type) == List(type, Huge, "any")
Record(fields) == [form |-> "record", fields |-> fields]

All(names, type) == [i \in DOMAIN names |-> <<names[i], type>>]
One(name, type) == << <<name, type>> >>

-----------------------------------------------------------------------------
(* Writing. *)

(* ByteWriter::u8 .. u64: little endian, two's complement. *)
Bytes(n, width) ==
    LET m == IF n < 0 THEN -n - 1 ELSE n
        Digit(i) == IF i > 3 THEN 0 ELSE (m \div 256^(i - 1)) % 256
    IN  [i \in 1 .. width |-> IF n < 0 THEN 255 - Digit(i) ELSE Digit(i)]

RECURSIVE Write(_, _)
Write(type, v) ==
    CASE type.form = "number" -> Bytes(v + type.bias, type.width)
      [] type.form = "signed" -> Bytes(v, 4)
      [] type.form = "flag" -> <<IF v THEN 1 ELSE 0>>
      [] type.form = "text" -> Bytes(Len(v), 4) \o v
      [] type.form = "optional" -> IF v = << >> THEN <<0>> ELSE <<1>> \o Write(type.of, v[1])
      [] type.form = "list" ->
            Bytes(Len(v), 4) \o FlattenSeq([i \in DOMAIN v |-> Write(type.of, v[i])])
      [] type.form = "record" ->
            FlattenSeq([i \in DOMAIN type.fields |->
                            Write(type.fields[i][2], v[type.fields[i][1]])])

-----------------------------------------------------------------------------
(* Reading.  A reader is at a byte and refuses, or returns a value and the *)
(* byte after it.                                                          *)

Refused == [ok |-> FALSE]
Got(value, at) == [ok |-> TRUE, value |-> value, at |-> at]

Unsigned(bytes) ==
    LET Digit(i) == IF i \in DOMAIN bytes THEN bytes[i] ELSE 0
    IN  IF \E i \in DOMAIN bytes : i > 3 /\ bytes[i] # 0
        THEN Huge
        ELSE Digit(1) + 256 * Digit(2) + 256 * 256 * Digit(3)

(* ByteReader::u8 .. u64, and the range checks of its callers. *)
ReadNumber(type, bytes, at) ==
    IF at + type.width - 1 > Len(bytes)
    THEN Refused
    ELSE LET n == Unsigned(SubSeq(bytes, at, at + type.width - 1))
         IN  IF n \in type.low .. type.high
             THEN Got(n - type.bias, at + type.width)
             ELSE Refused

(* A u32 taken for an i32. *)
ReadSigned(type, bytes, at) ==
    IF at + 3 > Len(bytes)
    THEN Refused
    ELSE LET raw == SubSeq(bytes, at, at + 3)
             n == IF raw[4] > 127
                  THEN -1 - Unsigned([i \in 1 .. 4 |-> 255 - raw[i]])
                  ELSE Unsigned(raw)
         IN  IF n \in type.low .. type.high THEN Got(n, at + 4) ELSE Refused

ReadFlag(bytes, at) ==
    IF at \in DOMAIN bytes /\ bytes[at] <= 1 THEN Got(bytes[at] = 1, at + 1) ELSE Refused

ReadText(max, bytes, at) ==
    LET length == ReadNumber(AtMost(max), bytes, at)
    IN  IF ~ length.ok \/ length.value > Len(bytes) - at - 3
        THEN Refused
        ELSE Got(SubSeq(bytes, at + 4, at + 3 + length.value), at + 4 + length.value)

(* std::string's operator<. *)
Precedes(a, b) ==
    \/ IsStrictPrefix(a, b)
    \/ \E i \in DOMAIN a \cap DOMAIN b :
            a[i] < b[i] /\ SubSeq(a, 1, i - 1) = SubSeq(b, 1, i - 1)

(* is_canonical_capability_name, but for its length: a-z, 0-9, '.', '_' and '-'. *)
CanonicalBytes == 97 .. 122 \cup 48 .. 57 \cup {46, 95, 45}

(* What a list's reader asks of an item, given the items before it. *)
Fits(order, items, item) ==
    CASE order = "any" -> TRUE
      [] order = "ascending" -> items = << >> \/ Last(items) < item
      [] order = "lexical" -> items = << >> \/ Precedes(Last(items), item)
      [] order = "named" ->
            /\ item.name # << >> /\ \A i \in DOMAIN item.name : item.name[i] \in CanonicalBytes
            /\ item.id # 0
            /\ item.id = NameHash(item.name)
            /\ \A i \in DOMAIN items : items[i].id # item.id

Kept(order, items) ==
    IF order = "named" THEN SortSeq(items, LAMBDA a, b : a.id < b.id) ELSE items

RECURSIVE Read(_, _, _), ReadItems(_, _, _, _, _), ReadFields(_, _, _, _, _)
Read(type, bytes, at) ==
    CASE type.form = "number" -> ReadNumber(type, bytes, at)
      [] type.form = "signed" -> ReadSigned(type, bytes, at)
      [] type.form = "flag" -> ReadFlag(bytes, at)
      [] type.form = "text" -> ReadText(type.max, bytes, at)
      [] type.form = "optional" ->
            LET present == ReadFlag(bytes, at)
                inner == Read(type.of, bytes, at + 1)
            IN  IF ~ present.ok THEN Refused
                ELSE IF ~ present.value THEN Got(<< >>, at + 1)
                ELSE IF inner.ok THEN Got(<<inner.value>>, inner.at)
                ELSE Refused
      [] type.form = "list" ->
            LET count == ReadNumber(AtMost(type.max), bytes, at)
            IN  IF count.ok THEN ReadItems(type, count.value, bytes, at + 4, << >>) ELSE Refused
      [] type.form = "record" -> ReadFields(type.fields, 1, bytes, at, << >>)

ReadItems(type, left, bytes, at, items) ==
    IF left = 0
    THEN Got(Kept(type.order, items), at)
    ELSE LET item == Read(type.of, bytes, at)
         IN  IF item.ok /\ Fits(type.order, items, item.value)
             THEN ReadItems(type, left - 1, bytes, item.at, Append(items, item.value))
             ELSE Refused

ReadFields(fields, next, bytes, at, record) ==
    IF next > Len(fields)
    THEN Got(record, at)
    ELSE LET field == Read(fields[next][2], bytes, at)
         IN  IF field.ok
             THEN ReadFields(fields, next + 1, bytes, field.at,
                             (fields[next][1] :> field.value) @@ record)
             ELSE Refused

(* A read of everything there is: the reader, then require_end. *)
ReadWhole(type, bytes) ==
    LET result == Read(type, bytes, 1)
    IN  IF result.ok /\ result.at = Len(bytes) + 1 THEN result ELSE Refused

-----------------------------------------------------------------------------
(* The writers' tables. *)

WriteLimits == Record(
    All(<<"max_resources", "max_capabilities_per_resource", "max_accelerators_per_resource",
          "max_local_datasets_per_resource", "max_resident_models_per_resource",
          "max_simulator_scenarios", "max_retained_requests", "max_active_requests",
          "max_requirements_per_request", "max_allowlist_entries", "max_denylist_entries",
          "max_anti_affinity_pairs", "max_affinity_groups",
          "max_candidate_resources_per_requirement", "max_candidates_evaluated",
          "max_candidates_ranked", "max_rejected_entries_per_requirement",
          "max_rejection_reasons_per_entry", "max_ranking_factors", "max_placements",
          "max_active_placements", "max_reservations", "max_active_reservations",
          "max_placement_history_per_unit", "max_audit_records", "max_topology_records",
          "max_topology_depth", "max_string_length", "max_digest_length",
          "max_explanation_entries", "max_frame_size", "max_worker_connections",
          "max_inflight_assignments", "max_persistence_records">>, U32)
    \o One("max_persistence_bytes", U64)
    \o One("max_placement_commit_attempts", U32))

Factors == [i \in 1 .. 12 |-> i]            \* kRankingFactorCount
WriteWeights == Record(All(Factors, Signed(-Huge, Huge)))

WriteTopologyDomain == Record(One("id", Id) \o One("name", AnyText))
WriteTopology == Record(
    All(<<"host", "numa", "root_complex", "rack", "cluster">>, WriteTopologyDomain)
    \o One("supplied", Flag))
WriteCapabilities == AnyList(Record(One("id", Id) \o One("name", AnyText)))
WriteAccelerators == AnyList(Record(
    One("id", Id) \o One("model", AnyText) \o One("memory_bytes", U64)
    \o All(<<"compute_capability_major", "compute_capability_minor">>, U32)
    \o One("root_complex", Id)))
WriteIdList == AnyList(Id)
WriteStringList == AnyList(AnyText)
WriteLocality == Record(
    All(<<"local_dataset_versions", "resident_models", "colocated_simulators">>, WriteIdList))

WriteResource == Record(
    One("id", Id) \o One("resource_class", U8) \o One("name", AnyText)
    \o All(<<"worker", "boot">>, Id) \o All(<<"provenance", "sharing">>, U8)
    \o One("capabilities", WriteCapabilities) \o One("slots", U32) \o One("memory_bytes", U64)
    \o All(<<"max_sessions", "advertised_occupancy">>, U32)
    \o One("health", U8) \o One("health_detail", AnyText) \o One("readiness", U8)
    \o One("topology", WriteTopology) \o One("locality", WriteLocality)
    \o One("accelerators", WriteAccelerators)
    \o One("model", Optional(Record(
           One("id", Id) \o One("version", AnyText) \o One("context_window", U32)
           \o All(<<"tool_support", "resident">>, Flag) \o One("modalities", WriteCapabilities))))
    \o One("simulator", Optional(Record(
           One("id", Id) \o One("version", AnyText) \o One("scenarios", WriteStringList)
           \o One("max_sessions", U32))))
    \o One("dataset", Optional(Record(
           All(<<"id", "version">>, Id) \o One("digest", AnyText) \o One("size_bytes", U64))))
    \o One("environment", Optional(Record(
           One("id", Id) \o One("image_digest", AnyText)
           \o All(<<"virtual_environment", "physical_environment">>, Id)
           \o One("eligibility_token", AnyText))))
    \o One("tenant", AnyText) \o One("labels", WriteStringList) \o One("lifecycle", U8)
    \o All(<<"generation", "health_generation", "capacity_generation">>, Id)
    \o One("state_sequence", U64) \o One("validated_epoch", Id)
    \o One("dynamic_authoritative", Flag) \o One("authority_detail", AnyText)
    \o One("reserved_slots", U32))

WriteRequirement == Record(
    One("name", AnyText) \o One("resource_class", U8)
    \o One("required_capabilities", WriteCapabilities)
    \o One("min_slots", U32) \o One("min_memory_bytes", U64)
    \o All(<<"require_exclusive", "require_current_evidence">>, Flag)
    \o One("minimum_health", U8) \o One("max_occupancy_percent", U32)
    \o All(<<"accelerator", "model">>, Optional(Id))
    \o One("model_version", AnyText) \o One("require_model_resident", Flag)
    \o One("simulator", Optional(Id))
    \o All(<<"simulator_version", "simulator_scenario">>, AnyText)
    \o One("require_simulator_ready", Flag)
    \o All(<<"dataset", "dataset_version", "environment">>, Optional(Id))
    \o One("environment_digest", AnyText)
    \o All(<<"physical_environment", "virtual_environment", "required_domain">>, Optional(Id))
    \o One("required_domain_scope", U8)
    \o All(<<"allowlist", "denylist">>, WriteIdList) \o One("affinity_group", U32))

WriteConstraints == AnyList(Record(All(<<"group_a", "group_b">>, U32) \o One("scope", U8)))
WriteRequest == Record(
    All(<<"id", "experiment", "experiment_generation", "trial">>, Id)
    \o All(<<"workload", "tenant">>, AnyText)
    \o One("priority", Number(4, 2000, 0, Huge))
    \o One("requirements", AnyList(WriteRequirement))
    \o All(<<"affinity", "anti_affinity">>, WriteConstraints)
    \o All(<<"experiment_anti_affinity", "exclusive", "reproducibility_required",
             "allow_preemption">>, Flag)
    \o One("max_reassignments", U32) \o One("weights", WriteWeights)
    \o All(<<"caller_authority", "request_provenance">>, AnyText))
WriteStoredRequest == Record(
    One("request", WriteRequest) \o One("state", U8) \o One("submitted_sequence", U64)
    \o One("current_placement", Id) \o One("placement_count", U32) \o One("detail", AnyText))

WriteSelected == Record(
    One("resource", Id) \o One("resource_class", U8) \o One("generation", Id)
    \o One("slots", U32) \o One("exclusive", Flag) \o One("requirement_name", AnyText)
    \o All(<<"worker", "worker_boot">>, Id) \o One("resource_name", AnyText))
WritePlacement == Record(
    All(<<"id", "generation", "request", "decision", "experiment", "experiment_generation",
          "trial", "epoch">>, Id)
    \o One("resources", AnyList(WriteSelected))
    \o All(<<"reservation", "lease", "worker", "worker_boot">>, Id)
    \o One("state", U8) \o One("reassignment_count", U32) \o One("completion_recorded", Flag)
    \o One("detail", AnyText) \o One("transition_sequence", U64)
    \o One("completion_detail", AnyText))
WriteReservation == Record(
    All(<<"id", "lease", "placement", "placement_generation", "request", "experiment",
          "experiment_generation", "epoch">>, Id)
    \o One("claims", AnyList(Record(
           One("resource", Id) \o One("slots", U32) \o One("exclusive", Flag)
           \o One("generation_at_acquire", Id))))
    \o One("state", U8) \o One("acquire_sequence", U64) \o One("detail", AnyText))
WriteAuthorityEnvelope == Record(
    All(<<"request", "experiment", "experiment_generation", "placement",
          "placement_generation", "epoch", "lease", "reservation", "worker", "worker_boot">>, Id)
    \o One("resources", AnyList(WriteSelected)))
WriteCompletionClaim == Record(
    All(<<"placement", "placement_generation", "experiment", "experiment_generation", "epoch",
          "worker_boot">>, Id)
    \o All(<<"resources", "resource_generations">>, WriteIdList)
    \o One("succeeded", Flag) \o One("detail", AnyText))

-----------------------------------------------------------------------------
(* The readers' tables. *)

BoundedText == Text(Limit["max_string_length"])
BoundedDigest == Text(Limit["max_digest_length"])

ReadLimits == Record(
    All(<<"max_resources", "max_capabilities_per_resource", "max_accelerators_per_resource",
          "max_local_datasets_per_resource", "max_resident_models_per_resource",
          "max_simulator_scenarios", "max_retained_requests", "max_active_requests",
          "max_requirements_per_request", "max_allowlist_entries", "max_denylist_entries",
          "max_anti_affinity_pairs", "max_affinity_groups",
          "max_candidate_resources_per_requirement", "max_candidates_evaluated",
          "max_candidates_ranked", "max_rejected_entries_per_requirement",
          "max_rejection_reasons_per_entry", "max_ranking_factors", "max_placements",
          "max_active_placements", "max_reservations", "max_active_reservations",
          "max_placement_history_per_unit", "max_audit_records", "max_topology_records",
          "max_topology_depth", "max_string_length", "max_digest_length",
          "max_explanation_entries", "max_frame_size", "max_worker_connections",
          "max_inflight_assignments", "max_persistence_records">>, U32)
    \o One("max_persistence_bytes", U64)
    \o One("max_placement_commit_attempts", U32))
ReadWeights == Record(All(Factors, Signed(-1000, 1000)))

ReadTopologyDomain == Record(One("id", Id) \o One("name", BoundedText))
ReadTopology == Record(
    All(<<"host", "numa", "root_complex", "rack", "cluster">>, ReadTopologyDomain)
    \o One("supplied", Flag))
ReadCapabilities == List(Record(One("id", Id) \o One("name", Text(64))),
                         Limit["max_capabilities_per_resource"], "named")
ReadAccelerators == List(
    Record(One("id", Id) \o One("model", BoundedText) \o One("memory_bytes", U64)
           \o All(<<"compute_capability_major", "compute_capability_minor">>, U32)
           \o One("root_complex", Id)),
    Limit["max_accelerators_per_resource"], "any")
ReadIdList(max) == List(Id, max, "ascending")
ReadStringList(max) == List(BoundedText, max, "lexical")
ReadLocality == Record(
    One("local_dataset_versions", ReadIdList(Limit["max_local_datasets_per_resource"]))
    \o One("resident_models", ReadIdList(Limit["max_resident_models_per_resource"]))
    \o One("colocated_simulators", ReadIdList(Limit["max_simulator_scenarios"])))

ReadModel == Record(
    One("id", Id) \o One("version", BoundedDigest) \o One("context_window", U32)
    \o All(<<"tool_support", "resident">>, Flag) \o One("modalities", ReadCapabilities))
ReadSimulator == Record(
    One("id", Id) \o One("version", BoundedDigest)
    \o One("scenarios", ReadStringList(Limit["max_simulator_scenarios"]))
    \o One("max_sessions", U32))
ReadDataset == Record(
    All(<<"id", "version">>, Id) \o One("digest", BoundedDigest) \o One("size_bytes", U64))
ReadEnvironment == Record(
    One("id", Id) \o One("image_digest", BoundedDigest)
    \o All(<<"virtual_environment", "physical_environment">>, Id)
    \o One("eligibility_token", BoundedText))
ReadIdentity ==
    One("id", Id) \o One("resource_class", Enum(6)) \o One("name", BoundedText)
    \o All(<<"worker", "boot">>, Id) \o One("provenance", Enum(2)) \o One("sharing", Enum(1))
    \o One("capabilities", ReadCapabilities)
ReadStanding ==
    One("tenant", BoundedText)
    \o One("labels", ReadStringList(Limit["max_capabilities_per_resource"]))
    \o One("lifecycle", Enum(3))
    \o All(<<"generation", "health_generation", "capacity_generation">>, Id)
    \o One("state_sequence", U64) \o One("validated_epoch", Id)
    \o One("dynamic_authoritative", Flag) \o One("authority_detail", BoundedText)
    \o One("reserved_slots", U32)
ReadResource == Record(
    ReadIdentity \o One("slots", U32) \o One("memory_bytes", U64)
    \o All(<<"max_sessions", "advertised_occupancy">>, U32)
    \o One("health", Enum(3)) \o One("health_detail", BoundedText) \o One("readiness", Enum(3))
    \o One("topology", ReadTopology) \o One("locality", ReadLocality)
    \o One("accelerators", ReadAccelerators)
    \o One("model", Optional(ReadModel)) \o One("simulator", Optional(ReadSimulator))
    \o One("dataset", Optional(ReadDataset)) \o One("environment", Optional(ReadEnvironment))
    \o ReadStanding)

ReadOptional == Optional(Id)
ReadRequirement == Record(
    One("name", BoundedText) \o One("resource_class", Enum(6))
    \o One("required_capabilities", ReadCapabilities)
    \o One("min_slots", U32) \o One("min_memory_bytes", U64)
    \o All(<<"require_exclusive", "require_current_evidence">>, Flag)
    \o One("minimum_health", Enum(3)) \o One("max_occupancy_percent", U32)
    \o All(<<"accelerator", "model">>, ReadOptional)
    \o One("model_version", BoundedDigest) \o One("require_model_resident", Flag)
    \o One("simulator", ReadOptional)
    \o One("simulator_version", BoundedDigest) \o One("simulator_scenario", BoundedText)
    \o One("require_simulator_ready", Flag)
    \o All(<<"dataset", "dataset_version", "environment">>, ReadOptional)
    \o One("environment_digest", BoundedDigest)
    \o All(<<"physical_environment", "virtual_environment", "required_domain">>, ReadOptional)
    \o One("required_domain_scope", Enum(4))
    \o One("allowlist", ReadIdList(Limit["max_allowlist_entries"]))
    \o One("denylist", ReadIdList(Limit["max_denylist_entries"]))
    \o One("affinity_group", U32))

ReadConstraints == List(Record(All(<<"group_a", "group_b">>, U32) \o One("scope", Enum(4))),
                        Limit["max_anti_affinity_pairs"], "any")
ReadRequest == Record(
    All(<<"id", "experiment", "experiment_generation", "trial">>, Id)
    \o All(<<"workload", "tenant">>, BoundedText)
    \o One("priority", Number(4, 2000, 1000, 3000))
    \o One("requirements",
           List(ReadRequirement, Limit["max_requirements_per_request"], "any"))
    \o All(<<"affinity", "anti_affinity">>, ReadConstraints)
    \o All(<<"experiment_anti_affinity", "exclusive", "reproducibility_required",
             "allow_preemption">>, Flag)
    \o One("max_reassignments", AtMost(16)) \o One("weights", ReadWeights)
    \o All(<<"caller_authority", "request_provenance">>, BoundedText))
ReadStoredRequest == Record(
    One("request", ReadRequest) \o One("state", Enum(5)) \o One("submitted_sequence", U64)
    \o One("current_placement", Id) \o One("placement_count", U32)
    \o One("detail", BoundedText))

ReadSelected == Record(
    One("resource", Id) \o One("resource_class", Enum(6)) \o One("generation", Id)
    \o One("slots", U32) \o One("exclusive", Flag) \o One("requirement_name", BoundedText)
    \o All(<<"worker", "worker_boot">>, Id) \o One("resource_name", BoundedText))
SelectedList == List(ReadSelected, Limit["max_requirements_per_request"], "any")
ReadPlacement == Record(
    All(<<"id", "generation", "request", "decision", "experiment", "experiment_generation",
          "trial", "epoch">>, Id)
    \o One("resources", SelectedList)
    \o All(<<"reservation", "lease", "worker", "worker_boot">>, Id)
    \o One("state", Enum(8)) \o One("reassignment_count", AtMost(16))
    \o One("completion_recorded", Flag) \o One("detail", BoundedText)
    \o One("transition_sequence", U64) \o One("completion_detail", BoundedText))
\* Slip: the placement is read before the lease.
ReadReservationSwapped == Record(
    All(<<"id", "placement", "lease", "placement_generation", "request", "experiment",
          "experiment_generation", "epoch">>, Id)
    \o One("claims", List(
           Record(One("resource", Id) \o One("slots", U32) \o One("exclusive", Flag)
                  \o One("generation_at_acquire", Id)),
           Limit["max_requirements_per_request"], "any"))
    \o One("state", Enum(2)) \o One("acquire_sequence", U64) \o One("detail", BoundedText))

ReadReservation == Record(
    All(<<"id", "lease", "placement", "placement_generation", "request", "experiment",
          "experiment_generation", "epoch">>, Id)
    \o One("claims", List(
           Record(One("resource", Id) \o One("slots", U32) \o One("exclusive", Flag)
                  \o One("generation_at_acquire", Id)),
           Limit["max_requirements_per_request"], "any"))
    \o One("state", Enum(2)) \o One("acquire_sequence", U64) \o One("detail", BoundedText))
ReadAuthorityEnvelope == Record(
    All(<<"request", "experiment", "experiment_generation", "placement",
          "placement_generation", "epoch", "lease", "reservation", "worker", "worker_boot">>, Id)
    \o One("resources", SelectedList))
ReadCompletionClaim == Record(
    All(<<"placement", "placement_generation", "experiment", "experiment_generation", "epoch",
          "worker_boot">>, Id)
    \o All(<<"resources", "resource_generations">>,
           List(Id, Limit["max_requirements_per_request"], "any"))
    \o One("succeeded", Flag) \o One("detail", BoundedText))

(* An advertisement travels as a record: the fields only the coordinator   *)
(* keeps are written as in a new record, and dropped when it is read.      *)
NewRecord ==
    [lifecycle |-> 0, generation |-> 0, health_generation |-> 0, capacity_generation |-> 0,
     state_sequence |-> 0, validated_epoch |-> 0, dynamic_authoritative |-> FALSE,
     authority_detail |-> << >>, reserved_slots |-> 0]
AdvertisementToRecord(advertisement) == NewRecord @@ advertisement
RecordToAdvertisement(record) == [name \in DOMAIN record \ DOMAIN NewRecord |-> record[name]]

=============================================================================
