------------------------- MODULE EngineRecoveryProofs -------------------------
(***************************************************************************)
(* Snapshots and restarts, for any workers, resources, requests and        *)
(* bounds.  What is on the disk was exported from a sound state, possibly  *)
(* one the engine has long left; an import makes a sound state of it in    *)
(* which nothing is live.                                                  *)
(***************************************************************************)
EXTENDS SoundLogProofs, EngineRecovery

(* Exporting changes nothing that a snapshot is asked about. *)
LEMMA ExportKeeps ==
    ASSUME NEW s
    PROVE  LET d == Export(s)
           IN  /\ d.epoch = s.epoch /\ d.resources = s.resources /\ d.requests = s.requests
               /\ d.placements = s.placements /\ d.reservations = s.reservations
               /\ Placements(d) = Placements(s) /\ Active(d) = Active(s) /\ Live(d) = Live(s)
BY DEF Export, Placements, Active, Live

(* What the engine exports passes validate_durable_state. *)
LEMMA ExportLoadable ==
    ASSUME NEW s, Inv(s), Sound(s) PROVE Loadable(Export(s))
<1> DEFINE d == Export(s)
           registered == {r \in Resource : d.resources[r].lifecycle # "Absent"}
<1>1. /\ d.epoch = s.epoch /\ d.resources = s.resources /\ d.requests = s.requests
      /\ d.placements = s.placements /\ d.reservations = s.reservations
      /\ Placements(d) = Placements(s) /\ Active(d) = Active(s)
  BY ExportKeeps
<1>2. s \in SchedulerState /\ MaxPlacements \in Nat
  BY ConstantsAssumption DEF Inv
<1> HIDE DEF d
<1>3. ASSUME NEW r \in registered
      PROVE  /\ d.resources[r].slots > 0
             /\ d.resources[r].occupancy <= d.resources[r].slots
             /\ d.resources[r].lifecycle = "Retired" => d.resources[r].reserved = 0
             /\ Occupied(d.resources[r]) <= d.resources[r].slots
             /\ ClaimedSlots(d, Active(d), r) <= d.resources[r].slots
             /\ d.resources[r].reserved = ClaimedSlots(d, Active(d), r)
  <2>1. r \in Resource /\ d.resources[r] = s.resources[r] /\ s.resources[r].lifecycle # "Absent"
    BY <1>1
  <2>2. s.resources[r] \in ResourceRecord
    BY <1>2, <2>1, Parts
  <2>3. /\ s.resources[r].slots \in Nat /\ s.resources[r].occupancy \in Nat
        /\ s.resources[r].reserved \in Nat
    BY <2>2 DEF ResourceRecord
  <2>4. s.resources[r].slots > 0
    BY <2>1 DEF Inv, Sized, UnregisteredResource
  <2>5. s.resources[r].lifecycle = "Retired" => s.resources[r].reserved = 0
    BY <2>1 DEF Sound, Free, Barred
  <2>6. s.resources[r].occupancy + s.resources[r].reserved <= s.resources[r].slots
    BY <2>1 DEF Inv, WithinSlots, Occupied
  <2>7. s.resources[r].reserved = ClaimedSlots(d, Active(d), r)
    <3>1. ClaimsAreNatural(s, Active(s), r)
      BY <1>2, <2>1, ActiveClaims
    <3>2. \A n \in PlacementId : ClaimIn(d, Active(d), r, n) = ClaimIn(s, Active(s), r, n)
      BY <1>1 DEF ClaimIn
    <3>3. ClaimedSlots(d, Active(d), r) = ClaimedSlots(s, Active(s), r)
      BY <1>2, <3>1, <3>2, ClaimedSlotsSame
    <3> QED BY <2>1, <3>3 DEF Inv, Mirrored
  <2>8. /\ s.resources[r].occupancy <= s.resources[r].slots
        /\ s.resources[r].reserved <= s.resources[r].slots
    BY <2>3, <2>6
  <2> QED BY <2>1, <2>4, <2>5, <2>6, <2>7, <2>8 DEF Occupied
<1>4. ASSUME NEW p \in Placements(d)
      PROVE  /\ d.placements[p].generation > 0
             /\ d.requests[d.placements[p].request].state # "Absent"
             /\ d.placements[p].resources # {}
             /\ d.placements[p].resources \subseteq registered
             /\ \A r \in d.placements[p].resources : d.placements[p].observed[r] > 0
  <2>1. p \in Placements(s) /\ Founded(s, p) /\ s.placements[p] \in PlacementRecord
    BY <1>1, <1>2, Parts DEF Sound
  <2>2. s.placements[p].resources \subseteq Resource
    BY <2>1 DEF PlacementRecord
  <2> QED BY <1>1, <2>1, <2>2 DEF Founded
<1>5. ASSUME NEW p \in PlacementId, d.reservations[p].state # "Absent"
      PROVE  /\ p \in Placements(d)
             /\ \E r \in Resource : d.reservations[p].claims[r] > 0
             /\ \A r \in Resource \ registered : d.reservations[p].claims[r] = 0
  <2>1. s.reservations[p] # Absent /\ s.reservations[p] \in ReservationRecord \cup {Absent}
    BY <1>1, <1>2, <1>5 DEF Absent, SchedulerState
  <2>2. s.placements[p] # Absent
    BY <2>1 DEF Inv, Paired
  <2>3. p \in Placements(s) /\ Founded(s, p) /\ s.placements[p] \in PlacementRecord
    BY <1>2, <2>2, AbsentOrPlaced, Parts DEF Sound
  <2>4. s.placements[p].resources \subseteq Resource
    BY <2>3 DEF PlacementRecord
  <2>5. \A r \in Resource : s.reservations[p].claims[r] \in Nat
    BY <2>1 DEF ReservationRecord
  <2>6. \A r \in Resource : s.reservations[p].claims[r] > 0 <=> r \in s.placements[p].resources
    BY <2>3 DEF Inv, Paired
  <2>7. \E r \in Resource : s.reservations[p].claims[r] > 0
    BY <2>3, <2>4, <2>6 DEF Founded
  <2>8. \A r \in Resource \ registered : s.reservations[p].claims[r] = 0
    BY <1>1, <2>3, <2>5, <2>6 DEF Founded
  <2> QED BY <1>1, <2>3, <2>7, <2>8
<1> QED BY <1>3, <1>4, <1>5 DEF Loadable, d

(* What becomes of a resource record in an import. *)
LEMMA ImportResourceType ==
    ASSUME NEW x \in ResourceRecord, NEW owned \in BOOLEAN, x.lifecycle # "Absent"
    PROVE  LET y == ImportResource(x, owned)
           IN  /\ y \in ResourceRecord
               /\ y.reserved = 0 /\ y.slots = x.slots /\ y.occupancy = x.occupancy
               /\ y.generation = x.generation + 1 /\ y.lifecycle # "Absent"
<1> DEFINE next == x.generation + 1
           life == IF x.lifecycle = "Retired" THEN x.lifecycle
                   ELSE IF owned THEN "Registered" ELSE "Current"
           authority == ~ owned /\ x.lifecycle # "Retired"
           y == ImportResource(x, owned)
<1>1. y = [x EXCEPT !.reserved = 0, !.generation = next, !.lifecycle = life,
                    !.authoritative = authority]
  BY DEF ImportResource, ResourceRecord
<1>2. next \in Nat /\ authority \in BOOLEAN
      /\ life \in {"Registered", "Current", "Retired"}
  BY DEF ResourceRecord
<1> HIDE DEF next, life, authority, y
<1>3. y \in ResourceRecord
  BY <1>1, <1>2 DEF ResourceRecord
<1>4. y.reserved = 0 /\ y.slots = x.slots /\ y.occupancy = x.occupancy
      /\ y.generation = next /\ y.lifecycle = life
  BY <1>1 DEF ResourceRecord
<1> QED BY <1>2, <1>3, <1>4 DEF next, y

(* A request keeps its outcome, not its placement. *)
LEMMA ImportedRequest ==
    ASSUME NEW x
    PROVE  /\ ImportRequest(x).current = NoPlacement
           /\ ImportRequest(x).state # "Placed"
           /\ x.state # "Absent" => ImportRequest(x).state # "Absent"
<1>1. /\ ImportRequest(x).current = NoPlacement
      /\ ImportRequest(x).state = IF x.state = "Placed" THEN "Submitted" ELSE x.state
  BY DEF ImportRequest
<1> QED BY <1>1

(* The parts of an imported state. *)
LEMMA ImportParts ==
    ASSUME NEW s, Inv(s), NEW t \in Import(Export(s))
    PROVE  /\ t \in SchedulerState
           /\ t.epoch = s.epoch + 1
           /\ \A u \in Unit : t.unitCurrent[u] = NoPlacement
           /\ \A r \in Resource :
                 t.resources[r] = ImportResource(s.resources[r], Owner[r] # NoWorker)
           /\ \A q \in Request : t.requests[q] = ImportRequest(s.requests[q])
           /\ \A p \in PlacementId :
                 /\ t.placements[p] = ImportPlacement(s.placements[p])
                 /\ t.reservations[p] = ImportReservation(s.reservations[p])
<1> DEFINE res == [r \in Resource |-> ImportResource(s.resources[r], Owner[r] # NoWorker)]
           req == [q \in Request |-> ImportRequest(s.requests[q])]
           plc == [p \in PlacementId |-> ImportPlacement(s.placements[p])]
           rsv == [p \in PlacementId |-> ImportReservation(s.reservations[p])]
           cur == [u \in Unit |-> NoPlacement]
<1>1. s \in SchedulerState /\ s.epoch + 1 \in Nat
  BY DEF Inv, SchedulerState
<1>2. PICK boots \in [Worker -> Boot \cup {NoBoot}] :
         t = [epoch |-> s.epoch + 1, shuttingDown |-> FALSE,
              workers |-> [w \in Worker |-> [boot |-> boots[w], connected |-> FALSE]],
              resources |-> res, requests |-> req, placements |-> plc,
              reservations |-> rsv, unitCurrent |-> cur]
  BY ExportKeeps DEF Import, NextEpoch
<1>3. [w \in Worker |-> [boot |-> boots[w], connected |-> FALSE]] \in [Worker -> WorkerRecord]
  BY DEF WorkerRecord
<1>4. res \in [Resource -> ResourceRecord]
  <2> SUFFICES ASSUME NEW r \in Resource
               PROVE  ImportResource(s.resources[r], Owner[r] # NoWorker) \in ResourceRecord
    OBVIOUS
  <2>1. s.resources[r] \in ResourceRecord /\ (Owner[r] # NoWorker) \in BOOLEAN
    BY <1>1, Parts
  <2>2. CASE s.resources[r].lifecycle = "Absent"
    BY <2>1, <2>2 DEF ImportResource
  <2>3. CASE s.resources[r].lifecycle # "Absent"
    BY <2>1, <2>3, ImportResourceType
  <2> QED BY <2>2, <2>3
<1>5. req \in [Request -> StoredRequest]
  <2>1. \A q \in Request : s.requests[q] \in StoredRequest
    BY <1>1, Parts
  <2> QED BY <2>1 DEF ImportRequest, StoredRequest
<1>6. plc \in [PlacementId -> PlacementRecord \cup {Absent}]
  <2> SUFFICES ASSUME NEW p \in PlacementId
               PROVE  ImportPlacement(s.placements[p]) \in PlacementRecord \cup {Absent}
    OBVIOUS
  <2>1. s.placements[p] \in PlacementRecord \cup {Absent}
    BY <1>1 DEF SchedulerState
  <2>2. CASE s.placements[p] \in PlacementRecord
    BY <2>2 DEF ImportPlacement, PlacementRecord, EndStates
  <2>3. CASE s.placements[p] = Absent
    BY <2>3 DEF ImportPlacement, Absent, LiveStates
  <2> QED BY <2>1, <2>2, <2>3
<1>7. rsv \in [PlacementId -> ReservationRecord \cup {Absent}]
  <2> SUFFICES ASSUME NEW p \in PlacementId
               PROVE  ImportReservation(s.reservations[p]) \in ReservationRecord \cup {Absent}
    OBVIOUS
  <2>1. s.reservations[p] \in ReservationRecord \cup {Absent}
    BY <1>1 DEF SchedulerState
  <2>2. CASE s.reservations[p] \in ReservationRecord
    BY <2>2 DEF ImportReservation, ReservationRecord
  <2>3. CASE s.reservations[p] = Absent
    BY <2>3 DEF ImportReservation, Absent
  <2> QED BY <2>1, <2>2, <2>3
<1>8. cur \in [Unit -> PlacementId \cup {NoPlacement}]
  OBVIOUS
<1> HIDE DEF res, req, plc, rsv, cur
<1>9. t \in SchedulerState
  BY <1>1, <1>2, <1>3, <1>4, <1>5, <1>6, <1>7, <1>8 DEF SchedulerState
<1>10. /\ t.epoch = s.epoch + 1 /\ t.resources = res /\ t.requests = req
       /\ t.placements = plc /\ t.reservations = rsv /\ t.unitCurrent = cur
  BY <1>2
<1> QED BY <1>9, <1>10 DEF res, req, plc, rsv, cur

(* An import leaves nothing live and nothing reserved, and forgets no placement. *)
LEMMA ImportEndsAll ==
    ASSUME NEW s, Inv(s), NEW t \in Import(Export(s))
    PROVE  /\ Live(t) = {} /\ Active(t) = {} /\ Placements(t) = Placements(s)
           /\ \A p \in PlacementId :
                 /\ t.placements[p] = Absent <=> s.placements[p] = Absent
                 /\ t.reservations[p] = Absent <=> s.reservations[p] = Absent
           /\ \A p \in Placements(s) :
                 /\ t.placements[p] = [s.placements[p] EXCEPT !.state = t.placements[p].state]
                 /\ t.reservations[p].claims = s.reservations[p].claims
<1>1. /\ s \in SchedulerState /\ t \in SchedulerState
      /\ \A p \in PlacementId :
            /\ t.placements[p] = ImportPlacement(s.placements[p])
            /\ t.reservations[p] = ImportReservation(s.reservations[p])
  BY ImportParts DEF Inv
<1>2. ASSUME NEW p \in PlacementId
      PROVE  /\ t.placements[p].state \notin LiveStates
             /\ t.placements[p] = Absent <=> s.placements[p] = Absent
             /\ s.placements[p] # Absent =>
                   t.placements[p] = [s.placements[p] EXCEPT !.state = t.placements[p].state]
  <2>1. s.placements[p] \in PlacementRecord \cup {Absent}
    BY <1>1 DEF SchedulerState
  <2>2. CASE s.placements[p] = Absent
    <3>1. s.placements[p].state \notin LiveStates
      BY <2>2 DEF Absent, LiveStates
    <3>2. t.placements[p] = s.placements[p]
      BY <1>1, <3>1 DEF ImportPlacement
    <3> QED BY <2>2, <3>1, <3>2
  <2>3. CASE s.placements[p] \in PlacementRecord /\ s.placements[p].state \in LiveStates
    <3>1. t.placements[p] = [s.placements[p] EXCEPT !.state = "ReassignmentRequired"]
      BY <1>1, <2>3 DEF ImportPlacement
    <3>2. t.placements[p].state = "ReassignmentRequired"
      BY <2>3, <3>1 DEF PlacementRecord
    <3>3. t.placements[p] # Absent /\ s.placements[p] # Absent
      BY <2>3, <3>2 DEF Absent, LiveStates
    <3> QED BY <3>1, <3>2, <3>3 DEF LiveStates
  <2>4. CASE s.placements[p] \in PlacementRecord /\ s.placements[p].state \notin LiveStates
    BY <1>1, <2>4 DEF ImportPlacement, PlacementRecord
  <2> QED BY <2>1, <2>2, <2>3, <2>4
<1>3. ASSUME NEW p \in PlacementId
      PROVE  /\ t.reservations[p].state # "Active"
             /\ t.reservations[p] = Absent <=> s.reservations[p] = Absent
             /\ s.reservations[p] # Absent =>
                   t.reservations[p].claims = s.reservations[p].claims
  <2>1. s.reservations[p] \in ReservationRecord \cup {Absent}
    BY <1>1 DEF SchedulerState
  <2>2. CASE s.reservations[p] = Absent
    <3>1. s.reservations[p].state # "Active"
      BY <2>2 DEF Absent
    <3>2. t.reservations[p] = s.reservations[p]
      BY <1>1, <3>1 DEF ImportReservation
    <3> QED BY <2>2, <3>1, <3>2
  <2>3. CASE s.reservations[p] \in ReservationRecord /\ s.reservations[p].state = "Active"
    <3>1. t.reservations[p] = [s.reservations[p] EXCEPT !.state = "Revoked"]
      BY <1>1, <2>3 DEF ImportReservation
    <3>2. /\ t.reservations[p].state = "Revoked"
          /\ t.reservations[p].claims = s.reservations[p].claims
      BY <2>3, <3>1 DEF ReservationRecord
    <3>3. t.reservations[p] # Absent /\ s.reservations[p] # Absent
      BY <2>3, <3>2 DEF Absent
    <3> QED BY <3>2, <3>3
  <2>4. CASE s.reservations[p] \in ReservationRecord /\ s.reservations[p].state # "Active"
    BY <1>1, <2>4 DEF ImportReservation
  <2> QED BY <2>1, <2>2, <2>3, <2>4
<1>4. Live(t) = {} /\ Active(t) = {}
  BY <1>2, <1>3 DEF Live, Active
<1>5. \A p \in PlacementId : p \in Placements(t) <=> p \in Placements(s)
  BY <1>1, <1>2, AbsentOrPlaced
<1>6. Placements(t) = Placements(s)
  BY <1>5 DEF Placements
<1>7. \A p \in Placements(s) : s.placements[p] # Absent /\ s.reservations[p] # Absent
                               /\ p \in PlacementId
  BY <1>1, AbsentOrPlaced, Parts DEF Inv, Paired
<1> QED BY <1>2, <1>3, <1>4, <1>6, <1>7

(* An import makes a sound state of whatever sound state was exported. *)
LEMMA ImportSound ==
    ASSUME NEW s, Inv(s), Sound(s), NEW t \in Import(Export(s))
    PROVE  Inv(t) /\ Sound(t) /\ LiveHere(t)
<1>1. /\ s \in SchedulerState /\ t \in SchedulerState /\ MaxPlacements \in Nat
      /\ \A u \in Unit : t.unitCurrent[u] = NoPlacement
      /\ \A r \in Resource :
            t.resources[r] = ImportResource(s.resources[r], Owner[r] # NoWorker)
      /\ \A q \in Request : t.requests[q] = ImportRequest(s.requests[q])
  BY ImportParts, ConstantsAssumption DEF Inv
<1>2. /\ Live(t) = {} /\ Active(t) = {} /\ Placements(t) = Placements(s)
      /\ \A p \in PlacementId :
            /\ t.placements[p] = Absent <=> s.placements[p] = Absent
            /\ t.reservations[p] = Absent <=> s.reservations[p] = Absent
      /\ \A p \in Placements(s) :
            /\ t.placements[p] = [s.placements[p] EXCEPT !.state = t.placements[p].state]
            /\ t.reservations[p].claims = s.reservations[p].claims
  BY ImportEndsAll
<1>3. ASSUME NEW r \in Resource
      PROVE  /\ t.resources[r].reserved = 0
             /\ Occupied(t.resources[r]) <= t.resources[r].slots
             /\ \/ t.resources[r] = UnregisteredResource
                \/ t.resources[r].lifecycle # "Absent" /\ t.resources[r].slots > 0
             /\ s.resources[r].lifecycle # "Absent" => t.resources[r].lifecycle # "Absent"
             /\ t.resources[r].lifecycle # "Absent" => t.resources[r].generation > 0
  <2>1. s.resources[r] \in ResourceRecord /\ (Owner[r] # NoWorker) \in BOOLEAN
    BY <1>1, Parts
  <2>2. CASE s.resources[r].lifecycle = "Absent"
    <3>1. s.resources[r] = UnregisteredResource
      BY <2>2 DEF Inv, Sized
    <3>2. t.resources[r] = UnregisteredResource
      BY <1>1, <2>2, <3>1 DEF ImportResource
    <3> QED BY <2>2, <3>2 DEF UnregisteredResource, Occupied
  <2>3. CASE s.resources[r].lifecycle # "Absent"
    <3> DEFINE before == s.resources[r]
               owned == Owner[r] # NoWorker
    <3>1. t.resources[r] = ImportResource(before, owned)
      BY <1>1
    <3>2. before \in ResourceRecord /\ owned \in BOOLEAN /\ before.lifecycle # "Absent"
      BY <2>1, <2>3
    <3> HIDE DEF before, owned
    <3>3. LET y == ImportResource(before, owned)
          IN  /\ y.reserved = 0 /\ y.slots = before.slots /\ y.occupancy = before.occupancy
              /\ y.generation = before.generation + 1 /\ y.lifecycle # "Absent"
      BY <3>2, ImportResourceType
    <3>4. /\ t.resources[r].reserved = 0
          /\ t.resources[r].slots = s.resources[r].slots
          /\ t.resources[r].occupancy = s.resources[r].occupancy
          /\ t.resources[r].generation = s.resources[r].generation + 1
          /\ t.resources[r].lifecycle # "Absent"
      BY <3>1, <3>3 DEF before
    <3>5. /\ s.resources[r].slots > 0
          /\ s.resources[r].occupancy + s.resources[r].reserved <= s.resources[r].slots
      BY <2>3 DEF Inv, Sized, WithinSlots, Occupied, UnregisteredResource
    <3>6. /\ s.resources[r].slots \in Nat /\ s.resources[r].occupancy \in Nat
          /\ s.resources[r].reserved \in Nat /\ s.resources[r].generation \in Nat
      BY <2>1 DEF ResourceRecord
    <3> QED BY <3>4, <3>5, <3>6 DEF Occupied
  <2> QED BY <2>2, <2>3
<1>4. Dense(t) /\ Sized(t) /\ WithinSlots(t)
  BY <1>2, <1>3 DEF Inv, Dense, Sized, WithinSlots
<1>5. \A p \in Placements(s) :
         /\ s.placements[p] \in PlacementRecord
         /\ t.placements[p].resources = s.placements[p].resources
         /\ t.placements[p].request = s.placements[p].request
         /\ t.placements[p].generation = s.placements[p].generation
         /\ t.placements[p].observed = s.placements[p].observed
  <2> SUFFICES ASSUME NEW p \in Placements(s)
               PROVE  /\ s.placements[p] \in PlacementRecord
                      /\ t.placements[p].resources = s.placements[p].resources
                      /\ t.placements[p].request = s.placements[p].request
                      /\ t.placements[p].generation = s.placements[p].generation
                      /\ t.placements[p].observed = s.placements[p].observed
    OBVIOUS
  <2>1. s.placements[p] \in PlacementRecord
    BY <1>1, Parts
  <2>2. t.placements[p] = [s.placements[p] EXCEPT !.state = t.placements[p].state]
    BY <1>2
  <2> QED BY <2>1, <2>2 DEF PlacementRecord
<1>6. Paired(t)
  BY <1>2, <1>5 DEF Inv, Paired
<1>7. UnitsCurrent(t) /\ RequestsCurrent(t)
  <2>1. \A q \in Request : t.requests[q].current = NoPlacement /\ t.requests[q].state # "Placed"
    BY <1>1, ImportedRequest
  <2> QED BY <1>1, <2>1 DEF UnitsCurrent, RequestsCurrent
<1>8. Mirrored(t)
  <2> SUFFICES ASSUME NEW r \in Resource
               PROVE t.resources[r].reserved = ClaimedSlots(t, Active(t), r)
    BY DEF Mirrored
  <2>1. \A n \in PlacementId : ClaimIn(t, Active(t), r, n) = 0
    BY <1>2 DEF ClaimIn
  <2> QED BY <1>1, <1>3, <2>1, ClaimedSlotsNone
<1>9. Inv(t)
  BY <1>1, <1>4, <1>6, <1>7, <1>8 DEF Inv
<1>10. Free(t) /\ Numbered(t)
  BY <1>3 DEF Free, Numbered
<1>11. ASSUME NEW p \in Placements(t) PROVE Founded(t, p)
  <2>1. p \in Placements(s) /\ Founded(s, p) /\ s.placements[p] \in PlacementRecord
    BY <1>2, <1>5 DEF Sound
  <2>2. s.placements[p].request \in Request /\ s.placements[p].resources \subseteq Resource
    BY <2>1 DEF PlacementRecord
  <2>3. t.requests[s.placements[p].request].state # "Absent"
    <3>1. s.requests[s.placements[p].request].state # "Absent"
      BY <2>1 DEF Founded
    <3> QED BY <1>1, <2>2, <3>1, ImportedRequest
  <2> QED BY <1>3, <1>5, <2>1, <2>2, <2>3 DEF Founded
<1> QED BY <1>2, <1>9, <1>10, <1>11 DEF Sound, LiveHere

-----------------------------------------------------------------------------
(***************************************************************************)
(* The invariant.  What is on the disk need not be the state, nor even a   *)
(* state of this coordinator; it was exported from a sound one.            *)
(***************************************************************************)
Exported(d) == \E s : Inv(s) /\ Sound(s) /\ d = Export(s)

(***************************************************************************)
(* As long as the file is kept, it is the last save, and no later epoch    *)
(* has begun than the one after it.                                        *)
(***************************************************************************)
FenceInv ==
    /\ fenced <= state.epoch
    /\ fenced = IF durable = NoSnapshot THEN 0 ELSE durable.epoch

RecoveryInv ==
    /\ Inv(state) /\ Sound(state) /\ LiveHere(state)
    /\ durable # NoSnapshot => Exported(durable)
    /\ fenced \in Nat
    /\ FenceInv

LEMMA RecoveryInitInv == RecoveryInit => RecoveryInv
<1> SUFFICES ASSUME RecoveryInit PROVE RecoveryInv
  OBVIOUS
<1>1. Inv(state) /\ Sound(state) /\ LiveHere(state)
  BY EmptyInv, EmptySound DEF RecoveryInit, Init
<1>2. state.epoch = 1
  BY DEF RecoveryInit, Init, EmptyState
<1> QED BY <1>1, <1>2 DEF RecoveryInit, RecoveryInv, FenceInv

(* The engine moves on within its epoch, the disk stays. *)
LEMMA EngineStepInv ==
    ASSUME RecoveryInv, EngineStep PROVE RecoveryInv'
<1>1. Continues(state, state')
  BY OperationContinues DEF RecoveryInv, EngineStep, Moves
<1>2. /\ Inv(state') /\ Sound(state') /\ LiveHere(state')
      /\ state'.epoch = state.epoch
  BY <1>1 DEF Continues, RecoveryInv
<1>3. durable' = durable /\ fenced' = fenced
  BY DEF EngineStep
<1> QED BY <1>2, <1>3 DEF RecoveryInv, FenceInv

(* What is saved was exported from this state, in the latest epoch there is. *)
LEMMA SaveStateInv ==
    ASSUME RecoveryInv, SaveState PROVE RecoveryInv'
<1>1. /\ durable' = Export(state) /\ state' = state
      /\ fenced' = IF state.epoch > fenced THEN state.epoch ELSE fenced
  BY DEF SaveState
<1>2. Exported(durable')
  BY <1>1 DEF RecoveryInv, Exported
<1>3. Export(state) \in DurableState
  BY DEF RecoveryInv, Inv, SchedulerState, Export, DurableState
<1>4. durable' # NoSnapshot
  BY <1>1, <1>3, NoSnapshotAssumption
<1>5. fenced \in Nat /\ state.epoch \in Nat
  BY DEF RecoveryInv, Inv, SchedulerState
<1>6. durable'.epoch = state.epoch
  BY <1>1 DEF Export
<1>7. fenced' \in Nat
  BY <1>1, <1>5
<1>8. FenceInv'
  <2>1. fenced <= state.epoch
    BY DEF RecoveryInv, FenceInv
  <2>2. fenced' = state.epoch /\ state'.epoch = state.epoch
    BY <1>1, <1>5, <2>1
  <2> QED BY <1>4, <1>5, <1>6, <2>2 DEF FenceInv
<1> QED BY <1>1, <1>2, <1>7, <1>8 DEF RecoveryInv

(* A lost file holds nothing that could be wrong, and no epoch to leave behind. *)
LEMMA RemoveOldInv ==
    ASSUME RecoveryInv, RemoveOld PROVE RecoveryInv'
<1>1. durable' = NoSnapshot /\ state' = state /\ fenced' = 0
  BY DEF RemoveOld
<1>2. state.epoch \in Nat
  BY DEF RecoveryInv, Inv, SchedulerState
<1> QED BY <1>1, <1>2 DEF RecoveryInv, FenceInv

(* A new coordinator starts from the disk. *)
LEMMA RestartInv ==
    ASSUME RecoveryInv, Restart
    PROVE  /\ RecoveryInv'
           /\ fenced < state'.epoch
<1>1. durable' = durable /\ fenced' = fenced /\ fenced \in Nat
  BY DEF Restart, RecoveryInv
<1>2. CASE durable = NoSnapshot
  <2>1. state' = EmptyState
    BY <1>2 DEF Restart, Become
  <2>2. Inv(state') /\ Sound(state') /\ LiveHere(state')
    BY <2>1, EmptyInv, EmptySound
  <2>3. state'.epoch = 1
    BY <2>1 DEF EmptyState
  <2>4. fenced = 0
    BY <1>2 DEF RecoveryInv, FenceInv
  <2> QED BY <1>1, <1>2, <2>2, <2>3, <2>4 DEF RecoveryInv, FenceInv
<1>3. CASE durable # NoSnapshot
  <2>1. PICK s : Inv(s) /\ Sound(s) /\ durable = Export(s)
    BY <1>3 DEF RecoveryInv, Exported
  <2>2. state' \in Import(Export(s))
    BY <1>3, <2>1 DEF Restart, Become
  <2>3. Inv(state') /\ Sound(state') /\ LiveHere(state')
    BY <2>1, <2>2, ImportSound
  <2>4. state'.epoch = s.epoch + 1 /\ durable.epoch = s.epoch /\ s.epoch \in Nat
    BY <2>1, <2>2, ImportParts, ExportKeeps DEF Inv, SchedulerState
  <2>5. fenced = durable.epoch
    BY <1>3 DEF RecoveryInv, FenceInv
  <2>6. fenced < state'.epoch
    BY <2>4, <2>5
  <2>7. FenceInv'
    BY <1>1, <1>3, <2>4, <2>5 DEF FenceInv
  <2>8. durable' # NoSnapshot => Exported(durable')
    BY <1>1, <2>1 DEF Exported
  <2> QED BY <1>1, <2>3, <2>6, <2>7, <2>8 DEF RecoveryInv
<1> QED BY <1>2, <1>3

(* The engine's invariants survive restarts, and the disk holds what some coordinator exported. *)
THEOREM RecoveryInvHolds == RecoverySpec => []RecoveryInv
<1>1. RecoveryInv /\ [RecoveryNext]_vars => RecoveryInv'
  <2> SUFFICES ASSUME RecoveryInv, [RecoveryNext]_vars PROVE RecoveryInv'
    OBVIOUS
  <2>1. CASE UNCHANGED vars
    BY <2>1 DEF vars, RecoveryInv, FenceInv
  <2> QED BY <2>1, EngineStepInv, SaveStateInv, RemoveOldInv, RestartInv DEF RecoveryNext
<1> QED BY <1>1, RecoveryInitInv, PTL DEF RecoverySpec

(***************************************************************************)
(* Whatever the engine has been through, however often it was restarted,   *)
(* validate_durable_state accepts what it saved.                           *)
(***************************************************************************)
THEOREM SnapshotsAreLoadable == RecoverySpec => []SnapshotIsLoadable
<1>1. RecoveryInv => SnapshotIsLoadable
  BY ExportLoadable DEF RecoveryInv, Exported, SnapshotIsLoadable
<1> QED BY <1>1, RecoveryInvHolds, PTL

(***************************************************************************)
(* import_state ends what an earlier coordinator had placed: whatever is   *)
(* live was committed in the present epoch.                                *)
(***************************************************************************)
THEOREM LiveIsOfThisEpoch == RecoverySpec => []LiveBelongsToThisCoordinator
<1>1. RecoveryInv => LiveBelongsToThisCoordinator
  BY DEF RecoveryInv, LiveHere, LiveBelongsToThisCoordinator
<1> QED BY <1>1, RecoveryInvHolds, PTL

(***************************************************************************)
(* import_state advances the epoch beyond that of every coordinator that   *)
(* has saved since the file was last lost, also when those after the last  *)
(* one did not save.                                                       *)
(***************************************************************************)
THEOREM SavedAreFenced == RecoverySpec => SavedCoordinatorsAreFenced
<1>1. RecoveryInv => [Restart => fenced < state'.epoch]_vars
  BY RestartInv
<1> QED BY <1>1, RecoveryInvHolds, PTL DEF RecoverySpec, SavedCoordinatorsAreFenced

(* The mirror of the ledger survives restarts: import_state resets both. *)
THEOREM LedgerMirroredAcrossRestarts == RecoverySpec => []ReservedMatchesLedger
<1>1. RecoveryInv => ReservedMatchesLedger
  BY DEF RecoveryInv, Inv, Mirrored, ReservedMatchesLedger
<1> QED BY <1>1, RecoveryInvHolds, PTL

(* So does the agreement of requests and units with the placements they call current. *)
THEOREM CurrentAcrossRestarts == RecoverySpec => []CurrentIsLive
<1>1. RecoveryInv => CurrentIsLive
  BY DEF RecoveryInv, Inv, UnitsCurrent, RequestsCurrent, CurrentIsLive
<1> QED BY <1>1, RecoveryInvHolds, PTL

(* Evidence restored without authority holds no capacity, if requests insist on evidence. *)
THEOREM StaleIsFreedAcrossRestarts ==
    EvidenceRequired => (RecoverySpec => []StaleAuthorityHoldsNothing)
<1> SUFFICES ASSUME EvidenceRequired PROVE RecoverySpec => []StaleAuthorityHoldsNothing
  OBVIOUS
<1>1. RecoveryInv => StaleAuthorityHoldsNothing
  BY DEF RecoveryInv, Sound, Free, Barred, StaleAuthorityHoldsNothing
<1> QED BY <1>1, RecoveryInvHolds, PTL
=============================================================================
