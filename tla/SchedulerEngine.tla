--------------------------- MODULE SchedulerEngine ---------------------------
(***************************************************************************)
(* The scheduler engine of Lab Scheduler: the registry of workers and      *)
(* resources, the scheduling requests, the placement log and the           *)
(* reservation ledger, under the one mutex of SchedulerEngine.             *)
(*                                                                         *)
(* Every public operation of the engine holds the mutex from its first     *)
(* read to its last write, so every operation is one action.  The C++ code *)
(* passes one SchedulerState& from helper to helper; the model does the    *)
(* same: each helper below is an operator from a state (and arguments) to  *)
(* the state it leaves, and an action composes the helpers in the order of *)
(* the calls.  An operation that the engine rejects changes nothing and is *)
(* a stuttering step, unless the code has already written something before *)
(* the error: those actions are written out.                               *)
(***************************************************************************)
EXTENDS Integers, Sequences, FiniteSets, Functions

CONSTANTS
    Worker,             \* worker identities
    NoWorker,           \* the null WorkerId: owner of a static resource
    Resource,           \* resource identities
    Dataset,            \* the resources of class DATASET
    Owner,              \* the worker that owns each resource, or NoWorker
    Request,            \* scheduling request identities
    Unit,               \* schedulable units: experiment, generation, trial
    UnitOf,             \* the unit of each request
    Demand,             \* the requirements of each request, in order
    AllowPreemption,    \* requests that permit a replacement when preempted
    MaxReassignments,   \* the reassignment budget of each request
    Advertised,         \* what each resource may advertise about itself
    MaxBoot,            \* boots 1..MaxBoot of a worker are modelled
    MaxEpoch,           \* bound: epochs beyond it are not adopted
    MaxGeneration,      \* bound: resource generations beyond it are not modelled
    MaxPlacements,      \* Limits::max_placements and max_reservations
    MaxActive,          \* Limits::max_active_placements and _reservations
    MaxActiveRequests,  \* Limits::max_active_requests
    OrderedWorkers,     \* environment: traffic of a superseded boot never arrives
    CarefulControllers  \* environment: see MayReassign

Boot == 1 .. MaxBoot
NoBoot == 0
PlacementId == 1 .. MaxPlacements
NoPlacement == 0

(***************************************************************************)
(* What a worker says about one of its resources (ResourceAdvertisement):  *)
(* sharing mode, slots, slots already occupied outside the scheduler, and  *)
(* whether health and readiness are good enough for a requirement that     *)
(* asks for them.                                                          *)
(***************************************************************************)
Advertisement == [sharing: {"Shared", "Exclusive"}, slots: Nat \ {0},
                  occupancy: Nat, healthy: BOOLEAN]

(***************************************************************************)
(* One ResourceRequirement.  matches stands for the tests on what a        *)
(* resource is: class, allow and deny lists, tenant, capabilities,         *)
(* required domain, model, simulator, dataset, environment.  An            *)
(* advertisement that makes such a test fail later is, to the scheduler,   *)
(* one with healthy = FALSE.                                               *)
(***************************************************************************)
Requirement == [matches: SUBSET Resource, slots: Nat \ {0}, exclusive: BOOLEAN,
                evidence: BOOLEAN, healthy: BOOLEAN, percent: 1 .. 100]

ASSUME ConstantsAssumption ==
    /\ NoWorker \notin Worker
    /\ Dataset \subseteq Resource
    /\ Owner \in [Resource -> Worker \cup {NoWorker}]
    /\ UnitOf \in [Request -> Unit]
    /\ Demand \in [Request -> Seq(Requirement)]
    /\ \A q \in Request : Demand[q] # << >>
    /\ AllowPreemption \subseteq Request
    /\ MaxReassignments \in [Request -> Nat]
    /\ Advertised \in [Resource -> SUBSET Advertisement]
    /\ \A r \in Resource : \A a \in Advertised[r] : a.occupancy <= a.slots
    /\ MaxBoot \in Nat /\ MaxEpoch \in Nat /\ MaxGeneration \in Nat
    /\ MaxPlacements \in Nat /\ MaxActive \in Nat /\ MaxActiveRequests \in Nat
    /\ OrderedWorkers \in BOOLEAN /\ CarefulControllers \in BOOLEAN

-----------------------------------------------------------------------------
(***************************************************************************)
(* The state.  Maps of the code that lack a key are total functions here,  *)
(* with "Absent" in the field that names the life of the entry.            *)
(***************************************************************************)
LiveStates == {"Reserved", "Assigned", "Running"}
EndStates == {"Completed", "Failed", "Cancelled", "Preempted",
              "ReassignmentRequired"}

WorkerRecord == [boot: Boot \cup {NoBoot}, connected: BOOLEAN]

ResourceRecord ==
    [lifecycle: {"Absent", "Registered", "Current", "Retired", "Lost"},
     boot: Boot \cup {NoBoot}, sharing: {"Shared", "Exclusive"},
     slots: Nat, occupancy: Nat, healthy: BOOLEAN,
     authoritative: BOOLEAN, generation: Nat, reserved: Nat]

StoredRequest ==
    [state: {"Absent", "Submitted", "Placed", "NoPlacement", "Completed",
             "Failed", "Cancelled"},
     current: PlacementId \cup {NoPlacement}]

(***************************************************************************)
(* observed is the generation of each selected resource at selection time; *)
(* it travels to the worker in the authority envelope.                     *)
(***************************************************************************)
PlacementRecord ==
    [state: LiveStates \cup EndStates, request: Request, generation: Nat,
     epoch: Nat, reassignments: Nat, resources: SUBSET Resource,
     observed: [Resource -> Nat], worker: Worker \cup {NoWorker},
     boot: Boot \cup {NoBoot}]

(***************************************************************************)
(* A commit creates one placement and one reservation, each naming the     *)
(* other and never re-bound, so a reservation has its placement's id here. *)
(* claims[r] = 0 when the reservation holds no claim on r.                 *)
(***************************************************************************)
ReservationRecord ==
    [state: {"Active", "Released", "Revoked"}, claims: [Resource -> Nat],
     exclusive: SUBSET Resource]

Absent == [state |-> "Absent"]

SchedulerState ==
    [epoch: Nat,
     shuttingDown: BOOLEAN,
     workers: [Worker -> WorkerRecord],
     resources: [Resource -> ResourceRecord],
     requests: [Request -> StoredRequest],
     placements: [PlacementId -> PlacementRecord \cup {Absent}],
     reservations: [PlacementId -> ReservationRecord \cup {Absent}],
     unitCurrent: [Unit -> PlacementId \cup {NoPlacement}]]

VARIABLE state          \* the SchedulerState behind the mutex

UnknownWorker == [boot |-> NoBoot, connected |-> FALSE]

UnregisteredResource ==
    [lifecycle |-> "Absent", boot |-> NoBoot, sharing |-> "Shared",
     slots |-> 0, occupancy |-> 0, healthy |-> FALSE,
     authoritative |-> FALSE, generation |-> 0, reserved |-> 0]

EmptyState ==
    [epoch |-> 1,
     shuttingDown |-> FALSE,
     workers |-> [w \in Worker |-> UnknownWorker],
     resources |-> [r \in Resource |-> UnregisteredResource],
     requests |-> [q \in Request |-> [state |-> "Absent", current |-> NoPlacement]],
     placements |-> [p \in PlacementId |-> Absent],
     reservations |-> [p \in PlacementId |-> Absent],
     unitCurrent |-> [u \in Unit |-> NoPlacement]]

Init == state = EmptyState

-----------------------------------------------------------------------------
(* Placements and reservations.                                            *)

Placements(s) == {p \in PlacementId : s.placements[p].state # "Absent"}
Live(s) == {p \in PlacementId : s.placements[p].state \in LiveStates}
Active(s) == {p \in PlacementId : s.reservations[p].state = "Active"}
UnitOfPlacement(s, p) == UnitOf[s.placements[p].request]

(***************************************************************************)
(* The slots of r claimed by the reservations in P.                        *)
(***************************************************************************)
ClaimedSlots(s, P, r) ==
    LET total[n \in 0 .. MaxPlacements] ==
            IF n = 0 THEN 0
            ELSE total[n - 1] + (IF n \in P THEN s.reservations[n].claims[r] ELSE 0)
    IN  total[MaxPlacements]

(* Slip: the ledger entry closes, the capacity mirror is forgotten. *)
ReleaseReservationsKeepingCapacity(s, P, target) ==
    [s EXCEPT !.reservations = [p \in PlacementId |->
        IF p \in P \cap Active(s) THEN [s.reservations[p] EXCEPT !.state = target]
                                  ELSE s.reservations[p]]]

(* Slip: the capacity is given back, the reservation stays open. *)
ReleaseReservationsLeftOpen(s, P, target) ==
    LET left(r) == s.resources[r].reserved - ClaimedSlots(s, P \cap Active(s), r)
    IN  [s EXCEPT !.resources = [r \in Resource |->
           [s.resources[r] EXCEPT !.reserved = IF left(r) >= 0 THEN left(r) ELSE 0]]]

(***************************************************************************)
(* release_reservation: gives back what an Active reservation claims, with *)
(* a floor at zero, and only the first time.  Here for all of P at once.   *)
(***************************************************************************)
ReleaseReservations(s, P, target) ==
    LET held == P \cap Active(s)
        left(r) == s.resources[r].reserved - ClaimedSlots(s, held, r)
    IN  [s EXCEPT
           !.resources = [r \in Resource |->
               [s.resources[r] EXCEPT !.reserved = IF left(r) >= 0 THEN left(r) ELSE 0]],
           !.reservations = [p \in PlacementId |->
               IF p \in held THEN [s.reservations[p] EXCEPT !.state = target]
                             ELSE s.reservations[p]]]

ClosesAs(target) ==
    IF target \in {"Preempted", "ReassignmentRequired"} THEN "Revoked" ELSE "Released"

(* Slip: the request takes the state of its placement. *)
RequestOutcomeAsIs(target) == target

RequestOutcome(target) ==
    IF target \in {"Completed", "Failed", "Cancelled"} THEN target ELSE "Submitted"

(* Slip: the reservation of an ended placement stays open. *)
TerminateUnreleased(s, P, target) ==
    LET ending == P \cap Live(s)
    IN  [s EXCEPT
           !.placements = [p \in PlacementId |->
               IF p \in ending THEN [s.placements[p] EXCEPT !.state = target]
                               ELSE s.placements[p]],
           !.requests = [q \in Request |->
               IF s.requests[q].current \in ending
               THEN [state |-> RequestOutcome(target), current |-> NoPlacement]
               ELSE s.requests[q]],
           !.unitCurrent = [u \in Unit |->
               IF s.unitCurrent[u] \in ending THEN NoPlacement ELSE s.unitCurrent[u]]]

(* Slip: the unit keeps the ended placement as its current one. *)
TerminateKeepingUnit(s, P, target) ==
    LET ending == P \cap Live(s)
    IN  [ReleaseReservations(s, ending, ClosesAs(target)) EXCEPT
           !.placements = [p \in PlacementId |->
               IF p \in ending THEN [s.placements[p] EXCEPT !.state = target]
                               ELSE s.placements[p]],
           !.requests = [q \in Request |->
               IF s.requests[q].current \in ending
               THEN [state |-> RequestOutcome(target), current |-> NoPlacement]
               ELSE s.requests[q]]]

(***************************************************************************)
(* terminate_placement for every live placement in P.                      *)
(***************************************************************************)
Terminate(s, P, target) ==
    LET ending == P \cap Live(s)
    IN  [ReleaseReservations(s, ending, ClosesAs(target)) EXCEPT
           !.placements = [p \in PlacementId |->
               IF p \in ending THEN [s.placements[p] EXCEPT !.state = target]
                               ELSE s.placements[p]],
           !.requests = [q \in Request |->
               IF s.requests[q].current \in ending
               THEN [state |-> RequestOutcome(target), current |-> NoPlacement]
               ELSE s.requests[q]],
           !.unitCurrent = [u \in Unit |->
               IF s.unitCurrent[u] \in ending THEN NoPlacement ELSE s.unitCurrent[u]]]

-----------------------------------------------------------------------------
(* Worker incarnations.                                                    *)

OwnedBy(s, w, b) ==
    {r \in Resource : /\ Owner[r] = w
                      /\ s.resources[r].boot = b
                      /\ \/ s.resources[r].authoritative
                         \/ s.resources[r].lifecycle = "Current"}

(* Slip: the loss of a resource does not advance its generation. *)
LoseResourceSilently(record) ==
    [record EXCEPT !.authoritative = FALSE, !.lifecycle = "Lost", !.healthy = FALSE]

LoseResource(record) ==
    [record EXCEPT !.authoritative = FALSE, !.lifecycle = "Lost",
                   !.healthy = FALSE, !.generation = @ + 1]

(* Slip: only the placements assigned to the incarnation are revoked. *)
TouchedByBinding(s, w, b) ==
    {p \in Live(s) : s.placements[p].worker = w /\ s.placements[p].boot = b}

TouchedBy(s, w, b) ==
    {p \in Live(s) : \/ s.placements[p].worker = w /\ s.placements[p].boot = b
                     \/ s.placements[p].resources \cap OwnedBy(s, w, b) # {}}

(***************************************************************************)
(* invalidate_worker_incarnation.                                          *)
(***************************************************************************)
Invalidate(s, w, b) ==
    LET lost == OwnedBy(s, w, b)
        demoted == [s EXCEPT
            !.resources = [r \in Resource |->
                IF r \in lost THEN LoseResource(s.resources[r]) ELSE s.resources[r]],
            !.workers[w].connected = @ /\ s.workers[w].boot # b]
    IN  Terminate(demoted, TouchedBy(s, w, b), "ReassignmentRequired")

(* Slip: the new incarnation is recorded, the old one is not invalidated. *)
AdoptUnfenced(s, w, b) == [s EXCEPT !.workers[w] = [boot |-> b, connected |-> TRUE]]

(***************************************************************************)
(* adopt_worker_incarnation: any boot that is not the recorded one is      *)
(* taken for a newer incarnation.                                          *)
(***************************************************************************)
Adopt(s, w, b) ==
    LET known == s.workers[w].boot
        fenced == IF known \in {NoBoot, b} THEN s ELSE Invalidate(s, w, known)
    IN  [fenced EXCEPT !.workers[w] = [boot |-> b, connected |-> TRUE]]

AdoptOwner(s, r, b) == IF Owner[r] = NoWorker THEN s ELSE Adopt(s, Owner[r], b)

(***************************************************************************)
(* The boots whose traffic the environment may still deliver for w.  The   *)
(* code has no order on boots and accepts every one.                       *)
(***************************************************************************)
Deliverable(s, w) ==
    {b \in Boot : OrderedWorkers => \/ b > s.workers[w].boot
                                    \/ b = s.workers[w].boot /\ s.workers[w].connected}

BootsOf(s, r) == IF Owner[r] = NoWorker THEN {NoBoot} ELSE Deliverable(s, Owner[r])

-----------------------------------------------------------------------------
(* Scheduling: schedule_locked.                                            *)

Occupied(record) == record.occupancy + record.reserved

Available(record) ==
    IF Occupied(record) >= record.slots THEN 0 ELSE record.slots - Occupied(record)

ClaimsExclusively(s, demand, r) ==
    demand.exclusive \/ s.resources[r].sharing = "Exclusive"

(* Slip: an exclusive claim takes only the slots it asked for. *)
SlotsClaimedAsAsked(s, demand, r) == demand.slots

SlotsClaimed(s, demand, r) ==
    IF ClaimsExclusively(s, demand, r) THEN s.resources[r].slots ELSE demand.slots

(***************************************************************************)
(* evaluate_resource: the hard constraints of one requirement.             *)
(***************************************************************************)
Eligible(s, demand) ==
    {r \in demand.matches :
        LET record == s.resources[r]
            slots == SlotsClaimed(s, demand, r)
        IN  /\ record.lifecycle \notin {"Absent", "Retired", "Lost"}
            /\ demand.evidence => record.authoritative
            /\ demand.healthy => record.healthy
            /\ ClaimsExclusively(s, demand, r) => Occupied(record) = 0
            /\ Available(record) >= slots
            /\ (Occupied(record) + slots) * 100 <= record.slots * demand.percent}

Positions(q) == 1 .. Len(Demand[q])

(***************************************************************************)
(* The complete placements: one eligible resource per requirement, none    *)
(* twice (the ALREADY_SELECTED test of validate_selection).                *)
(***************************************************************************)
Selections(s, q) ==
    {sel \in [Positions(q) -> Resource] :
        /\ \A i \in Positions(q) : sel[i] \in Eligible(s, Demand[q][i])
        /\ \A i, j \in Positions(q) : sel[i] = sel[j] => i = j}

(***************************************************************************)
(* interchangeability_key.  Same owner, boot and generation, same claim,   *)
(* same occupancy and residual ranking factors; the other ranking factors  *)
(* and the topology are not modelled and may be equal.                     *)
(***************************************************************************)
Interchangeable(s, demand, a, b) ==
    LET after(r) == Occupied(s.resources[r]) + SlotsClaimed(s, demand, r)
    IN  /\ Owner[a] = Owner[b]
        /\ s.resources[a].boot = s.resources[b].boot
        /\ s.resources[a].generation = s.resources[b].generation
        /\ SlotsClaimed(s, demand, a) = SlotsClaimed(s, demand, b)
        /\ ClaimsExclusively(s, demand, a) = ClaimsExclusively(s, demand, b)
        /\ after(a) * s.resources[b].slots = after(b) * s.resources[a].slots

(***************************************************************************)
(* What may be left of the eligible set once interchangeable candidates    *)
(* are collapsed: at least one of each kind.                               *)
(***************************************************************************)
Collapsed(s, demand) ==
    {kept \in SUBSET Eligible(s, demand) :
        \A r \in Eligible(s, demand) :
            \E k \in kept : Interchangeable(s, demand, k, r)}

(***************************************************************************)
(* The search ends without a placement when the collapsed candidate sets   *)
(* hold no complete one.                                                   *)
(***************************************************************************)
MayFindNone(s, q) ==
    \E kept \in [Positions(q) -> SUBSET Resource] :
        /\ \A i \in Positions(q) : kept[i] \in Collapsed(s, Demand[q][i])
        /\ \A sel \in Selections(s, q) : \E i \in Positions(q) : sel[i] \notin kept[i]

LogIsFull(s) ==
    \/ Cardinality(Placements(s)) >= MaxPlacements
    \/ Cardinality(Live(s)) >= MaxActive
    \/ Cardinality(Active(s)) >= MaxActive

(***************************************************************************)
(* The worker a placement is assigned to: the owner of the first selected  *)
(* resource that has one, a dataset only if nothing else has an owner.     *)
(***************************************************************************)
Home(s, sel) ==
    LET owned == {i \in DOMAIN sel : Owner[sel[i]] # NoWorker}
        compute == {i \in owned : sel[i] \notin Dataset}
        earliest(I) == sel[CHOOSE i \in I : \A j \in I : i <= j]
        host(r) == [worker |-> Owner[r], boot |-> s.resources[r].boot]
    IN  IF compute # {} THEN host(earliest(compute))
        ELSE IF owned # {} THEN host(earliest(owned))
        ELSE [worker |-> NoWorker, boot |-> NoBoot]

ClaimOf(s, q, sel, r) ==
    IF r \in Range(sel)
    THEN SlotsClaimed(s, Demand[q][CHOOSE i \in DOMAIN sel : sel[i] = r], r)
    ELSE 0

(* Slip: ended placements are not counted. *)
NextPlacementAmongLive(s) == Cardinality(Live(s)) + 1

NextPlacement(s) == Cardinality(Placements(s)) + 1

(***************************************************************************)
(* The commit of schedule_locked: placement, reservation, capacity, unit   *)
(* and request change together.                                            *)
(***************************************************************************)
Commit(s, q, sel, generation, reassignments) ==
    LET p == NextPlacement(s)
        home == Home(s, sel)
        claims == [r \in Resource |-> ClaimOf(s, q, sel, r)]
    IN  [s EXCEPT
           !.placements[p] =
               [state |-> "Reserved", request |-> q, generation |-> generation,
                epoch |-> s.epoch, reassignments |-> reassignments,
                resources |-> Range(sel),
                observed |-> [r \in Resource |->
                    IF r \in Range(sel) THEN s.resources[r].generation ELSE 0],
                worker |-> home.worker, boot |-> home.boot],
           !.reservations[p] =
               [state |-> "Active", claims |-> claims,
                exclusive |-> {sel[i] : i \in {j \in DOMAIN sel :
                                   ClaimsExclusively(s, Demand[q][j], sel[j])}}],
           !.resources = [r \in Resource |->
               [s.resources[r] EXCEPT !.reserved = @ + claims[r]]],
           !.unitCurrent[UnitOf[q]] = p,
           !.requests[q] = [state |-> "Placed", current |-> p]]

RejectRequest(s, q) ==
    [s EXCEPT !.requests[q] = [state |-> "NoPlacement", current |-> NoPlacement]]

(***************************************************************************)
(* Every state schedule_locked may leave.  A full log is found out after   *)
(* the search and is an error that leaves the request as it was.           *)
(***************************************************************************)
Schedule(s, q, generation, reassignments) ==
    {IF LogIsFull(s) THEN s ELSE Commit(s, q, sel, generation, reassignments) :
        sel \in Selections(s, q)}
    \cup {t \in {RejectRequest(s, q)} : MayFindNone(s, q)}

-----------------------------------------------------------------------------
(* Operations on resources and workers.                                    *)

Become(s) ==
    /\ \A r \in Resource : s.resources[r].generation <= MaxGeneration
    /\ state' = s

CurrentRecord(ad, b, generation, reserved) ==
    [lifecycle |-> "Current", boot |-> b, sharing |-> ad.sharing,
     slots |-> ad.slots, occupancy |-> ad.occupancy, healthy |-> ad.healthy,
     authoritative |-> TRUE, generation |-> generation, reserved |-> reserved]

Registrable(r) == ~ state.shuttingDown /\ state.resources[r].lifecycle = "Absent"

RegisterResource(r, b, ad) ==
    /\ Registrable(r)
    /\ Become([AdoptOwner(state, r, b) EXCEPT !.resources[r] = CurrentRecord(ad, b, 1, 0)])

(* Slip: the new capacity is compared with the reservations alone. *)
PublishResourceStateIgnoringOccupancy(r, b, ad) ==
    LET adopted == IF state.resources[r].boot = b THEN state ELSE AdoptOwner(state, r, b)
        record == adopted.resources[r]
    IN  /\ ~ state.shuttingDown
        /\ state.resources[r].lifecycle \notin {"Absent", "Retired"}
        /\ record.reserved <= ad.slots
        /\ Become([adopted EXCEPT !.resources[r] =
                      CurrentRecord(ad, b, record.generation + 1, record.reserved)])

(***************************************************************************)
(* publish_resource_state.  A publication from another boot than the one   *)
(* in the resource record adopts that boot first, and the adoption stays   *)
(* when the advertisement is then refused for lack of capacity.            *)
(***************************************************************************)
PublishResourceState(r, b, ad) ==
    LET adopted == IF state.resources[r].boot = b THEN state ELSE AdoptOwner(state, r, b)
        record == adopted.resources[r]
    IN  /\ ~ state.shuttingDown
        /\ state.resources[r].lifecycle \notin {"Absent", "Retired"}
        /\ \/ /\ ad.occupancy + record.reserved <= ad.slots
              /\ Become([adopted EXCEPT !.resources[r] =
                            CurrentRecord(ad, b, record.generation + 1, record.reserved)])
           \/ /\ ad.occupancy + record.reserved > ad.slots
              /\ Become(adopted)

(* Slip: a resource is retired although reservations still hold it. *)
RetireResourceInUse(r) ==
    /\ state.resources[r].lifecycle # "Absent"
    /\ Become([state EXCEPT !.resources[r].lifecycle = "Retired",
                            !.resources[r].authoritative = FALSE,
                            !.resources[r].generation = @ + 1])

Retirable(r) == state.resources[r].lifecycle # "Absent" /\ state.resources[r].reserved = 0

RetireResource(r) ==
    /\ Retirable(r)
    /\ Become([state EXCEPT !.resources[r].lifecycle = "Retired",
                            !.resources[r].authoritative = FALSE,
                            !.resources[r].generation = @ + 1])

WorkerConnected(w, b) ==
    /\ b # NoBoot
    /\ Become(Adopt(state, w, b))

MarkWorkerLost(w, b) ==
    /\ state.workers[w].boot = b
    /\ Become(Invalidate(state, w, b))

-----------------------------------------------------------------------------
(* Operations on requests and placements.                                  *)

(* Slip: the unit's current placement is not looked up. *)
SubmitRequestUnchecked(q) ==
    LET submitted == [state EXCEPT !.requests[q] =
                         [state |-> "Submitted", current |-> NoPlacement]]
    IN  /\ ~ state.shuttingDown
        /\ state.requests[q].state = "Absent"
        /\ \E t \in Schedule(submitted, q, 1, 0) : Become(t)

(***************************************************************************)
(* submit_request: the unit must not have a live current placement.        *)
(***************************************************************************)
Submittable(q) ==
    /\ ~ state.shuttingDown
    /\ state.requests[q].state = "Absent"
    /\ Cardinality({o \in Request : state.requests[o].state \in {"Submitted", "Placed"}})
           < MaxActiveRequests
    /\ state.unitCurrent[UnitOf[q]] \notin Live(state)

SubmitRequest(q) ==
    LET submitted == [state EXCEPT !.requests[q] =
                         [state |-> "Submitted", current |-> NoPlacement]]
    IN  /\ Submittable(q)
        /\ \E t \in Schedule(submitted, q, 1, 0) : Become(t)

(***************************************************************************)
(* What a caller presents with an operation on a placement.  The null      *)
(* generation and the null boot are accepted where the code says so.       *)
(***************************************************************************)
AnyGeneration == 0

Credential == [epoch: 1 .. MaxEpoch, generation: 0 .. MaxPlacements]

Known(p, c) ==
    /\ c.epoch = state.epoch
    /\ p \in Placements(state)

IsCurrentGeneration(p, c) == c.generation = state.placements[p].generation

IsBoundBoot(p, b) == b \in {NoBoot, state.placements[p].boot}

(***************************************************************************)
(* The envelope of a worker names the placement as it is now.              *)
(***************************************************************************)
Authorised(p, c, b) == Known(p, c) /\ IsCurrentGeneration(p, c) /\ IsBoundBoot(p, b)

Assignable(p, c, b) ==
    Authorised(p, c, b) /\ state.placements[p].state \in {"Reserved", "Assigned"}

MarkAssigned(p, c, b) ==
    /\ Assignable(p, c, b)
    /\ Become([state EXCEPT !.placements[p].state = "Assigned"])

(* Slip: a late start revives a placement that is over. *)
MarkRunningUnchecked(p, c, b) ==
    /\ Authorised(p, c, b)
    /\ Become([state EXCEPT !.placements[p].state = "Running"])

Startable(p, c, b) == Authorised(p, c, b) /\ p \in Live(state)

MarkRunning(p, c, b) ==
    /\ Startable(p, c, b)
    /\ Become([state EXCEPT !.placements[p].state = "Running"])

(***************************************************************************)
(* report_completion.  A worker sends the resource generations of its      *)
(* authority envelope (evidence), a caller may send none.                  *)
(***************************************************************************)
EvidenceIsCurrent(p) ==
    \A r \in state.placements[p].resources :
        state.resources[r].generation = state.placements[p].observed[r]

Completable(p, c, b, evidence) ==
    /\ Authorised(p, c, b)
    /\ p \in Live(state)
    /\ evidence => EvidenceIsCurrent(p)
    /\ p \in Active(state)

ReportCompletion(p, c, b, evidence, target) ==
    /\ Completable(p, c, b, evidence)
    /\ Become(Terminate(state, {p}, target))

MatchesGeneration(p, c) == c.generation = AnyGeneration \/ IsCurrentGeneration(p, c)

EndableByController(p, c) ==
    /\ Known(p, c) /\ MatchesGeneration(p, c)
    /\ p \in Live(state)

CancelPlacement(p, c) ==
    /\ EndableByController(p, c)
    /\ Become(Terminate(state, {p}, "Cancelled"))

(* Slip: the request is cancelled, its placement is not. *)
CancelRequestOnly(q) ==
    /\ state.requests[q].state # "Absent"
    /\ Become([state EXCEPT !.requests[q] =
                  [state |-> "Cancelled", current |-> NoPlacement]])

CancelRequest(q) ==
    LET placed == {p \in Placements(state) : state.placements[p].request = q}
    IN  /\ state.requests[q].state # "Absent"
        /\ Become([Terminate(state, placed, "Cancelled") EXCEPT !.requests[q] =
                      [state |-> "Cancelled", current |-> NoPlacement]])

(***************************************************************************)
(* The code lets any placement in REASSIGNMENT_REQUIRED be reassigned at   *)
(* any time.  A careful controller asks only for the newest placement of a *)
(* request that is not over, while no other placement of its unit is live. *)
(***************************************************************************)
MayReassign(p) ==
    LET q == state.placements[p].request
    IN  CarefulControllers =>
            /\ state.requests[q].state \in {"Submitted", "Placed", "NoPlacement"}
            /\ \A o \in Placements(state) \ {p} :
                  /\ state.placements[o].request = q => o < p
                  /\ o \in Live(state) => UnitOfPlacement(state, o) # UnitOf[q]

(* Slip: one replacement too many. *)
WithinBudgetInclusive(p) ==
    state.placements[p].reassignments <= MaxReassignments[state.placements[p].request]

WithinBudget(p) ==
    state.placements[p].reassignments < MaxReassignments[state.placements[p].request]

Replace(s, p) ==
    Schedule(s, s.placements[p].request, s.placements[p].generation + 1,
             s.placements[p].reassignments + 1)

(***************************************************************************)
(* reassign_placement ends a live placement before it looks at the budget: *)
(* an exhausted budget is an error that leaves the placement ended.        *)
(***************************************************************************)
Reassignable(p, c) ==
    /\ Known(p, c) /\ MatchesGeneration(p, c)
    /\ state.placements[p].state \in LiveStates \cup {"ReassignmentRequired"}

ReassignPlacement(p, c) ==
    LET revoked == Terminate(state, {p}, "ReassignmentRequired")
    IN  /\ Reassignable(p, c)
        /\ MayReassign(p)
        /\ \/ WithinBudget(p) /\ \E t \in Replace(revoked, p) : Become(t)
           \/ ~ WithinBudget(p) /\ Become(revoked)

PreemptPlacement(p, c) ==
    LET q == state.placements[p].request
        preempted == [Terminate(state, {p}, "Preempted") EXCEPT
                         !.requests[q].state = "Submitted"]
    IN  /\ EndableByController(p, c)
        /\ \/ /\ q \in AllowPreemption /\ WithinBudget(p)
              /\ \E t \in Replace(preempted, p) : Become(t)
           \/ /\ q \notin AllowPreemption \/ ~ WithinBudget(p)
              /\ Become(preempted)

AdoptEpoch(e) ==
    /\ e > state.epoch
    /\ Become([state EXCEPT !.epoch = e])

BeginShutdown ==
    /\ ~ state.shuttingDown
    /\ Become([state EXCEPT !.shuttingDown = TRUE])

ResourceOperation ==
    \E r \in Resource :
        \/ \E b \in BootsOf(state, r), ad \in Advertised[r] : RegisterResource(r, b, ad)
        \/ \E b \in BootsOf(state, r), ad \in Advertised[r] : PublishResourceState(r, b, ad)
        \/ RetireResource(r)

WorkerOperation ==
    \E w \in Worker :
        \/ \E b \in Deliverable(state, w) : WorkerConnected(w, b)
        \/ \E b \in Boot : MarkWorkerLost(w, b)

PlacementOperation ==
    \E p \in PlacementId, c \in Credential :
        \/ \E b \in Boot \cup {NoBoot} :
              \/ MarkAssigned(p, c, b)
              \/ MarkRunning(p, c, b)
              \/ \E evidence \in BOOLEAN, target \in {"Completed", "Failed"} :
                     ReportCompletion(p, c, b, evidence, target)
        \/ CancelPlacement(p, c)
        \/ ReassignPlacement(p, c)
        \/ PreemptPlacement(p, c)

Next ==
    \/ ResourceOperation
    \/ WorkerOperation
    \/ \E q \in Request : SubmitRequest(q) \/ CancelRequest(q)
    \/ PlacementOperation
    \/ \E e \in 1 .. MaxEpoch : AdoptEpoch(e)
    \/ BeginShutdown

Spec == Init /\ [][Next]_state

-----------------------------------------------------------------------------
(* Properties that hold whatever workers and controllers do.               *)

TypeOK == state \in SchedulerState

(***************************************************************************)
(* The slots a resource record mirrors as reserved are the slots its       *)
(* active claims add up to: no release is lost, doubled or floored         *)
(* (reserved_slots_match_active_claims in validate_invariants).            *)
(***************************************************************************)
ReservedMatchesLedger ==
    \A r \in Resource :
        state.resources[r].reserved = ClaimedSlots(state, Active(state), r)

(***************************************************************************)
(* Occupancy that a worker advertises and capacity that the scheduler      *)
(* reserves never exceed the advertised slots together, although either    *)
(* side can change at any time (capacity_never_negative_or_over_committed).*)
(***************************************************************************)
CapacityNotExceeded ==
    \A r \in Resource : Occupied(state.resources[r]) <= state.resources[r].slots

(***************************************************************************)
(* A placement is live exactly while its reservation is active, and the    *)
(* reservation claims exactly the resources of the placement               *)
(* (live_placements_reference_active_reservations and its converse).       *)
(***************************************************************************)
LiveIffReserved ==
    /\ Live(state) = Active(state)
    /\ \A p \in Placements(state) : \A r \in Resource :
          state.reservations[p].claims[r] > 0 <=> r \in state.placements[p].resources

(***************************************************************************)
(* What the unit table and a request call current is a live placement of   *)
(* that unit and of that request, so the guard of submit_request and the   *)
(* outcome a request reports never rest on a placement that is over        *)
(* (one_current_placement_per_schedulable_unit).                           *)
(***************************************************************************)
CurrentIsLive ==
    /\ \A u \in Unit : state.unitCurrent[u] # NoPlacement =>
          /\ state.unitCurrent[u] \in Live(state)
          /\ UnitOfPlacement(state, state.unitCurrent[u]) = u
    /\ \A q \in Request : state.requests[q].current # NoPlacement =>
          /\ state.requests[q].current \in Live(state)
          /\ state.placements[state.requests[q].current].request = q
    /\ \A q \in Request :
          state.requests[q].state = "Placed" => state.requests[q].current # NoPlacement

(***************************************************************************)
(* A resource whose evidence is no longer authoritative holds no capacity  *)
(* (stale_authority_cannot_hold_reserved_capacity).  For requests that     *)
(* insist on current evidence, the default.                                *)
(***************************************************************************)
StaleAuthorityHoldsNothing ==
    \A r \in Resource :
        ~ state.resources[r].authoritative => state.resources[r].reserved = 0

(***************************************************************************)
(* A placement that is over stays as it ended: no late assignment, report, *)
(* cancellation or loss changes its outcome, and its identity, generation  *)
(* and authority envelope never change.                                    *)
(***************************************************************************)
EndedStaysEnded ==
    [][\A p \in Placements(state) :
          /\ state.placements[p].state \in EndStates =>
                state'.placements[p] = state.placements[p]
          /\ [state'.placements[p] EXCEPT !.state = "Reserved"]
                 = [state.placements[p] EXCEPT !.state = "Reserved"]]_state

(***************************************************************************)
(* A generation identifies the evidence it was issued for: while the       *)
(* generation of a resource stands, so do its incarnation, capacity,       *)
(* occupancy, health and authority.  report_completion relies on it when   *)
(* it compares generations instead of evidence.                            *)
(***************************************************************************)
GenerationIdentifiesEvidence ==
    [][\A r \in Resource :
          /\ state'.resources[r].generation >= state.resources[r].generation
          /\ state'.resources[r].generation = state.resources[r].generation =>
                [state'.resources[r] EXCEPT !.reserved = 0]
                    = [state.resources[r] EXCEPT !.reserved = 0]]_state

(***************************************************************************)
(* Capacity comes back exactly once: in every step, the slots that a       *)
(* resource gains are the claims of reservations that were Active before   *)
(* and are closed now, and a closed reservation is never touched again.    *)
(***************************************************************************)
ReleasedExactlyOnce ==
    [][/\ \A p \in Placements(state) \ Active(state) :
             state'.reservations[p] = state.reservations[p]
       /\ \A r \in Resource :
             state.resources[r].reserved > state'.resources[r].reserved =>
                state.resources[r].reserved - state'.resources[r].reserved
                    <= ClaimedSlots(state, Active(state) \ Active(state)', r)]_state

(***************************************************************************)
(* The engine implements CapacityLeases: a placement and its reservation   *)
(* are one lease, held while the reservation is active and then ended as   *)
(* the placement did; the capacity of a resource is what its owner does    *)
(* not occupy itself.                                                      *)
(***************************************************************************)
Lent(s) == [r \in Resource |-> s.resources[r].slots - s.resources[r].occupancy]

LeaseOf(s, p) ==
    IF s.placements[p] = Absent
    THEN [status |-> "unborn", claims |-> [r \in Resource |-> 0]]
    ELSE [status |-> IF p \in Active(s) THEN "held" ELSE s.placements[p].state,
          claims |-> s.reservations[p].claims]

Leases == INSTANCE CapacityLeases WITH
    MaxLeases <- MaxPlacements,
    capacity <- Lent(state),
    lease <- [p \in PlacementId |-> LeaseOf(state, p)]

(***************************************************************************)
(* Whatever workers and controllers send, every operation of the engine,   *)
(* those that end, replace and fence placements at once included, is a     *)
(* step of CapacityLeases: no lease changes while it is held, none ends    *)
(* twice or comes back, and what is leased always fits.                    *)
(***************************************************************************)
GrantsLeases == Leases!Spec

-----------------------------------------------------------------------------
(* Properties that need ordered worker traffic and careful controllers.    *)

(***************************************************************************)
(* At most one placement is live for a unit (README, Placement authority). *)
(***************************************************************************)
OneLivePlacementPerUnit ==
    \A p, o \in Live(state) :
        UnitOfPlacement(state, p) = UnitOfPlacement(state, o) => p = o

(***************************************************************************)
(* A request that is over or has no placement holds no live one, so no     *)
(* placement of a cancelled request ever runs (README, Cancellation).      *)
(***************************************************************************)
OnlyPlacedRequestsHoldPlacements ==
    \A p \in Live(state) :
        LET q == state.placements[p].request
        IN  state.requests[q] = [state |-> "Placed", current |-> p]

(***************************************************************************)
(* The reassignment budget bounds the placements a request ever gets.      *)
(***************************************************************************)
BudgetBoundsPlacements ==
    \A q \in Request :
        Cardinality({p \in Placements(state) : state.placements[p].request = q})
            <= MaxReassignments[q] + 1

(***************************************************************************)
(* Worker-owned evidence is authoritative only for the incarnation that    *)
(* the coordinator knows as current and connected.                         *)
(***************************************************************************)
AuthorityFollowsIncarnation ==
    \A r \in Resource : state.resources[r].authoritative /\ Owner[r] # NoWorker =>
        state.workers[Owner[r]] = [boot |-> state.resources[r].boot, connected |-> TRUE]

(***************************************************************************)
(* Every worker a live placement depends on, through any of its resources, *)
(* is connected, and the incarnation the placement is assigned to is the   *)
(* current one: a dead incarnation leaves no live placement behind.        *)
(***************************************************************************)
LiveOnCurrentIncarnation ==
    \A p \in Live(state) :
        LET home == state.placements[p].worker
        IN  /\ home # NoWorker =>
                  state.workers[home] = [boot |-> state.placements[p].boot, connected |-> TRUE]
            /\ \A r \in state.placements[p].resources :
                  state.resources[r].authoritative

(***************************************************************************)
(* A resource claimed exclusively, by the request or by its sharing mode,  *)
(* backs one active reservation (exclusive_resources_have_at_most_one_     *)
(* claim).  Mode and slots may change under the claim: it has taken all    *)
(* the slots there were, and a publication is refused unless what is       *)
(* claimed still fits.  For resources that never advertise, in shared      *)
(* mode, more free slots than an exclusive claim took.                     *)
(***************************************************************************)
ExclusiveClaimIsAlone ==
    \A p \in Active(state) : \A r \in state.reservations[p].exclusive :
        \A o \in Active(state) \ {p} : state.reservations[o].claims[r] = 0
-----------------------------------------------------------------------------
(* What the documentation promises and the code does not keep.             *)

(***************************************************************************)
(* README, Reservations and accounting: an exclusive resource has at most  *)
(* one active claim (exclusive_resources_have_at_most_one_claim in         *)
(* validate_invariants, which goes by the sharing mode of the record).     *)
(***************************************************************************)
ExclusiveResourceHasOneClaim ==
    \A r \in Resource : state.resources[r].sharing = "Exclusive" =>
        \A p, o \in Active(state) :
            (state.reservations[p].claims[r] > 0 /\ state.reservations[o].claims[r] > 0)
                => p = o
=============================================================================
