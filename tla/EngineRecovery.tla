---------------------------- MODULE EngineRecovery ----------------------------
(***************************************************************************)
(* The engine under a coordinator that saves snapshots and restarts.       *)
(*                                                                         *)
(* A snapshot is exported under the engine mutex, so it is a state the     *)
(* engine was in.  It reaches the disk some time later: here it is written *)
(* at once, but nothing forces a save before or after a mutation, because  *)
(* the coordinator answers its caller first and saves afterwards.  The     *)
(* coordinator may stop at any time, and a new process then imports the    *)
(* last snapshot into an empty engine.  Engine operations that the         *)
(* coordinator never calls (adopt_epoch, begin_shutdown) are left out.     *)
(***************************************************************************)
EXTENDS SchedulerEngine

CONSTANT NoSnapshot     \* there is no state file

(***************************************************************************)
(* DurableState: neither the worker table nor the unit table is saved.     *)
(***************************************************************************)
DurableState ==
    [epoch: Nat,
     resources: [Resource -> ResourceRecord],
     requests: [Request -> StoredRequest],
     placements: [PlacementId -> PlacementRecord \cup {Absent}],
     reservations: [PlacementId -> ReservationRecord \cup {Absent}]]

ASSUME NoSnapshotAssumption == NoSnapshot \notin DurableState

VARIABLES
    durable,            \* what the state file holds
    fenced              \* history: the latest epoch saved in since there has been a file, or 0

vars == <<state, durable, fenced>>

(***************************************************************************)
(* export_state.                                                           *)
(***************************************************************************)
Export(s) ==
    [epoch |-> s.epoch, resources |-> s.resources, requests |-> s.requests,
     placements |-> s.placements, reservations |-> s.reservations]

(***************************************************************************)
(* validate_durable_state: what a snapshot must satisfy to be loaded.      *)
(***************************************************************************)
Loadable(d) ==
    LET active == Active(d)
        registered == {r \in Resource : d.resources[r].lifecycle # "Absent"}
    IN  /\ \A r \in registered :
              LET record == d.resources[r]
              IN  /\ record.slots > 0
                  /\ record.occupancy <= record.slots
                  /\ record.lifecycle = "Retired" => record.reserved = 0
                  /\ Occupied(record) <= record.slots
                  /\ ClaimedSlots(d, active, r) <= record.slots
                  /\ record.reserved = ClaimedSlots(d, active, r)
        /\ \A p \in Placements(d) :
              /\ d.placements[p].generation > 0
              /\ d.requests[d.placements[p].request].state # "Absent"
              /\ d.placements[p].resources # {}
              /\ d.placements[p].resources \subseteq registered
              /\ \A r \in d.placements[p].resources : d.placements[p].observed[r] > 0
        /\ \A p \in PlacementId : d.reservations[p].state # "Absent" =>
              /\ p \in Placements(d)
              /\ \E r \in Resource : d.reservations[p].claims[r] > 0
              /\ \A r \in Resource \ registered : d.reservations[p].claims[r] = 0

(***************************************************************************)
(* import_state.  The epoch advances.                                      *)
(***************************************************************************)
(* Slip: the new coordinator goes on in the epoch of the snapshot. *)
NextEpochSame(d) == d.epoch

NextEpoch(d) == d.epoch + 1

(***************************************************************************)
(* Step 1: static resources come back as current, the others as known but  *)
(* without authority.                                                      *)
(***************************************************************************)
(* Slip: the capacity mirror is restored, its reservations are not. *)
ImportResourceReserved(record, owned) ==
    IF record.lifecycle = "Absent" THEN record
    ELSE [record EXCEPT
            !.generation = @ + 1,
            !.lifecycle = IF @ = "Retired" THEN @
                          ELSE IF owned THEN "Registered" ELSE "Current",
            !.authoritative = ~ owned /\ record.lifecycle # "Retired"]

ImportResource(record, owned) ==
    IF record.lifecycle = "Absent" THEN record
    ELSE [record EXCEPT
            !.reserved = 0,
            !.generation = @ + 1,
            !.lifecycle = IF @ = "Retired" THEN @
                          ELSE IF owned THEN "Registered" ELSE "Current",
            !.authoritative = ~ owned /\ record.lifecycle # "Retired"]

(***************************************************************************)
(* A worker is restored with the boot of its first resource in the order   *)
(* of identities: any of its resources may be that one.                    *)
(***************************************************************************)
RestoredBoots(d, w) ==
    LET boots == {d.resources[r].boot : r \in {x \in Resource :
                     Owner[x] = w /\ d.resources[x].lifecycle # "Absent"}}
    IN  IF boots = {} THEN {NoBoot} ELSE boots

(* Step 2. *)
(* Slip: a request keeps the placement it had. *)
ImportRequestPlaced(stored) == stored

ImportRequest(stored) ==
    [state |-> IF stored.state = "Placed" THEN "Submitted" ELSE stored.state,
     current |-> NoPlacement]

(* Steps 3 and 4. *)
(* Slip: what was live goes on under the new coordinator. *)
ImportPlacementLive(placement) == placement

ImportPlacement(placement) ==
    IF placement.state \in LiveStates
    THEN [placement EXCEPT !.state = "ReassignmentRequired"]
    ELSE placement

ImportReservation(reservation) ==
    IF reservation.state = "Active"
    THEN [reservation EXCEPT !.state = "Revoked"]
    ELSE reservation

(***************************************************************************)
(* Every engine state the import of d may produce.                         *)
(***************************************************************************)
Import(d) ==
    {[epoch |-> NextEpoch(d),
      shuttingDown |-> FALSE,
      workers |-> [w \in Worker |-> [boot |-> boots[w], connected |-> FALSE]],
      resources |-> [r \in Resource |->
          ImportResource(d.resources[r], Owner[r] # NoWorker)],
      requests |-> [q \in Request |-> ImportRequest(d.requests[q])],
      placements |-> [p \in PlacementId |-> ImportPlacement(d.placements[p])],
      reservations |-> [p \in PlacementId |-> ImportReservation(d.reservations[p])],
      unitCurrent |-> [u \in Unit |-> NoPlacement]] :
     boots \in {f \in [Worker -> Boot \cup {NoBoot}] :
                   \A w \in Worker : f[w] \in RestoredBoots(d, w)}}

-----------------------------------------------------------------------------
RecoveryInit ==
    /\ Init
    /\ durable = NoSnapshot
    /\ fenced = 0

EngineStep ==
    /\ \/ ResourceOperation
       \/ WorkerOperation
       \/ \E q \in Request : SubmitRequest(q) \/ CancelRequest(q)
       \/ PlacementOperation
    /\ UNCHANGED <<durable, fenced>>

(***************************************************************************)
(* save_state: the part file takes the place of the state file.            *)
(***************************************************************************)
SaveState ==
    /\ durable' = Export(state)
    /\ fenced' = IF state.epoch > fenced THEN state.epoch ELSE fenced
    /\ UNCHANGED state

(***************************************************************************)
(* When the rename fails, save_durable_state removes the state file and    *)
(* tries again.  A second failure, or a death before the second rename,    *)
(* leaves no file; a success is a SaveState.                               *)
(***************************************************************************)
RemoveOld ==
    /\ durable' = NoSnapshot
    /\ fenced' = 0
    /\ UNCHANGED state

(***************************************************************************)
(* The coordinator stops, by a crash or in order, and is started again.    *)
(***************************************************************************)
Restart ==
    /\ IF durable = NoSnapshot THEN Become(EmptyState)
       ELSE /\ Loadable(durable)
            /\ durable.epoch < MaxEpoch
            /\ \E s \in Import(durable) : Become(s)
    /\ UNCHANGED <<durable, fenced>>

RecoveryNext == EngineStep \/ SaveState \/ RemoveOld \/ Restart

RecoverySpec == RecoveryInit /\ [][RecoveryNext]_vars

-----------------------------------------------------------------------------
(***************************************************************************)
(* Whatever the engine has been through, what it exports can be loaded: a  *)
(* restart never finds a state file that validate_durable_state refuses.   *)
(***************************************************************************)
SnapshotIsLoadable == durable # NoSnapshot => Loadable(durable)

(***************************************************************************)
(* A placement is live only under the coordinator that committed it: the   *)
(* authority of an earlier coordinator never survives a restart.           *)
(***************************************************************************)
LiveBelongsToThisCoordinator ==
    \A p \in Live(state) : state.placements[p].epoch = state.epoch

(***************************************************************************)
(* A restart leaves behind every epoch in which a coordinator has saved,   *)
(* however many coordinators stopped since without a save of their own.    *)
(* Only what was saved since the file was last lost counts: once the       *)
(* fallback of a failed rename has removed it, a new coordinator starts    *)
(* in epoch 1 again, whatever epochs there have been.                      *)
(***************************************************************************)
SavedCoordinatorsAreFenced == [][Restart => fenced < state'.epoch]_vars

(***************************************************************************)
(* README, Persistence and recovery: pre-restart traffic is rejected as    *)
(* STALE_EPOCH.  A step that forgets a placement issued in this epoch is a *)
(* restart, so it must move to another epoch.                              *)
(***************************************************************************)
PreRestartTrafficIsStale ==
    [][\A p \in Placements(state) :
          /\ state.placements[p].epoch = state.epoch
          /\ state'.placements[p] = Absent
          => state'.epoch # state.epoch]_vars
=============================================================================
