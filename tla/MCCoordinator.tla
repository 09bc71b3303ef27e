---------------------------- MODULE MCCoordinator ----------------------------
(***************************************************************************)
(* A small cluster for TLC: one worker that is started twice, a controller *)
(* and one request for a slot of the worker's GPU.                         *)
(***************************************************************************)
EXTENDS Coordinator, TLC

CONSTANTS w, gpu, first, unit, operator

ClusterOwner == [r \in {gpu} |-> w]
ClusterUnits == [r \in {first} |-> unit]
ClusterDemand ==
    [r \in {first} |-> <<[matches |-> {gpu}, slots |-> 1, exclusive |-> FALSE, evidence |-> TRUE,
                      healthy |-> TRUE, percent |-> 100]>>]
ClusterBudget == [r \in {first} |-> 1]
ClusterAdvertised ==
    [r \in {gpu} |-> {[sharing |-> "Shared", slots |-> 1, occupancy |-> 0, healthy |-> TRUE]}]
Stop == [type |-> "Shutdown"]
ClusterSession ==
    << {[type |-> "ScheduleRequest", request |-> first], Stop},
       {[type |-> "CancelRequest", request |-> first], [type |-> "CancelPlacement", placement |-> 1],
        [type |-> "Reassign", placement |-> 1], [type |-> "Preempt", placement |-> 1],
        [type |-> "RetireResource", resource |-> gpu],
        [type |-> "DisconnectWorker", agent |-> <<w, 1>>], [type |-> "Inspect"], Stop} >>
FirstBoot == {<<w, 1>>}
=============================================================================
