--------------------------- MODULE MCEngineRecovery ---------------------------
(***************************************************************************)
(* A small instance of the engine with snapshots and restarts for TLC: a   *)
(* dataset that the coordinator owns and the GPU of one worker.            *)
(***************************************************************************)
EXTENDS EngineRecovery, TLC

CONSTANTS w1, w2, gpu, sim, data, first, second, unit, other

Advertise(sharing, slots, occupancy) ==
    [sharing |-> sharing, slots |-> slots, occupancy |-> occupancy, healthy |-> TRUE]

Need(R, evidence) == [matches |-> R, slots |-> 1, exclusive |-> FALSE,
                      evidence |-> evidence, healthy |-> TRUE, percent |-> 100]

MixedOwner == gpu :> w1 @@ data :> NoWorker
MixedUnits == first :> unit
MixedDemand == first :> <<Need({data}, TRUE), Need({gpu}, TRUE)>>
WaivedDemand == first :> <<Need({gpu}, FALSE)>>
SoloOwner == gpu :> w1
SoloDemand == first :> <<Need({gpu}, TRUE)>>
SoloAdvertised == gpu :> {Advertise("Exclusive", 1, 0)}
MixedBudget == first :> 1
MixedAdvertised == gpu :> {Advertise("Exclusive", 1, 0)} @@ data :> {Advertise("Shared", 2, 0)}
=============================================================================
