-------------------------- MODULE MCSchedulerEngine --------------------------
(***************************************************************************)
(* Small instances of the scheduler engine for TLC.                        *)
(***************************************************************************)
EXTENDS SchedulerEngine, TLC

CONSTANTS w1, w2, gpu, sim, data, first, second, unit, other

(* What resources advertise. *)
Advertise(sharing, slots, occupancy) ==
    [sharing |-> sharing, slots |-> slots, occupancy |-> occupancy, healthy |-> TRUE]

(* A requirement for one slot of any of the resources in R. *)
OneSlotOf(R) == [matches |-> R, slots |-> 1, exclusive |-> FALSE, evidence |-> TRUE,
                 healthy |-> TRUE, percent |-> 100]

ExclusiveUseOf(R) == [OneSlotOf(R) EXCEPT !.exclusive = TRUE]

(* One worker with one resource: a request for a slot, one for all of it. *)
SoloOwner == [r \in {gpu} |-> w1]
SoloUnits == first :> unit @@ second :> other
SoloDemand == first :> <<OneSlotOf({gpu})>> @@ second :> <<ExclusiveUseOf({gpu})>>
SoloBudget == first :> 1 @@ second :> 0
SoloAdvertised == [r \in {gpu} |-> {Advertise("Shared", 4, 2), Advertise("Exclusive", 3, 0)}]

(* A resource that may change its sharing mode: two requests for a slot. *)
SlotDemand == [q \in {first, second} |-> <<OneSlotOf({gpu})>>]
FlexibleAdvertised == [r \in {gpu} |-> {Advertise("Shared", 2, 0), Advertise("Exclusive", 2, 0)}]
FixedAdvertised == [r \in {gpu} |-> {Advertise("Shared", 2, 0)}]

(* One worker, one request. *)
OneUnit == first :> unit
OneDemand == first :> <<OneSlotOf({gpu})>>
OneBudget == first :> 1

(* Two workers: one request spans both, another wants a GPU slot
   for the same unit. *)
DuoOwner == gpu :> w1 @@ sim :> w2
DuoUnits == first :> unit @@ second :> unit
DuoDemand == first :> <<OneSlotOf({gpu}), OneSlotOf({sim})>>
             @@ second :> <<OneSlotOf({gpu})>>
DuoBudget == first :> 1 @@ second :> 0
DuoAdvertised == gpu :> {Advertise("Shared", 2, 0)} @@ sim :> {Advertise("Exclusive", 1, 0)}

=============================================================================
