---------------------------- MODULE CapacityLeases ----------------------------
(***************************************************************************)
(* What the scheduler engine promises about capacity, without requests,    *)
(* workers or incarnations.                                                *)
(*                                                                         *)
(* A lease is granted in one step for everything it claims, is never       *)
(* changed while it is held, and ends once, with one outcome, giving back  *)
(* everything it claimed.  Leases are numbered in the order of their       *)
(* grants, and a number is never used again.  Resources come, grow, shrink *)
(* and go, but never below what is leased on them.  A step may end leases, *)
(* grant one and resize resources together.                                *)
(***************************************************************************)
EXTENDS Integers

CONSTANTS Resource, MaxLeases

Lease == 1 .. MaxLeases
Outcome == {"Completed", "Failed", "Cancelled", "Preempted", "ReassignmentRequired"}

VARIABLES
    capacity,   \* what the owner of each resource lets the scheduler have
    lease       \* of each number: status and claims

Init ==
    /\ capacity = [r \in Resource |-> 0]
    /\ lease = [l \in Lease |-> [status |-> "unborn", claims |-> [r \in Resource |-> 0]]]

(* What the held leases claim of r. *)
Leased(r) ==
    LET total[n \in 0 .. MaxLeases] ==
            IF n = 0 THEN 0
            ELSE total[n - 1] + (IF lease[n].status = "held" THEN lease[n].claims[r] ELSE 0)
    IN  total[MaxLeases]

Fits == \A r \in Resource : Leased(r) <= capacity[r]

Kept(l) == lease'[l] = lease[l]

Grant(l) ==
    /\ lease[l].status = "unborn"
    /\ \A k \in 1 .. l - 1 : lease[k].status # "unborn"
    /\ lease'[l].status = "held"

End(l) ==
    /\ lease[l].status = "held"
    /\ lease'[l].status \in Outcome
    /\ lease'[l].claims = lease[l].claims

Next ==
    /\ \A l \in Lease : Kept(l) \/ Grant(l) \/ End(l)
    /\ Fits'

Spec == Init /\ [][Next]_<<capacity, lease>>
=============================================================================
