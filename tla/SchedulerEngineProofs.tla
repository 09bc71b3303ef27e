------------------------ MODULE SchedulerEngineProofs ------------------------
(***************************************************************************)
(* Proofs about the scheduler engine, for any workers, resources, requests *)
(* and bounds.  The invariant and the step relation are operators of       *)
(* states, as the engine's helpers are, so that each helper has a lemma of *)
(* its own and an action composes the lemmas of the helpers it calls.      *)
(* At the end, the engine implements CapacityLeases.                       *)
(***************************************************************************)
EXTENDS SchedulerEngine, FiniteSetTheorems, WellFoundedInduction, TLAPS

(***************************************************************************)
(* Facts about ClaimedSlots, the sum of what a set of reservations claims. *)
(* The library's induction theorems take a predicate as a parameter, so    *)
(* induction on the naturals is restated here for a set.                   *)
(***************************************************************************)

(* A set of naturals that holds 0 and every successor holds every natural. *)
LEMMA NatSetInduction ==
    ASSUME NEW S \in SUBSET Nat, 0 \in S, \A n \in S : n + 1 \in S
    PROVE  S = Nat
<1>1. SUFFICES ASSUME Nat \ S # {} PROVE FALSE
  OBVIOUS
<1>2. PICK n \in Nat \ S : \A k \in Nat \ S : ~ (<<k, n>> \in OpToRel(<, Nat))
  BY <1>1, NatLessThanWellFounded, WFMin
<1>3. n - 1 \in Nat /\ n - 1 < n
  OBVIOUS
<1>4. n - 1 \in S
  BY <1>2, <1>3 DEF OpToRel
<1> QED
  BY <1>3, <1>4

(* A nonempty set of naturals has a least element. *)
LEMMA NatSetHasLeast ==
    ASSUME NEW S \in SUBSET Nat, S # {}
    PROVE  \E n \in S : \A k \in S : n <= k
<1>1. PICK n \in S : \A k \in S : ~ (<<k, n>> \in OpToRel(<, Nat))
  BY NatLessThanWellFounded, WFMin
<1>2. ASSUME NEW k \in S PROVE n <= k
  <2>1. ~ (k < n)
    BY <1>1, <1>2 DEF OpToRel
  <2> QED BY <2>1
<1> QED BY <1>2

(* The partial sums of a function on 1 .. N exist. *)
LEMMA SumExists ==
    ASSUME NEW N \in Nat, NEW v \in [1 .. N -> Nat]
    PROVE  \E f \in [0 .. N -> Nat] :
              f[0] = 0 /\ \A n \in 1 .. N : f[n] = f[n - 1] + v[n]
<1> DEFINE Sums(m) == {f \in [0 .. m -> Nat] :
                          f[0] = 0 /\ \A n \in 1 .. m : f[n] = f[n - 1] + v[n]}
           Summable == {m \in Nat : m <= N => Sums(m) # {}}
<1>1. Sums(0) # {}
  <2>1. [n \in 0 .. 0 |-> 0] \in Sums(0)
    OBVIOUS
  <2> QED BY <2>1
<1>2. ASSUME NEW m \in Nat, m + 1 <= N, Sums(m) # {} PROVE Sums(m + 1) # {}
  <2>1. PICK f \in [0 .. m -> Nat] : f[0] = 0 /\ \A n \in 1 .. m : f[n] = f[n - 1] + v[n]
    BY <1>2
  <2> DEFINE g == [n \in 0 .. m + 1 |-> IF n = m + 1 THEN f[m] + v[m + 1] ELSE f[n]]
  <2>2. v[m + 1] \in Nat /\ f[m] \in Nat
    BY <1>2
  <2>3. g \in [0 .. m + 1 -> Nat]
    BY <2>2
  <2>4. g[0] = 0 /\ g[m + 1] = g[m] + v[m + 1]
    BY <2>1
  <2>5. ASSUME NEW n \in 1 .. m PROVE g[n] = g[n - 1] + v[n]
    BY <2>1
  <2>6. \A n \in 1 .. m + 1 : n = m + 1 \/ n \in 1 .. m
    OBVIOUS
  <2> HIDE DEF g
  <2>7. \A n \in 1 .. m + 1 : g[n] = g[n - 1] + v[n]
    <3> TAKE n \in 1 .. m + 1
    <3>1. CASE n = m + 1
      BY <2>4, <3>1
    <3>2. CASE n \in 1 .. m
      BY <2>5, <3>2
    <3> QED BY <2>6, <3>1, <3>2
  <2> QED BY <2>3, <2>4, <2>7
<1> HIDE DEF Sums
<1>3. ASSUME NEW m \in Summable PROVE m + 1 \in Summable
  BY <1>2
<1>4. 0 \in Summable
  BY <1>1
<1>5. Summable = Nat
  <2> HIDE DEF Summable
  <2> QED BY <1>3, <1>4, NatSetInduction DEF Summable
<1>6. Sums(N) # {}
  BY <1>5
<1> QED BY <1>6 DEF Sums

(* The recursive function inside ClaimedSlots is the table of partial sums of the claims. *)
LEMMA ClaimedSlotsTable ==
    ASSUME NEW s, NEW P, NEW r, MaxPlacements \in Nat,
           NEW v \in [PlacementId -> Nat],
           \A n \in PlacementId : v[n] = IF n \in P THEN s.reservations[n].claims[r] ELSE 0
    PROVE  \E f \in [0 .. MaxPlacements -> Nat] :
              /\ f[0] = 0
              /\ \A n \in PlacementId : f[n] = f[n - 1] + v[n]
              /\ ClaimedSlots(s, P, r) = f[MaxPlacements]
<1> DEFINE table(f) == [n \in 0 .. MaxPlacements |->
                          IF n = 0 THEN 0
                          ELSE f[n - 1] + (IF n \in P THEN s.reservations[n].claims[r] ELSE 0)]
           total == CHOOSE f : f = table(f)
<1>1. PICK f \in [0 .. MaxPlacements -> Nat] :
                f[0] = 0 /\ \A n \in PlacementId : f[n] = f[n - 1] + v[n]
  BY SumExists DEF PlacementId
<1>2. f = table(f)
  BY <1>1 DEF PlacementId
<1>3. total = table(total)
  <2> HIDE DEF table
  <2> QED BY <1>2
<1>4. ClaimedSlots(s, P, r) = total[MaxPlacements]
  BY DEF ClaimedSlots
<1> HIDE DEF total
<1> DEFINE Agree == {m \in Nat : m <= MaxPlacements => total[m] = f[m]}
<1>5. Agree = Nat
  <2>1. 0 \in Agree
    BY <1>3, <1>1
  <2>2. ASSUME NEW m \in Agree PROVE m + 1 \in Agree
    <3>1. SUFFICES ASSUME m + 1 <= MaxPlacements PROVE total[m + 1] = f[m + 1]
      OBVIOUS
    <3>2. m \in Nat /\ total[m] = f[m] /\ m + 1 \in PlacementId
      BY <3>1 DEF PlacementId
    <3>3. total[m + 1] = total[m] + v[m + 1]
      <4>1. m + 1 \in 0 .. MaxPlacements /\ m + 1 # 0 /\ (m + 1) - 1 = m
        BY <3>1, <3>2
      <4>2. table(total)[m + 1] = total[m]
                + (IF m + 1 \in P THEN s.reservations[m + 1].claims[r] ELSE 0)
        BY <4>1
      <4>3. total[m + 1] = table(total)[m + 1]
        BY <1>3
      <4>4. v[m + 1] = IF m + 1 \in P THEN s.reservations[m + 1].claims[r] ELSE 0
        BY <3>2
      <4> QED BY <4>2, <4>3, <4>4
    <3> QED BY <1>1, <3>2, <3>3
  <2> HIDE DEF Agree
  <2> QED BY <2>1, <2>2, NatSetInduction DEF Agree
<1>6. total[MaxPlacements] = f[MaxPlacements]
  BY <1>5
<1> QED
  BY <1>1, <1>4, <1>6
(* f lists the partial sums of v over the placement ids. *)
PartialSums(f, v) ==
    /\ f \in [0 .. MaxPlacements -> Nat]
    /\ f[0] = 0
    /\ \A n \in PlacementId : f[n] = f[n - 1] + v[n]

(* Sums add up: the sum of v + w is the sum of v plus the sum of w. *)
LEMMA PartialSumsAdd ==
    ASSUME MaxPlacements \in Nat,
           NEW v \in [PlacementId -> Nat], NEW w \in [PlacementId -> Nat],
           NEW u, \A n \in PlacementId : u[n] = v[n] + w[n],
           NEW f, PartialSums(f, v), NEW g, PartialSums(g, w), NEW h, PartialSums(h, u)
    PROVE  h[MaxPlacements] = f[MaxPlacements] + g[MaxPlacements]
<1> DEFINE Agree == {m \in Nat : m <= MaxPlacements => h[m] = f[m] + g[m]}
<1>1. 0 \in Agree
  BY DEF PartialSums
<1>2. ASSUME NEW m \in Agree PROVE m + 1 \in Agree
  <2>1. SUFFICES ASSUME m + 1 <= MaxPlacements PROVE h[m + 1] = f[m + 1] + g[m + 1]
    OBVIOUS
  <2>2. m \in Nat /\ h[m] = f[m] + g[m] /\ m + 1 \in PlacementId /\ (m + 1) - 1 = m
    BY <2>1 DEF PlacementId
  <2>3. /\ h[m + 1] = h[m] + u[m + 1]
        /\ f[m + 1] = f[m] + v[m + 1]
        /\ g[m + 1] = g[m] + w[m + 1]
    BY <2>2 DEF PartialSums
  <2>4. f[m] \in Nat /\ g[m] \in Nat /\ v[m + 1] \in Nat /\ w[m + 1] \in Nat
    BY <2>1, <2>2 DEF PartialSums
  <2>5. u[m + 1] = v[m + 1] + w[m + 1]
    BY <2>2
  <2> QED BY <2>2, <2>3, <2>4, <2>5
<1>3. Agree = Nat
  <2> HIDE DEF Agree
  <2> QED BY <1>1, <1>2, NatSetInduction DEF Agree
<1> QED BY <1>3

(* What the reservation n of P claims of r. *)
ClaimIn(s, P, r, n) == IF n \in P THEN s.reservations[n].claims[r] ELSE 0

ClaimsAreNatural(s, P, r) == \A n \in PlacementId : ClaimIn(s, P, r, n) \in Nat

(* ClaimedSlots is the last partial sum of the claims. *)
LEMMA ClaimedSlotsSum ==
    ASSUME NEW s, NEW P, NEW r, ClaimsAreNatural(s, P, r), MaxPlacements \in Nat
    PROVE  \E f : /\ PartialSums(f, [n \in PlacementId |-> ClaimIn(s, P, r, n)])
                  /\ ClaimedSlots(s, P, r) = f[MaxPlacements]
<1> DEFINE v == [n \in PlacementId |-> ClaimIn(s, P, r, n)]
<1>1. v \in [PlacementId -> Nat]
  BY DEF ClaimsAreNatural
<1>2. \A n \in PlacementId : v[n] = IF n \in P THEN s.reservations[n].claims[r] ELSE 0
  BY DEF ClaimIn
<1> HIDE DEF v
<1>3. PICK f \in [0 .. MaxPlacements -> Nat] :
              /\ f[0] = 0
              /\ \A n \in PlacementId : f[n] = f[n - 1] + v[n]
              /\ ClaimedSlots(s, P, r) = f[MaxPlacements]
  BY <1>1, <1>2, ClaimedSlotsTable
<1>4. PartialSums(f, v)
  BY <1>3 DEF PartialSums
<1> QED BY <1>3, <1>4 DEF v

(* Sums of naturals are naturals. *)
LEMMA ClaimedSlotsNatural ==
    ASSUME NEW s, NEW P, NEW r, ClaimsAreNatural(s, P, r), MaxPlacements \in Nat
    PROVE  ClaimedSlots(s, P, r) \in Nat
<1>1. PICK f : /\ PartialSums(f, [n \in PlacementId |-> ClaimIn(s, P, r, n)])
               /\ ClaimedSlots(s, P, r) = f[MaxPlacements]
  BY ClaimedSlotsSum
<1> QED BY <1>1 DEF PartialSums

(* When every claim in R splits into one in P and one in Q, so does the sum. *)
LEMMA ClaimedSlotsAdd ==
    ASSUME NEW s, NEW t, NEW P, NEW Q, NEW R, NEW r, MaxPlacements \in Nat,
           ClaimsAreNatural(s, P, r), ClaimsAreNatural(s, Q, r),
           \A n \in PlacementId : ClaimIn(t, R, r, n) = ClaimIn(s, P, r, n) + ClaimIn(s, Q, r, n)
    PROVE  ClaimedSlots(t, R, r) = ClaimedSlots(s, P, r) + ClaimedSlots(s, Q, r)
<1> DEFINE v == [n \in PlacementId |-> ClaimIn(s, P, r, n)]
           w == [n \in PlacementId |-> ClaimIn(s, Q, r, n)]
           u == [n \in PlacementId |-> ClaimIn(t, R, r, n)]
<1>1. v \in [PlacementId -> Nat] /\ w \in [PlacementId -> Nat]
  BY DEF ClaimsAreNatural
<1>2. \A n \in PlacementId : u[n] = v[n] + w[n]
  OBVIOUS
<1>3. ClaimsAreNatural(t, R, r)
  BY DEF ClaimsAreNatural
<1>4. PICK f : PartialSums(f, v) /\ ClaimedSlots(s, P, r) = f[MaxPlacements]
  BY ClaimedSlotsSum
<1>5. PICK g : PartialSums(g, w) /\ ClaimedSlots(s, Q, r) = g[MaxPlacements]
  BY ClaimedSlotsSum
<1>6. PICK h : PartialSums(h, u) /\ ClaimedSlots(t, R, r) = h[MaxPlacements]
  BY <1>3, ClaimedSlotsSum
<1> HIDE DEF u, v, w
<1>7. h[MaxPlacements] = f[MaxPlacements] + g[MaxPlacements]
  BY <1>1, <1>2, <1>4, <1>5, <1>6, PartialSumsAdd
<1> QED BY <1>4, <1>5, <1>6, <1>7

(* The empty set claims nothing. *)
LEMMA ClaimedSlotsNone ==
    ASSUME NEW s, NEW P, NEW r, MaxPlacements \in Nat,
           \A n \in PlacementId : ClaimIn(s, P, r, n) = 0
    PROVE  ClaimedSlots(s, P, r) = 0
<1>1. ClaimsAreNatural(s, P, r)
  BY DEF ClaimsAreNatural
<1>2. ClaimedSlots(s, P, r) = ClaimedSlots(s, P, r) + ClaimedSlots(s, P, r)
  BY <1>1, ClaimedSlotsAdd
<1> QED BY <1>1, <1>2, ClaimedSlotsNatural

(* The same claims have the same sum. *)
LEMMA ClaimedSlotsSame ==
    ASSUME NEW s, NEW t, NEW P, NEW Q, NEW r, MaxPlacements \in Nat,
           ClaimsAreNatural(s, P, r),
           \A n \in PlacementId : ClaimIn(t, Q, r, n) = ClaimIn(s, P, r, n)
    PROVE  ClaimedSlots(t, Q, r) = ClaimedSlots(s, P, r)
<1>1. \A n \in PlacementId : ClaimIn(s, {}, r, n) = 0
  BY DEF ClaimIn
<1>2. ClaimedSlots(s, {}, r) = 0 /\ ClaimsAreNatural(s, {}, r)
  BY <1>1, ClaimedSlotsNone DEF ClaimsAreNatural
<1>3. \A n \in PlacementId :
         ClaimIn(t, Q, r, n) = ClaimIn(s, P, r, n) + ClaimIn(s, {}, r, n)
  BY <1>1 DEF ClaimsAreNatural
<1>4. ClaimedSlots(t, Q, r) = ClaimedSlots(s, P, r) + ClaimedSlots(s, {}, r)
  BY <1>2, <1>3, ClaimedSlotsAdd
<1> QED BY <1>2, <1>4, ClaimedSlotsNatural

(* One reservation claims what it claims. *)
LEMMA ClaimedSlotsOne ==
    ASSUME NEW s, NEW p \in PlacementId, NEW r, MaxPlacements \in Nat,
           s.reservations[p].claims[r] \in Nat
    PROVE  ClaimedSlots(s, {p}, r) = s.reservations[p].claims[r]
<1> DEFINE c == s.reservations[p].claims[r]
<1>1. ClaimsAreNatural(s, {p}, r)
  BY DEF ClaimsAreNatural, ClaimIn
<1>2. PICK f : /\ PartialSums(f, [n \in PlacementId |-> ClaimIn(s, {p}, r, n)])
               /\ ClaimedSlots(s, {p}, r) = f[MaxPlacements]
  BY <1>1, ClaimedSlotsSum
<1> DEFINE Steps == {m \in Nat : m <= MaxPlacements => f[m] = IF m < p THEN 0 ELSE c}
<1>3. p \in Nat /\ 0 < p /\ p <= MaxPlacements
  BY DEF PlacementId
<1>4. 0 \in Steps
  BY <1>2, <1>3 DEF PartialSums
<1>5. ASSUME NEW m \in Steps PROVE m + 1 \in Steps
  <2>1. SUFFICES ASSUME m + 1 <= MaxPlacements
                 PROVE  f[m + 1] = IF m + 1 < p THEN 0 ELSE c
    OBVIOUS
  <2>2. /\ m \in Nat
        /\ f[m] = IF m < p THEN 0 ELSE c
        /\ m + 1 \in PlacementId
        /\ (m + 1) - 1 = m
    BY <2>1 DEF PlacementId
  <2>3. f[m + 1] = f[m] + ClaimIn(s, {p}, r, m + 1)
    BY <1>2, <2>2 DEF PartialSums
  <2>4. ClaimIn(s, {p}, r, m + 1) = IF m + 1 = p THEN c ELSE 0
    BY DEF ClaimIn
  <2> HIDE DEF c
  <2>5. c \in Nat
    BY DEF c
  <2> QED BY <1>3, <2>2, <2>3, <2>4, <2>5
<1>6. Steps = Nat
  <2> HIDE DEF Steps
  <2> QED BY <1>4, <1>5, NatSetInduction DEF Steps
<1> QED BY <1>2, <1>3, <1>6

-----------------------------------------------------------------------------
(***************************************************************************)
(* The inductive invariant.                                                *)
(***************************************************************************)
(* The log has no holes, so the next identity is a fresh one. *)
Dense(s) == \E k \in Nat : Placements(s) = 1 .. k

(* Every placement has its reservation: live and active together, over the same resources. *)
Paired(s) ==
    /\ \A p \in PlacementId : s.placements[p] = Absent <=> s.reservations[p] = Absent
    /\ Live(s) = Active(s)
    /\ \A p \in Placements(s) : \A r \in Resource :
          s.reservations[p].claims[r] > 0 <=> r \in s.placements[p].resources

(* A resource is either unknown or has slots to claim. *)
Sized(s) ==
    \A r \in Resource : \/ s.resources[r] = UnregisteredResource
                        \/ /\ s.resources[r].lifecycle # "Absent"
                           /\ s.resources[r].slots > 0

WithinSlots(s) == \A r \in Resource : Occupied(s.resources[r]) <= s.resources[r].slots

Mirrored(s) ==
    \A r \in Resource : s.resources[r].reserved = ClaimedSlots(s, Active(s), r)

UnitsCurrent(s) ==
    \A u \in Unit : s.unitCurrent[u] # NoPlacement =>
        /\ s.unitCurrent[u] \in Live(s)
        /\ UnitOfPlacement(s, s.unitCurrent[u]) = u

RequestsCurrent(s) ==
    \A q \in Request :
        /\ s.requests[q].current # NoPlacement =>
              /\ s.requests[q].current \in Live(s)
              /\ s.placements[s.requests[q].current].request = q
        /\ s.requests[q].state = "Placed" => s.requests[q].current # NoPlacement

Inv(s) ==
    /\ s \in SchedulerState
    /\ Dense(s) /\ Paired(s) /\ Sized(s) /\ WithinSlots(s) /\ Mirrored(s)
    /\ UnitsCurrent(s) /\ RequestsCurrent(s)

(***************************************************************************)
(* What no step may change: the log is append-only but for the state of a  *)
(* live placement and of its reservation, and a resource changes only with *)
(* its generation.                                                         *)
(***************************************************************************)
LogKept(s, t) ==
    \A p \in Placements(s) :
        /\ p \in Placements(t)
        /\ s.placements[p].state \in EndStates => t.placements[p] = s.placements[p]
        /\ t.placements[p] = [s.placements[p] EXCEPT !.state = t.placements[p].state]
        /\ t.reservations[p].claims = s.reservations[p].claims
        /\ p \notin Active(s) => t.reservations[p] = s.reservations[p]

EvidenceKept(s, t) ==
    \A r \in Resource :
        /\ t.resources[r].generation >= s.resources[r].generation
        /\ t.resources[r].generation = s.resources[r].generation =>
              t.resources[r] = [s.resources[r] EXCEPT !.reserved = t.resources[r].reserved]

Keeps(s, t) == LogKept(s, t) /\ EvidenceKept(s, t)

(* A state keeps itself. *)
LEMMA KeepsReflexive ==
    ASSUME NEW s \in SchedulerState PROVE Keeps(s, s)
<1>1. \A p \in Placements(s) : s.placements[p] \in PlacementRecord
  BY DEF Placements, SchedulerState, Absent
<1>2. \A r \in Resource : s.resources[r] \in ResourceRecord
  BY DEF SchedulerState
<1> QED BY <1>1, <1>2 DEF Keeps, LogKept, EvidenceKept, PlacementRecord, ResourceRecord

(* Keeping is transitive, so an action may be proved helper by helper. *)
LEMMA KeepsTransitive ==
    ASSUME NEW s \in SchedulerState, NEW t \in SchedulerState, NEW u \in SchedulerState,
           Keeps(s, t), Keeps(t, u)
    PROVE  Keeps(s, u)
<1>1. LogKept(s, u)
  <2> SUFFICES ASSUME NEW p \in Placements(s)
               PROVE /\ p \in Placements(u)
                     /\ s.placements[p].state \in EndStates => u.placements[p] = s.placements[p]
                     /\ u.placements[p] = [s.placements[p] EXCEPT !.state = u.placements[p].state]
                     /\ u.reservations[p].claims = s.reservations[p].claims
                     /\ p \notin Active(s) => u.reservations[p] = s.reservations[p]
    BY DEF LogKept
  <2>1. s.placements[p] \in PlacementRecord /\ p \in PlacementId
    BY DEF Placements, SchedulerState, Absent
  <2>2. /\ p \in Placements(t) /\ p \in Placements(u)
        /\ s.placements[p].state \in EndStates => t.placements[p] = s.placements[p]
        /\ t.placements[p].state \in EndStates => u.placements[p] = t.placements[p]
        /\ t.placements[p] = [s.placements[p] EXCEPT !.state = t.placements[p].state]
        /\ u.placements[p] = [t.placements[p] EXCEPT !.state = u.placements[p].state]
    BY DEF Keeps, LogKept
  <2>3. /\ t.reservations[p].claims = s.reservations[p].claims
        /\ u.reservations[p].claims = t.reservations[p].claims
        /\ p \notin Active(s) => t.reservations[p] = s.reservations[p]
        /\ p \notin Active(t) => u.reservations[p] = t.reservations[p]
    BY <2>2 DEF Keeps, LogKept
  <2>4. p \notin Active(s) => u.reservations[p] = s.reservations[p]
    BY <2>1, <2>3 DEF Active
  <2>5. u.placements[p] = [s.placements[p] EXCEPT !.state = u.placements[p].state]
    BY <2>1, <2>2 DEF PlacementRecord
  <2> QED BY <2>2, <2>3, <2>4, <2>5
<1>2. EvidenceKept(s, u)
  <2> SUFFICES ASSUME NEW r \in Resource
               PROVE /\ u.resources[r].generation >= s.resources[r].generation
                     /\ u.resources[r].generation = s.resources[r].generation =>
                          u.resources[r] = [s.resources[r] EXCEPT !.reserved = u.resources[r].reserved]
    BY DEF EvidenceKept
  <2>1. /\ s.resources[r] \in ResourceRecord
        /\ t.resources[r] \in ResourceRecord
        /\ u.resources[r] \in ResourceRecord
    BY DEF SchedulerState
  <2>2. /\ t.resources[r].generation >= s.resources[r].generation
        /\ u.resources[r].generation >= t.resources[r].generation
        /\ t.resources[r].generation = s.resources[r].generation =>
              t.resources[r] = [s.resources[r] EXCEPT !.reserved = t.resources[r].reserved]
        /\ u.resources[r].generation = t.resources[r].generation =>
              u.resources[r] = [t.resources[r] EXCEPT !.reserved = u.resources[r].reserved]
    BY DEF Keeps, EvidenceKept
  <2>3. /\ s.resources[r].generation \in Nat
        /\ t.resources[r].generation \in Nat
        /\ u.resources[r].generation \in Nat
    BY <2>1 DEF ResourceRecord
  <2>4. ASSUME u.resources[r].generation = s.resources[r].generation
        PROVE  u.resources[r] = [s.resources[r] EXCEPT !.reserved = u.resources[r].reserved]
    <3>1. /\ t.resources[r] = [s.resources[r] EXCEPT !.reserved = t.resources[r].reserved]
          /\ u.resources[r] = [t.resources[r] EXCEPT !.reserved = u.resources[r].reserved]
      BY <2>2, <2>3, <2>4
    <3> QED BY <2>1, <3>1 DEF ResourceRecord
  <2> QED BY <2>2, <2>3, <2>4
<1> QED BY <1>1, <1>2 DEF Keeps

-----------------------------------------------------------------------------
(* The parts of a well-formed state. *)
LEMMA Parts ==
    ASSUME NEW s \in SchedulerState
    PROVE  /\ \A p \in Placements(s) : p \in PlacementId /\ s.placements[p] \in PlacementRecord
           /\ \A p \in Live(s) : p \in Placements(s)
           /\ \A p \in Active(s) : p \in PlacementId /\ s.reservations[p] \in ReservationRecord
           /\ \A r \in Resource : s.resources[r] \in ResourceRecord
           /\ \A q \in Request : s.requests[q] \in StoredRequest
           /\ \A p \in PlacementId : p # NoPlacement
<1>1. \A p \in Placements(s) : p \in PlacementId /\ s.placements[p] \in PlacementRecord
  BY DEF Placements, SchedulerState, Absent
<1>2. \A p \in Live(s) : p \in Placements(s)
  BY DEF Placements, Live, LiveStates
<1>3. \A p \in Active(s) : p \in PlacementId /\ s.reservations[p] \in ReservationRecord
  BY DEF Active, SchedulerState, Absent
<1>4. /\ \A r \in Resource : s.resources[r] \in ResourceRecord
      /\ \A q \in Request : s.requests[q] \in StoredRequest
  BY DEF SchedulerState
<1>5. \A p \in PlacementId : p # NoPlacement
  BY DEF PlacementId, NoPlacement
<1> QED BY <1>1, <1>2, <1>3, <1>4, <1>5

(* Active reservations claim naturals. *)
LEMMA ActiveClaims ==
    ASSUME NEW s \in SchedulerState, NEW r \in Resource, NEW P \in SUBSET Active(s)
    PROVE  ClaimsAreNatural(s, P, r) /\ ClaimedSlots(s, P, r) \in Nat
<1>1. \A p \in P : s.reservations[p].claims[r] \in Nat
  BY Parts DEF ReservationRecord
<1>2. ClaimsAreNatural(s, P, r)
  BY <1>1 DEF ClaimsAreNatural, ClaimIn
<1> QED BY <1>2, ClaimedSlotsNatural, ConstantsAssumption

(***************************************************************************)
(* terminate_placement.                                                    *)
(***************************************************************************)
(* t is s with the live placements in P ended. *)
Ends(s, t, P, target) ==
    LET ending == P \cap Live(s)
    IN  /\ t \in SchedulerState
        /\ t.epoch = s.epoch /\ t.shuttingDown = s.shuttingDown /\ t.workers = s.workers
        /\ \A p \in PlacementId :
              /\ t.placements[p] = IF p \in ending
                                   THEN [s.placements[p] EXCEPT !.state = target]
                                   ELSE s.placements[p]
              /\ t.reservations[p] = IF p \in ending
                                     THEN [s.reservations[p] EXCEPT !.state = ClosesAs(target)]
                                     ELSE s.reservations[p]
        /\ \A q \in Request :
              t.requests[q] = IF s.requests[q].current \in ending
                              THEN [state |-> RequestOutcome(target), current |-> NoPlacement]
                              ELSE s.requests[q]
        /\ \A u \in Unit :
              t.unitCurrent[u] = IF s.unitCurrent[u] \in ending THEN NoPlacement
                                                              ELSE s.unitCurrent[u]
        /\ \A r \in Resource :
              /\ t.resources[r] = [s.resources[r] EXCEPT !.reserved = t.resources[r].reserved]
              /\ t.resources[r].reserved = s.resources[r].reserved - ClaimedSlots(s, ending, r)

(* terminate_placement ends exactly the live placements it is given, and the floor at zero in release_reservation never bites. *)
LEMMA TerminateEnds ==
    ASSUME NEW s, Inv(s), NEW P, NEW target \in EndStates
    PROVE  Ends(s, Terminate(s, P, target), P, target)
<1> DEFINE ending == P \cap Live(s)
           left(r) == s.resources[r].reserved - ClaimedSlots(s, ending, r)
           res == [r \in Resource |->
                     [s.resources[r] EXCEPT !.reserved = IF left(r) >= 0 THEN left(r) ELSE 0]]
           rsv == [p \in PlacementId |->
                     IF p \in ending THEN [s.reservations[p] EXCEPT !.state = ClosesAs(target)]
                                     ELSE s.reservations[p]]
           plc == [p \in PlacementId |->
                     IF p \in ending THEN [s.placements[p] EXCEPT !.state = target]
                                     ELSE s.placements[p]]
           req == [q \in Request |->
                     IF s.requests[q].current \in ending
                     THEN [state |-> RequestOutcome(target), current |-> NoPlacement]
                     ELSE s.requests[q]]
           cur == [u \in Unit |-> IF s.unitCurrent[u] \in ending THEN NoPlacement
                                                               ELSE s.unitCurrent[u]]
           t == Terminate(s, P, target)
<1>1. s \in SchedulerState /\ Live(s) = Active(s) /\ ending \subseteq Active(s)
  BY DEF Inv, Paired
<1>2. t = [s EXCEPT !.resources = res, !.reservations = rsv, !.placements = plc,
                    !.requests = req, !.unitCurrent = cur]
  <2>1. ending \cap Active(s) = ending
    BY <1>1
  <2>2. ReleaseReservations(s, ending, ClosesAs(target)) =
          [s EXCEPT !.resources = res, !.reservations = rsv]
    BY <2>1 DEF ReleaseReservations
  <2>3. t = [ReleaseReservations(s, ending, ClosesAs(target)) EXCEPT
                !.placements = plc, !.requests = req, !.unitCurrent = cur]
    BY DEF Terminate
  <2> HIDE DEF res, rsv, plc, req, cur, t
  <2> QED BY <1>1, <2>2, <2>3 DEF SchedulerState
<1>3. \A r \in Resource : left(r) \in Nat
  <2> TAKE r \in Resource
  <2>1. /\ ClaimsAreNatural(s, ending, r) /\ ClaimedSlots(s, ending, r) \in Nat
        /\ ClaimsAreNatural(s, Active(s) \ ending, r)
        /\ ClaimedSlots(s, Active(s) \ ending, r) \in Nat
    BY <1>1, ActiveClaims
  <2>2. \A n \in PlacementId : ClaimIn(s, Active(s), r, n) =
            ClaimIn(s, ending, r, n) + ClaimIn(s, Active(s) \ ending, r, n)
    BY <1>1, <2>1 DEF ClaimIn, ClaimsAreNatural
  <2>3. ClaimedSlots(s, Active(s), r) =
            ClaimedSlots(s, ending, r) + ClaimedSlots(s, Active(s) \ ending, r)
    <3>1. MaxPlacements \in Nat
      BY ConstantsAssumption
    <3> DEFINE rest == Active(s) \ ending
    <3> HIDE DEF ending, rest
    <3>2. /\ ClaimsAreNatural(s, ending, r) /\ ClaimsAreNatural(s, rest, r)
          /\ \A n \in PlacementId : ClaimIn(s, Active(s), r, n) =
                ClaimIn(s, ending, r, n) + ClaimIn(s, rest, r, n)
      BY <2>1, <2>2 DEF rest
    <3>3. ClaimedSlots(s, Active(s), r) = ClaimedSlots(s, ending, r) + ClaimedSlots(s, rest, r)
      BY <3>1, <3>2, ClaimedSlotsAdd
    <3> QED BY <3>3 DEF rest
  <2>4. s.resources[r].reserved = ClaimedSlots(s, Active(s), r)
    BY DEF Inv, Mirrored
  <2> QED BY <2>1, <2>3, <2>4
<1>4. \A r \in Resource : res[r] = [s.resources[r] EXCEPT !.reserved = left(r)]
  BY <1>3
<1>5. \A r \in Resource : /\ res[r] \in ResourceRecord /\ res[r].reserved = left(r)
                          /\ res[r] = [s.resources[r] EXCEPT !.reserved = res[r].reserved]
  <2> TAKE r \in Resource
  <2>1. s.resources[r] \in ResourceRecord /\ left(r) \in Nat
    BY <1>1, <1>3, Parts
  <2>2. res[r] = [s.resources[r] EXCEPT !.reserved = left(r)]
    BY <1>4
  <2> HIDE DEF res, left
  <2> QED BY <2>1, <2>2 DEF ResourceRecord
<1>6. rsv \in [PlacementId -> ReservationRecord \cup {Absent}]
  <2> SUFFICES ASSUME NEW p \in PlacementId
               PROVE  rsv[p] \in ReservationRecord \cup {Absent}
    OBVIOUS
  <2>1. s.reservations[p] \in ReservationRecord \cup {Absent}
    BY <1>1 DEF SchedulerState
  <2>2. p \in ending => s.reservations[p] \in ReservationRecord
    BY <1>1, Parts
  <2> QED BY <2>1, <2>2 DEF ReservationRecord, ClosesAs
<1>7. plc \in [PlacementId -> PlacementRecord \cup {Absent}]
  <2> SUFFICES ASSUME NEW p \in PlacementId
               PROVE  plc[p] \in PlacementRecord \cup {Absent}
    OBVIOUS
  <2>1. s.placements[p] \in PlacementRecord \cup {Absent}
    BY <1>1 DEF SchedulerState
  <2>2. p \in ending => s.placements[p] \in PlacementRecord
    BY <1>1, Parts
  <2> QED BY <2>1, <2>2 DEF PlacementRecord, EndStates
<1>8. req \in [Request -> StoredRequest]
  BY <1>1, Parts DEF StoredRequest, RequestOutcome
<1>9. cur \in [Unit -> PlacementId \cup {NoPlacement}]
  BY <1>1 DEF SchedulerState
<1>10. res \in [Resource -> ResourceRecord]
  <2>1. \A r \in Resource : res[r] \in ResourceRecord
    BY <1>5
  <2> HIDE DEF left
  <2> QED BY <2>1
<1>11. /\ t.resources = res /\ t.reservations = rsv /\ t.placements = plc
       /\ t.requests = req /\ t.unitCurrent = cur
       /\ t.epoch = s.epoch /\ t.shuttingDown = s.shuttingDown /\ t.workers = s.workers
       /\ t \in SchedulerState
  <2> HIDE DEF res, rsv, plc, req, cur, t
  <2> QED BY <1>1, <1>2, <1>6, <1>7, <1>8, <1>9, <1>10 DEF SchedulerState
<1> HIDE DEF t
<1>12. /\ \A p \in PlacementId :
             /\ t.placements[p] = IF p \in ending
                                  THEN [s.placements[p] EXCEPT !.state = target]
                                  ELSE s.placements[p]
             /\ t.reservations[p] = IF p \in ending
                                    THEN [s.reservations[p] EXCEPT !.state = ClosesAs(target)]
                                    ELSE s.reservations[p]
       /\ \A q \in Request :
             t.requests[q] = IF s.requests[q].current \in ending
                             THEN [state |-> RequestOutcome(target), current |-> NoPlacement]
                             ELSE s.requests[q]
       /\ \A u \in Unit :
             t.unitCurrent[u] = IF s.unitCurrent[u] \in ending THEN NoPlacement
                                                             ELSE s.unitCurrent[u]
  BY <1>11
<1>13. \A r \in Resource : /\ t.resources[r] = [s.resources[r] EXCEPT !.reserved = t.resources[r].reserved]
                           /\ t.resources[r].reserved = left(r)
  <2> HIDE DEF res, left
  <2> QED BY <1>5, <1>11
<1> QED BY <1>11, <1>12, <1>13 DEF t, Ends

(* Ending live placements keeps the invariant, the log and the evidence. *)
LEMMA EndsStep ==
    ASSUME NEW s, Inv(s), NEW P, NEW target \in EndStates, NEW t, Ends(s, t, P, target)
    PROVE  Inv(t) /\ Keeps(s, t) /\ Live(t) = Live(s) \ P
<1> DEFINE ending == P \cap Live(s)
<1>1. /\ s \in SchedulerState /\ t \in SchedulerState
      /\ Live(s) = Active(s) /\ ending \subseteq Active(s)
      /\ ending \subseteq Placements(s) /\ ending \subseteq PlacementId
  BY Parts DEF Inv, Paired, Ends
<1>2. \A p \in PlacementId :
         /\ t.placements[p] = IF p \in ending THEN [s.placements[p] EXCEPT !.state = target]
                                              ELSE s.placements[p]
         /\ t.reservations[p] = IF p \in ending
                                THEN [s.reservations[p] EXCEPT !.state = ClosesAs(target)]
                                ELSE s.reservations[p]
  BY DEF Ends
<1>3. \A p \in ending :
         /\ s.placements[p] \in PlacementRecord /\ s.reservations[p] \in ReservationRecord
         /\ t.placements[p] \in PlacementRecord /\ t.reservations[p] \in ReservationRecord
         /\ t.placements[p].state = target /\ t.reservations[p].state = ClosesAs(target)
         /\ t.reservations[p].claims = s.reservations[p].claims
         /\ t.placements[p].resources = s.placements[p].resources
         /\ t.placements[p].request = s.placements[p].request
  <2> TAKE p \in ending
  <2>1. s.placements[p] \in PlacementRecord /\ s.reservations[p] \in ReservationRecord
    BY <1>1, Parts
  <2>2. /\ t.placements[p] = [s.placements[p] EXCEPT !.state = target]
        /\ t.reservations[p] = [s.reservations[p] EXCEPT !.state = ClosesAs(target)]
    BY <1>1, <1>2
  <2> QED BY <2>1, <2>2 DEF PlacementRecord, ReservationRecord, EndStates, ClosesAs
<1>4. \A p \in PlacementId \ ending :
         t.placements[p] = s.placements[p] /\ t.reservations[p] = s.reservations[p]
  BY <1>2
<1>5. target \notin LiveStates /\ target # "Absent" /\ ClosesAs(target) # "Active"
  BY DEF EndStates, LiveStates, ClosesAs
<1> HIDE DEF ending
<1>6. Placements(t) = Placements(s)
  BY <1>1, <1>3, <1>4, <1>5 DEF Placements
<1>7. Live(t) = Live(s) \ ending
  BY <1>1, <1>3, <1>4, <1>5 DEF Live
<1>8. Active(t) = Active(s) \ ending
  BY <1>1, <1>3, <1>4, <1>5 DEF Active
<1>9. Dense(t)
  BY <1>6 DEF Inv, Dense
<1>10. Paired(t)
  <2>1. \A p \in PlacementId : t.placements[p] = Absent <=> t.reservations[p] = Absent
    <3> TAKE p \in PlacementId
    <3>1. CASE p \in ending
      BY <1>3, <3>1 DEF PlacementRecord, ReservationRecord, Absent, LiveStates, EndStates
    <3>2. CASE p \notin ending
      BY <1>4, <3>2 DEF Inv, Paired
    <3> QED BY <3>1, <3>2
  <2>2. ASSUME NEW p \in Placements(t), NEW r \in Resource
        PROVE  t.reservations[p].claims[r] > 0 <=> r \in t.placements[p].resources
    <3>1. s.reservations[p].claims[r] > 0 <=> r \in s.placements[p].resources
      BY <1>6 DEF Inv, Paired
    <3> QED BY <3>1, <1>1, <1>3, <1>4, <1>6, Parts
  <2> QED BY <1>1, <1>7, <1>8, <2>1, <2>2 DEF Paired
<1>11. \A r \in Resource :
          /\ t.resources[r] = [s.resources[r] EXCEPT !.reserved = t.resources[r].reserved]
          /\ t.resources[r].reserved = s.resources[r].reserved - ClaimedSlots(s, ending, r)
          /\ s.resources[r] \in ResourceRecord /\ t.resources[r] \in ResourceRecord
          /\ ClaimedSlots(s, ending, r) \in Nat
  BY <1>1, Parts, ActiveClaims DEF Ends, ending
<1>12. \A r \in Resource :
          /\ t.resources[r].lifecycle = s.resources[r].lifecycle
          /\ t.resources[r].slots = s.resources[r].slots
          /\ t.resources[r].occupancy = s.resources[r].occupancy
          /\ t.resources[r].generation = s.resources[r].generation
          /\ t.resources[r].reserved <= s.resources[r].reserved
          /\ t.resources[r].reserved \in Nat /\ s.resources[r].reserved \in Nat
          /\ s.resources[r].occupancy \in Nat /\ s.resources[r].slots \in Nat
  <2> TAKE r \in Resource
  <2>1. /\ t.resources[r] = [s.resources[r] EXCEPT !.reserved = t.resources[r].reserved]
        /\ s.resources[r] \in ResourceRecord /\ t.resources[r] \in ResourceRecord
    BY <1>11
  <2>2. /\ t.resources[r].lifecycle = s.resources[r].lifecycle
        /\ t.resources[r].slots = s.resources[r].slots
        /\ t.resources[r].occupancy = s.resources[r].occupancy
        /\ t.resources[r].generation = s.resources[r].generation
    BY <2>1 DEF ResourceRecord
  <2>3. /\ t.resources[r].reserved \in Nat /\ s.resources[r].reserved \in Nat
        /\ s.resources[r].occupancy \in Nat /\ s.resources[r].slots \in Nat
    BY <2>1 DEF ResourceRecord
  <2>4. /\ t.resources[r].reserved = s.resources[r].reserved - ClaimedSlots(s, ending, r)
        /\ ClaimedSlots(s, ending, r) \in Nat
    BY <1>11
  <2>5. t.resources[r].reserved <= s.resources[r].reserved
    BY <2>3, <2>4
  <2> QED BY <2>2, <2>3, <2>5
<1>13. Sized(t)
  <2> SUFFICES ASSUME NEW r \in Resource
               PROVE \/ t.resources[r] = UnregisteredResource
                     \/ t.resources[r].lifecycle # "Absent" /\ t.resources[r].slots > 0
    BY DEF Sized
  <2>1. CASE s.resources[r] = UnregisteredResource
    <3>1. t.resources[r].reserved = 0
      BY <1>12, <2>1 DEF UnregisteredResource
    <3>2. t.resources[r] = [s.resources[r] EXCEPT !.reserved = 0]
      BY <1>11, <3>1
    <3>3. s.resources[r] \in ResourceRecord /\ s.resources[r].reserved = 0
      <4>1. s.resources[r].reserved = 0
        BY <2>1 DEF UnregisteredResource
      <4> QED BY <1>11, <4>1
    <3>4. [s.resources[r] EXCEPT !.reserved = 0] = s.resources[r]
      BY <3>3 DEF ResourceRecord
    <3> QED BY <2>1, <3>2, <3>4
  <2>2. CASE s.resources[r].lifecycle # "Absent" /\ s.resources[r].slots > 0
    BY <1>12, <2>2
  <2> QED BY <2>1, <2>2 DEF Inv, Sized
<1>14. WithinSlots(t)
  <2> SUFFICES ASSUME NEW r \in Resource
               PROVE Occupied(t.resources[r]) <= t.resources[r].slots
    BY DEF WithinSlots
  <2>1. Occupied(s.resources[r]) <= s.resources[r].slots
    BY DEF Inv, WithinSlots
  <2> QED BY <1>12, <2>1 DEF Occupied
<1>15. Mirrored(t)
  <2> SUFFICES ASSUME NEW r \in Resource
               PROVE t.resources[r].reserved = ClaimedSlots(t, Active(t), r)
    BY DEF Mirrored
  <2> DEFINE rest == Active(s) \ ending
  <2>1. /\ ClaimsAreNatural(s, ending, r) /\ ClaimsAreNatural(s, rest, r)
        /\ ClaimedSlots(s, ending, r) \in Nat /\ ClaimedSlots(s, rest, r) \in Nat
    BY <1>1, ActiveClaims
  <2>2. \A n \in PlacementId :
           ClaimIn(s, Active(s), r, n) = ClaimIn(s, ending, r, n) + ClaimIn(s, rest, r, n)
    BY <1>1, <2>1 DEF ClaimIn, ClaimsAreNatural
  <2>3. \A n \in PlacementId : ClaimIn(t, Active(t), r, n) = ClaimIn(s, rest, r, n)
    BY <1>4, <1>8 DEF ClaimIn
  <2>4. MaxPlacements \in Nat
    BY ConstantsAssumption
  <2> HIDE DEF rest
  <2>5. ClaimedSlots(s, Active(s), r) = ClaimedSlots(s, ending, r) + ClaimedSlots(s, rest, r)
    BY <2>1, <2>2, <2>4, ClaimedSlotsAdd
  <2>6. ClaimedSlots(t, Active(t), r) = ClaimedSlots(s, rest, r)
    BY <2>1, <2>3, <2>4, ClaimedSlotsSame
  <2>7. s.resources[r].reserved = ClaimedSlots(s, Active(s), r)
    BY DEF Inv, Mirrored
  <2>8. t.resources[r].reserved = s.resources[r].reserved - ClaimedSlots(s, ending, r)
    BY <1>11
  <2> QED BY <2>1, <2>5, <2>6, <2>7, <2>8
<1>16. UnitsCurrent(t)
  <2> SUFFICES ASSUME NEW u \in Unit, t.unitCurrent[u] # NoPlacement
               PROVE  /\ t.unitCurrent[u] \in Live(t)
                      /\ UnitOfPlacement(t, t.unitCurrent[u]) = u
    BY DEF UnitsCurrent
  <2>1. t.unitCurrent[u] = s.unitCurrent[u] /\ s.unitCurrent[u] \notin ending
    BY DEF Ends, ending
  <2>2. s.unitCurrent[u] \in Live(s) /\ UnitOfPlacement(s, s.unitCurrent[u]) = u
    BY <2>1 DEF Inv, UnitsCurrent
  <2>3. t.placements[s.unitCurrent[u]] = s.placements[s.unitCurrent[u]]
    BY <1>1, <1>4, <2>1, <2>2, Parts
  <2> QED BY <1>7, <2>1, <2>2, <2>3 DEF UnitOfPlacement
<1>17. RequestsCurrent(t)
  <2> SUFFICES ASSUME NEW q \in Request
               PROVE  /\ t.requests[q].current # NoPlacement =>
                            /\ t.requests[q].current \in Live(t)
                            /\ t.placements[t.requests[q].current].request = q
                      /\ t.requests[q].state = "Placed" => t.requests[q].current # NoPlacement
    BY DEF RequestsCurrent
  <2>1. CASE s.requests[q].current \in ending
    <3>1. t.requests[q] = [state |-> RequestOutcome(target), current |-> NoPlacement]
      BY <2>1 DEF Ends, ending
    <3>2. RequestOutcome(target) # "Placed"
      BY DEF RequestOutcome
    <3> QED BY <3>1, <3>2
  <2>2. CASE s.requests[q].current \notin ending
    <3>1. t.requests[q] = s.requests[q]
      BY <2>2 DEF Ends, ending
    <3>2. /\ s.requests[q].current # NoPlacement =>
                /\ s.requests[q].current \in Live(s)
                /\ s.placements[s.requests[q].current].request = q
          /\ s.requests[q].state = "Placed" => s.requests[q].current # NoPlacement
      BY DEF Inv, RequestsCurrent
    <3>3. s.requests[q].current \in Live(s) =>
              /\ s.requests[q].current \in Live(t)
              /\ t.placements[s.requests[q].current] = s.placements[s.requests[q].current]
      BY <1>1, <1>4, <1>7, <2>2, Parts
    <3> QED BY <3>1, <3>2, <3>3
  <2> QED BY <2>1, <2>2
<1>18. LogKept(s, t)
  <2> SUFFICES ASSUME NEW p \in Placements(s)
               PROVE /\ p \in Placements(t)
                     /\ s.placements[p].state \in EndStates => t.placements[p] = s.placements[p]
                     /\ t.placements[p] = [s.placements[p] EXCEPT !.state = t.placements[p].state]
                     /\ t.reservations[p].claims = s.reservations[p].claims
                     /\ p \notin Active(s) => t.reservations[p] = s.reservations[p]
    BY DEF LogKept
  <2>1. p \in PlacementId /\ s.placements[p] \in PlacementRecord
    BY <1>1, Parts
  <2>2. CASE p \in ending
    <3>1. t.placements[p] = [s.placements[p] EXCEPT !.state = target]
      BY <1>2, <2>1, <2>2
    <3>2. s.placements[p].state \notin EndStates
      BY <2>2 DEF ending, Live, LiveStates, EndStates
    <3> QED BY <1>1, <1>3, <1>6, <2>2, <3>1, <3>2
  <2>3. CASE p \notin ending
    <3>1. t.placements[p] = s.placements[p] /\ t.reservations[p] = s.reservations[p]
      BY <1>4, <2>1, <2>3
    <3>2. s.placements[p] = [s.placements[p] EXCEPT !.state = s.placements[p].state]
      BY <2>1 DEF PlacementRecord
    <3> QED BY <1>6, <3>1, <3>2
  <2> QED BY <2>2, <2>3
<1>19. EvidenceKept(s, t)
  <2> SUFFICES ASSUME NEW r \in Resource
               PROVE /\ t.resources[r].generation >= s.resources[r].generation
                     /\ t.resources[r].generation = s.resources[r].generation =>
                          t.resources[r] = [s.resources[r] EXCEPT !.reserved = t.resources[r].reserved]
    BY DEF EvidenceKept
  <2>1. s.resources[r].generation \in Nat
    BY <1>11 DEF ResourceRecord
  <2> QED BY <1>11, <1>12, <2>1
<1>20. Live(t) = Live(s) \ P
  BY <1>7 DEF ending
<1> QED BY <1>1, <1>9, <1>10, <1>13, <1>14, <1>15, <1>16, <1>17, <1>18, <1>19, <1>20
           DEF Inv, Keeps

-----------------------------------------------------------------------------
(***************************************************************************)
(* Steps on workers and resources that leave the log and what it reserves. *)
(***************************************************************************)
SameBooks(s, t) ==
    /\ t.placements = s.placements /\ t.reservations = s.reservations
    /\ t.requests = s.requests /\ t.unitCurrent = s.unitCurrent
    /\ \A r \in Resource : t.resources[r].reserved = s.resources[r].reserved

(* A step that leaves the log, the requests and the reserved slots keeps the invariant. *)
LEMMA SameBooksStep ==
    ASSUME NEW s, Inv(s), NEW t \in SchedulerState, SameBooks(s, t), Sized(t), WithinSlots(t)
    PROVE  Inv(t) /\ LogKept(s, t)
<1>1. s \in SchedulerState /\ MaxPlacements \in Nat
  BY ConstantsAssumption DEF Inv
<1>2. Placements(t) = Placements(s) /\ Live(t) = Live(s) /\ Active(t) = Active(s)
  BY DEF SameBooks, Placements, Live, Active
<1>3. Dense(t) /\ Paired(t) /\ UnitsCurrent(t) /\ RequestsCurrent(t)
  <2>1. Dense(t)
    BY <1>2 DEF Inv, Dense
  <2>2. Paired(t)
    BY <1>2 DEF Inv, Paired, SameBooks
  <2>3. UnitsCurrent(t)
    BY <1>2 DEF Inv, UnitsCurrent, UnitOfPlacement, SameBooks
  <2>4. RequestsCurrent(t)
    BY <1>2 DEF Inv, RequestsCurrent, SameBooks
  <2> QED BY <2>1, <2>2, <2>3, <2>4
<1>4. Mirrored(t)
  <2> SUFFICES ASSUME NEW r \in Resource
               PROVE t.resources[r].reserved = ClaimedSlots(t, Active(t), r)
    BY DEF Mirrored
  <2>1. ClaimsAreNatural(s, Active(s), r)
    BY <1>1, ActiveClaims
  <2>2. \A n \in PlacementId : ClaimIn(t, Active(t), r, n) = ClaimIn(s, Active(s), r, n)
    BY <1>2 DEF ClaimIn, SameBooks
  <2>3. ClaimedSlots(t, Active(t), r) = ClaimedSlots(s, Active(s), r)
    BY <1>1, <2>1, <2>2, ClaimedSlotsSame
  <2> QED BY <2>3 DEF Inv, Mirrored, SameBooks
<1>5. LogKept(s, t)
  <2>1. LogKept(s, s)
    BY <1>1, KeepsReflexive DEF Keeps
  <2> QED BY <2>1, <1>2 DEF LogKept, SameBooks
<1> QED BY <1>3, <1>4, <1>5 DEF Inv

(* A resource that is unknown stays unknown. *)
UnknownKept(s, t) ==
    \A r \in Resource : s.resources[r] = UnregisteredResource => t.resources[r] = UnregisteredResource

Demote(s, w, b) ==
    [s EXCEPT !.resources = [r \in Resource |->
                  IF r \in OwnedBy(s, w, b) THEN LoseResource(s.resources[r])
                                            ELSE s.resources[r]],
              !.workers[w].connected = @ /\ s.workers[w].boot # b]

(* What the loss of a resource changes in its record. *)
LEMMA LoseResourceType ==
    ASSUME NEW x \in ResourceRecord
    PROVE  /\ LoseResource(x) \in ResourceRecord
           /\ LoseResource(x).reserved = x.reserved
           /\ LoseResource(x).slots = x.slots
           /\ LoseResource(x).occupancy = x.occupancy
           /\ LoseResource(x).lifecycle = "Lost"
           /\ LoseResource(x).generation = x.generation + 1
<1>1. LoseResource(x) = [x EXCEPT !.authoritative = FALSE, !.lifecycle = "Lost",
                                  !.healthy = FALSE, !.generation = x.generation + 1]
  BY DEF LoseResource
<1>2. x.generation + 1 \in Nat
  BY DEF ResourceRecord
<1> DEFINE n == x.generation + 1
<1> HIDE DEF n
<1> QED BY <1>1, <1>2 DEF ResourceRecord, n

(* Losing the resources of an incarnation keeps the invariant. *)
LEMMA DemoteStep ==
    ASSUME NEW s, Inv(s), NEW w \in Worker, NEW b
    PROVE  /\ Inv(Demote(s, w, b)) /\ Keeps(s, Demote(s, w, b)) /\ UnknownKept(s, Demote(s, w, b))
<1> DEFINE t == Demote(s, w, b)
           res == [r \in Resource |-> IF r \in OwnedBy(s, w, b) THEN LoseResource(s.resources[r])
                                                                ELSE s.resources[r]]
           wrk == [s.workers EXCEPT ![w].connected = @ /\ s.workers[w].boot # b]
<1>1. s \in SchedulerState /\ \A r \in Resource : s.resources[r] \in ResourceRecord
  BY Parts DEF Inv
<1>2. \A r \in Resource :
         /\ res[r] \in ResourceRecord
         /\ res[r].reserved = s.resources[r].reserved
         /\ res[r].slots = s.resources[r].slots
         /\ res[r].occupancy = s.resources[r].occupancy
         /\ r \in OwnedBy(s, w, b) => /\ res[r].lifecycle = "Lost"
                                      /\ res[r].generation = s.resources[r].generation + 1
         /\ r \notin OwnedBy(s, w, b) => res[r] = s.resources[r]
  <2> TAKE r \in Resource
  <2>1. s.resources[r] \in ResourceRecord
    BY <1>1
  <2>2. CASE r \in OwnedBy(s, w, b)
    <3>1. res[r] = LoseResource(s.resources[r])
      BY <2>2
    <3> HIDE DEF res
    <3> QED BY <2>1, <2>2, <3>1, LoseResourceType
  <2>3. CASE r \notin OwnedBy(s, w, b)
    BY <2>1, <2>3
  <2> QED BY <2>2, <2>3
<1>3. wrk \in [Worker -> WorkerRecord]
  <2>1. s.workers \in [Worker -> WorkerRecord]
    BY <1>1 DEF SchedulerState
  <2> QED BY <2>1 DEF WorkerRecord
<1>4. t = [s EXCEPT !.resources = res, !.workers = wrk]
  BY <1>1 DEF Demote, SchedulerState
<1>5. res \in [Resource -> ResourceRecord]
  BY <1>2
<1> HIDE DEF res, wrk
<1>6. t \in SchedulerState /\ t.resources = res
  <2> HIDE DEF t
  <2> QED BY <1>1, <1>3, <1>4, <1>5 DEF SchedulerState
<1>7. SameBooks(s, t)
  <2>1. /\ t.placements = s.placements /\ t.reservations = s.reservations
        /\ t.requests = s.requests /\ t.unitCurrent = s.unitCurrent
    <3> HIDE DEF t
    <3> QED BY <1>1, <1>4 DEF SchedulerState
  <2> QED BY <1>2, <1>6, <2>1 DEF SameBooks
<1> HIDE DEF t
<1>8. \A r \in Resource : s.resources[r] = UnregisteredResource => r \notin OwnedBy(s, w, b)
  BY DEF OwnedBy, UnregisteredResource
<1>9. Sized(t)
  <2> SUFFICES ASSUME NEW r \in Resource
               PROVE \/ t.resources[r] = UnregisteredResource
                     \/ t.resources[r].lifecycle # "Absent" /\ t.resources[r].slots > 0
    BY DEF Sized
  <2>1. \/ s.resources[r] = UnregisteredResource
        \/ s.resources[r].lifecycle # "Absent" /\ s.resources[r].slots > 0
    BY DEF Inv, Sized
  <2> QED BY <1>2, <1>6, <1>8, <2>1
<1>10. WithinSlots(t)
  <2> SUFFICES ASSUME NEW r \in Resource
               PROVE Occupied(t.resources[r]) <= t.resources[r].slots
    BY DEF WithinSlots
  <2>1. Occupied(s.resources[r]) <= s.resources[r].slots
    BY DEF Inv, WithinSlots
  <2> QED BY <1>2, <1>6, <2>1 DEF Occupied
<1>11. EvidenceKept(s, t)
  <2>1. \A r \in Resource : s.resources[r].generation \in Nat
    BY <1>1 DEF ResourceRecord
  <2>2. EvidenceKept(s, s)
    BY <1>1, KeepsReflexive DEF Keeps
  <2> QED BY <1>2, <1>6, <2>1, <2>2 DEF EvidenceKept
<1>12. UnknownKept(s, t)
  BY <1>2, <1>6, <1>8 DEF UnknownKept
<1>13. Inv(t) /\ LogKept(s, t)
  BY <1>6, <1>7, <1>9, <1>10, SameBooksStep
<1> QED BY <1>11, <1>12, <1>13 DEF Keeps, t

(* invalidate_worker_incarnation keeps the invariant, the log and the evidence. *)
LEMMA InvalidateStep ==
    ASSUME NEW s, Inv(s), NEW w \in Worker, NEW b
    PROVE  LET t == Invalidate(s, w, b)
           IN  Inv(t) /\ Keeps(s, t) /\ UnknownKept(s, t)
<1> DEFINE d == Demote(s, w, b)
           t == Invalidate(s, w, b)
<1>1. Inv(d) /\ Keeps(s, d) /\ UnknownKept(s, d)
  BY DemoteStep
<1>2. t = Terminate(d, TouchedBy(s, w, b), "ReassignmentRequired")
  BY DEF Invalidate, Demote
<1> HIDE DEF d, t
<1>3. Ends(d, t, TouchedBy(s, w, b), "ReassignmentRequired")
  BY <1>1, <1>2, TerminateEnds DEF EndStates
<1>4. Inv(t) /\ Keeps(d, t)
  BY <1>1, <1>3, EndsStep DEF EndStates
<1>5. UnknownKept(d, t)
  <2> SUFFICES ASSUME NEW r \in Resource, d.resources[r] = UnregisteredResource
               PROVE  t.resources[r] = UnregisteredResource
    BY DEF UnknownKept
  <2>1. /\ d.resources[r] \in ResourceRecord /\ t.resources[r] \in ResourceRecord
        /\ t.resources[r] = [d.resources[r] EXCEPT !.reserved = t.resources[r].reserved]
        /\ d.resources[r].reserved = 0 /\ t.resources[r].reserved = 0
    <3>1. d.resources[r] \in ResourceRecord /\ t.resources[r] \in ResourceRecord
      BY <1>1, <1>4, Parts DEF Inv
    <3>2. t.resources[r] = [d.resources[r] EXCEPT !.reserved = t.resources[r].reserved]
      BY <1>3 DEF Ends
    <3>3. d.resources[r].reserved = 0 /\ d.resources[r].lifecycle = "Absent"
      BY DEF UnregisteredResource
    <3>4. t.resources[r].lifecycle = "Absent"
      BY <3>1, <3>2, <3>3 DEF ResourceRecord
    <3>5. t.resources[r] = UnregisteredResource
      BY <1>4, <3>4 DEF Inv, Sized
    <3>6. t.resources[r].reserved = 0
      BY <3>5 DEF UnregisteredResource
    <3> QED BY <3>1, <3>2, <3>3, <3>6
  <2>2. [d.resources[r] EXCEPT !.reserved = 0] = d.resources[r]
    BY <2>1 DEF ResourceRecord
  <2> QED BY <2>1, <2>2
<1>6. Keeps(s, t)
  BY <1>1, <1>4, KeepsTransitive DEF Inv
<1>7. UnknownKept(s, t)
  BY <1>1, <1>5 DEF UnknownKept
<1> QED BY <1>4, <1>6, <1>7 DEF t

(* Only the epoch, the shutdown flag or the workers change. *)
LEMMA OutsideBooksStep ==
    ASSUME NEW s, Inv(s), NEW t \in SchedulerState, SameBooks(s, t), t.resources = s.resources
    PROVE  Inv(t) /\ Keeps(s, t) /\ UnknownKept(s, t)
<1>1. Sized(t) /\ WithinSlots(t)
  BY DEF Inv, Sized, WithinSlots
<1>2. EvidenceKept(s, t) /\ UnknownKept(s, t)
  <2>1. EvidenceKept(s, s)
    BY KeepsReflexive DEF Keeps, Inv
  <2> QED BY <2>1 DEF EvidenceKept, UnknownKept
<1> QED BY <1>1, <1>2, SameBooksStep DEF Keeps

(* adopt_worker_incarnation keeps the invariant, the log and the evidence. *)
LEMMA AdoptStep ==
    ASSUME NEW s, Inv(s), NEW w \in Worker, NEW b \in Boot
    PROVE  LET t == Adopt(s, w, b) IN Inv(t) /\ Keeps(s, t) /\ UnknownKept(s, t)
<1> DEFINE known == s.workers[w].boot
           f == IF known \in {NoBoot, b} THEN s ELSE Invalidate(s, w, known)
           t == Adopt(s, w, b)
<1>1. Inv(f) /\ Keeps(s, f) /\ UnknownKept(s, f)
  <2>1. CASE f = s
    <3>1. Keeps(s, s)
      BY KeepsReflexive DEF Inv
    <3> HIDE DEF f
    <3> QED BY <2>1, <3>1 DEF UnknownKept
  <2>2. CASE f = Invalidate(s, w, known)
    <3>1. LET i == Invalidate(s, w, known) IN Inv(i) /\ Keeps(s, i) /\ UnknownKept(s, i)
      BY InvalidateStep
    <3> HIDE DEF f
    <3> QED BY <2>2, <3>1
  <2> QED BY <2>1, <2>2
<1>2. t = [f EXCEPT !.workers[w] = [boot |-> b, connected |-> TRUE]]
  BY DEF Adopt
<1> HIDE DEF f, t
<1>3. f \in SchedulerState
  BY <1>1 DEF Inv
<1>4. t \in SchedulerState /\ SameBooks(f, t) /\ t.resources = f.resources
  BY <1>2, <1>3 DEF SchedulerState, WorkerRecord, SameBooks
<1>5. Inv(t) /\ Keeps(f, t) /\ UnknownKept(f, t)
  BY <1>1, <1>4, OutsideBooksStep
<1>6. Keeps(s, t)
  BY <1>1, <1>3, <1>4, <1>5, KeepsTransitive DEF Inv
<1>7. UnknownKept(s, t)
  BY <1>1, <1>5 DEF UnknownKept
<1> QED BY <1>5, <1>6, <1>7 DEF t

(* So does the adoption of the owner of a resource. *)
LEMMA AdoptOwnerStep ==
    ASSUME NEW s, Inv(s), NEW r \in Resource, NEW b, Owner[r] # NoWorker => b \in Boot
    PROVE  LET t == AdoptOwner(s, r, b) IN Inv(t) /\ Keeps(s, t) /\ UnknownKept(s, t)
<1>1. CASE Owner[r] = NoWorker
  <2>1. AdoptOwner(s, r, b) = s
    BY <1>1 DEF AdoptOwner
  <2>2. Keeps(s, s)
    BY KeepsReflexive DEF Inv
  <2> QED BY <2>1, <2>2 DEF UnknownKept
<1>2. CASE Owner[r] # NoWorker
  <2>1. AdoptOwner(s, r, b) = Adopt(s, Owner[r], b)
    BY <1>2 DEF AdoptOwner
  <2>2. Owner[r] \in Worker /\ b \in Boot
    BY <1>2, ConstantsAssumption
  <2> QED BY <2>1, <2>2, AdoptStep
<1> QED BY <1>1, <1>2

-----------------------------------------------------------------------------
(***************************************************************************)
(* The commit of schedule_locked.                                          *)
(***************************************************************************)
LEMMA NextPlacementIsFresh ==
    ASSUME NEW s, Inv(s), ~ LogIsFull(s)
    PROVE  /\ NextPlacement(s) \in PlacementId
           /\ s.placements[NextPlacement(s)] = Absent
           /\ s.reservations[NextPlacement(s)] = Absent
           /\ Placements(s) \cup {NextPlacement(s)} = 1 .. NextPlacement(s)
<1>1. s \in SchedulerState /\ MaxPlacements \in Nat
  BY ConstantsAssumption DEF Inv
<1>2. PICK k \in Nat : Placements(s) = 1 .. k
  BY DEF Inv, Dense
<1>3. Cardinality(Placements(s)) = k
  BY <1>2, FS_Interval
<1>4. ~ (k >= MaxPlacements)
  BY <1>3 DEF LogIsFull
<1>5. NextPlacement(s) = k + 1 /\ k + 1 \in PlacementId
  BY <1>1, <1>3, <1>4 DEF NextPlacement, PlacementId
<1>6. k + 1 \notin Placements(s) /\ Placements(s) \cup {k + 1} = 1 .. k + 1
  BY <1>2
<1>7. s.placements[k + 1] = Absent
  <2>1. s.placements[k + 1] \in PlacementRecord \cup {Absent}
    BY <1>1, <1>5 DEF SchedulerState
  <2>2. s.placements[k + 1].state = "Absent"
    BY <1>5, <1>6 DEF Placements
  <2> QED BY <2>1, <2>2 DEF PlacementRecord, LiveStates, EndStates
<1>8. s.reservations[k + 1] = Absent
  BY <1>5, <1>7 DEF Inv, Paired
<1> QED BY <1>5, <1>6, <1>7, <1>8

(* The worker and the boot a placement is assigned to are in range. *)
LEMMA HomeType ==
    ASSUME NEW s \in SchedulerState, NEW q \in Request, NEW sel \in [Positions(q) -> Resource]
    PROVE  /\ Home(s, sel).worker \in Worker \cup {NoWorker}
           /\ Home(s, sel).boot \in Boot \cup {NoBoot}
<1> DEFINE owned == {i \in DOMAIN sel : Owner[sel[i]] # NoWorker}
           compute == {i \in owned : sel[i] \notin Dataset}
           earliest(I) == sel[CHOOSE i \in I : \A j \in I : i <= j]
           host(r) == [worker |-> Owner[r], boot |-> s.resources[r].boot]
<1>1. Positions(q) \subseteq Nat
  BY DEF Positions
<1>2. ASSUME NEW I \in SUBSET DOMAIN sel, I # {} PROVE earliest(I) \in Resource
  <2>1. I \in SUBSET Nat
    BY <1>1
  <2>2. \E i \in I : \A j \in I : i <= j
    BY <1>2, <2>1, NatSetHasLeast
  <2>3. (CHOOSE i \in I : \A j \in I : i <= j) \in I
    BY <2>2
  <2> QED BY <2>3
<1>3. ASSUME NEW r \in Resource
      PROVE  host(r).worker \in Worker \cup {NoWorker} /\ host(r).boot \in Boot \cup {NoBoot}
  <2>1. Owner[r] \in Worker \cup {NoWorker}
    BY ConstantsAssumption
  <2>2. s.resources[r].boot \in Boot \cup {NoBoot}
    BY Parts DEF ResourceRecord
  <2> QED BY <2>1, <2>2
<1>4. Home(s, sel) = IF compute # {} THEN host(earliest(compute))
                     ELSE IF owned # {} THEN host(earliest(owned))
                     ELSE [worker |-> NoWorker, boot |-> NoBoot]
  BY DEF Home
<1>5. compute \in SUBSET DOMAIN sel /\ owned \in SUBSET DOMAIN sel
  OBVIOUS
<1>6. /\ compute # {} => earliest(compute) \in Resource
      /\ owned # {} => earliest(owned) \in Resource
  BY <1>2, <1>5
<1> HIDE DEF compute, owned, earliest, host
<1>7. CASE compute # {}
  BY <1>3, <1>4, <1>6, <1>7
<1>8. CASE compute = {} /\ owned # {}
  BY <1>3, <1>4, <1>6, <1>8
<1>9. CASE compute = {} /\ owned = {}
  BY <1>4, <1>9
<1> QED BY <1>7, <1>8, <1>9

(* A commit claims at least one slot of each selected resource, none of any other, and fits. *)
LEMMA ClaimsFit ==
    ASSUME NEW s, Inv(s), NEW q \in Request, NEW sel \in Selections(s, q), NEW r \in Resource
    PROVE  /\ ClaimOf(s, q, sel, r) \in Nat
           /\ ClaimOf(s, q, sel, r) > 0 <=> r \in Range(sel)
           /\ s.resources[r].lifecycle = "Absent" => ClaimOf(s, q, sel, r) = 0
           /\ Occupied(s.resources[r]) + ClaimOf(s, q, sel, r) <= s.resources[r].slots
<1>1. /\ s.resources[r] \in ResourceRecord
      /\ s.resources[r] = UnregisteredResource \/ s.resources[r].slots > 0
      /\ Occupied(s.resources[r]) <= s.resources[r].slots
  BY Parts DEF Inv, Sized, WithinSlots
<1>2. /\ s.resources[r].slots \in Nat /\ s.resources[r].occupancy \in Nat
      /\ s.resources[r].reserved \in Nat /\ Occupied(s.resources[r]) \in Nat
  <2>1. /\ s.resources[r].slots \in Nat /\ s.resources[r].occupancy \in Nat
        /\ s.resources[r].reserved \in Nat
    BY <1>1 DEF ResourceRecord
  <2> QED BY <2>1 DEF Occupied
<1>3. CASE r \notin Range(sel)
  BY <1>1, <1>2, <1>3 DEF ClaimOf
<1>4. CASE r \in Range(sel)
  <2> DEFINE i == CHOOSE j \in DOMAIN sel : sel[j] = r
             demand == Demand[q][i]
             slots == SlotsClaimed(s, demand, r)
  <2>1. i \in DOMAIN sel /\ sel[i] = r
    BY <1>4 DEF Range
  <2>2. i \in Positions(q) /\ r \in Eligible(s, demand)
    BY <2>1 DEF Selections
  <2>3. demand \in Requirement
    BY <2>2, ConstantsAssumption DEF Positions
  <2>4. ClaimOf(s, q, sel, r) = slots
    BY <1>4 DEF ClaimOf
  <2> HIDE DEF i
  <2>5. s.resources[r].lifecycle # "Absent" /\ Available(s.resources[r]) >= slots
    BY <2>2 DEF Eligible
  <2>6. s.resources[r].slots > 0
    BY <1>1, <2>5 DEF UnregisteredResource
  <2>7. slots \in Nat /\ slots > 0
    <3>1. demand.slots \in Nat /\ demand.slots > 0
      BY <2>3 DEF Requirement
    <3> QED BY <1>2, <2>6, <3>1 DEF SlotsClaimed
  <2> HIDE DEF demand, slots
  <2>8. Occupied(s.resources[r]) + slots <= s.resources[r].slots
    BY <1>2, <2>5, <2>7 DEF Available
  <2> QED BY <1>4, <2>4, <2>5, <2>7, <2>8
<1> QED BY <1>3, <1>4

(* t is s with one more placement p, its reservation, and what it claims. *)
Adds(s, t, p, q, claims) ==
    /\ t \in SchedulerState
    /\ t.placements = [s.placements EXCEPT ![p] = t.placements[p]]
    /\ t.reservations = [s.reservations EXCEPT ![p] = t.reservations[p]]
    /\ t.placements[p] \in PlacementRecord /\ t.reservations[p] \in ReservationRecord
    /\ t.placements[p].state = "Reserved" /\ t.reservations[p].state = "Active"
    /\ t.placements[p].request = q
    /\ t.reservations[p].claims = claims
    /\ \A r \in Resource : claims[r] > 0 <=> r \in t.placements[p].resources
    /\ \A r \in Resource :
          t.resources[r] = [s.resources[r] EXCEPT !.reserved = s.resources[r].reserved + claims[r]]
    /\ t.unitCurrent = [s.unitCurrent EXCEPT ![UnitOf[q]] = p]
    /\ t.requests = [s.requests EXCEPT ![q] = [state |-> "Placed", current |-> p]]

(* The commit of schedule_locked appends one placement with its reservation and its claims. *)
LEMMA CommitAdds ==
    ASSUME NEW s, Inv(s), ~ LogIsFull(s), NEW q \in Request, NEW sel \in Selections(s, q),
           NEW generation \in Nat, NEW reassignments \in Nat
    PROVE  Adds(s, Commit(s, q, sel, generation, reassignments), NextPlacement(s), q,
                [r \in Resource |-> ClaimOf(s, q, sel, r)])
<1> DEFINE t == Commit(s, q, sel, generation, reassignments)
           p == NextPlacement(s)
           home == Home(s, sel)
           claims == [r \in Resource |-> ClaimOf(s, q, sel, r)]
           observed == [r \in Resource |->
                           IF r \in Range(sel) THEN s.resources[r].generation ELSE 0]
           placement ==
               [state |-> "Reserved", request |-> q, generation |-> generation,
                epoch |-> s.epoch, reassignments |-> reassignments,
                resources |-> Range(sel), observed |-> observed,
                worker |-> home.worker, boot |-> home.boot]
           exclusive == {sel[i] : i \in {j \in DOMAIN sel :
                                     ClaimsExclusively(s, Demand[q][j], sel[j])}}
           reservation == [state |-> "Active", claims |-> claims, exclusive |-> exclusive]
           res == [r \in Resource |->
                      [s.resources[r] EXCEPT !.reserved = s.resources[r].reserved + claims[r]]]
<1>1. /\ s \in SchedulerState /\ p \in PlacementId
      /\ \A r \in Resource : s.resources[r] \in ResourceRecord
  BY NextPlacementIsFresh, Parts DEF Inv
<1>2. sel \in [Positions(q) -> Resource] /\ Range(sel) \subseteq Resource
  BY DEF Selections, Range
<1>3. claims \in [Resource -> Nat]
  BY ClaimsFit
<1>4. observed \in [Resource -> Nat]
  <2>1. \A r \in Resource : s.resources[r].generation \in Nat
    BY <1>1 DEF ResourceRecord
  <2> QED BY <2>1
<1>5. home.worker \in Worker \cup {NoWorker} /\ home.boot \in Boot \cup {NoBoot}
  BY <1>1, <1>2, HomeType
<1>6. s.epoch \in Nat
  BY <1>1 DEF SchedulerState
<1>7. exclusive \subseteq Resource
  BY <1>2
<1>8. t = [s EXCEPT !.placements[p] = placement, !.reservations[p] = reservation,
                    !.resources = res, !.unitCurrent[UnitOf[q]] = p,
                    !.requests[q] = [state |-> "Placed", current |-> p]]
  BY DEF Commit
<1>9. \A r \in Resource : claims[r] > 0 <=> r \in Range(sel)
  BY ClaimsFit
<1> HIDE DEF home, observed, exclusive, p
<1>10. /\ placement \in PlacementRecord /\ placement.state = "Reserved"
       /\ placement.request = q /\ placement.resources = Range(sel)
  BY <1>2, <1>4, <1>5, <1>6 DEF PlacementRecord, LiveStates
<1> HIDE DEF claims
<1>11. /\ reservation \in ReservationRecord /\ reservation.state = "Active"
       /\ reservation.claims = claims
  BY <1>3, <1>7 DEF ReservationRecord
<1>12. \A r \in Resource : res[r] \in ResourceRecord
  <2> TAKE r \in Resource
  <2> DEFINE total == s.resources[r].reserved + claims[r]
  <2>1. s.resources[r] \in ResourceRecord
    BY <1>1
  <2>2. total \in Nat
    BY <1>3, <2>1 DEF ResourceRecord
  <2>3. res[r] = [s.resources[r] EXCEPT !.reserved = total]
    OBVIOUS
  <2> HIDE DEF total, res
  <2> QED BY <2>1, <2>2, <2>3 DEF ResourceRecord
<1>13. UnitOf[q] \in Unit
  BY ConstantsAssumption
<1>14. \A r \in Resource :
          res[r] = [s.resources[r] EXCEPT !.reserved = s.resources[r].reserved + claims[r]]
  OBVIOUS
<1>15. res \in [Resource -> ResourceRecord]
  <2>1. res = [r \in Resource |-> res[r]]
    OBVIOUS
  <2> HIDE DEF res
  <2> QED BY <1>12, <2>1
<1> HIDE DEF placement, reservation, res, t
<1>16. /\ t.placements = [s.placements EXCEPT ![p] = placement]
       /\ t.reservations = [s.reservations EXCEPT ![p] = reservation]
       /\ t.resources = res
       /\ t.unitCurrent = [s.unitCurrent EXCEPT ![UnitOf[q]] = p]
       /\ t.requests = [s.requests EXCEPT ![q] = [state |-> "Placed", current |-> p]]
       /\ t.epoch = s.epoch /\ t.shuttingDown = s.shuttingDown /\ t.workers = s.workers
       /\ t = [epoch |-> t.epoch, shuttingDown |-> t.shuttingDown, workers |-> t.workers,
               resources |-> t.resources, requests |-> t.requests,
               placements |-> t.placements, reservations |-> t.reservations,
               unitCurrent |-> t.unitCurrent]
  BY <1>1, <1>8 DEF SchedulerState
<1>17. /\ t.placements \in [PlacementId -> PlacementRecord \cup {Absent}]
       /\ t.reservations \in [PlacementId -> ReservationRecord \cup {Absent}]
       /\ t.placements[p] = placement /\ t.reservations[p] = reservation
  BY <1>1, <1>10, <1>11, <1>16 DEF SchedulerState
<1>18. /\ t.unitCurrent \in [Unit -> PlacementId \cup {NoPlacement}]
       /\ t.requests \in [Request -> StoredRequest]
  BY <1>1, <1>13, <1>16 DEF SchedulerState, StoredRequest
<1>19. t \in SchedulerState
  BY <1>1, <1>15, <1>16, <1>17, <1>18 DEF SchedulerState
<1>20. /\ t.placements = [s.placements EXCEPT ![p] = t.placements[p]]
       /\ t.reservations = [s.reservations EXCEPT ![p] = t.reservations[p]]
       /\ t.placements[p] \in PlacementRecord /\ t.reservations[p] \in ReservationRecord
       /\ t.placements[p].state = "Reserved" /\ t.reservations[p].state = "Active"
       /\ t.placements[p].request = q
       /\ t.reservations[p].claims = claims
  BY <1>10, <1>11, <1>16, <1>17
<1>21. \A r \in Resource : claims[r] > 0 <=> r \in t.placements[p].resources
  BY <1>9, <1>10, <1>17
<1>22. \A r \in Resource :
          t.resources[r] = [s.resources[r] EXCEPT !.reserved = s.resources[r].reserved + claims[r]]
  BY <1>14, <1>16
<1>23. Adds(s, t, p, q, claims)
  BY <1>16, <1>19, <1>20, <1>21, <1>22 DEF Adds
<1> QED BY <1>23 DEF t, p, claims

(* The worker and boot of a placement are those of a selected resource. *)
LEMMA HomeIsOwner ==
    ASSUME NEW s, NEW q \in Request, NEW sel \in [Positions(q) -> Resource],
           Home(s, sel).worker # NoWorker
    PROVE  \E r \in Range(sel) : /\ Home(s, sel).worker = Owner[r]
                                 /\ Home(s, sel).boot = s.resources[r].boot
<1> DEFINE owned == {i \in DOMAIN sel : Owner[sel[i]] # NoWorker}
           compute == {i \in owned : sel[i] \notin Dataset}
           earliest(I) == sel[CHOOSE i \in I : \A j \in I : i <= j]
           host(r) == [worker |-> Owner[r], boot |-> s.resources[r].boot]
<1>1. Positions(q) \subseteq Nat
  BY DEF Positions
<1>2. ASSUME NEW I \in SUBSET DOMAIN sel, I # {} PROVE earliest(I) \in Range(sel)
  <2>1. I \in SUBSET Nat
    BY <1>1
  <2>2. \E i \in I : \A j \in I : i <= j
    BY <1>2, <2>1, NatSetHasLeast
  <2>3. (CHOOSE i \in I : \A j \in I : i <= j) \in I
    BY <2>2
  <2> QED BY <2>3 DEF Range
<1>3. \A r : host(r).worker = Owner[r] /\ host(r).boot = s.resources[r].boot
  OBVIOUS
<1>4. Home(s, sel) = IF compute # {} THEN host(earliest(compute))
                     ELSE IF owned # {} THEN host(earliest(owned))
                     ELSE [worker |-> NoWorker, boot |-> NoBoot]
  BY DEF Home
<1>5. compute \subseteq DOMAIN sel /\ owned \subseteq DOMAIN sel
  OBVIOUS
<1> HIDE DEF compute, owned, earliest, host
<1>6. CASE compute # {}
  BY <1>2, <1>3, <1>4, <1>5, <1>6
<1>7. CASE compute = {} /\ owned # {}
  BY <1>2, <1>3, <1>4, <1>5, <1>7
<1>8. CASE compute = {} /\ owned = {}
  <2>1. Home(s, sel).worker = NoWorker
    BY <1>4, <1>8
  <2> QED BY <2>1
<1> QED BY <1>6, <1>7, <1>8

(* The commit of schedule_locked leaves the workers alone and binds the placement to the incarnation of a selected resource. *)
LEMMA CommitBinds ==
    ASSUME NEW s, Inv(s), ~ LogIsFull(s), NEW q \in Request, NEW sel \in Selections(s, q),
           NEW generation \in Nat, NEW reassignments \in Nat
    PROVE  LET t == Commit(s, q, sel, generation, reassignments)
               bound == t.placements[NextPlacement(s)]
           IN  /\ t.workers = s.workers
               /\ bound.worker # NoWorker =>
                     \E r \in Range(sel) : /\ bound.worker = Owner[r]
                                          /\ bound.boot = s.resources[r].boot
<1> DEFINE t == Commit(s, q, sel, generation, reassignments)
           n == NextPlacement(s)
           home == Home(s, sel)
           claims == [r \in Resource |-> ClaimOf(s, q, sel, r)]
           observed == [r \in Resource |->
                           IF r \in Range(sel) THEN s.resources[r].generation ELSE 0]
           placement ==
               [state |-> "Reserved", request |-> q, generation |-> generation,
                epoch |-> s.epoch, reassignments |-> reassignments,
                resources |-> Range(sel), observed |-> observed,
                worker |-> home.worker, boot |-> home.boot]
           exclusive == {sel[i] : i \in {j \in DOMAIN sel :
                                     ClaimsExclusively(s, Demand[q][j], sel[j])}}
           reservation == [state |-> "Active", claims |-> claims, exclusive |-> exclusive]
           res == [r \in Resource |->
                      [s.resources[r] EXCEPT !.reserved = s.resources[r].reserved + claims[r]]]
<1>1. n \in PlacementId /\ s \in SchedulerState
  BY NextPlacementIsFresh DEF Inv
<1>2. t = [s EXCEPT !.placements[n] = placement, !.reservations[n] = reservation,
                    !.resources = res, !.unitCurrent[UnitOf[q]] = n,
                    !.requests[q] = [state |-> "Placed", current |-> n]]
  BY DEF Commit
<1>3. home.worker # NoWorker =>
         \E r \in Range(sel) : home.worker = Owner[r] /\ home.boot = s.resources[r].boot
  BY HomeIsOwner DEF Selections
<1> HIDE DEF home
<1>4. placement.worker = home.worker /\ placement.boot = home.boot
  OBVIOUS
<1> HIDE DEF placement, reservation, res, t, n
<1>5. t.workers = s.workers /\ t.placements[n] = placement
  BY <1>1, <1>2 DEF SchedulerState
<1>6. /\ t.workers = s.workers
      /\ t.placements[n].worker # NoWorker =>
            \E r \in Range(sel) : /\ t.placements[n].worker = Owner[r]
                                 /\ t.placements[n].boot = s.resources[r].boot
  BY <1>3, <1>4, <1>5
<1> QED BY <1>6 DEF t, n

(* Appending a placement whose claims fit keeps the invariant, the log and the evidence. *)
LEMMA AddsStep ==
    ASSUME NEW s, Inv(s), NEW p \in PlacementId, NEW q \in Request,
           NEW claims \in [Resource -> Nat], NEW t, Adds(s, t, p, q, claims),
           s.placements[p] = Absent, s.reservations[p] = Absent,
           p \in Nat, Placements(s) \cup {p} = 1 .. p,
           \A r \in Resource :
              /\ s.resources[r].lifecycle = "Absent" => claims[r] = 0
              /\ Occupied(s.resources[r]) + claims[r] <= s.resources[r].slots
    PROVE  Inv(t) /\ Keeps(s, t)
<1>1. /\ s \in SchedulerState /\ t \in SchedulerState /\ MaxPlacements \in Nat
      /\ UnitOf \in [Request -> Unit]
  BY ConstantsAssumption DEF Inv, Adds
<1>2. /\ t.placements[p] \in PlacementRecord /\ t.reservations[p] \in ReservationRecord
      /\ t.placements[p].state = "Reserved" /\ t.reservations[p].state = "Active"
      /\ t.placements[p].request = q
      /\ t.reservations[p].claims = claims
      /\ \A r \in Resource : claims[r] > 0 <=> r \in t.placements[p].resources
  BY DEF Adds
<1>3. \A o \in PlacementId : o # p =>
         t.placements[o] = s.placements[o] /\ t.reservations[o] = s.reservations[o]
  <2>1. /\ t.placements = [s.placements EXCEPT ![p] = t.placements[p]]
        /\ t.reservations = [s.reservations EXCEPT ![p] = t.reservations[p]]
    BY DEF Adds
  <2>2. DOMAIN s.placements = PlacementId /\ DOMAIN s.reservations = PlacementId
    BY <1>1 DEF SchedulerState
  <2> QED BY <2>1, <2>2
<1>4. p \notin Placements(s) /\ p \notin Live(s) /\ p \notin Active(s)
  BY DEF Placements, Live, Active, Absent, LiveStates
<1>5. Placements(t) = Placements(s) \cup {p}
  BY <1>2, <1>3 DEF Placements
<1>6. Live(t) = Live(s) \cup {p}
  BY <1>2, <1>3, <1>4 DEF Live, LiveStates
<1>7. Active(t) = Active(s) \cup {p}
  BY <1>2, <1>3, <1>4 DEF Active
<1>8. \A r \in Resource :
         /\ s.resources[r] \in ResourceRecord /\ t.resources[r] \in ResourceRecord
         /\ t.resources[r] = [s.resources[r] EXCEPT !.reserved = s.resources[r].reserved + claims[r]]
         /\ claims[r] \in Nat
  BY <1>1, Parts DEF Adds
<1>9. \A r \in Resource :
         /\ t.resources[r].lifecycle = s.resources[r].lifecycle
         /\ t.resources[r].slots = s.resources[r].slots
         /\ t.resources[r].occupancy = s.resources[r].occupancy
         /\ t.resources[r].generation = s.resources[r].generation
         /\ t.resources[r].reserved = s.resources[r].reserved + claims[r]
         /\ t.resources[r] = [s.resources[r] EXCEPT !.reserved = t.resources[r].reserved]
         /\ s.resources[r].reserved \in Nat /\ s.resources[r].slots \in Nat
         /\ s.resources[r].occupancy \in Nat /\ s.resources[r].generation \in Nat
  <2> TAKE r \in Resource
  <2> DEFINE total == s.resources[r].reserved + claims[r]
  <2>1. /\ s.resources[r] \in ResourceRecord /\ t.resources[r] \in ResourceRecord
        /\ t.resources[r] = [s.resources[r] EXCEPT !.reserved = total]
    BY <1>8
  <2> HIDE DEF total
  <2>2. /\ t.resources[r].lifecycle = s.resources[r].lifecycle
        /\ t.resources[r].slots = s.resources[r].slots
        /\ t.resources[r].occupancy = s.resources[r].occupancy
        /\ t.resources[r].generation = s.resources[r].generation
        /\ t.resources[r].reserved = total
    BY <2>1 DEF ResourceRecord
  <2>3. /\ s.resources[r].reserved \in Nat /\ s.resources[r].slots \in Nat
        /\ s.resources[r].occupancy \in Nat /\ s.resources[r].generation \in Nat
    BY <2>1 DEF ResourceRecord
  <2> QED BY <2>1, <2>2, <2>3 DEF total
<1>10. Dense(t)
  BY <1>5 DEF Dense
<1>11. Paired(t)
  <2>1. \A o \in PlacementId : t.placements[o] = Absent <=> t.reservations[o] = Absent
    <3> TAKE o \in PlacementId
    <3>1. CASE o = p
      BY <1>2, <3>1 DEF Absent
    <3>2. CASE o # p
      BY <1>3, <3>2 DEF Inv, Paired
    <3> QED BY <3>1, <3>2
  <2>2. ASSUME NEW o \in Placements(t), NEW r \in Resource
        PROVE  t.reservations[o].claims[r] > 0 <=> r \in t.placements[o].resources
    <3>1. CASE o = p
      BY <1>2, <3>1
    <3>2. CASE o # p
      <4>1. o \in Placements(s) /\ o \in PlacementId
        BY <1>1, <1>5, <3>2, Parts
      <4>2. s.reservations[o].claims[r] > 0 <=> r \in s.placements[o].resources
        BY <4>1 DEF Inv, Paired
      <4> QED BY <1>3, <3>2, <4>1, <4>2
    <3> QED BY <3>1, <3>2
  <2>3. Live(t) = Active(t)
    BY <1>6, <1>7 DEF Inv, Paired
  <2> QED BY <2>1, <2>2, <2>3 DEF Paired
<1>12. Sized(t)
  <2> SUFFICES ASSUME NEW r \in Resource
               PROVE \/ t.resources[r] = UnregisteredResource
                     \/ t.resources[r].lifecycle # "Absent" /\ t.resources[r].slots > 0
    BY DEF Sized
  <2>1. CASE s.resources[r] = UnregisteredResource
    <3>1. s.resources[r].lifecycle = "Absent" /\ s.resources[r].reserved = 0
      BY <2>1 DEF UnregisteredResource
    <3>2. t.resources[r].reserved = 0
      <4>1. claims[r] = 0 /\ t.resources[r].reserved = s.resources[r].reserved + claims[r]
        BY <1>9, <3>1
      <4> QED BY <3>1, <4>1
    <3>3. s.resources[r] = [s.resources[r] EXCEPT !.reserved = 0]
      BY <1>8, <3>1 DEF ResourceRecord
    <3>4. t.resources[r] = [s.resources[r] EXCEPT !.reserved = 0]
      BY <1>9, <3>2
    <3> QED BY <2>1, <3>3, <3>4
  <2>2. CASE s.resources[r].lifecycle # "Absent" /\ s.resources[r].slots > 0
    BY <1>9, <2>2
  <2> QED BY <2>1, <2>2 DEF Inv, Sized
<1>13. WithinSlots(t)
  <2> SUFFICES ASSUME NEW r \in Resource
               PROVE Occupied(t.resources[r]) <= t.resources[r].slots
    BY DEF WithinSlots
  <2>1. Occupied(s.resources[r]) + claims[r] <= s.resources[r].slots
    OBVIOUS
  <2>2. /\ t.resources[r].slots = s.resources[r].slots
        /\ t.resources[r].occupancy = s.resources[r].occupancy
        /\ t.resources[r].reserved = s.resources[r].reserved + claims[r]
        /\ s.resources[r].reserved \in Nat /\ s.resources[r].slots \in Nat
        /\ s.resources[r].occupancy \in Nat /\ claims[r] \in Nat
    BY <1>8, <1>9
  <2> QED BY <2>1, <2>2 DEF Occupied
<1>14. Mirrored(t)
  <2> SUFFICES ASSUME NEW r \in Resource
               PROVE t.resources[r].reserved = ClaimedSlots(t, Active(t), r)
    BY DEF Mirrored
  <2>1. ClaimsAreNatural(s, Active(s), r)
    BY <1>1, ActiveClaims
  <2>2. \A n \in PlacementId : ClaimIn(t, Active(s), r, n) = ClaimIn(s, Active(s), r, n)
    BY <1>3, <1>4 DEF ClaimIn
  <2>3. ClaimedSlots(t, Active(s), r) = ClaimedSlots(s, Active(s), r)
    BY <1>1, <2>1, <2>2, ClaimedSlotsSame
  <2>4. ClaimedSlots(t, {p}, r) = claims[r]
    <3>1. t.reservations[p].claims[r] \in Nat
      BY <1>2, <1>8
    <3>2. ClaimedSlots(t, {p}, r) = t.reservations[p].claims[r]
      BY <1>1, <3>1, ClaimedSlotsOne
    <3> QED BY <1>2, <3>2
  <2>5. ClaimsAreNatural(t, Active(s), r) /\ ClaimsAreNatural(t, {p}, r)
    BY <1>2, <1>8, <2>1, <2>2 DEF ClaimsAreNatural, ClaimIn
  <2>6. \A n \in PlacementId :
           ClaimIn(t, Active(t), r, n) = ClaimIn(t, Active(s), r, n) + ClaimIn(t, {p}, r, n)
    BY <1>2, <1>4, <1>7, <2>5 DEF ClaimsAreNatural, ClaimIn
  <2>7. ClaimedSlots(t, Active(t), r) = ClaimedSlots(t, Active(s), r) + ClaimedSlots(t, {p}, r)
    <3> DEFINE before == Active(s)
               after == Active(t)
               new == {p}
    <3> HIDE DEF before, after, new
    <3>1. /\ ClaimsAreNatural(t, before, r) /\ ClaimsAreNatural(t, new, r)
          /\ \A n \in PlacementId :
                ClaimIn(t, after, r, n) = ClaimIn(t, before, r, n) + ClaimIn(t, new, r, n)
      BY <2>5, <2>6 DEF before, after, new
    <3>2. ClaimedSlots(t, after, r) = ClaimedSlots(t, before, r) + ClaimedSlots(t, new, r)
      BY <1>1, <3>1, ClaimedSlotsAdd
    <3> QED BY <3>2 DEF before, after, new
  <2>8. s.resources[r].reserved = ClaimedSlots(s, Active(s), r)
    BY DEF Inv, Mirrored
  <2> QED BY <1>9, <2>3, <2>4, <2>7, <2>8
<1>15. UnitsCurrent(t)
  <2> SUFFICES ASSUME NEW u \in Unit, t.unitCurrent[u] # NoPlacement
               PROVE  /\ t.unitCurrent[u] \in Live(t)
                      /\ UnitOfPlacement(t, t.unitCurrent[u]) = u
    BY DEF UnitsCurrent
  <2>1. t.unitCurrent[u] = IF u = UnitOf[q] THEN p ELSE s.unitCurrent[u]
    BY <1>1 DEF Adds, SchedulerState
  <2>2. CASE u = UnitOf[q]
    BY <1>2, <1>6, <2>1, <2>2 DEF UnitOfPlacement
  <2>3. CASE u # UnitOf[q]
    <3>1. s.unitCurrent[u] \in Live(s) /\ UnitOfPlacement(s, s.unitCurrent[u]) = u
      BY <2>1, <2>3 DEF Inv, UnitsCurrent
    <3>2. s.unitCurrent[u] \in PlacementId /\ s.unitCurrent[u] # p
      BY <1>4, <3>1 DEF Live
    <3>3. t.placements[s.unitCurrent[u]] = s.placements[s.unitCurrent[u]]
      BY <1>3, <3>2
    <3> QED BY <1>6, <2>1, <2>3, <3>1, <3>3 DEF UnitOfPlacement
  <2> QED BY <2>2, <2>3
<1>16. RequestsCurrent(t)
  <2> SUFFICES ASSUME NEW o \in Request
               PROVE  /\ t.requests[o].current # NoPlacement =>
                            /\ t.requests[o].current \in Live(t)
                            /\ t.placements[t.requests[o].current].request = o
                      /\ t.requests[o].state = "Placed" => t.requests[o].current # NoPlacement
    BY DEF RequestsCurrent
  <2>1. t.requests[o] = IF o = q THEN [state |-> "Placed", current |-> p] ELSE s.requests[o]
    BY <1>1 DEF Adds, SchedulerState
  <2>2. CASE o = q
    <3>1. p # NoPlacement
      BY <1>1, Parts
    <3> QED BY <1>2, <1>6, <2>1, <2>2, <3>1
  <2>3. CASE o # q
    <3>1. /\ s.requests[o].current # NoPlacement =>
                /\ s.requests[o].current \in Live(s)
                /\ s.placements[s.requests[o].current].request = o
          /\ s.requests[o].state = "Placed" => s.requests[o].current # NoPlacement
      BY DEF Inv, RequestsCurrent
    <3>2. s.requests[o].current \in Live(s) =>
              /\ s.requests[o].current \in Live(t)
              /\ t.placements[s.requests[o].current] = s.placements[s.requests[o].current]
      BY <1>3, <1>4, <1>6 DEF Live
    <3> QED BY <2>1, <2>3, <3>1, <3>2
  <2> QED BY <2>2, <2>3
<1>17. LogKept(s, t)
  <2>1. LogKept(s, s)
    BY <1>1, KeepsReflexive DEF Keeps
  <2>2. \A o \in Placements(s) : o \in PlacementId /\ o # p
    BY <1>1, <1>4, Parts
  <2> QED BY <1>3, <1>5, <2>1, <2>2 DEF LogKept
<1>18. EvidenceKept(s, t)
  BY <1>9 DEF EvidenceKept
<1> QED BY <1>1, <1>10, <1>11, <1>12, <1>13, <1>14, <1>15, <1>16, <1>17, <1>18 DEF Inv, Keeps

(* Hence the commit does. *)
LEMMA CommitStep ==
    ASSUME NEW s, Inv(s), ~ LogIsFull(s), NEW q \in Request, NEW sel \in Selections(s, q),
           NEW generation \in Nat, NEW reassignments \in Nat
    PROVE  LET t == Commit(s, q, sel, generation, reassignments) IN Inv(t) /\ Keeps(s, t)
<1> DEFINE t == Commit(s, q, sel, generation, reassignments)
           p == NextPlacement(s)
           claims == [r \in Resource |-> ClaimOf(s, q, sel, r)]
<1>1. Adds(s, t, p, q, claims)
  BY CommitAdds
<1>2. /\ p \in PlacementId /\ s.placements[p] = Absent /\ s.reservations[p] = Absent
      /\ Placements(s) \cup {p} = 1 .. p
  BY NextPlacementIsFresh
<1>3. p \in Nat
  BY <1>2 DEF PlacementId
<1>4. /\ claims \in [Resource -> Nat]
      /\ \A r \in Resource :
            /\ s.resources[r].lifecycle = "Absent" => claims[r] = 0
            /\ Occupied(s.resources[r]) + claims[r] <= s.resources[r].slots
  BY ClaimsFit
<1> HIDE DEF t, p, claims
<1>5. Inv(t) /\ Keeps(s, t)
  BY <1>1, <1>2, <1>3, <1>4, AddsStep
<1> QED BY <1>5 DEF t

-----------------------------------------------------------------------------
(* Edits of one request, of one live placement and of one resource. *)
LEMMA RequestEditStep ==
    ASSUME NEW s, Inv(s), NEW q \in Request, NEW x \in StoredRequest, x.state # "Placed",
           x.current \in {NoPlacement, s.requests[q].current}
    PROVE  LET t == [s EXCEPT !.requests[q] = x] IN Inv(t) /\ Keeps(s, t)
<1> DEFINE t == [s EXCEPT !.requests[q] = x]
<1>1. s \in SchedulerState /\ MaxPlacements \in Nat
  BY ConstantsAssumption DEF Inv
<1>2. /\ t \in SchedulerState
      /\ t.placements = s.placements /\ t.reservations = s.reservations
      /\ t.unitCurrent = s.unitCurrent /\ t.resources = s.resources
      /\ \A o \in Request : t.requests[o] = IF o = q THEN x ELSE s.requests[o]
  BY <1>1 DEF SchedulerState
<1> HIDE DEF t
<1>3. Placements(t) = Placements(s) /\ Live(t) = Live(s) /\ Active(t) = Active(s)
  BY <1>2 DEF Placements, Live, Active
<1>4. Dense(t) /\ Sized(t) /\ WithinSlots(t)
  BY <1>2, <1>3 DEF Inv, Dense, Sized, WithinSlots
<1>5. Paired(t) /\ UnitsCurrent(t)
  BY <1>2, <1>3 DEF Inv, Paired, UnitsCurrent, UnitOfPlacement
<1>6. RequestsCurrent(t)
  BY <1>2, <1>3 DEF Inv, RequestsCurrent
<1>7. Mirrored(t)
  <2> SUFFICES ASSUME NEW r \in Resource
               PROVE t.resources[r].reserved = ClaimedSlots(t, Active(t), r)
    BY DEF Mirrored
  <2>1. ClaimsAreNatural(s, Active(s), r)
    BY <1>1, ActiveClaims
  <2>2. \A n \in PlacementId : ClaimIn(t, Active(t), r, n) = ClaimIn(s, Active(s), r, n)
    BY <1>2, <1>3 DEF ClaimIn
  <2>3. ClaimedSlots(t, Active(t), r) = ClaimedSlots(s, Active(s), r)
    BY <1>1, <2>1, <2>2, ClaimedSlotsSame
  <2> QED BY <1>2, <2>3 DEF Inv, Mirrored
<1>8. Keeps(s, t)
  <2>1. Keeps(s, s)
    BY <1>1, KeepsReflexive
  <2> QED BY <1>2, <1>3, <2>1 DEF Keeps, LogKept, EvidenceKept
<1> QED BY <1>2, <1>4, <1>5, <1>6, <1>7, <1>8 DEF Inv, t

(* A live placement may take any live state. *)
LEMMA PlacementEditStep ==
    ASSUME NEW s, Inv(s), NEW p \in Live(s), NEW x \in LiveStates
    PROVE  LET t == [s EXCEPT !.placements[p].state = x] IN Inv(t) /\ Keeps(s, t)
<1> DEFINE t == [s EXCEPT !.placements[p].state = x]
           edited == [s.placements[p] EXCEPT !.state = x]
<1>1. /\ s \in SchedulerState /\ MaxPlacements \in Nat
      /\ p \in PlacementId /\ p \in Placements(s) /\ s.placements[p] \in PlacementRecord
  BY ConstantsAssumption, Parts DEF Inv
<1>2. /\ edited \in PlacementRecord /\ edited.state = x
      /\ edited.request = s.placements[p].request
      /\ edited.resources = s.placements[p].resources
  BY <1>1 DEF PlacementRecord
<1>3. t = [s EXCEPT !.placements[p] = edited]
  OBVIOUS
<1> HIDE DEF t, edited
<1>4. /\ t \in SchedulerState
      /\ t.reservations = s.reservations /\ t.requests = s.requests
      /\ t.unitCurrent = s.unitCurrent /\ t.resources = s.resources
      /\ \A o \in PlacementId : t.placements[o] = IF o = p THEN edited ELSE s.placements[o]
  BY <1>1, <1>2, <1>3 DEF SchedulerState
<1>5. x \in LiveStates /\ x # "Absent" /\ s.placements[p].state \in LiveStates
  BY DEF LiveStates, Live
<1>6. Placements(t) = Placements(s) /\ Live(t) = Live(s) /\ Active(t) = Active(s)
  <2>1. Placements(t) = Placements(s)
    BY <1>1, <1>2, <1>4, <1>5 DEF Placements
  <2>2. Live(t) = Live(s)
    BY <1>1, <1>2, <1>4, <1>5 DEF Live
  <2> QED BY <1>4, <2>1, <2>2 DEF Active
<1>7. \A o \in PlacementId :
         /\ t.placements[o] = Absent <=> s.placements[o] = Absent
         /\ t.placements[o].request = s.placements[o].request
         /\ t.placements[o].resources = s.placements[o].resources
  BY <1>1, <1>2, <1>4, <1>5 DEF Absent, LiveStates
<1>8. \A o \in Placements(s) : o \in PlacementId
  BY <1>1, Parts
<1>9. Dense(t) /\ Sized(t) /\ WithinSlots(t)
  BY <1>4, <1>6 DEF Inv, Dense, Sized, WithinSlots
<1>10. Paired(t)
  BY <1>4, <1>6, <1>7, <1>8 DEF Inv, Paired
<1>11. UnitsCurrent(t)
  BY <1>4, <1>6, <1>7 DEF Inv, UnitsCurrent, UnitOfPlacement, Live
<1>12. RequestsCurrent(t)
  BY <1>4, <1>6, <1>7 DEF Inv, RequestsCurrent, Live
<1>13. Mirrored(t)
  <2> SUFFICES ASSUME NEW r \in Resource
               PROVE t.resources[r].reserved = ClaimedSlots(t, Active(t), r)
    BY DEF Mirrored
  <2>1. ClaimsAreNatural(s, Active(s), r)
    BY <1>1, ActiveClaims
  <2>2. \A n \in PlacementId : ClaimIn(t, Active(t), r, n) = ClaimIn(s, Active(s), r, n)
    BY <1>4, <1>6 DEF ClaimIn
  <2>3. ClaimedSlots(t, Active(t), r) = ClaimedSlots(s, Active(s), r)
    BY <1>1, <2>1, <2>2, ClaimedSlotsSame
  <2> QED BY <1>4, <2>3 DEF Inv, Mirrored
<1>14. Keeps(s, t)
  <2>1. Keeps(s, s)
    BY <1>1, KeepsReflexive
  <2>2. EvidenceKept(s, t)
    BY <1>4, <2>1 DEF Keeps, EvidenceKept
  <2>3. LogKept(s, t)
    <3> SUFFICES ASSUME NEW o \in Placements(s)
                 PROVE /\ o \in Placements(t)
                       /\ s.placements[o].state \in EndStates => t.placements[o] = s.placements[o]
                       /\ t.placements[o] = [s.placements[o] EXCEPT !.state = t.placements[o].state]
                       /\ t.reservations[o].claims = s.reservations[o].claims
                       /\ o \notin Active(s) => t.reservations[o] = s.reservations[o]
      BY DEF LogKept
    <3>1. CASE o = p
      <4>1. s.placements[p].state \notin EndStates
        BY <1>5 DEF LiveStates, EndStates
      <4>2. t.placements[p] = [s.placements[p] EXCEPT !.state = t.placements[p].state]
        BY <1>1, <1>2, <1>4 DEF edited
      <4> QED BY <1>4, <1>6, <3>1, <4>1, <4>2
    <3>2. CASE o # p
      <4>1. t.placements[o] = s.placements[o]
        BY <1>4, <1>8, <3>2
      <4>2. s.placements[o] = [s.placements[o] EXCEPT !.state = s.placements[o].state]
        BY <2>1 DEF Keeps, LogKept
      <4> QED BY <1>4, <1>6, <4>1, <4>2
    <3> QED BY <3>1, <3>2
  <2> QED BY <2>2, <2>3 DEF Keeps
<1> QED BY <1>4, <1>9, <1>10, <1>11, <1>12, <1>13, <1>14 DEF Inv, t

(* A resource may take any record that fits and has a newer generation. *)
LEMMA ResourceEditStep ==
    ASSUME NEW s, Inv(s), NEW r \in Resource, NEW x \in ResourceRecord,
           x.reserved = s.resources[r].reserved, x.lifecycle # "Absent", x.slots > 0,
           Occupied(x) <= x.slots, x.generation > s.resources[r].generation
    PROVE  LET t == [s EXCEPT !.resources[r] = x] IN Inv(t) /\ Keeps(s, t)
<1> DEFINE t == [s EXCEPT !.resources[r] = x]
<1>1. s \in SchedulerState
  BY DEF Inv
<1>2. /\ t \in SchedulerState
      /\ t.placements = s.placements /\ t.reservations = s.reservations
      /\ t.requests = s.requests /\ t.unitCurrent = s.unitCurrent
      /\ \A o \in Resource : t.resources[o] = IF o = r THEN x ELSE s.resources[o]
  BY <1>1 DEF SchedulerState
<1> HIDE DEF t
<1>3. SameBooks(s, t) /\ Sized(t) /\ WithinSlots(t)
  BY <1>2 DEF Inv, SameBooks, Sized, WithinSlots
<1>4. Inv(t) /\ LogKept(s, t)
  BY <1>2, <1>3, SameBooksStep
<1>5. EvidenceKept(s, t)
  <2>1. EvidenceKept(s, s)
    BY <1>1, KeepsReflexive DEF Keeps
  <2>2. x.generation \in Nat /\ s.resources[r].generation \in Nat
    BY <1>1, Parts DEF ResourceRecord
  <2> QED BY <1>2, <2>1, <2>2 DEF EvidenceKept
<1> QED BY <1>4, <1>5 DEF Keeps, t

(* schedule_locked keeps the invariant, whatever it decides. *)
LEMMA ScheduleStep ==
    ASSUME NEW s, Inv(s), NEW q \in Request, NEW generation \in Nat, NEW reassignments \in Nat,
           NEW t \in Schedule(s, q, generation, reassignments)
    PROVE  Inv(t) /\ Keeps(s, t)
<1>1. CASE t = RejectRequest(s, q)
  <2> DEFINE x == [state |-> "NoPlacement", current |-> NoPlacement]
  <2>1. x \in StoredRequest /\ x.state # "Placed" /\ x.current = NoPlacement
    BY DEF StoredRequest
  <2>2. t = [s EXCEPT !.requests[q] = x]
    BY <1>1 DEF RejectRequest
  <2> HIDE DEF x
  <2> QED BY <2>1, <2>2, RequestEditStep
<1>2. CASE t = s
  BY <1>2, KeepsReflexive DEF Inv
<1>3. ASSUME NEW sel \in Selections(s, q), ~ LogIsFull(s),
             t = Commit(s, q, sel, generation, reassignments)
      PROVE  Inv(t) /\ Keeps(s, t)
  BY <1>3, CommitStep
<1>4. \/ t = RejectRequest(s, q)
      \/ \E sel \in Selections(s, q) :
            t = IF LogIsFull(s) THEN s ELSE Commit(s, q, sel, generation, reassignments)
  BY DEF Schedule
<1> QED BY <1>1, <1>2, <1>3, <1>4

(* terminate_placement keeps the invariant, the log and the evidence. *)
LEMMA TerminateStep ==
    ASSUME NEW s, Inv(s), NEW P, NEW target \in EndStates
    PROVE  LET t == Terminate(s, P, target)
           IN  Inv(t) /\ Keeps(s, t)
<1> DEFINE t == Terminate(s, P, target)
<1>1. Ends(s, t, P, target)
  BY TerminateEnds
<1> HIDE DEF t
<1>2. Inv(t) /\ Keeps(s, t)
  BY <1>1, EndsStep
<1> QED BY <1>2 DEF t

-----------------------------------------------------------------------------
(***************************************************************************)
(* One lemma per operation of the engine.                                  *)
(***************************************************************************)
LEMMA CurrentRecordType ==
    ASSUME NEW ad \in Advertisement, NEW b \in Boot \cup {NoBoot}, NEW generation \in Nat,
           NEW reserved \in Nat
    PROVE  LET x == CurrentRecord(ad, b, generation, reserved)
           IN  /\ x \in ResourceRecord
               /\ x.reserved = reserved /\ x.generation = generation
               /\ x.lifecycle # "Absent" /\ x.slots > 0 /\ x.slots = ad.slots
               /\ Occupied(x) = ad.occupancy + reserved
<1>1. /\ ad.sharing \in {"Shared", "Exclusive"} /\ ad.slots \in Nat /\ ad.slots > 0
      /\ ad.occupancy \in Nat /\ ad.healthy \in BOOLEAN
  BY DEF Advertisement
<1> QED BY <1>1 DEF CurrentRecord, ResourceRecord, Occupied

(* The boots that may speak for a resource. *)
LEMMA BootsOfType ==
    ASSUME NEW s, NEW r \in Resource, NEW b \in BootsOf(s, r)
    PROVE  b \in Boot \cup {NoBoot} /\ (Owner[r] # NoWorker => b \in Boot)
BY DEF BootsOf, Deliverable

(* An advertisement is well formed and fits its own slots. *)
LEMMA AdvertisedType ==
    ASSUME NEW r \in Resource, NEW ad \in Advertised[r]
    PROVE  ad \in Advertisement /\ ad.occupancy <= ad.slots /\ ad.occupancy \in Nat
<1>1. ad \in Advertisement /\ ad.occupancy <= ad.slots
  BY ConstantsAssumption
<1> QED BY <1>1 DEF Advertisement

(* register_resource. *)
LEMMA RegisterResourceStep ==
    ASSUME Inv(state), NEW r \in Resource, NEW b \in Boot \cup {NoBoot},
           Owner[r] # NoWorker => b \in Boot,
           NEW ad \in Advertised[r], RegisterResource(r, b, ad)
    PROVE  Inv(state') /\ Keeps(state, state')
<1> DEFINE a == AdoptOwner(state, r, b)
           x == CurrentRecord(ad, b, 1, 0)
<1>1. Inv(a) /\ Keeps(state, a) /\ UnknownKept(state, a)
  BY AdoptOwnerStep
<1>2. a.resources[r] = UnregisteredResource
  BY <1>1 DEF RegisterResource, Inv, Sized, UnknownKept, Registrable
<1>3. a.resources[r].reserved = 0 /\ a.resources[r].generation = 0
  BY <1>2 DEF UnregisteredResource
<1>4. /\ x \in ResourceRecord /\ x.reserved = 0 /\ x.generation = 1
      /\ x.lifecycle # "Absent" /\ x.slots > 0 /\ x.slots = ad.slots
      /\ Occupied(x) = ad.occupancy + 0
  <2>1. ad \in Advertisement
    BY AdvertisedType
  <2>2. 0 \in Nat /\ 1 \in Nat
    OBVIOUS
  <2>3. LET y == CurrentRecord(ad, b, 1, 0)
        IN  /\ y \in ResourceRecord
            /\ y.reserved = 0 /\ y.generation = 1
            /\ y.lifecycle # "Absent" /\ y.slots > 0 /\ y.slots = ad.slots
            /\ Occupied(y) = ad.occupancy + 0
    BY <2>1, <2>2, CurrentRecordType
  <2> QED BY <2>3
<1>5. Occupied(x) <= x.slots
  BY <1>4, AdvertisedType
<1>6. state' = [a EXCEPT !.resources[r] = x]
  BY DEF RegisterResource, Become, Registrable
<1> HIDE DEF a, x
<1>7. Inv(state') /\ Keeps(a, state')
  BY <1>1, <1>3, <1>4, <1>5, <1>6, ResourceEditStep
<1> QED BY <1>1, <1>7, KeepsTransitive DEF Inv

(* publish_resource_state. *)
LEMMA PublishResourceStateStep ==
    ASSUME Inv(state), NEW r \in Resource, NEW b \in Boot \cup {NoBoot},
           Owner[r] # NoWorker => b \in Boot,
           NEW ad \in Advertised[r], PublishResourceState(r, b, ad)
    PROVE  Inv(state') /\ Keeps(state, state')
<1> DEFINE a == IF state.resources[r].boot = b THEN state ELSE AdoptOwner(state, r, b)
           record == a.resources[r]
           x == CurrentRecord(ad, b, record.generation + 1, record.reserved)
<1>1. Inv(a) /\ Keeps(state, a)
  <2>1. CASE state.resources[r].boot = b
    BY <2>1, KeepsReflexive DEF Inv
  <2>2. CASE state.resources[r].boot # b
    <3>1. a = AdoptOwner(state, r, b)
      BY <2>2
    <3>2. LET t == AdoptOwner(state, r, b) IN Inv(t) /\ Keeps(state, t)
      BY AdoptOwnerStep
    <3> HIDE DEF a
    <3> QED BY <3>1, <3>2
  <2> QED BY <2>1, <2>2
<1>2. CASE state' = a
  BY <1>1, <1>2
<1>3. CASE /\ ad.occupancy + record.reserved <= ad.slots
           /\ state' = [a EXCEPT !.resources[r] = x]
  <2> HIDE DEF a
  <2>1. record \in ResourceRecord
    BY <1>1, Parts DEF Inv
  <2>2. record.reserved \in Nat /\ record.generation \in Nat /\ record.generation + 1 \in Nat
    BY <2>1 DEF ResourceRecord
  <2>3. /\ x \in ResourceRecord
        /\ x.reserved = record.reserved /\ x.generation = record.generation + 1
        /\ x.lifecycle # "Absent" /\ x.slots > 0 /\ x.slots = ad.slots
        /\ Occupied(x) = ad.occupancy + record.reserved
    <3>1. ad \in Advertisement /\ b \in Boot \cup {NoBoot}
      BY AdvertisedType
    <3> DEFINE next == record.generation + 1
               held == record.reserved
    <3>2. next \in Nat /\ held \in Nat
      BY <2>2
    <3> HIDE DEF next, held
    <3>3. LET y == CurrentRecord(ad, b, next, held)
          IN  /\ y \in ResourceRecord
              /\ y.reserved = held /\ y.generation = next
              /\ y.lifecycle # "Absent" /\ y.slots > 0 /\ y.slots = ad.slots
              /\ Occupied(y) = ad.occupancy + held
      BY <3>1, <3>2, CurrentRecordType
    <3> QED BY <3>3 DEF next, held
  <2> HIDE DEF x
  <2>4. Inv(state') /\ Keeps(a, state')
    BY <1>1, <1>3, <2>2, <2>3, ResourceEditStep
  <2> QED BY <1>1, <2>4, KeepsTransitive DEF Inv
<1>4. \/ state' = a
      \/ /\ ad.occupancy + record.reserved <= ad.slots
         /\ state' = [a EXCEPT !.resources[r] = x]
  BY DEF PublishResourceState, Become
<1> QED BY <1>2, <1>3, <1>4

(* retire_resource. *)
LEMMA RetireResourceStep ==
    ASSUME Inv(state), NEW r \in Resource, RetireResource(r)
    PROVE  Inv(state') /\ Keeps(state, state')
<1> DEFINE record == state.resources[r]
           next == record.generation + 1
           x == [record EXCEPT !.lifecycle = "Retired", !.authoritative = FALSE,
                               !.generation = next]
<1>1. /\ state \in SchedulerState /\ record \in ResourceRecord
      /\ record.lifecycle # "Absent" /\ record.slots > 0 /\ Occupied(record) <= record.slots
  BY Parts DEF RetireResource, Inv, Sized, WithinSlots, UnregisteredResource, Retirable
<1>2. next \in Nat /\ next > record.generation
  BY <1>1 DEF ResourceRecord
<1>3. state' = [state EXCEPT !.resources[r] = x]
  BY <1>1 DEF RetireResource, Become, SchedulerState, Retirable
<1> HIDE DEF next
<1>4. /\ x \in ResourceRecord /\ x.reserved = record.reserved /\ x.lifecycle # "Absent"
      /\ x.slots = record.slots /\ x.occupancy = record.occupancy /\ x.generation = next
  BY <1>1, <1>2 DEF ResourceRecord
<1> HIDE DEF x
<1>5. x.slots > 0 /\ Occupied(x) <= x.slots
  BY <1>1, <1>4 DEF Occupied
<1> QED BY <1>2, <1>3, <1>4, <1>5, ResourceEditStep

(* worker_connected. *)
LEMMA WorkerConnectedStep ==
    ASSUME Inv(state), NEW w \in Worker, NEW b \in Boot, WorkerConnected(w, b)
    PROVE  Inv(state') /\ Keeps(state, state')
<1>1. LET t == Adopt(state, w, b) IN Inv(t) /\ Keeps(state, t)
  BY AdoptStep
<1> QED BY <1>1 DEF WorkerConnected, Become

(* mark_worker_lost. *)
LEMMA MarkWorkerLostStep ==
    ASSUME Inv(state), NEW w \in Worker, NEW b \in Boot, MarkWorkerLost(w, b)
    PROVE  Inv(state') /\ Keeps(state, state')
<1>1. LET t == Invalidate(state, w, b) IN Inv(t) /\ Keeps(state, t)
  BY InvalidateStep
<1> QED BY <1>1 DEF MarkWorkerLost, Become

(* submit_request. *)
LEMMA SubmitRequestStep ==
    ASSUME Inv(state), NEW q \in Request, SubmitRequest(q)
    PROVE  Inv(state') /\ Keeps(state, state')
<1> DEFINE x == [state |-> "Submitted", current |-> NoPlacement]
           submitted == [state EXCEPT !.requests[q] = x]
<1>1. x \in StoredRequest /\ x.state # "Placed" /\ x.current = NoPlacement
  BY DEF StoredRequest
<1>2. state' \in Schedule(submitted, q, 1, 0)
  BY DEF SubmitRequest, Become, Submittable
<1> HIDE DEF x
<1>3. Inv(submitted) /\ Keeps(state, submitted)
  BY <1>1, RequestEditStep
<1> HIDE DEF submitted
<1>4. Inv(state') /\ Keeps(submitted, state')
  BY <1>2, <1>3, ScheduleStep
<1> QED BY <1>3, <1>4, KeepsTransitive DEF Inv

(* mark_assigned. *)
LEMMA MarkAssignedStep ==
    ASSUME Inv(state), NEW p \in PlacementId, NEW c, NEW b, MarkAssigned(p, c, b)
    PROVE  Inv(state') /\ Keeps(state, state')
<1>1. p \in Live(state) /\ "Assigned" \in LiveStates
  BY DEF MarkAssigned, Live, LiveStates, Assignable, Authorised
<1>2. state' = [state EXCEPT !.placements[p].state = "Assigned"]
  BY DEF MarkAssigned, Become, Assignable, Authorised
<1> QED BY <1>1, <1>2, PlacementEditStep

(* mark_running. *)
LEMMA MarkRunningStep ==
    ASSUME Inv(state), NEW p \in PlacementId, NEW c, NEW b, MarkRunning(p, c, b)
    PROVE  Inv(state') /\ Keeps(state, state')
<1>1. p \in Live(state) /\ "Running" \in LiveStates
  BY DEF MarkRunning, LiveStates, Startable, Authorised
<1>2. state' = [state EXCEPT !.placements[p].state = "Running"]
  BY DEF MarkRunning, Become, Startable, Authorised
<1> QED BY <1>1, <1>2, PlacementEditStep

(* report_completion. *)
LEMMA ReportCompletionStep ==
    ASSUME Inv(state), NEW p \in PlacementId, NEW c, NEW b, NEW evidence,
           NEW target \in {"Completed", "Failed"}, ReportCompletion(p, c, b, evidence, target)
    PROVE  Inv(state') /\ Keeps(state, state')
<1>1. target \in EndStates /\ state' = Terminate(state, {p}, target)
  BY DEF EndStates, ReportCompletion, Become, Completable, Authorised
<1> QED BY <1>1, TerminateStep

(* cancel_placement. *)
LEMMA CancelPlacementStep ==
    ASSUME Inv(state), NEW p \in PlacementId, NEW c, CancelPlacement(p, c)
    PROVE  Inv(state') /\ Keeps(state, state')
<1>1. "Cancelled" \in EndStates /\ state' = Terminate(state, {p}, "Cancelled")
  BY DEF EndStates, CancelPlacement, Become, EndableByController
<1> QED BY <1>1, TerminateStep

(* cancel_request. *)
LEMMA CancelRequestStep ==
    ASSUME Inv(state), NEW q \in Request, CancelRequest(q)
    PROVE  Inv(state') /\ Keeps(state, state')
<1> DEFINE P == {p \in Placements(state) : state.placements[p].request = q}
           e == Terminate(state, P, "Cancelled")
           x == [state |-> "Cancelled", current |-> NoPlacement]
<1>1. Inv(e) /\ Keeps(state, e)
  <2>1. "Cancelled" \in EndStates
    BY DEF EndStates
  <2> HIDE DEF P
  <2> QED BY <2>1, TerminateStep
<1>2. x \in StoredRequest /\ x.state # "Placed" /\ x.current = NoPlacement
  BY DEF StoredRequest
<1>3. state' = [e EXCEPT !.requests[q] = x]
  BY DEF CancelRequest, Become
<1> HIDE DEF e, x
<1>4. Inv(state') /\ Keeps(e, state')
  BY <1>1, <1>2, <1>3, RequestEditStep
<1> QED BY <1>1, <1>4, KeepsTransitive DEF Inv

(* The successor of p carries the next generation and one more reassignment. *)
LEMMA ReplaceStep ==
    ASSUME NEW s, Inv(s), NEW p \in Placements(s), NEW t \in Replace(s, p)
    PROVE  Inv(t) /\ Keeps(s, t)
<1>1. s.placements[p] \in PlacementRecord
  BY Parts DEF Inv
<1>2. /\ s.placements[p].request \in Request
      /\ s.placements[p].generation + 1 \in Nat
      /\ s.placements[p].reassignments + 1 \in Nat
  BY <1>1 DEF PlacementRecord
<1> QED BY <1>2, ScheduleStep DEF Replace

(* reassign_placement. *)
LEMMA ReassignPlacementStep ==
    ASSUME Inv(state), NEW p \in PlacementId, NEW c, ReassignPlacement(p, c)
    PROVE  Inv(state') /\ Keeps(state, state')
<1> DEFINE e == Terminate(state, {p}, "ReassignmentRequired")
<1>1. Inv(e) /\ Keeps(state, e)
  <2>1. "ReassignmentRequired" \in EndStates
    BY DEF EndStates
  <2> QED BY <2>1, TerminateStep
<1>2. p \in Placements(state)
  BY DEF ReassignPlacement, Known, Reassignable
<1>3. state' = e \/ state' \in Replace(e, p)
  BY DEF ReassignPlacement, Become, Reassignable
<1> HIDE DEF e
<1>4. p \in Placements(e)
  BY <1>1, <1>2 DEF Keeps, LogKept
<1>5. CASE state' = e
  BY <1>1, <1>5
<1>6. CASE state' \in Replace(e, p)
  <2>1. Inv(state') /\ Keeps(e, state')
    BY <1>1, <1>4, <1>6, ReplaceStep
  <2> QED BY <1>1, <2>1, KeepsTransitive DEF Inv
<1> QED BY <1>3, <1>5, <1>6

(* preempt_placement. *)
LEMMA PreemptPlacementStep ==
    ASSUME Inv(state), NEW p \in PlacementId, NEW c, PreemptPlacement(p, c)
    PROVE  Inv(state') /\ Keeps(state, state')
<1> DEFINE q == state.placements[p].request
           e == Terminate(state, {p}, "Preempted")
           m == [e EXCEPT !.requests[q].state = "Submitted"]
<1>1. Inv(e) /\ Keeps(state, e)
  <2>1. "Preempted" \in EndStates
    BY DEF EndStates
  <2> QED BY <2>1, TerminateStep
<1>2. p \in Placements(state) /\ q \in Request
  <2>1. p \in Placements(state)
    BY DEF PreemptPlacement, Known, EndableByController
  <2>2. state.placements[p] \in PlacementRecord
    BY <2>1, Parts DEF Inv
  <2> QED BY <2>1, <2>2 DEF PlacementRecord
<1>3. state' = m \/ state' \in Replace(m, p)
  BY DEF PreemptPlacement, Become, EndableByController
<1> HIDE DEF e, q
<1>4. Inv(m) /\ Keeps(e, m)
  <2> DEFINE x == [e.requests[q] EXCEPT !.state = "Submitted"]
  <2>1. e \in SchedulerState /\ e.requests[q] \in StoredRequest
    BY <1>1, <1>2, Parts DEF Inv
  <2>2. x \in StoredRequest /\ x.state # "Placed" /\ x.current = e.requests[q].current
    BY <2>1 DEF StoredRequest
  <2>3. m = [e EXCEPT !.requests[q] = x]
    BY <1>2, <2>1 DEF SchedulerState
  <2> HIDE DEF m, x
  <2> QED BY <1>1, <1>2, <2>2, <2>3, RequestEditStep
<1> HIDE DEF m
<1>5. Keeps(state, m)
  BY <1>1, <1>4, KeepsTransitive DEF Inv
<1>6. p \in Placements(m)
  BY <1>2, <1>5 DEF Keeps, LogKept
<1>7. CASE state' = m
  BY <1>4, <1>5, <1>7
<1>8. CASE state' \in Replace(m, p)
  <2>1. Inv(state') /\ Keeps(m, state')
    BY <1>4, <1>6, <1>8, ReplaceStep
  <2> QED BY <1>4, <1>5, <2>1, KeepsTransitive DEF Inv
<1> QED BY <1>3, <1>7, <1>8

(* adopt_epoch. *)
LEMMA AdoptEpochStep ==
    ASSUME Inv(state), NEW e \in 1 .. MaxEpoch, AdoptEpoch(e)
    PROVE  Inv(state') /\ Keeps(state, state')
<1>1. /\ state \in SchedulerState /\ e \in Nat
      /\ state' = [state EXCEPT !.epoch = e]
  BY ConstantsAssumption DEF Inv, AdoptEpoch, Become
<1>2. state' \in SchedulerState /\ SameBooks(state, state') /\ state'.resources = state.resources
  BY <1>1 DEF SchedulerState, SameBooks
<1> QED BY <1>2, OutsideBooksStep

(* begin_shutdown. *)
LEMMA BeginShutdownStep ==
    ASSUME Inv(state), BeginShutdown
    PROVE  Inv(state') /\ Keeps(state, state')
<1>1. /\ state \in SchedulerState
      /\ state' = [state EXCEPT !.shuttingDown = TRUE]
  BY DEF Inv, BeginShutdown, Become
<1>2. state' \in SchedulerState /\ SameBooks(state, state') /\ state'.resources = state.resources
  BY <1>1 DEF SchedulerState, SameBooks
<1> QED BY <1>2, OutsideBooksStep

-----------------------------------------------------------------------------
(* The empty engine satisfies the invariant. *)
LEMMA EmptyInv ==
    ASSUME NEW s, s = EmptyState PROVE Inv(s)
<1>1. s = EmptyState /\ MaxPlacements \in Nat
  BY ConstantsAssumption
<1>2. /\ [w \in Worker |-> UnknownWorker] \in [Worker -> WorkerRecord]
      /\ [r \in Resource |-> UnregisteredResource] \in [Resource -> ResourceRecord]
      /\ [q \in Request |-> [state |-> "Absent", current |-> NoPlacement]]
             \in [Request -> StoredRequest]
  BY DEF UnknownWorker, WorkerRecord, UnregisteredResource, ResourceRecord, StoredRequest
<1>3. s \in SchedulerState
  BY <1>1, <1>2 DEF EmptyState, SchedulerState
<1>4. /\ \A p \in PlacementId : s.placements[p] = Absent /\ s.reservations[p] = Absent
      /\ \A r \in Resource : s.resources[r] = UnregisteredResource
      /\ \A u \in Unit : s.unitCurrent[u] = NoPlacement
      /\ \A q \in Request : s.requests[q] = [state |-> "Absent", current |-> NoPlacement]
  BY <1>1 DEF EmptyState
<1>5. Placements(s) = {} /\ Live(s) = {} /\ Active(s) = {}
  BY <1>4 DEF Placements, Live, Active, Absent, LiveStates
<1>6. Dense(s)
  <2>1. Placements(s) = 1 .. 0
    BY <1>5
  <2> QED BY <2>1 DEF Dense
<1>7. Paired(s) /\ Sized(s) /\ UnitsCurrent(s)
  BY <1>4, <1>5 DEF Paired, Sized, UnitsCurrent
<1>8. RequestsCurrent(s)
  BY <1>4 DEF RequestsCurrent
<1>9. WithinSlots(s)
  BY <1>4 DEF WithinSlots, Occupied, UnregisteredResource
<1>10. Mirrored(s)
  <2> SUFFICES ASSUME NEW r \in Resource
               PROVE s.resources[r].reserved = ClaimedSlots(s, Active(s), r)
    BY DEF Mirrored
  <2>1. \A n \in PlacementId : ClaimIn(s, Active(s), r, n) = 0
    BY <1>5 DEF ClaimIn
  <2>2. ClaimedSlots(s, Active(s), r) = 0
    BY <1>1, <2>1, ClaimedSlotsNone
  <2> QED BY <1>4, <2>2 DEF UnregisteredResource
<1> QED BY <1>3, <1>6, <1>7, <1>8, <1>9, <1>10 DEF Inv

LEMMA InitInv ==
    ASSUME Init PROVE Inv(state)
BY EmptyInv DEF Init

(* Every step of the engine preserves the invariant and keeps the log and the evidence. *)
LEMMA NextStep ==
    ASSUME Inv(state), [Next]_state
    PROVE  Inv(state') /\ Keeps(state, state')
<1>1. CASE UNCHANGED state
  BY <1>1, KeepsReflexive DEF Inv
<1>2. CASE ResourceOperation
  BY <1>2, BootsOfType, RegisterResourceStep, PublishResourceStateStep, RetireResourceStep
     DEF ResourceOperation
<1>3. CASE WorkerOperation
  BY <1>3, WorkerConnectedStep, MarkWorkerLostStep DEF WorkerOperation, Deliverable
<1>4. CASE \E q \in Request : SubmitRequest(q) \/ CancelRequest(q)
  BY <1>4, SubmitRequestStep, CancelRequestStep
<1>5. CASE PlacementOperation
  <2>1. PICK p \in PlacementId, c \in Credential :
           \/ \E b \in Boot \cup {NoBoot} :
                 \/ MarkAssigned(p, c, b)
                 \/ MarkRunning(p, c, b)
                 \/ \E evidence \in BOOLEAN, target \in {"Completed", "Failed"} :
                        ReportCompletion(p, c, b, evidence, target)
           \/ CancelPlacement(p, c)
           \/ ReassignPlacement(p, c)
           \/ PreemptPlacement(p, c)
    BY <1>5 DEF PlacementOperation
  <2> QED BY <2>1, MarkAssignedStep, MarkRunningStep, ReportCompletionStep,
             CancelPlacementStep, ReassignPlacementStep, PreemptPlacementStep
<1>6. CASE \E e \in 1 .. MaxEpoch : AdoptEpoch(e)
  BY <1>6, AdoptEpochStep
<1>7. CASE BeginShutdown
  BY <1>7, BeginShutdownStep
<1> QED BY <1>1, <1>2, <1>3, <1>4, <1>5, <1>6, <1>7 DEF Next

(* The inductive invariant holds in every reachable state. *)
THEOREM InvHolds == Spec => []Inv(state)
<1>1. Init => Inv(state)
  BY InitInv
<1>2. Inv(state) /\ [Next]_state => Inv(state)'
  BY NextStep
<1> QED BY <1>1, <1>2, PTL DEF Spec

(* The state is always well typed: no helper leaves a record out of its range. *)
THEOREM TypeCorrect == Spec => []TypeOK
<1>1. Inv(state) => TypeOK
  BY DEF Inv, TypeOK
<1> QED BY <1>1, InvHolds, PTL

(* For every instance, the reserved slots in a resource record are what its active
   reservations claim: terminate_placement, release_reservation and the commit of
   schedule_locked never lose, double or floor a release. *)
THEOREM LedgerMirrored == Spec => []ReservedMatchesLedger
<1>1. Inv(state) => ReservedMatchesLedger
  BY DEF Inv, Mirrored, ReservedMatchesLedger
<1> QED BY <1>1, InvHolds, PTL

(* Advertised occupancy and reservations together never exceed the slots of a resource:
   the admission test of evaluate_resource and the capacity test of
   publish_resource_state are enough, in any order. *)
THEOREM NeverOverCommitted == Spec => []CapacityNotExceeded
<1>1. Inv(state) => CapacityNotExceeded
  BY DEF Inv, WithinSlots, CapacityNotExceeded
<1> QED BY <1>1, InvHolds, PTL

(* A placement is live exactly while its reservation is active, over the same resources. *)
THEOREM LiveAndReservedTogether == Spec => []LiveIffReserved
<1>1. Inv(state) => LiveIffReserved
  BY DEF Inv, Paired, LiveIffReserved
<1> QED BY <1>1, InvHolds, PTL

(* What a unit and a request call current is a live placement of theirs, so the guard
   of submit_request never rests on a placement that is over. *)
THEOREM CurrentPlacementsAreLive == Spec => []CurrentIsLive
<1>1. Inv(state) => CurrentIsLive
  BY DEF Inv, UnitsCurrent, RequestsCurrent, CurrentIsLive
<1> QED BY <1>1, InvHolds, PTL

(* A placement that is over stays as it ended, and no placement changes its identity,
   its generation or its authority envelope. *)
THEOREM EndsAreFinal == Spec => EndedStaysEnded
<1> DEFINE Step == \A p \in Placements(state) :
                      /\ state.placements[p].state \in EndStates =>
                            state'.placements[p] = state.placements[p]
                      /\ [state'.placements[p] EXCEPT !.state = "Reserved"]
                             = [state.placements[p] EXCEPT !.state = "Reserved"]
<1>1. Inv(state) /\ [Next]_state => [Step]_state
  <2> SUFFICES ASSUME Inv(state), [Next]_state, NEW p \in Placements(state)
               PROVE /\ state.placements[p].state \in EndStates =>
                            state'.placements[p] = state.placements[p]
                     /\ [state'.placements[p] EXCEPT !.state = "Reserved"]
                             = [state.placements[p] EXCEPT !.state = "Reserved"]
    OBVIOUS
  <2>1. LogKept(state, state')
    BY NextStep DEF Keeps
  <2>2. state.placements[p] \in PlacementRecord
    BY Parts DEF Inv
  <2> QED BY <2>1, <2>2 DEF LogKept, PlacementRecord
<1> QED BY <1>1, InvHolds, PTL DEF Spec, EndedStaysEnded

(* While the generation of a resource stands so does its evidence, as report_completion
   assumes when it compares generations. *)
THEOREM GenerationsIdentifyEvidence == Spec => GenerationIdentifiesEvidence
<1> DEFINE Step == \A r \in Resource :
                      /\ state'.resources[r].generation >= state.resources[r].generation
                      /\ state'.resources[r].generation = state.resources[r].generation =>
                            [state'.resources[r] EXCEPT !.reserved = 0]
                                = [state.resources[r] EXCEPT !.reserved = 0]
<1>1. Inv(state) /\ [Next]_state => [Step]_state
  <2> SUFFICES ASSUME Inv(state), [Next]_state, NEW r \in Resource
               PROVE /\ state'.resources[r].generation >= state.resources[r].generation
                     /\ state'.resources[r].generation = state.resources[r].generation =>
                            [state'.resources[r] EXCEPT !.reserved = 0]
                                = [state.resources[r] EXCEPT !.reserved = 0]
    OBVIOUS
  <2>1. EvidenceKept(state, state')
    BY NextStep DEF Keeps
  <2>2. state.resources[r] \in ResourceRecord
    BY Parts DEF Inv
  <2> QED BY <2>1, <2>2 DEF EvidenceKept, ResourceRecord
<1> QED BY <1>1, InvHolds, PTL DEF Spec, GenerationIdentifiesEvidence

(* Capacity comes back exactly once: a step frees at most what the reservations it
   closes have claimed, and a closed reservation is never touched again. *)
THEOREM CapacityComesBackOnce == Spec => ReleasedExactlyOnce
<1> DEFINE Step == /\ \A p \in Placements(state) \ Active(state) :
                         state'.reservations[p] = state.reservations[p]
                   /\ \A r \in Resource :
                         state.resources[r].reserved > state'.resources[r].reserved =>
                            state.resources[r].reserved - state'.resources[r].reserved
                                <= ClaimedSlots(state, Active(state) \ Active(state)', r)
<1>1. Inv(state) /\ [Next]_state => [Step]_state
  <2> SUFFICES ASSUME Inv(state), [Next]_state PROVE Step
    OBVIOUS
  <2>1. Inv(state') /\ LogKept(state, state')
    BY NextStep DEF Keeps
  <2>2. \A p \in Placements(state) \ Active(state) :
           state'.reservations[p] = state.reservations[p]
    BY <2>1 DEF LogKept
  <2>3. ASSUME NEW r \in Resource
        PROVE  state.resources[r].reserved - state'.resources[r].reserved
                   <= ClaimedSlots(state, Active(state) \ Active(state'), r)
    <3> DEFINE before == Active(state)
               after == Active(state')
               closed == before \ after
               kept == before \cap after
               opened == after \ before
    <3>1. /\ state \in SchedulerState /\ state' \in SchedulerState /\ MaxPlacements \in Nat
          /\ state.resources[r].reserved = ClaimedSlots(state, before, r)
          /\ state'.resources[r].reserved = ClaimedSlots(state', after, r)
      BY <2>1, ConstantsAssumption DEF Inv, Mirrored
    <3>2. /\ ClaimsAreNatural(state, closed, r) /\ ClaimedSlots(state, closed, r) \in Nat
          /\ ClaimsAreNatural(state, kept, r) /\ ClaimedSlots(state, kept, r) \in Nat
          /\ ClaimsAreNatural(state', opened, r) /\ ClaimedSlots(state', opened, r) \in Nat
          /\ ClaimsAreNatural(state', kept, r) /\ ClaimedSlots(state', kept, r) \in Nat
      BY <3>1, ActiveClaims
    <3>3. \A n \in kept : state'.reservations[n].claims = state.reservations[n].claims
      BY <2>1, <3>1, Parts DEF LogKept, Inv, Paired
    <3>4. /\ \A n \in PlacementId : ClaimIn(state, before, r, n) =
                ClaimIn(state, closed, r, n) + ClaimIn(state, kept, r, n)
          /\ \A n \in PlacementId : ClaimIn(state', after, r, n) =
                ClaimIn(state', opened, r, n) + ClaimIn(state', kept, r, n)
          /\ \A n \in PlacementId : ClaimIn(state', kept, r, n) = ClaimIn(state, kept, r, n)
      <4>1. \A n \in PlacementId : ClaimIn(state, before, r, n) =
                ClaimIn(state, closed, r, n) + ClaimIn(state, kept, r, n)
        BY <3>2 DEF ClaimIn, ClaimsAreNatural
      <4>2. \A n \in PlacementId : ClaimIn(state', after, r, n) =
                ClaimIn(state', opened, r, n) + ClaimIn(state', kept, r, n)
        BY <3>2 DEF ClaimIn, ClaimsAreNatural
      <4>3. \A n \in PlacementId : ClaimIn(state', kept, r, n) = ClaimIn(state, kept, r, n)
        BY <3>3 DEF ClaimIn
      <4> QED BY <4>1, <4>2, <4>3
    <3> HIDE DEF before, after, closed, kept, opened
    <3>5. ClaimedSlots(state, before, r) =
              ClaimedSlots(state, closed, r) + ClaimedSlots(state, kept, r)
      BY <3>1, <3>2, <3>4, ClaimedSlotsAdd
    <3>6. ClaimedSlots(state', after, r) =
              ClaimedSlots(state', opened, r) + ClaimedSlots(state', kept, r)
      BY <3>1, <3>2, <3>4, ClaimedSlotsAdd
    <3>7. ClaimedSlots(state', kept, r) = ClaimedSlots(state, kept, r)
      BY <3>1, <3>2, <3>4, ClaimedSlotsSame
    <3>8. state.resources[r].reserved - state'.resources[r].reserved
              <= ClaimedSlots(state, closed, r)
      BY <3>1, <3>2, <3>5, <3>6, <3>7
    <3> QED BY <3>8 DEF before, after, closed
  <2> QED BY <2>2, <2>3
<1> QED BY <1>1, InvHolds, PTL DEF Spec, ReleasedExactlyOnce

-----------------------------------------------------------------------------
(***************************************************************************)
(* The refinement of CapacityLeases.  The step relation Keeps says what    *)
(* becomes of the placements there are; what is added here is how placements *)
(* come to be, and what the active ones claim together.                    *)
(***************************************************************************)
(* A placement that is not in the log has the record Absent. *)
LEMMA AbsentOrPlaced ==
    ASSUME NEW s \in SchedulerState, NEW p \in PlacementId
    PROVE  p \in Placements(s) <=> s.placements[p] # Absent
<1>1. s.placements[p] \in PlacementRecord \cup {Absent}
  BY DEF SchedulerState
<1> QED BY <1>1 DEF Placements, PlacementRecord, LiveStates, EndStates, Absent

-----------------------------------------------------------------------------
(***************************************************************************)
(* Births: what no operation may do when it adds to the log.               *)
(***************************************************************************)
NoBirths(s, t) == Placements(t) \subseteq Placements(s)

(* A new placement is the next in order and has an active reservation. *)
Births(s, t) ==
    \A p \in Placements(t) \ Placements(s) :
        p \in Active(t) /\ \A k \in 1 .. p - 1 : k \in Placements(s)

(* The helpers that do not schedule add nothing to the log. *)
LEMMA TerminateNoBirths ==
    ASSUME NEW s, Inv(s), NEW P, NEW target \in EndStates
    PROVE  NoBirths(s, Terminate(s, P, target))
<1> DEFINE t == Terminate(s, P, target)
<1>1. Ends(s, t, P, target)
  BY TerminateEnds
<1>2. \A p \in P \cap Live(s) : p \in Placements(s)
  BY Parts DEF Inv
<1> HIDE DEF t
<1>3. \A p \in Placements(t) : p \in Placements(s)
  BY <1>1, <1>2 DEF Ends, Placements
<1> QED BY <1>3 DEF NoBirths, t

LEMMA InvalidateNoBirths ==
    ASSUME NEW s, Inv(s), NEW w \in Worker, NEW b
    PROVE  NoBirths(s, Invalidate(s, w, b))
<1> DEFINE d == Demote(s, w, b)
<1>1. Inv(d) /\ d.placements = s.placements
  <2>1. Inv(d)
    BY DemoteStep
  <2>2. d.placements = s.placements
    BY DEF Demote, Inv, SchedulerState
  <2> QED BY <2>1, <2>2
<1>2. Invalidate(s, w, b) = Terminate(d, TouchedBy(s, w, b), "ReassignmentRequired")
  BY DEF Invalidate, Demote
<1> HIDE DEF d
<1>3. NoBirths(d, Invalidate(s, w, b))
  BY <1>1, <1>2, TerminateNoBirths DEF EndStates
<1>4. Placements(d) = Placements(s)
  BY <1>1 DEF Placements
<1> QED BY <1>3, <1>4 DEF NoBirths

LEMMA AdoptOwnerNoBirths ==
    ASSUME NEW s, Inv(s), NEW r \in Resource, NEW b
    PROVE  NoBirths(s, AdoptOwner(s, r, b))
<1>1. ASSUME NEW w \in Worker PROVE NoBirths(s, Adopt(s, w, b))
  <2> DEFINE known == s.workers[w].boot
             f == IF known \in {NoBoot, b} THEN s ELSE Invalidate(s, w, known)
  <2>1. NoBirths(s, f) /\ f \in SchedulerState
    BY InvalidateNoBirths, InvalidateStep DEF NoBirths, Inv
  <2>2. Adopt(s, w, b) = [f EXCEPT !.workers[w] = [boot |-> b, connected |-> TRUE]]
    BY DEF Adopt
  <2> HIDE DEF f
  <2>3. Placements(Adopt(s, w, b)) = Placements(f)
    BY <2>1, <2>2 DEF Placements, SchedulerState
  <2> QED BY <2>1, <2>3 DEF NoBirths
<1>2. Owner[r] # NoWorker => Owner[r] \in Worker
  BY ConstantsAssumption
<1> QED BY <1>1, <1>2 DEF AdoptOwner, NoBirths

(* schedule_locked adds at most the next placement, with an active reservation. *)
LEMMA ScheduleBirths ==
    ASSUME NEW s, Inv(s), NEW q \in Request, NEW generation \in Nat, NEW reassignments \in Nat,
           NEW t \in Schedule(s, q, generation, reassignments)
    PROVE  Births(s, t)
<1>1. CASE t = RejectRequest(s, q) \/ t = s
  <2>1. t.placements = s.placements
    BY <1>1 DEF RejectRequest, Inv, SchedulerState
  <2> QED BY <2>1 DEF Births, Placements
<1>2. ASSUME NEW sel \in Selections(s, q), ~ LogIsFull(s),
             t = Commit(s, q, sel, generation, reassignments)
      PROVE  Births(s, t)
  <2> DEFINE n == NextPlacement(s)
             claims == [r \in Resource |-> ClaimOf(s, q, sel, r)]
  <2>1. Adds(s, t, n, q, claims)
    BY <1>2, CommitAdds
  <2>2. /\ n \in PlacementId /\ Placements(s) \cup {n} = 1 .. n /\ s.placements[n] = Absent
        /\ s \in SchedulerState
    BY <1>2, NextPlacementIsFresh DEF Inv
  <2> HIDE DEF n, claims
  <2>3. n \in Nat /\ n \notin Placements(s)
    BY <2>2, AbsentOrPlaced DEF PlacementId
  <2>4. /\ \A p \in PlacementId : p # n => t.placements[p] = s.placements[p]
        /\ t.reservations[n].state = "Active"
    BY <2>1, <2>2 DEF Adds, SchedulerState
  <2>5. \A p \in Placements(t) \ Placements(s) : p = n
    BY <2>4 DEF Placements
  <2>6. n \in Active(t)
    BY <2>2, <2>4 DEF Active
  <2>7. \A k \in 1 .. n - 1 : k \in Placements(s)
    BY <2>2, <2>3
  <2> QED BY <2>5, <2>6, <2>7 DEF Births
<1>3. \/ t = RejectRequest(s, q)
      \/ \E sel \in Selections(s, q) :
            t = IF LogIsFull(s) THEN s ELSE Commit(s, q, sel, generation, reassignments)
  BY DEF Schedule
<1> QED BY <1>1, <1>2, <1>3

LEMMA ReplaceBirths ==
    ASSUME NEW s, Inv(s), NEW p \in Placements(s), NEW t \in Replace(s, p)
    PROVE  Births(s, t)
<1>1. s.placements[p] \in PlacementRecord
  BY Parts DEF Inv
<1>2. /\ s.placements[p].request \in Request
      /\ s.placements[p].generation + 1 \in Nat
      /\ s.placements[p].reassignments + 1 \in Nat
  BY <1>1 DEF PlacementRecord
<1> QED BY <1>2, ScheduleBirths DEF Replace

(* What was not in the log before the helpers ran was not in it before the operation. *)
LEMMA BirthsAfter ==
    ASSUME NEW s, NEW m, NEW t, Placements(m) = Placements(s), Births(m, t)
    PROVE  Births(s, t)
  BY DEF Births

LEMMA NoBirthsIsBirths ==
    ASSUME NEW s, NEW t, NoBirths(s, t) PROVE Births(s, t)
  BY DEF NoBirths, Births

(* Keeping the log and adding nothing to it: the same placements. *)
LEMMA SamePlacements ==
    ASSUME NEW s, NEW t, Keeps(s, t), NoBirths(s, t)
    PROVE  Placements(t) = Placements(s)
  BY DEF Keeps, LogKept, NoBirths
-----------------------------------------------------------------------------
(* The operations. *)

LEMMA ResourceBirths == ASSUME Inv(state), ResourceOperation PROVE Births(state, state')
<1>1. PICK r \in Resource :
        \/ \E b \in BootsOf(state, r), ad \in Advertised[r] : RegisterResource(r, b, ad)
        \/ \E b \in BootsOf(state, r), ad \in Advertised[r] : PublishResourceState(r, b, ad)
        \/ RetireResource(r)
  BY DEF ResourceOperation
<1>2. ASSUME NEW b \in BootsOf(state, r),
             NEW m, m = state \/ m = AdoptOwner(state, r, b),
             NEW x, state' = [m EXCEPT !.resources[r] = x] \/ state' = m
      PROVE  NoBirths(state, state')
  <2>1. NoBirths(state, m)
    BY <1>2, AdoptOwnerNoBirths DEF NoBirths
  <2>2. m \in SchedulerState
    BY <1>2, AdoptOwnerStep, BootsOfType DEF Inv
  <2>3. state'.placements = m.placements
    BY <1>2, <2>2 DEF SchedulerState
  <2> QED BY <2>1, <2>3 DEF NoBirths, Placements
<1>3. ASSUME NEW b \in BootsOf(state, r), NEW ad \in Advertised[r], RegisterResource(r, b, ad)
      PROVE  NoBirths(state, state')
  <2>1. state' = [AdoptOwner(state, r, b) EXCEPT !.resources[r] = CurrentRecord(ad, b, 1, 0)]
    BY <1>3 DEF RegisterResource, Become, Registrable
  <2> QED BY <1>2, <2>1
<1>4. ASSUME NEW b \in BootsOf(state, r), NEW ad \in Advertised[r],
             PublishResourceState(r, b, ad)
      PROVE  NoBirths(state, state')
  <2> DEFINE m == IF state.resources[r].boot = b THEN state ELSE AdoptOwner(state, r, b)
             x == CurrentRecord(ad, b, m.resources[r].generation + 1, m.resources[r].reserved)
  <2>1. state' = [m EXCEPT !.resources[r] = x] \/ state' = m
    BY <1>4 DEF PublishResourceState, Become
  <2>2. m = state \/ m = AdoptOwner(state, r, b)
    OBVIOUS
  <2> HIDE DEF m, x
  <2> QED BY <1>2, <2>1, <2>2
<1>5. CASE RetireResource(r)
  <2>1. state'.placements = state.placements
    BY <1>5 DEF RetireResource, Become, Inv, SchedulerState, Retirable
  <2> QED BY <2>1 DEF Births, Placements
<1> QED BY <1>1, <1>3, <1>4, <1>5, NoBirthsIsBirths

LEMMA WorkerBirths == ASSUME Inv(state), WorkerOperation PROVE Births(state, state')
<1>1. ASSUME NEW w \in Worker, NEW b, WorkerConnected(w, b) PROVE NoBirths(state, state')
  <2> DEFINE known == state.workers[w].boot
             f == IF known \in {NoBoot, b} THEN state ELSE Invalidate(state, w, known)
  <2>1. NoBirths(state, f) /\ f \in SchedulerState
    BY InvalidateNoBirths, InvalidateStep DEF NoBirths, Inv
  <2>2. state' = [f EXCEPT !.workers[w] = [boot |-> b, connected |-> TRUE]]
    BY <1>1 DEF WorkerConnected, Become, Adopt
  <2> HIDE DEF f
  <2> QED BY <2>1, <2>2 DEF NoBirths, Placements, SchedulerState
<1>2. ASSUME NEW w \in Worker, NEW b, MarkWorkerLost(w, b) PROVE NoBirths(state, state')
  BY <1>2, InvalidateNoBirths DEF MarkWorkerLost, Become
<1> QED BY <1>1, <1>2, NoBirthsIsBirths DEF WorkerOperation

LEMMA SubmitBirths ==
    ASSUME Inv(state), NEW q \in Request, SubmitRequest(q) PROVE Births(state, state')
<1> DEFINE x == [state |-> "Submitted", current |-> NoPlacement]
           submitted == [state EXCEPT !.requests[q] = x]
<1>1. x \in StoredRequest /\ x.state # "Placed" /\ x.current = NoPlacement
  BY DEF StoredRequest
<1>2. state' \in Schedule(submitted, q, 1, 0)
  BY DEF SubmitRequest, Become, Submittable
<1> HIDE DEF x
<1>3. Inv(submitted)
  BY <1>1, RequestEditStep
<1>4. Placements(submitted) = Placements(state)
  BY DEF Placements, Inv, SchedulerState
<1> HIDE DEF submitted
<1> QED BY <1>2, <1>3, <1>4, ScheduleBirths, BirthsAfter

LEMMA CancelRequestBirths ==
    ASSUME Inv(state), NEW q \in Request, CancelRequest(q) PROVE Births(state, state')
<1> DEFINE P == {p \in Placements(state) : state.placements[p].request = q}
           e == Terminate(state, P, "Cancelled")
<1>1. NoBirths(state, e) /\ e \in SchedulerState
  <2>1. "Cancelled" \in EndStates
    BY DEF EndStates
  <2> HIDE DEF P
  <2> QED BY <2>1, TerminateNoBirths, TerminateStep DEF Inv
<1>2. state' = [e EXCEPT !.requests[q] = [state |-> "Cancelled", current |-> NoPlacement]]
  BY DEF CancelRequest, Become
<1> HIDE DEF e
<1>3. Placements(state') = Placements(e)
  BY <1>1, <1>2 DEF Placements, SchedulerState
<1> QED BY <1>1, <1>3 DEF Births, NoBirths

LEMMA ReassignBirths ==
    ASSUME Inv(state), NEW p \in PlacementId, NEW c, ReassignPlacement(p, c)
    PROVE  Births(state, state')
<1> DEFINE e == Terminate(state, {p}, "ReassignmentRequired")
<1>1. Inv(e) /\ Placements(e) = Placements(state)
  <2>1. "ReassignmentRequired" \in EndStates
    BY DEF EndStates
  <2> QED BY <2>1, TerminateStep, TerminateNoBirths, SamePlacements
<1>2. p \in Placements(state)
  BY DEF ReassignPlacement, Known, Reassignable
<1>3. state' = e \/ state' \in Replace(e, p)
  BY DEF ReassignPlacement, Become, Reassignable
<1> HIDE DEF e
<1>4. state' = e => Births(state, state')
  BY <1>1 DEF Births
<1> QED BY <1>1, <1>2, <1>3, <1>4, ReplaceBirths, BirthsAfter

LEMMA PreemptBirths ==
    ASSUME Inv(state), NEW p \in PlacementId, NEW c, PreemptPlacement(p, c)
    PROVE  Births(state, state')
<1> DEFINE q == state.placements[p].request
           e == Terminate(state, {p}, "Preempted")
           m == [e EXCEPT !.requests[q].state = "Submitted"]
<1>1. Inv(e) /\ Placements(e) = Placements(state)
  <2>1. "Preempted" \in EndStates
    BY DEF EndStates
  <2> QED BY <2>1, TerminateStep, TerminateNoBirths, SamePlacements
<1>2. p \in Placements(state) /\ q \in Request
  <2>1. p \in Placements(state)
    BY DEF PreemptPlacement, Known, EndableByController
  <2>2. state.placements[p] \in PlacementRecord
    BY <2>1, Parts DEF Inv
  <2> QED BY <2>1, <2>2 DEF PlacementRecord
<1>3. state' = m \/ state' \in Replace(m, p)
  BY DEF PreemptPlacement, Become, EndableByController
<1> HIDE DEF e, q
<1>4. Inv(m)
  <2> DEFINE x == [e.requests[q] EXCEPT !.state = "Submitted"]
  <2>1. e \in SchedulerState /\ e.requests[q] \in StoredRequest
    BY <1>1, <1>2, Parts DEF Inv
  <2>2. x \in StoredRequest /\ x.state # "Placed" /\ x.current = e.requests[q].current
    BY <2>1 DEF StoredRequest
  <2>3. m = [e EXCEPT !.requests[q] = x]
    BY <1>2, <2>1 DEF SchedulerState
  <2> HIDE DEF m, x
  <2> QED BY <1>1, <1>2, <2>2, <2>3, RequestEditStep
<1>5. Placements(m) = Placements(state)
  BY <1>1 DEF Placements, Inv, SchedulerState
<1> HIDE DEF m
<1>6. state' = m => Births(state, state')
  BY <1>5 DEF Births
<1> QED BY <1>2, <1>3, <1>4, <1>5, <1>6, ReplaceBirths, BirthsAfter

LEMMA PlacementBirths == ASSUME Inv(state), PlacementOperation PROVE Births(state, state')
<1>1. PICK p \in PlacementId, c \in Credential :
         \/ \E b \in Boot \cup {NoBoot} :
               \/ MarkAssigned(p, c, b)
               \/ MarkRunning(p, c, b)
               \/ \E evidence \in BOOLEAN, target \in {"Completed", "Failed"} :
                      ReportCompletion(p, c, b, evidence, target)
         \/ CancelPlacement(p, c)
         \/ ReassignPlacement(p, c)
         \/ PreemptPlacement(p, c)
  BY DEF PlacementOperation
<1>2. ASSUME NEW b, MarkAssigned(p, c, b) \/ MarkRunning(p, c, b) PROVE Births(state, state')
  <2>1. PICK x \in LiveStates : state' = [state EXCEPT !.placements[p].state = x]
    BY <1>2 DEF MarkAssigned, MarkRunning, Become, LiveStates, Assignable, Authorised, Startable
  <2>2. p \in Placements(state) /\ state \in SchedulerState
    BY <1>2 DEF MarkAssigned, MarkRunning, Known, Inv, Assignable, Authorised, Startable
  <2>3. \A o \in PlacementId : o # p => state'.placements[o] = state.placements[o]
    BY <2>1, <2>2 DEF SchedulerState
  <2>4. \A o \in Placements(state') : o \in Placements(state)
    BY <2>2, <2>3 DEF Placements
  <2> QED BY <2>4 DEF Births
<1>3. ASSUME NEW target \in {"Completed", "Failed", "Cancelled"},
             state' = Terminate(state, {p}, target)
      PROVE  Births(state, state')
  BY <1>3, TerminateNoBirths, NoBirthsIsBirths DEF EndStates
<1>4. ASSUME NEW b, NEW evidence, NEW target \in {"Completed", "Failed"},
             ReportCompletion(p, c, b, evidence, target)
      PROVE  Births(state, state')
  BY <1>3, <1>4 DEF ReportCompletion, Become, Completable, Authorised
<1>5. CASE CancelPlacement(p, c)
  BY <1>3, <1>5 DEF CancelPlacement, Become, EndableByController
<1> QED BY <1>1, <1>2, <1>4, <1>5, ReassignBirths, PreemptBirths

(* Whatever a step adds to the log is the next placement, with an active reservation. *)
LEMMA NextBirths == ASSUME Inv(state), [Next]_state PROVE Births(state, state')
<1>1. CASE UNCHANGED state
  BY <1>1 DEF Births
<1>2. CASE (\E e \in 1 .. MaxEpoch : AdoptEpoch(e)) \/ BeginShutdown
  <2>1. state'.placements = state.placements
    BY <1>2 DEF AdoptEpoch, BeginShutdown, Become, Inv, SchedulerState
  <2> QED BY <2>1 DEF Births, Placements
<1> QED
  BY <1>1, <1>2, ResourceBirths, WorkerBirths, SubmitBirths, CancelRequestBirths,
     PlacementBirths DEF Next

-----------------------------------------------------------------------------
(***************************************************************************)
(* The refinement mapping.                                                 *)
(***************************************************************************)
(* Each lease is kept, granted in its turn with everything it claims, or ends once. *)
LEMMA LeaseStep ==
    ASSUME NEW s, Inv(s), NEW t, Inv(t), Keeps(s, t), Births(s, t), NEW p \in PlacementId
    PROVE  \/ LeaseOf(t, p) = LeaseOf(s, p)
           \/ /\ LeaseOf(s, p).status = "unborn"
              /\ \A k \in 1 .. p - 1 : k \in PlacementId /\ LeaseOf(s, k).status # "unborn"
              /\ LeaseOf(t, p).status = "held"
           \/ /\ LeaseOf(s, p).status = "held"
              /\ LeaseOf(t, p).status \in EndStates
              /\ LeaseOf(t, p).claims = LeaseOf(s, p).claims
<1>1. /\ s \in SchedulerState /\ t \in SchedulerState
      /\ Live(s) = Active(s) /\ Live(t) = Active(t)
  BY DEF Inv, Paired
<1>2. p \in Placements(s) => p \in Placements(t)
  BY DEF Keeps, LogKept
<1>3. /\ p \in Placements(s) <=> s.placements[p] # Absent
      /\ p \in Placements(t) <=> t.placements[p] # Absent
  BY <1>1, AbsentOrPlaced
<1>4. /\ p \in Placements(s) => s.placements[p].state \in LiveStates \cup EndStates
      /\ p \in Placements(t) => t.placements[p].state \in LiveStates \cup EndStates
  BY <1>1, Parts DEF PlacementRecord
<1>5. CASE p \notin Placements(t)
  BY <1>2, <1>3, <1>5 DEF LeaseOf
<1>6. CASE p \in Placements(t) /\ p \notin Placements(s)
  <2>1. p \in Active(t) /\ \A k \in 1 .. p - 1 : k \in Placements(s)
    BY <1>6 DEF Births
  <2>2. \A k \in 1 .. p - 1 : k \in PlacementId /\ LeaseOf(s, k).status # "unborn"
    <3> SUFFICES ASSUME NEW k \in 1 .. p - 1
                 PROVE  k \in PlacementId /\ LeaseOf(s, k).status # "unborn"
      OBVIOUS
    <3>1. k \in PlacementId /\ s.placements[k] \in PlacementRecord /\ s.placements[k] # Absent
      BY <1>1, <2>1, Parts, AbsentOrPlaced
    <3> QED BY <3>1 DEF LeaseOf, PlacementRecord, LiveStates, EndStates
  <2> QED BY <1>3, <1>6, <2>1, <2>2 DEF LeaseOf
<1>7. CASE p \in Placements(s) /\ p \in Active(s)
  <2>1. t.reservations[p].claims = s.reservations[p].claims
    BY <1>7 DEF Keeps, LogKept
  <2>2. p \notin Active(t) => t.placements[p].state \in EndStates
    BY <1>1, <1>2, <1>4, <1>7 DEF Live
  <2> QED BY <1>2, <1>3, <1>7, <2>1, <2>2 DEF LeaseOf
<1>8. CASE p \in Placements(s) /\ p \notin Active(s)
  <2>1. s.placements[p].state \in EndStates
    BY <1>1, <1>4, <1>8 DEF Live
  <2>2. t.placements[p] = s.placements[p] /\ t.reservations[p] = s.reservations[p]
    BY <1>8, <2>1 DEF Keeps, LogKept
  <2>3. p \notin Active(t)
    BY <1>8, <2>2 DEF Active
  <2> QED BY <1>3, <1>8, <2>2, <2>3 DEF LeaseOf
<1> QED BY <1>5, <1>6, <1>7, <1>8

(* What the leases in force claim of r is what the active reservations claim. *)
LEMMA LeasedIsClaimed ==
    ASSUME Inv(state), NEW r \in Resource
    PROVE  Leases!Leased(r) = ClaimedSlots(state, Active(state), r)
<1> DEFINE lease == [p \in PlacementId |-> LeaseOf(state, p)]
           table(f) == [n \in 0 .. MaxPlacements |->
                          IF n = 0 THEN 0
                          ELSE f[n - 1] + (IF lease[n].status = "held"
                                           THEN lease[n].claims[r] ELSE 0)]
           total == CHOOSE f : f = table(f)
           v == [n \in PlacementId |-> ClaimIn(state, Active(state), r, n)]
<1>1. MaxPlacements \in Nat /\ state \in SchedulerState
  BY ConstantsAssumption DEF Inv
<1>2. ClaimsAreNatural(state, Active(state), r)
  BY <1>1, ActiveClaims
<1>3. PICK f : PartialSums(f, v) /\ ClaimedSlots(state, Active(state), r) = f[MaxPlacements]
  BY <1>1, <1>2, ClaimedSlotsSum
<1>4. \A n \in PlacementId :
         (IF lease[n].status = "held" THEN lease[n].claims[r] ELSE 0) = v[n]
  <2> SUFFICES ASSUME NEW n \in PlacementId
               PROVE (IF lease[n].status = "held" THEN lease[n].claims[r] ELSE 0) = v[n]
    OBVIOUS
  <2>1. lease[n] = LeaseOf(state, n) /\ v[n] = ClaimIn(state, Active(state), r, n)
    OBVIOUS
  <2>2. lease[n].status = "held" <=> n \in Active(state)
    <3>1. n \in Active(state) => state.placements[n] # Absent
      BY <1>1, AbsentOrPlaced, Parts DEF Inv, Paired
    <3>2. state.placements[n] # Absent => state.placements[n].state \in LiveStates \cup EndStates
      BY <1>1, AbsentOrPlaced, Parts DEF PlacementRecord
    <3> QED BY <2>1, <3>1, <3>2 DEF LeaseOf, LiveStates, EndStates
  <2>3. n \in Active(state) => lease[n].claims = state.reservations[n].claims
    <3>1. n \in Active(state) => state.placements[n] # Absent
      BY <1>1, AbsentOrPlaced, Parts DEF Inv, Paired
    <3> QED BY <2>1, <3>1 DEF LeaseOf
  <2> QED BY <2>1, <2>2, <2>3 DEF ClaimIn
<1> HIDE DEF v, lease
<1>5. f = table(f)
  <2>1. \A n \in 0 .. MaxPlacements : n # 0 => n \in PlacementId
    BY <1>1 DEF PlacementId
  <2> QED BY <1>3, <1>4, <2>1 DEF PartialSums
<1>6. total = table(total)
  <2> HIDE DEF table
  <2> QED BY <1>5
<1>7. Leases!Leased(r) = total[MaxPlacements]
  BY DEF Leases!Leased, lease
<1> HIDE DEF total
<1> DEFINE Agree == {m \in Nat : m <= MaxPlacements => total[m] = f[m]}
<1>8. 0 \in Agree
  BY <1>1, <1>3, <1>6 DEF PartialSums
<1>9. ASSUME NEW m \in Agree PROVE m + 1 \in Agree
  <2>1. SUFFICES ASSUME m + 1 <= MaxPlacements PROVE total[m + 1] = f[m + 1]
    OBVIOUS
  <2>2. /\ m \in Nat /\ total[m] = f[m] /\ m + 1 \in PlacementId
        /\ m + 1 \in 0 .. MaxPlacements /\ m + 1 # 0 /\ (m + 1) - 1 = m
    BY <1>1, <2>1 DEF PlacementId
  <2>3. table(total)[m + 1] = total[m]
            + (IF lease[m + 1].status = "held" THEN lease[m + 1].claims[r] ELSE 0)
    BY <2>2
  <2>4. total[m + 1] = total[m] + v[m + 1]
    BY <1>4, <1>6, <2>2, <2>3
  <2>5. f[m + 1] = f[m] + v[m + 1]
    BY <1>3, <2>2 DEF PartialSums
  <2> QED BY <2>2, <2>4, <2>5
<1>10. Agree = Nat
  <2> HIDE DEF Agree
  <2> QED BY <1>8, <1>9, NatSetInduction DEF Agree
<1> QED BY <1>1, <1>3, <1>7, <1>10

(* What is leased always fits into what the owner does not occupy. *)
LEMMA LeasesFit == ASSUME Inv(state) PROVE Leases!Fits
<1> SUFFICES ASSUME NEW r \in Resource PROVE Leases!Leased(r) <= Lent(state)[r]
  BY DEF Leases!Fits
<1>1. state.resources[r] \in ResourceRecord
  BY Parts DEF Inv
<1>2. /\ state.resources[r].slots \in Nat /\ state.resources[r].occupancy \in Nat
      /\ state.resources[r].reserved \in Nat
  BY <1>1 DEF ResourceRecord
<1>3. state.resources[r].occupancy + state.resources[r].reserved <= state.resources[r].slots
  BY DEF Inv, WithinSlots, Occupied
<1>4. Leases!Leased(r) = state.resources[r].reserved
  BY LeasedIsClaimed DEF Inv, Mirrored
<1> QED BY <1>2, <1>3, <1>4 DEF Lent

(* The empty engine has lent nothing. *)
LEMMA LeasesInit == ASSUME Init PROVE Leases!Init
<1>1. Lent(state) = [r \in Resource |-> 0]
  BY DEF Init, EmptyState, UnregisteredResource, Lent
<1>2. [p \in PlacementId |-> LeaseOf(state, p)]
         = [p \in PlacementId |-> [status |-> "unborn", claims |-> [r \in Resource |-> 0]]]
  BY DEF Init, EmptyState, LeaseOf
<1> QED BY <1>1, <1>2 DEF Leases!Init, Leases!Lease, PlacementId

(* Every step of the engine keeps, grants or ends each lease. *)
LEMMA LeasesStep ==
    ASSUME Inv(state), [Next]_state
    PROVE  \A l \in Leases!Lease : Leases!Kept(l) \/ Leases!Grant(l) \/ Leases!End(l)
<1> SUFFICES ASSUME NEW l \in PlacementId
             PROVE  Leases!Kept(l) \/ Leases!Grant(l) \/ Leases!End(l)
  BY DEF Leases!Lease, PlacementId
<1>1. Inv(state') /\ Keeps(state, state') /\ Births(state, state')
  BY NextStep, NextBirths
<1>2. \/ LeaseOf(state', l) = LeaseOf(state, l)
      \/ /\ LeaseOf(state, l).status = "unborn"
         /\ \A k \in 1 .. l - 1 : k \in PlacementId /\ LeaseOf(state, k).status # "unborn"
         /\ LeaseOf(state', l).status = "held"
      \/ /\ LeaseOf(state, l).status = "held"
         /\ LeaseOf(state', l).status \in EndStates
         /\ LeaseOf(state', l).claims = LeaseOf(state, l).claims
  BY <1>1, LeaseStep
<1>3. EndStates = Leases!Outcome
  BY DEF EndStates, Leases!Outcome
<1> QED BY <1>2, <1>3 DEF Leases!Kept, Leases!Grant, Leases!End

(***************************************************************************)
(* The engine implements CapacityLeases: whatever an operation composes    *)
(* (terminate_placement, invalidate_worker_incarnation, schedule_locked),  *)
(* the placements and reservations change as leases do.                    *)
(***************************************************************************)
THEOREM EngineGrantsLeases == Spec => GrantsLeases
<1>1. Init => Leases!Init
  BY LeasesInit
<1>2. Inv(state) /\ [Next]_state =>
         \A l \in Leases!Lease : Leases!Kept(l) \/ Leases!Grant(l) \/ Leases!End(l)
  BY LeasesStep
<1>3. Inv(state) => Leases!Fits
  BY LeasesFit
<1>4. (Inv(state) => Leases!Fits)'
  BY <1>3, PTL
<1>5. Inv(state) /\ [Next]_state => Inv(state)'
  BY NextStep
<1>6. Inv(state) /\ [Next]_state =>
         [Leases!Next]_<<Lent(state), [p \in PlacementId |-> LeaseOf(state, p)]>>
  BY <1>2, <1>4, <1>5 DEF Leases!Next
<1> QED BY <1>1, <1>6, InvHolds, PTL DEF Spec, GrantsLeases, Leases!Spec
=============================================================================
