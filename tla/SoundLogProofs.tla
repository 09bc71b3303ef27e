---------------------------- MODULE SoundLogProofs ----------------------------
(***************************************************************************)
(* What placements rest on, for any workers, resources, requests and       *)
(* bounds: requests that exist, registered resources whose generations     *)
(* were observed, and authority that is current wherever capacity is held. *)
(* Snapshots can be loaded because of it.  Then, what an exclusive claim   *)
(* takes of its resource.                                                  *)
(***************************************************************************)
EXTENDS SchedulerEngineProofs

(* No request waives current evidence. *)
EvidenceRequired == \A q \in Request : \A i \in Positions(q) : Demand[q][i].evidence

(* Resources that may hold no capacity. *)
Barred(s, r) ==
    \/ s.resources[r].lifecycle = "Retired"
    \/ EvidenceRequired /\ ~ s.resources[r].authoritative

Free(s) == \A r \in Resource : Barred(s, r) => s.resources[r].reserved = 0

Numbered(s) ==
    \A r \in Resource : s.resources[r].lifecycle # "Absent" => s.resources[r].generation > 0

(***************************************************************************)
(* A placement rests on a known request and on registered resources it has *)
(* observed.  A successor comes later in the log and counts one on.        *)
(***************************************************************************)
Founded(s, p) ==
    /\ s.placements[p].generation > 0 /\ s.placements[p].generation <= p
    /\ s.requests[s.placements[p].request].state # "Absent"
    /\ s.placements[p].resources # {}
    /\ \A r \in s.placements[p].resources :
          s.placements[p].observed[r] > 0 /\ s.resources[r].lifecycle # "Absent"

Sound(s) == Free(s) /\ Numbered(s) /\ \A p \in Placements(s) : Founded(s, p)

LiveHere(s) == \A p \in Live(s) : s.placements[p].epoch = s.epoch

(* A step of the same coordinator from a sound state. *)
Continues(s, t) ==
    /\ Inv(t) /\ Keeps(s, t)
    /\ Sound(t)
    /\ t.epoch = s.epoch
    /\ LiveHere(s) => LiveHere(t)

LEMMA ContinuesTransitive ==
    ASSUME NEW s, Inv(s), NEW m, NEW t, Continues(s, m), Continues(m, t)
    PROVE  Continues(s, t)
<1>1. s \in SchedulerState /\ m \in SchedulerState /\ t \in SchedulerState
  BY DEF Continues, Inv
<1> QED BY <1>1, KeepsTransitive DEF Continues

LEMMA ContinuesReflexive ==
    ASSUME NEW s, Inv(s), Sound(s) PROVE Continues(s, s)
BY KeepsReflexive DEF Continues, Inv

(* What is registered stays so, and its generation never is zero. *)
LEMMA RegisteredStays ==
    ASSUME NEW s, Inv(s), Numbered(s), NEW t, Inv(t), Keeps(s, t)
    PROVE  /\ Numbered(t)
           /\ \A r \in Resource : s.resources[r].lifecycle # "Absent" =>
                 t.resources[r].lifecycle # "Absent"
<1> SUFFICES ASSUME NEW r \in Resource
             PROVE  /\ t.resources[r].lifecycle # "Absent" => t.resources[r].generation > 0
                    /\ s.resources[r].lifecycle # "Absent" => t.resources[r].lifecycle # "Absent"
  BY DEF Numbered
<1>1. s.resources[r] \in ResourceRecord /\ t.resources[r] \in ResourceRecord
  BY Parts DEF Inv
<1>2. s.resources[r].generation \in Nat /\ t.resources[r].generation \in Nat
  BY <1>1 DEF ResourceRecord
<1>3. /\ t.resources[r].generation >= s.resources[r].generation
      /\ t.resources[r].generation = s.resources[r].generation =>
            t.resources[r] = [s.resources[r] EXCEPT !.reserved = t.resources[r].reserved]
  BY DEF Keeps, EvidenceKept
<1>4. t.resources[r].generation = s.resources[r].generation =>
         t.resources[r].lifecycle = s.resources[r].lifecycle
  BY <1>1, <1>3 DEF ResourceRecord
<1>5. s.resources[r].lifecycle # "Absent" => s.resources[r].generation > 0
  BY DEF Numbered
<1>6. t.resources[r].lifecycle = "Absent" => t.resources[r].generation = 0
  BY DEF Inv, Sized, UnregisteredResource
<1> QED BY <1>2, <1>3, <1>4, <1>5, <1>6

(* A placement that was founded stays founded while its request is known. *)
LEMMA FoundedStays ==
    ASSUME NEW s, Inv(s), Numbered(s), NEW t, Inv(t), Keeps(s, t),
           NEW p \in Placements(s), Founded(s, p),
           t.requests[s.placements[p].request].state # "Absent"
    PROVE  Founded(t, p) /\ t.placements[p].epoch = s.placements[p].epoch
<1>1. s.placements[p] \in PlacementRecord
  BY Parts DEF Inv
<1>2. t.placements[p] = [s.placements[p] EXCEPT !.state = t.placements[p].state]
  BY DEF Keeps, LogKept
<1>3. /\ t.placements[p].generation = s.placements[p].generation
      /\ t.placements[p].request = s.placements[p].request
      /\ t.placements[p].epoch = s.placements[p].epoch
      /\ t.placements[p].resources = s.placements[p].resources
      /\ t.placements[p].observed = s.placements[p].observed
      /\ s.placements[p].resources \subseteq Resource
  BY <1>1, <1>2 DEF PlacementRecord
<1>4. \A r \in Resource : s.resources[r].lifecycle # "Absent" => t.resources[r].lifecycle # "Absent"
  BY RegisteredStays
<1> QED BY <1>3, <1>4 DEF Founded

(* A helper that adds no placement. *)
LEMMA QuietContinues ==
    ASSUME NEW s, Inv(s), Sound(s), NEW t, Inv(t), Keeps(s, t), NoBirths(s, t),
           t.epoch = s.epoch, Free(t),
           \A q \in Request : s.requests[q].state # "Absent" => t.requests[q].state # "Absent"
    PROVE  Continues(s, t)
<1>1. \A p \in Placements(t) : p \in Placements(s)
  BY DEF NoBirths
<1>2. ASSUME NEW p \in Placements(s)
      PROVE  Founded(t, p) /\ t.placements[p].epoch = s.placements[p].epoch
  <2>1. s.placements[p].request \in Request /\ Founded(s, p)
    BY Parts DEF Inv, PlacementRecord, Sound
  <2>2. t.requests[s.placements[p].request].state # "Absent"
    BY <2>1 DEF Founded
  <2> QED BY <2>1, <2>2, FoundedStays DEF Sound
<1>3. \A p \in Live(t) : p \in Live(s)
  <2> SUFFICES ASSUME NEW p \in Live(t) PROVE p \in Live(s)
    OBVIOUS
  <2>1. p \in Placements(t) /\ p \in Placements(s) /\ p \in PlacementId
    BY <1>1, Parts DEF Inv, Live
  <2>2. s.placements[p].state \in LiveStates \cup EndStates
    BY <2>1, Parts DEF Inv, PlacementRecord
  <2>3. s.placements[p].state \in EndStates => t.placements[p] = s.placements[p]
    BY <2>1 DEF Keeps, LogKept
  <2> QED BY <2>1, <2>2, <2>3 DEF Live
<1>4. LiveHere(s) => LiveHere(t)
  BY <1>2, <1>3, Parts DEF LiveHere, Inv
<1>5. Numbered(t)
  BY RegisteredStays DEF Sound
<1> QED BY <1>1, <1>2, <1>4, <1>5 DEF Continues, Sound

(* terminate_placement. *)
LEMMA TerminateContinues ==
    ASSUME NEW s, Inv(s), Sound(s), NEW P, NEW target \in EndStates
    PROVE  Continues(s, Terminate(s, P, target))
<1> DEFINE t == Terminate(s, P, target)
<1>1. /\ Ends(s, t, P, target) /\ NoBirths(s, t)
      /\ Inv(t) /\ Keeps(s, t)
  BY TerminateEnds, TerminateNoBirths, TerminateStep
<1> HIDE DEF t
<1>2. t.epoch = s.epoch
  BY <1>1 DEF Ends
<1>3. ASSUME NEW q \in Request, s.requests[q].state # "Absent"
      PROVE  t.requests[q].state # "Absent"
  <2>1. RequestOutcome(target) # "Absent"
    BY DEF RequestOutcome
  <2>2. t.requests[q] = s.requests[q]
        \/ t.requests[q] = [state |-> RequestOutcome(target), current |-> NoPlacement]
    BY <1>1 DEF Ends
  <2> QED BY <1>3, <2>1, <2>2
<1>4. Free(t)
  <2> SUFFICES ASSUME NEW r \in Resource, Barred(t, r) PROVE t.resources[r].reserved = 0
    BY DEF Free
  <2> DEFINE claimed == ClaimedSlots(s, P \cap Live(s), r)
  <2>1. /\ s.resources[r] \in ResourceRecord /\ t.resources[r] \in ResourceRecord
        /\ s \in SchedulerState
    BY <1>1, Parts DEF Inv
  <2>2. /\ t.resources[r] = [s.resources[r] EXCEPT !.reserved = t.resources[r].reserved]
        /\ t.resources[r].reserved = s.resources[r].reserved - claimed
    BY <1>1 DEF Ends
  <2>3. claimed \in Nat
    <3>1. P \cap Live(s) \in SUBSET Active(s)
      BY DEF Inv, Paired
    <3> QED BY <2>1, <3>1, ActiveClaims
  <2> HIDE DEF claimed
  <2>4. Barred(s, r)
    BY <2>1, <2>2 DEF Barred, ResourceRecord
  <2>5. s.resources[r].reserved = 0
    BY <2>4 DEF Sound, Free
  <2>6. t.resources[r].reserved \in Nat
    BY <2>1 DEF ResourceRecord
  <2> QED BY <2>2, <2>3, <2>5, <2>6
<1> QED BY <1>1, <1>2, <1>3, <1>4, QuietContinues DEF t

(* invalidate_worker_incarnation: whatever claimed a lost resource is revoked. *)
LEMMA InvalidateContinues ==
    ASSUME NEW s, Inv(s), Sound(s), NEW w \in Worker, NEW b
    PROVE  Continues(s, Invalidate(s, w, b))
<1> DEFINE d == Demote(s, w, b)
           t == Invalidate(s, w, b)
           P == TouchedBy(s, w, b)
<1>1. Inv(d) /\ Inv(t) /\ Keeps(s, t) /\ NoBirths(s, t)
  BY DemoteStep, InvalidateStep, InvalidateNoBirths
<1>2. t = Terminate(d, P, "ReassignmentRequired")
  BY DEF Invalidate, Demote
<1>3. /\ d.placements = s.placements /\ d.reservations = s.reservations
      /\ d.requests = s.requests /\ d.epoch = s.epoch
      /\ \A r \in Resource :
            d.resources[r] = IF r \in OwnedBy(s, w, b) THEN LoseResource(s.resources[r])
                                                       ELSE s.resources[r]
  BY DEF Demote, Inv, SchedulerState
<1>4. P \subseteq Live(s)
  BY DEF TouchedBy
<1>5. \A p \in Live(s) : s.placements[p].resources \cap OwnedBy(s, w, b) # {} => p \in P
  BY DEF TouchedBy
<1> HIDE DEF d, t, P
<1>6. Ends(d, t, P, "ReassignmentRequired")
  BY <1>1, <1>2, TerminateEnds DEF EndStates
<1>7. t.epoch = s.epoch
  BY <1>3, <1>6 DEF Ends
<1>8. ASSUME NEW q \in Request, s.requests[q].state # "Absent"
      PROVE  t.requests[q].state # "Absent"
  <2>1. RequestOutcome("ReassignmentRequired") # "Absent"
    BY DEF RequestOutcome
  <2>2. t.requests[q] = s.requests[q]
        \/ t.requests[q] = [state |-> RequestOutcome("ReassignmentRequired"), current |-> NoPlacement]
    BY <1>3, <1>6 DEF Ends
  <2> QED BY <1>8, <2>1, <2>2
<1>9. Free(t)
  <2> SUFFICES ASSUME NEW r \in Resource, Barred(t, r) PROVE t.resources[r].reserved = 0
    BY DEF Free
  <2>1. /\ s.resources[r] \in ResourceRecord /\ t.resources[r] \in ResourceRecord
        /\ d.resources[r] \in ResourceRecord
        /\ s \in SchedulerState /\ t \in SchedulerState /\ d \in SchedulerState
        /\ MaxPlacements \in Nat
    BY <1>1, Parts, ConstantsAssumption DEF Inv
  <2>2. CASE r \in OwnedBy(s, w, b)
    <3>1. ASSUME NEW p \in Active(t) PROVE t.reservations[p].claims[r] = 0
      <4>1. p \in PlacementId /\ p \in Live(t) /\ p \in Placements(t)
        BY <1>1, <2>1, Parts DEF Inv, Paired, Active
      <4>2. t.placements[p] = IF p \in P \cap Live(d)
                              THEN [d.placements[p] EXCEPT !.state = "ReassignmentRequired"]
                              ELSE d.placements[p]
        BY <1>6, <4>1 DEF Ends
      <4>3. p \notin P \cap Live(d)
        <5>1. SUFFICES ASSUME p \in P \cap Live(d) PROVE FALSE
          OBVIOUS
        <5>2. d.placements[p] \in PlacementRecord
          BY <2>1, <5>1, Parts
        <5>3. t.placements[p].state = "ReassignmentRequired"
          BY <4>2, <5>1, <5>2 DEF PlacementRecord
        <5> QED BY <4>1, <5>3 DEF Live, LiveStates
      <4>4. t.placements[p] = s.placements[p] /\ p \in Live(s) /\ p \in Live(d)
        BY <1>3, <4>1, <4>2, <4>3 DEF Live
      <4>5. r \notin t.placements[p].resources
        BY <1>5, <2>2, <4>3, <4>4
      <4>6. t.reservations[p].claims[r] \in Nat
        BY <2>1, Parts DEF ReservationRecord
      <4> QED BY <1>1, <4>1, <4>5, <4>6 DEF Inv, Paired
    <3>2. \A n \in PlacementId : ClaimIn(t, Active(t), r, n) = 0
      BY <3>1 DEF ClaimIn
    <3>3. ClaimedSlots(t, Active(t), r) = 0
      BY <2>1, <3>2, ClaimedSlotsNone
    <3> QED BY <1>1, <3>3 DEF Inv, Mirrored
  <2>3. CASE r \notin OwnedBy(s, w, b)
    <3> DEFINE claimed == ClaimedSlots(d, P \cap Live(d), r)
    <3>1. /\ t.resources[r] = [s.resources[r] EXCEPT !.reserved = t.resources[r].reserved]
          /\ t.resources[r].reserved = s.resources[r].reserved - claimed
      BY <1>3, <1>6, <2>3 DEF Ends
    <3>2. claimed \in Nat
      <4>1. P \cap Live(d) \in SUBSET Active(d)
        BY <1>1 DEF Inv, Paired
      <4> QED BY <2>1, <4>1, ActiveClaims
    <3> HIDE DEF claimed
    <3>3. Barred(s, r)
      BY <2>1, <3>1 DEF Barred, ResourceRecord
    <3>4. s.resources[r].reserved = 0
      BY <3>3 DEF Sound, Free
    <3>5. t.resources[r].reserved \in Nat
      BY <2>1 DEF ResourceRecord
    <3> QED BY <3>1, <3>2, <3>4, <3>5
  <2> QED BY <2>2, <2>3
<1> QED BY <1>1, <1>7, <1>8, <1>9, QuietContinues DEF t

(* A helper that changes nothing but the workers, the epoch apart. *)
LEMMA SameLogContinues ==
    ASSUME NEW s, Inv(s), Sound(s), NEW t, Inv(t), Keeps(s, t), t.epoch = s.epoch,
           t.placements = s.placements, t.requests = s.requests, t.resources = s.resources
    PROVE  Continues(s, t)
<1>1. NoBirths(s, t)
  BY DEF NoBirths, Placements
<1>2. Free(t)
  BY DEF Sound, Free, Barred
<1> QED BY <1>1, <1>2, QuietContinues

(* adopt_worker_incarnation. *)
LEMMA AdoptContinues ==
    ASSUME NEW s, Inv(s), Sound(s), NEW w \in Worker, NEW b \in Boot
    PROVE  Continues(s, Adopt(s, w, b))
<1> DEFINE known == s.workers[w].boot
           f == IF known \in {NoBoot, b} THEN s ELSE Invalidate(s, w, known)
           t == Adopt(s, w, b)
<1>1. Continues(s, f)
  <2>1. CASE f = s
    <3> HIDE DEF f
    <3> QED BY <2>1, ContinuesReflexive
  <2>2. CASE f = Invalidate(s, w, known)
    <3>1. Continues(s, Invalidate(s, w, known))
      BY InvalidateContinues
    <3> HIDE DEF f
    <3> QED BY <2>2, <3>1
  <2> QED BY <2>1, <2>2
<1>2. t = [f EXCEPT !.workers[w] = [boot |-> b, connected |-> TRUE]]
  BY DEF Adopt
<1> HIDE DEF f, t
<1>3. Inv(f) /\ Sound(f) /\ f \in SchedulerState
  BY <1>1 DEF Continues, Inv
<1>4. /\ t \in SchedulerState /\ SameBooks(f, t) /\ t.resources = f.resources
      /\ t.placements = f.placements /\ t.requests = f.requests /\ t.epoch = f.epoch
  BY <1>2, <1>3 DEF SchedulerState, WorkerRecord, SameBooks
<1>5. Inv(t) /\ Keeps(f, t)
  BY <1>3, <1>4, OutsideBooksStep
<1>6. Continues(f, t)
  BY <1>3, <1>4, <1>5, SameLogContinues
<1> QED BY <1>1, <1>6, ContinuesTransitive DEF t

LEMMA AdoptOwnerContinues ==
    ASSUME NEW s, Inv(s), Sound(s), NEW r \in Resource, NEW b, Owner[r] # NoWorker => b \in Boot
    PROVE  Continues(s, AdoptOwner(s, r, b))
<1>1. CASE Owner[r] = NoWorker
  BY <1>1, ContinuesReflexive DEF AdoptOwner
<1>2. CASE Owner[r] # NoWorker
  <2>1. Owner[r] \in Worker /\ b \in Boot
    BY <1>2, ConstantsAssumption
  <2> QED BY <1>2, <2>1, AdoptContinues DEF AdoptOwner
<1> QED BY <1>1, <1>2

(* A resource takes a new record: what bars it from holding capacity finds none. *)
LEMMA ResourceEditContinues ==
    ASSUME NEW s, Inv(s), Sound(s), NEW r \in Resource, NEW x \in ResourceRecord,
           x.reserved = s.resources[r].reserved, x.lifecycle # "Absent", x.slots > 0,
           Occupied(x) <= x.slots, x.generation > s.resources[r].generation,
           (x.lifecycle = "Retired" \/ ~ x.authoritative) => x.reserved = 0
    PROVE  Continues(s, [s EXCEPT !.resources[r] = x])
<1> DEFINE t == [s EXCEPT !.resources[r] = x]
<1>1. Inv(t) /\ Keeps(s, t)
  BY ResourceEditStep
<1>2. /\ t.placements = s.placements /\ t.requests = s.requests /\ t.epoch = s.epoch
      /\ \A o \in Resource : t.resources[o] = IF o = r THEN x ELSE s.resources[o]
  BY DEF Inv, SchedulerState
<1> HIDE DEF t
<1>3. Free(t)
  BY <1>2 DEF Sound, Free, Barred
<1>4. NoBirths(s, t)
  BY <1>2 DEF NoBirths, Placements
<1> QED BY <1>1, <1>2, <1>3, <1>4, QuietContinues DEF t

(* A request takes another outcome. *)
LEMMA RequestEditContinues ==
    ASSUME NEW s, Inv(s), Sound(s), NEW q \in Request, NEW x \in StoredRequest,
           x.state \notin {"Placed", "Absent"}, x.current \in {NoPlacement, s.requests[q].current}
    PROVE  Continues(s, [s EXCEPT !.requests[q] = x])
<1> DEFINE t == [s EXCEPT !.requests[q] = x]
<1>1. Inv(t) /\ Keeps(s, t)
  BY RequestEditStep
<1>2. /\ t.placements = s.placements /\ t.resources = s.resources /\ t.epoch = s.epoch
      /\ \A o \in Request : t.requests[o] = IF o = q THEN x ELSE s.requests[o]
  BY DEF Inv, SchedulerState
<1> HIDE DEF t
<1>3. Free(t)
  BY <1>2 DEF Sound, Free, Barred
<1>4. NoBirths(s, t)
  BY <1>2 DEF NoBirths, Placements
<1> QED BY <1>1, <1>2, <1>3, <1>4, QuietContinues DEF t

(* A live placement moves on. *)
LEMMA PlacementEditContinues ==
    ASSUME NEW s, Inv(s), Sound(s), NEW p \in Live(s), NEW x \in LiveStates
    PROVE  Continues(s, [s EXCEPT !.placements[p].state = x])
<1> DEFINE t == [s EXCEPT !.placements[p].state = x]
<1>1. Inv(t) /\ Keeps(s, t)
  BY PlacementEditStep
<1>2. /\ t.requests = s.requests /\ t.resources = s.resources /\ t.epoch = s.epoch
      /\ \A o \in PlacementId : o # p => t.placements[o] = s.placements[o]
  BY DEF Inv, SchedulerState
<1>3. p \in Placements(s)
  BY Parts DEF Inv
<1> HIDE DEF t
<1>4. Free(t)
  BY <1>2 DEF Sound, Free, Barred
<1>5. NoBirths(s, t)
  BY <1>2, <1>3 DEF NoBirths, Placements
<1> QED BY <1>1, <1>2, <1>4, <1>5, QuietContinues DEF t

(* What the commit of schedule_locked writes into the placement. *)
LEMMA CommitWrites ==
    ASSUME NEW s, Inv(s), ~ LogIsFull(s), NEW q \in Request, NEW sel, NEW generation,
           NEW reassignments
    PROVE  LET t == Commit(s, q, sel, generation, reassignments)
               n == NextPlacement(s)
           IN  /\ t.epoch = s.epoch
               /\ t.placements[n].epoch = s.epoch
               /\ t.placements[n].generation = generation
               /\ t.placements[n].reassignments = reassignments
               /\ t.placements[n].resources = Range(sel)
               /\ t.placements[n].observed = [r \in Resource |->
                      IF r \in Range(sel) THEN s.resources[r].generation ELSE 0]
<1> DEFINE t == Commit(s, q, sel, generation, reassignments)
           n == NextPlacement(s)
           home == Home(s, sel)
           claims == [r \in Resource |-> ClaimOf(s, q, sel, r)]
           observed == [r \in Resource |->
                           IF r \in Range(sel) THEN s.resources[r].generation ELSE 0]
           placement ==
               [state |-> "Reserved", request |-> q, generation |-> generation,
                epoch |-> s.epoch, reassignments |-> reassignments,
                resources |-> Range(sel), observed |-> observed,
                worker |-> home.worker, boot |-> home.boot]
           exclusive == {sel[i] : i \in {j \in DOMAIN sel :
                                     ClaimsExclusively(s, Demand[q][j], sel[j])}}
           reservation == [state |-> "Active", claims |-> claims, exclusive |-> exclusive]
           res == [r \in Resource |->
                      [s.resources[r] EXCEPT !.reserved = s.resources[r].reserved + claims[r]]]
<1>1. s \in SchedulerState /\ n \in PlacementId
  BY NextPlacementIsFresh DEF Inv
<1>2. t = [s EXCEPT !.placements[n] = placement, !.reservations[n] = reservation,
                    !.resources = res, !.unitCurrent[UnitOf[q]] = n,
                    !.requests[q] = [state |-> "Placed", current |-> n]]
  BY DEF Commit
<1>3. /\ placement.epoch = s.epoch /\ placement.generation = generation
      /\ placement.reassignments = reassignments
      /\ placement.resources = Range(sel) /\ placement.observed = observed
  OBVIOUS
<1> HIDE DEF placement, reservation, res, t, n
<1>4. t.epoch = s.epoch /\ t.placements[n] = placement
  BY <1>1, <1>2 DEF SchedulerState
<1> QED BY <1>3, <1>4 DEF t, n

(* A selection is not empty, and holds registered resources that may hold capacity. *)
LEMMA SelectedAreFree ==
    ASSUME NEW s, NEW q \in Request, NEW sel \in Selections(s, q)
    PROVE  /\ Range(sel) # {} /\ Range(sel) \subseteq Resource
           /\ \A r \in Range(sel) : s.resources[r].lifecycle # "Absent" /\ ~ Barred(s, r)
<1>1. Demand[q] \in Seq(Requirement) /\ Demand[q] # << >>
  BY ConstantsAssumption
<1>2. 1 \in Positions(q)
  BY <1>1 DEF Positions
<1>3. /\ sel \in [Positions(q) -> Resource]
      /\ \A i \in Positions(q) : sel[i] \in Eligible(s, Demand[q][i])
  BY DEF Selections
<1>4. sel[1] \in Range(sel) /\ Range(sel) \subseteq Resource
  BY <1>2, <1>3 DEF Range
<1>5. ASSUME NEW r \in Range(sel)
      PROVE  s.resources[r].lifecycle # "Absent" /\ ~ Barred(s, r)
  <2>1. PICK i \in Positions(q) : r = sel[i]
    BY <1>3 DEF Range
  <2>2. r \in Eligible(s, Demand[q][i])
    BY <1>3, <2>1
  <2>3. /\ s.resources[r].lifecycle \notin {"Absent", "Retired", "Lost"}
        /\ Demand[q][i].evidence => s.resources[r].authoritative
    BY <2>2 DEF Eligible
  <2> QED BY <2>1, <2>3 DEF Barred, EvidenceRequired
<1> QED BY <1>4, <1>5

(* schedule_locked, with a generation that is not zero. *)
LEMMA CommitContinues ==
    ASSUME NEW s, Inv(s), Sound(s), ~ LogIsFull(s), NEW q \in Request,
           NEW sel \in Selections(s, q), NEW generation \in Nat, generation > 0,
           generation <= NextPlacement(s), NEW reassignments \in Nat
    PROVE  Continues(s, Commit(s, q, sel, generation, reassignments))
<1> DEFINE t == Commit(s, q, sel, generation, reassignments)
           n == NextPlacement(s)
           claims == [r \in Resource |-> ClaimOf(s, q, sel, r)]
<1>1. Inv(t) /\ Keeps(s, t)
  BY CommitStep
<1>2. Adds(s, t, n, q, claims)
  BY CommitAdds
<1>3. /\ t.epoch = s.epoch
      /\ t.placements[n].epoch = s.epoch
      /\ t.placements[n].generation = generation
      /\ t.placements[n].resources = Range(sel)
      /\ t.placements[n].observed = [r \in Resource |->
             IF r \in Range(sel) THEN s.resources[r].generation ELSE 0]
  BY CommitWrites
<1>4. /\ n \in PlacementId /\ s \in SchedulerState /\ claims \in [Resource -> Nat]
      /\ generation <= n
  BY NextPlacementIsFresh, ClaimsFit DEF Inv
<1>5. /\ Range(sel) # {} /\ Range(sel) \subseteq Resource
      /\ \A r \in Range(sel) : s.resources[r].lifecycle # "Absent" /\ ~ Barred(s, r)
  BY SelectedAreFree
<1> HIDE DEF t, n, claims
<1>6. /\ \A p \in PlacementId : p # n => t.placements[p] = s.placements[p]
      /\ t.placements[n].request = q /\ t.requests[q].state = "Placed"
      /\ \A o \in Request : o # q => t.requests[o] = s.requests[o]
  BY <1>2, <1>4 DEF Adds, SchedulerState
<1>7. Free(t)
  <2> SUFFICES ASSUME NEW r \in Resource, Barred(t, r) PROVE t.resources[r].reserved = 0
    BY DEF Free
  <2>1. s.resources[r] \in ResourceRecord /\ claims[r] \in Nat
    BY <1>4, Parts
  <2>2. /\ t.resources[r] =
              [s.resources[r] EXCEPT !.reserved = s.resources[r].reserved + claims[r]]
        /\ claims[r] > 0 <=> r \in Range(sel)
    BY <1>2, <1>3 DEF Adds
  <2>3. /\ t.resources[r].lifecycle = s.resources[r].lifecycle
        /\ t.resources[r].authoritative = s.resources[r].authoritative
        /\ t.resources[r].reserved = s.resources[r].reserved + claims[r]
    BY <2>1, <2>2 DEF ResourceRecord
  <2>4. Barred(s, r)
    BY <2>3 DEF Barred
  <2>5. s.resources[r].reserved = 0
    BY <2>4 DEF Sound, Free
  <2>6. claims[r] = 0
    BY <1>5, <2>1, <2>2, <2>4
  <2> QED BY <2>3, <2>5, <2>6
<1>8. Numbered(t)
  BY <1>1, RegisteredStays DEF Sound
<1>9. Founded(t, n)
  <2>1. ASSUME NEW r \in Range(sel)
        PROVE  t.placements[n].observed[r] > 0 /\ t.resources[r].lifecycle # "Absent"
    <3>1. r \in Resource /\ s.resources[r].lifecycle # "Absent"
      BY <1>5
    <3>2. t.resources[r].lifecycle # "Absent"
      BY <1>1, <3>1, RegisteredStays DEF Sound
    <3>3. t.placements[n].observed[r] = s.resources[r].generation
      BY <1>3, <3>1
    <3>4. s.resources[r].generation > 0
      BY <3>1 DEF Sound, Numbered
    <3> QED BY <3>2, <3>3, <3>4
  <2> QED BY <1>3, <1>4, <1>5, <1>6, <2>1 DEF Founded
<1>10. ASSUME NEW p \in Placements(t), p # n
       PROVE  Founded(t, p) /\ t.placements[p] = s.placements[p]
  <2>1. p \in PlacementId /\ p \in Placements(s) /\ t.placements[p] = s.placements[p]
    BY <1>6, <1>10 DEF Placements
  <2>2. Founded(s, p) /\ s.placements[p].request \in Request
    BY <2>1, <1>4, Parts DEF Sound, PlacementRecord
  <2>3. t.requests[s.placements[p].request].state # "Absent"
    BY <1>6, <2>2 DEF Founded
  <2> QED BY <1>1, <2>1, <2>2, <2>3, FoundedStays DEF Sound
<1>11. Sound(t)
  BY <1>7, <1>8, <1>9, <1>10 DEF Sound
<1>12. LiveHere(s) => LiveHere(t)
  <2> SUFFICES ASSUME LiveHere(s), NEW p \in Live(t) PROVE t.placements[p].epoch = t.epoch
    BY DEF LiveHere
  <2>1. p \in Placements(t)
    BY <1>1, Parts DEF Inv
  <2>2. CASE p = n
    BY <1>3, <2>2
  <2>3. CASE p # n
    BY <1>3, <1>10, <2>1, <2>3 DEF Live, LiveHere
  <2> QED BY <2>2, <2>3
<1> QED BY <1>1, <1>3, <1>11, <1>12 DEF Continues, t

LEMMA ScheduleContinues ==
    ASSUME NEW s, Inv(s), Sound(s), NEW q \in Request, NEW generation \in Nat, generation > 0,
           ~ LogIsFull(s) => generation <= NextPlacement(s),
           NEW reassignments \in Nat, NEW t \in Schedule(s, q, generation, reassignments)
    PROVE  Continues(s, t)
<1>1. CASE t = RejectRequest(s, q)
  <2> DEFINE x == [state |-> "NoPlacement", current |-> NoPlacement]
  <2>1. x \in StoredRequest /\ x.state \notin {"Placed", "Absent"} /\ x.current = NoPlacement
    BY DEF StoredRequest
  <2>2. t = [s EXCEPT !.requests[q] = x]
    BY <1>1 DEF RejectRequest
  <2> HIDE DEF x
  <2> QED BY <2>1, <2>2, RequestEditContinues
<1>2. CASE t = s
  BY <1>2, ContinuesReflexive
<1>3. ASSUME NEW sel \in Selections(s, q), ~ LogIsFull(s),
             t = Commit(s, q, sel, generation, reassignments)
      PROVE  Continues(s, t)
  BY <1>3, CommitContinues
<1>4. \/ t = RejectRequest(s, q)
      \/ \E sel \in Selections(s, q) :
            t = IF LogIsFull(s) THEN s ELSE Commit(s, q, sel, generation, reassignments)
  BY DEF Schedule
<1> QED BY <1>1, <1>2, <1>3, <1>4

(* The successor of a placement. *)
LEMMA ReplaceContinues ==
    ASSUME NEW s, Inv(s), Sound(s), NEW p \in Placements(s), NEW t \in Replace(s, p)
    PROVE  Continues(s, t)
<1>1. s.placements[p] \in PlacementRecord
  BY Parts DEF Inv
<1>2. /\ s.placements[p].request \in Request
      /\ s.placements[p].generation + 1 \in Nat /\ s.placements[p].generation + 1 > 0
      /\ s.placements[p].reassignments + 1 \in Nat
  BY <1>1 DEF PlacementRecord
<1>3. ~ LogIsFull(s) => s.placements[p].generation + 1 <= NextPlacement(s)
  <2> SUFFICES ASSUME ~ LogIsFull(s) PROVE s.placements[p].generation + 1 <= NextPlacement(s)
    OBVIOUS
  <2>1. /\ NextPlacement(s) \in PlacementId /\ p \in 1 .. NextPlacement(s)
        /\ s.placements[NextPlacement(s)].state = "Absent"
    BY NextPlacementIsFresh DEF Absent
  <2>2. p # NextPlacement(s)
    BY <2>1 DEF Placements
  <2>3. s.placements[p].generation <= p /\ s.placements[p].generation \in Nat
    BY <1>1 DEF Sound, Founded, PlacementRecord
  <2>4. NextPlacement(s) \in Nat
    BY <2>1, ConstantsAssumption DEF PlacementId
  <2> HIDE DEF NextPlacement
  <2> QED BY <2>1, <2>2, <2>3, <2>4
<1> QED BY <1>2, <1>3, ScheduleContinues DEF Replace

-----------------------------------------------------------------------------
(* The operations. *)
Moves == Continues(state, state')

LEMMA RegisterResourceContinues ==
    ASSUME Inv(state), Sound(state), NEW r \in Resource, NEW b \in BootsOf(state, r),
           NEW ad \in Advertised[r], RegisterResource(r, b, ad)
    PROVE  Moves
<1> DEFINE a == AdoptOwner(state, r, b)
           x == CurrentRecord(ad, b, 1, 0)
<1>1. Continues(state, a) /\ UnknownKept(state, a)
  BY BootsOfType, AdoptOwnerContinues, AdoptOwnerStep
<1>2. a.resources[r] = UnregisteredResource
  BY <1>1 DEF RegisterResource, Inv, Sized, UnknownKept, Registrable
<1>3. a.resources[r].reserved = 0 /\ a.resources[r].generation = 0
  BY <1>2 DEF UnregisteredResource
<1>4. /\ x \in ResourceRecord /\ x.reserved = 0 /\ x.generation = 1
      /\ x.lifecycle # "Absent" /\ x.slots > 0 /\ x.slots = ad.slots
      /\ Occupied(x) = ad.occupancy + 0
  <2>1. ad \in Advertisement /\ b \in Boot \cup {NoBoot}
    BY AdvertisedType, BootsOfType
  <2>2. 0 \in Nat /\ 1 \in Nat
    OBVIOUS
  <2> QED BY <2>1, <2>2, CurrentRecordType
<1>5. Occupied(x) <= x.slots
  BY <1>4, AdvertisedType
<1>6. state' = [a EXCEPT !.resources[r] = x]
  BY DEF RegisterResource, Become, Registrable
<1>7. Inv(a) /\ Sound(a)
  BY <1>1 DEF Continues
<1> HIDE DEF a, x
<1>8. Continues(a, state')
  BY <1>3, <1>4, <1>5, <1>6, <1>7, ResourceEditContinues
<1> QED BY <1>1, <1>8, ContinuesTransitive DEF Moves

LEMMA PublishResourceStateContinues ==
    ASSUME Inv(state), Sound(state), NEW r \in Resource, NEW b \in BootsOf(state, r),
           NEW ad \in Advertised[r], PublishResourceState(r, b, ad)
    PROVE  Moves
<1> DEFINE a == IF state.resources[r].boot = b THEN state ELSE AdoptOwner(state, r, b)
           record == a.resources[r]
           next == record.generation + 1
           held == record.reserved
           x == CurrentRecord(ad, b, next, held)
<1>1. Continues(state, a)
  <2>1. CASE state.resources[r].boot = b
    BY <2>1, ContinuesReflexive
  <2>2. CASE state.resources[r].boot # b
    <3>1. a = AdoptOwner(state, r, b)
      BY <2>2
    <3>2. Continues(state, AdoptOwner(state, r, b))
      BY BootsOfType, AdoptOwnerContinues
    <3> HIDE DEF a
    <3> QED BY <3>1, <3>2
  <2> QED BY <2>1, <2>2
<1>2. \/ state' = a
      \/ /\ ad.occupancy + held <= ad.slots
         /\ state' = [a EXCEPT !.resources[r] = x]
  BY DEF PublishResourceState, Become
<1>3. x.authoritative /\ x.lifecycle = "Current"
  BY DEF CurrentRecord
<1> HIDE DEF a
<1>4. Inv(a) /\ Sound(a) /\ record \in ResourceRecord
  BY <1>1, Parts DEF Continues, Inv
<1>5. held \in Nat /\ next \in Nat /\ next > record.generation
  BY <1>4 DEF ResourceRecord
<1>6. ad \in Advertisement /\ b \in Boot \cup {NoBoot}
  BY AdvertisedType, BootsOfType
<1> HIDE DEF next, held
<1>7. /\ x \in ResourceRecord
      /\ x.reserved = held /\ x.generation = next
      /\ x.lifecycle # "Absent" /\ x.slots > 0 /\ x.slots = ad.slots
      /\ Occupied(x) = ad.occupancy + held
  BY <1>5, <1>6, CurrentRecordType
<1>8. CASE state' = a
  BY <1>1, <1>8 DEF Moves
<1>9. CASE /\ ad.occupancy + held <= ad.slots
           /\ state' = [a EXCEPT !.resources[r] = x]
  <2> HIDE DEF x
  <2>1. x.reserved = a.resources[r].reserved /\ x.generation > a.resources[r].generation
    BY <1>5, <1>7 DEF held
  <2>2. Continues(a, state')
    BY <1>3, <1>4, <1>7, <1>9, <2>1, ResourceEditContinues
  <2> QED BY <1>1, <2>2, ContinuesTransitive DEF Moves
<1> QED BY <1>2, <1>8, <1>9

LEMMA RetireResourceContinues ==
    ASSUME Inv(state), Sound(state), NEW r \in Resource, RetireResource(r)
    PROVE  Moves
<1> DEFINE record == state.resources[r]
           next == record.generation + 1
           x == [record EXCEPT !.lifecycle = "Retired", !.authoritative = FALSE,
                               !.generation = next]
<1>1. /\ state \in SchedulerState /\ record \in ResourceRecord
      /\ record.lifecycle # "Absent" /\ record.slots > 0 /\ Occupied(record) <= record.slots
      /\ record.reserved = 0
  BY Parts DEF RetireResource, Inv, Sized, WithinSlots, UnregisteredResource, Retirable
<1>2. next \in Nat /\ next > record.generation
  BY <1>1 DEF ResourceRecord
<1>3. state' = [state EXCEPT !.resources[r] = x]
  BY <1>1 DEF RetireResource, Become, SchedulerState, Retirable
<1> HIDE DEF next
<1>4. /\ x \in ResourceRecord /\ x.reserved = record.reserved /\ x.lifecycle # "Absent"
      /\ x.slots = record.slots /\ x.occupancy = record.occupancy /\ x.generation = next
  BY <1>1, <1>2 DEF ResourceRecord
<1> HIDE DEF x
<1>5. x.slots > 0 /\ Occupied(x) <= x.slots /\ x.reserved = 0
  BY <1>1, <1>4 DEF Occupied
<1> QED BY <1>2, <1>3, <1>4, <1>5, ResourceEditContinues DEF Moves

LEMMA SubmitRequestContinues ==
    ASSUME Inv(state), Sound(state), NEW q \in Request, SubmitRequest(q)
    PROVE  Moves
<1> DEFINE x == [state |-> "Submitted", current |-> NoPlacement]
           submitted == [state EXCEPT !.requests[q] = x]
<1>1. x \in StoredRequest /\ x.state \notin {"Placed", "Absent"} /\ x.current = NoPlacement
  BY DEF StoredRequest
<1>2. state' \in Schedule(submitted, q, 1, 0)
  BY DEF SubmitRequest, Become, Submittable
<1> HIDE DEF x
<1>3. Continues(state, submitted)
  BY <1>1, RequestEditContinues
<1>4. Inv(submitted) /\ Sound(submitted)
  BY <1>3 DEF Continues
<1> HIDE DEF submitted
<1>5. ~ LogIsFull(submitted) => 1 <= NextPlacement(submitted)
  BY <1>4, NextPlacementIsFresh, ConstantsAssumption DEF PlacementId
<1>6. Continues(submitted, state')
  BY <1>2, <1>4, <1>5, ScheduleContinues
<1> QED BY <1>3, <1>6, ContinuesTransitive DEF Moves

LEMMA CancelRequestContinues ==
    ASSUME Inv(state), Sound(state), NEW q \in Request, CancelRequest(q)
    PROVE  Moves
<1> DEFINE P == {p \in Placements(state) : state.placements[p].request = q}
           e == Terminate(state, P, "Cancelled")
           x == [state |-> "Cancelled", current |-> NoPlacement]
<1>1. Continues(state, e)
  <2>1. "Cancelled" \in EndStates
    BY DEF EndStates
  <2> HIDE DEF P
  <2> QED BY <2>1, TerminateContinues
<1>2. x \in StoredRequest /\ x.state \notin {"Placed", "Absent"} /\ x.current = NoPlacement
  BY DEF StoredRequest
<1>3. state' = [e EXCEPT !.requests[q] = x]
  BY DEF CancelRequest, Become
<1> HIDE DEF e, x
<1>4. Continues(e, state')
  BY <1>1, <1>2, <1>3, RequestEditContinues DEF Continues
<1> QED BY <1>1, <1>4, ContinuesTransitive DEF Moves

LEMMA EndPlacementContinues ==
    ASSUME Inv(state), Sound(state), NEW p \in PlacementId, NEW c, NEW b, NEW evidence,
           NEW target \in {"Completed", "Failed"},
           \/ ReportCompletion(p, c, b, evidence, target)
           \/ CancelPlacement(p, c)
    PROVE  Moves
<1>1. \E end \in EndStates : state' = Terminate(state, {p}, end)
  BY DEF ReportCompletion, CancelPlacement, Become, EndStates, Completable, Authorised, EndableByController
<1> QED BY <1>1, TerminateContinues DEF Moves

LEMMA MarkPlacementContinues ==
    ASSUME Inv(state), Sound(state), NEW p \in PlacementId, NEW c, NEW b,
           MarkAssigned(p, c, b) \/ MarkRunning(p, c, b)
    PROVE  Moves
<1>1. \E x \in LiveStates : state' = [state EXCEPT !.placements[p].state = x]
  BY DEF MarkAssigned, MarkRunning, Become, LiveStates, Assignable, Authorised, Startable
<1>2. p \in Live(state)
  BY DEF MarkAssigned, MarkRunning, Live, LiveStates, Assignable, Authorised, Startable
<1> QED BY <1>1, <1>2, PlacementEditContinues DEF Moves

LEMMA ReassignPlacementContinues ==
    ASSUME Inv(state), Sound(state), NEW p \in PlacementId, NEW c, ReassignPlacement(p, c)
    PROVE  Moves
<1> DEFINE e == Terminate(state, {p}, "ReassignmentRequired")
<1>1. Continues(state, e)
  <2>1. "ReassignmentRequired" \in EndStates
    BY DEF EndStates
  <2> QED BY <2>1, TerminateContinues
<1>2. p \in Placements(state)
  BY DEF ReassignPlacement, Known, Reassignable
<1>3. state' = e \/ state' \in Replace(e, p)
  BY DEF ReassignPlacement, Become, Reassignable
<1> HIDE DEF e
<1>4. Inv(e) /\ Sound(e) /\ p \in Placements(e)
  BY <1>1, <1>2 DEF Continues, Keeps, LogKept
<1>5. CASE state' = e
  BY <1>1, <1>5 DEF Moves
<1>6. CASE state' \in Replace(e, p)
  BY <1>1, <1>4, <1>6, ReplaceContinues, ContinuesTransitive DEF Moves
<1> QED BY <1>3, <1>5, <1>6

LEMMA PreemptPlacementContinues ==
    ASSUME Inv(state), Sound(state), NEW p \in PlacementId, NEW c, PreemptPlacement(p, c)
    PROVE  Moves
<1> DEFINE q == state.placements[p].request
           e == Terminate(state, {p}, "Preempted")
           m == [e EXCEPT !.requests[q].state = "Submitted"]
<1>1. Continues(state, e)
  <2>1. "Preempted" \in EndStates
    BY DEF EndStates
  <2> QED BY <2>1, TerminateContinues
<1>2. p \in Placements(state) /\ q \in Request
  <2>1. p \in Placements(state)
    BY DEF PreemptPlacement, Known, EndableByController
  <2>2. state.placements[p] \in PlacementRecord
    BY <2>1, Parts DEF Inv
  <2> QED BY <2>1, <2>2 DEF PlacementRecord
<1>3. state' = m \/ state' \in Replace(m, p)
  BY DEF PreemptPlacement, Become, EndableByController
<1> HIDE DEF e, q
<1>4. Continues(e, m)
  <2> DEFINE x == [e.requests[q] EXCEPT !.state = "Submitted"]
  <2>1. e \in SchedulerState /\ e.requests[q] \in StoredRequest
    BY <1>1, <1>2, Parts DEF Continues, Inv
  <2>2. /\ x \in StoredRequest /\ x.state \notin {"Placed", "Absent"}
        /\ x.current = e.requests[q].current
    BY <2>1 DEF StoredRequest
  <2>3. m = [e EXCEPT !.requests[q] = x]
    BY <1>2, <2>1 DEF SchedulerState
  <2> HIDE DEF m, x
  <2> QED BY <1>1, <1>2, <2>2, <2>3, RequestEditContinues DEF Continues
<1> HIDE DEF m
<1>5. Continues(state, m)
  BY <1>1, <1>4, ContinuesTransitive
<1>6. Inv(m) /\ Sound(m) /\ p \in Placements(m)
  BY <1>2, <1>5 DEF Continues, Keeps, LogKept
<1>7. CASE state' = m
  BY <1>5, <1>7 DEF Moves
<1>8. CASE state' \in Replace(m, p)
  BY <1>5, <1>6, <1>8, ReplaceContinues, ContinuesTransitive DEF Moves
<1> QED BY <1>3, <1>7, <1>8

(* Every operation a coordinator performs continues it. *)
LEMMA OperationContinues ==
    ASSUME Inv(state), Sound(state),
           \/ ResourceOperation
           \/ WorkerOperation
           \/ \E q \in Request : SubmitRequest(q) \/ CancelRequest(q)
           \/ PlacementOperation
    PROVE  Moves
<1>1. CASE ResourceOperation
  BY <1>1, RegisterResourceContinues, PublishResourceStateContinues, RetireResourceContinues
     DEF ResourceOperation
<1>2. CASE WorkerOperation
  <2>1. ASSUME NEW w \in Worker, NEW b \in Deliverable(state, w), WorkerConnected(w, b)
        PROVE  Moves
    BY <2>1, AdoptContinues DEF Deliverable, WorkerConnected, Become, Moves
  <2>2. ASSUME NEW w \in Worker, NEW b \in Boot, MarkWorkerLost(w, b) PROVE Moves
    BY <2>2, InvalidateContinues DEF MarkWorkerLost, Become, Moves
  <2> QED BY <1>2, <2>1, <2>2 DEF WorkerOperation
<1>3. CASE \E q \in Request : SubmitRequest(q) \/ CancelRequest(q)
  BY <1>3, SubmitRequestContinues, CancelRequestContinues
<1>4. CASE PlacementOperation
  <2>1. PICK p \in PlacementId, c \in Credential :
           \/ \E b \in Boot \cup {NoBoot} :
                 \/ MarkAssigned(p, c, b)
                 \/ MarkRunning(p, c, b)
                 \/ \E evidence \in BOOLEAN, target \in {"Completed", "Failed"} :
                        ReportCompletion(p, c, b, evidence, target)
           \/ CancelPlacement(p, c)
           \/ ReassignPlacement(p, c)
           \/ PreemptPlacement(p, c)
    BY <1>4 DEF PlacementOperation
  <2>2. CASE CancelPlacement(p, c)
    <3>1. "Failed" \in {"Completed", "Failed"}
      OBVIOUS
    <3> QED BY <2>2, <3>1, EndPlacementContinues
  <2> QED BY <2>1, <2>2, MarkPlacementContinues, EndPlacementContinues,
             ReassignPlacementContinues, PreemptPlacementContinues
<1> QED BY <1>1, <1>2, <1>3, <1>4

(* The empty engine is sound. *)
LEMMA EmptySound ==
    ASSUME NEW s, s = EmptyState PROVE Sound(s) /\ LiveHere(s)
<1>1. /\ \A p \in PlacementId : s.placements[p] = Absent
      /\ \A r \in Resource : s.resources[r] = UnregisteredResource
  BY DEF EmptyState
<1>2. Placements(s) = {} /\ Live(s) = {}
  BY <1>1 DEF Placements, Live, Absent, LiveStates
<1> QED BY <1>1, <1>2 DEF Sound, Free, Numbered, LiveHere, UnregisteredResource

(* Every step keeps the log sound, those that the coordinator never takes included. *)
LEMMA NextSound ==
    ASSUME Inv(state), Sound(state), [Next]_state PROVE Sound(state')
<1>1. CASE /\ state'.placements = state.placements /\ state'.requests = state.requests
           /\ state'.resources = state.resources
  <2>1. Placements(state') = Placements(state)
    BY <1>1 DEF Placements
  <2> QED BY <1>1, <2>1 DEF Sound, Free, Barred, Numbered, Founded
<1>2. CASE (\E e \in 1 .. MaxEpoch : AdoptEpoch(e)) \/ BeginShutdown
  BY <1>1, <1>2 DEF AdoptEpoch, BeginShutdown, Become, Inv, SchedulerState
<1>3. CASE UNCHANGED state
  BY <1>1, <1>3
<1> QED BY <1>2, <1>3, OperationContinues DEF Next, Moves, Continues

(* What placements rest on is there, in every reachable state of the engine. *)
THEOREM SoundHolds == Spec => []Sound(state)
<1>1. Init => Sound(state)
  BY EmptySound DEF Init
<1>2. Inv(state) /\ Sound(state) /\ [Next]_state => Sound(state)'
  BY NextSound
<1> QED BY <1>1, <1>2, InvHolds, PTL DEF Spec

(***************************************************************************)
(* If every request insists on current evidence, a resource whose evidence *)
(* has lost authority holds no reserved capacity: whatever claimed it is   *)
(* revoked in the step that takes the authority away, and the search never *)
(* picks it.                                                               *)
(***************************************************************************)
THEOREM StaleAuthorityIsFreed == EvidenceRequired => (Spec => []StaleAuthorityHoldsNothing)
<1> SUFFICES ASSUME EvidenceRequired PROVE Spec => []StaleAuthorityHoldsNothing
  OBVIOUS
<1>1. Sound(state) => StaleAuthorityHoldsNothing
  BY DEF Sound, Free, Barred, StaleAuthorityHoldsNothing
<1> QED BY <1>1, SoundHolds, PTL

-----------------------------------------------------------------------------
(***************************************************************************)
(* Exclusive claims, where the slots of a resource never change.           *)
(***************************************************************************)
FixedSlots == \A r \in Resource : \A a, b \in Advertised[r] : a.slots = b.slots

AsAdvertised(s, r) ==
    s.resources[r].lifecycle # "Absent" => \E ad \in Advertised[r] : s.resources[r].slots = ad.slots

(* An exclusive claim takes all the slots of its resource. *)
TakesWhole(s, p) ==
    \A r \in s.reservations[p].exclusive :
        /\ s.resources[r].lifecycle # "Absent"
        /\ s.reservations[p].claims[r] = s.resources[r].slots

Whole(s) ==
    /\ \A r \in Resource : AsAdvertised(s, r)
    /\ \A p \in Active(s) : TakesWhole(s, p)

(* Registered resources keep their slots. *)
SlotsKept(s, t) ==
    \A r \in Resource :
        /\ s.resources[r].lifecycle # "Absent" =>
              /\ t.resources[r].lifecycle # "Absent"
              /\ t.resources[r].slots = s.resources[r].slots
        /\ AsAdvertised(t, r)

(* Slots are kept and no claim is new. *)
LEMMA QuietWhole ==
    ASSUME NEW s, Inv(s), Whole(s), NEW t, SlotsKept(s, t), Active(t) \subseteq Active(s),
           \A p \in Active(t) : /\ t.reservations[p].claims = s.reservations[p].claims
                                /\ t.reservations[p].exclusive = s.reservations[p].exclusive
    PROVE  Whole(t)
<1>1. \A p \in Active(s) : s.reservations[p].exclusive \subseteq Resource
  BY Parts DEF Inv, ReservationRecord
<1> QED BY <1>1 DEF Whole, TakesWhole, SlotsKept

(* terminate_placement. *)
LEMMA TerminateWhole ==
    ASSUME NEW s, Inv(s), Whole(s), NEW P, NEW target \in EndStates
    PROVE  Inv(Terminate(s, P, target)) /\ Whole(Terminate(s, P, target))
<1> DEFINE t == Terminate(s, P, target)
<1>1. Ends(s, t, P, target) /\ Inv(t)
  BY TerminateEnds, TerminateStep
<1> HIDE DEF t
<1>2. \A r \in Resource :
         /\ s.resources[r] \in ResourceRecord
         /\ t.resources[r] = [s.resources[r] EXCEPT !.reserved = t.resources[r].reserved]
  BY <1>1, Parts DEF Inv, Ends
<1>3. \A r \in Resource : /\ t.resources[r].lifecycle = s.resources[r].lifecycle
                         /\ t.resources[r].slots = s.resources[r].slots
  BY <1>2 DEF ResourceRecord
<1>4. SlotsKept(s, t)
  BY <1>3 DEF SlotsKept, Whole, AsAdvertised
<1>5. ASSUME NEW p \in Active(t)
      PROVE  p \in Active(s) /\ t.reservations[p] = s.reservations[p]
  <2>1. p \in PlacementId /\ p \notin P \cap Live(s)
    <3>1. p \in PlacementId /\ p \in Live(t)
      BY <1>1 DEF Active, Inv, Paired
    <3>2. t.placements[p].state \notin EndStates
      BY <3>1 DEF Live, LiveStates, EndStates
    <3>3. SUFFICES ASSUME p \in P \cap Live(s) PROVE FALSE
      BY <3>1
    <3>4. s.placements[p] \in PlacementRecord
      BY <3>3, Parts DEF Inv
    <3>5. t.placements[p].state = target
      BY <1>1, <3>1, <3>3, <3>4 DEF Ends, PlacementRecord
    <3> QED BY <3>2, <3>5
  <2>2. t.reservations[p] = s.reservations[p]
    BY <1>1, <2>1 DEF Ends
  <2> QED BY <2>1, <2>2 DEF Active
<1>6. Whole(t)
  BY <1>4, <1>5, QuietWhole
<1> QED BY <1>1, <1>6 DEF t

(* The ledger and the resources are all that counts. *)
LEMMA SameLedgerWhole ==
    ASSUME NEW s, Whole(s), NEW t, t.reservations = s.reservations, t.resources = s.resources
    PROVE  Whole(t)
<1>1. Active(t) = Active(s)
  BY DEF Active
<1> QED BY <1>1 DEF Whole, TakesWhole, AsAdvertised

(* invalidate_worker_incarnation and adopt_worker_incarnation. *)
LEMMA InvalidateWhole ==
    ASSUME NEW s, Inv(s), Whole(s), NEW w \in Worker, NEW b
    PROVE  Inv(Invalidate(s, w, b)) /\ Whole(Invalidate(s, w, b))
<1> DEFINE d == Demote(s, w, b)
<1>1. Inv(d) /\ UnknownKept(s, d)
  BY DemoteStep
<1>2. /\ d.reservations = s.reservations
      /\ \A r \in Resource :
            d.resources[r] = IF r \in OwnedBy(s, w, b) THEN LoseResource(s.resources[r])
                                                       ELSE s.resources[r]
  BY DEF Demote, Inv, SchedulerState
<1>3. Invalidate(s, w, b) = Terminate(d, TouchedBy(s, w, b), "ReassignmentRequired")
  BY DEF Invalidate, Demote
<1> HIDE DEF d
<1>4. ASSUME NEW r \in Resource
      PROVE  /\ d.resources[r].slots = s.resources[r].slots
             /\ s.resources[r].lifecycle = "Absent" <=> d.resources[r].lifecycle = "Absent"
  <2>1. s.resources[r] \in ResourceRecord
    BY Parts DEF Inv
  <2>2. CASE r \in OwnedBy(s, w, b)
    <3>1. d.resources[r] = LoseResource(s.resources[r])
      BY <1>2, <2>2
    <3>2. d.resources[r].slots = s.resources[r].slots /\ d.resources[r].lifecycle = "Lost"
      BY <2>1, <3>1 DEF LoseResource, ResourceRecord
    <3>3. s.resources[r] # UnregisteredResource
      <4>1. UnregisteredResource.lifecycle = "Absent"
        BY DEF UnregisteredResource
      <4> QED BY <1>1, <3>2, <4>1 DEF UnknownKept
    <3>4. s.resources[r].lifecycle # "Absent"
      BY <3>3 DEF Inv, Sized
    <3> QED BY <3>2, <3>4
  <2>3. CASE r \notin OwnedBy(s, w, b)
    BY <1>2, <2>3
  <2> QED BY <2>2, <2>3
<1>5. SlotsKept(s, d)
  BY <1>4 DEF SlotsKept, Whole, AsAdvertised
<1>6. Active(d) = Active(s)
  BY <1>2 DEF Active
<1>7. Whole(d)
  BY <1>2, <1>5, <1>6, QuietWhole
<1> QED BY <1>1, <1>3, <1>7, TerminateWhole DEF EndStates

LEMMA AdoptWhole ==
    ASSUME NEW s, Inv(s), Whole(s), NEW w \in Worker, NEW b \in Boot
    PROVE  Inv(Adopt(s, w, b)) /\ Whole(Adopt(s, w, b))
<1> DEFINE known == s.workers[w].boot
           f == IF known \in {NoBoot, b} THEN s ELSE Invalidate(s, w, known)
<1>1. Inv(f) /\ Whole(f)
  BY InvalidateWhole
<1>2. Adopt(s, w, b) = [f EXCEPT !.workers[w] = [boot |-> b, connected |-> TRUE]]
  BY DEF Adopt
<1>3. Inv(Adopt(s, w, b))
  BY AdoptStep
<1> HIDE DEF f
<1> QED BY <1>1, <1>2, <1>3, SameLedgerWhole DEF Inv, SchedulerState

LEMMA AdoptOwnerWhole ==
    ASSUME NEW s, Inv(s), Whole(s), NEW r \in Resource, NEW b \in BootsOf(state, r)
    PROVE  Whole(AdoptOwner(s, r, b)) /\ Inv(AdoptOwner(s, r, b))
<1>1. CASE Owner[r] = NoWorker
  BY <1>1 DEF AdoptOwner
<1>2. CASE Owner[r] # NoWorker
  <2>1. Owner[r] \in Worker /\ b \in Boot
    BY <1>2, ConstantsAssumption DEF BootsOf, Deliverable
  <2> QED BY <1>2, <2>1, AdoptWhole DEF AdoptOwner
<1> QED BY <1>1, <1>2

(* A resource takes a new record with the slots it always had. *)
LEMMA ResourceEditWhole ==
    ASSUME FixedSlots, NEW s, Inv(s), Whole(s), NEW r \in Resource, NEW x,
           x.lifecycle # "Absent",
           \/ \E ad \in Advertised[r] : x.slots = ad.slots
           \/ s.resources[r].lifecycle # "Absent" /\ x.slots = s.resources[r].slots
    PROVE  Whole([s EXCEPT !.resources[r] = x])
<1> DEFINE t == [s EXCEPT !.resources[r] = x]
<1>1. /\ t.reservations = s.reservations
      /\ \A o \in Resource : t.resources[o] = IF o = r THEN x ELSE s.resources[o]
  BY DEF Inv, SchedulerState
<1> HIDE DEF t
<1>2. \E ad \in Advertised[r] : x.slots = ad.slots
  BY DEF Whole, AsAdvertised
<1>3. s.resources[r].lifecycle # "Absent" => x.slots = s.resources[r].slots
  BY <1>2 DEF FixedSlots, Whole, AsAdvertised
<1>4. SlotsKept(s, t)
  BY <1>1, <1>2, <1>3 DEF SlotsKept, Whole, AsAdvertised
<1>5. Active(t) = Active(s)
  BY <1>1 DEF Active
<1> QED BY <1>1, <1>4, <1>5, QuietWhole DEF t

(* What the commit of schedule_locked writes into the reservation. *)
LEMMA CommitReserves ==
    ASSUME NEW s, Inv(s), ~ LogIsFull(s), NEW q \in Request, NEW sel, NEW generation,
           NEW reassignments
    PROVE  LET t == Commit(s, q, sel, generation, reassignments)
               n == NextPlacement(s)
           IN  /\ t.reservations[n].claims = [r \in Resource |-> ClaimOf(s, q, sel, r)]
               /\ t.reservations[n].exclusive =
                      {sel[i] : i \in {j \in DOMAIN sel :
                                          ClaimsExclusively(s, Demand[q][j], sel[j])}}
<1> DEFINE t == Commit(s, q, sel, generation, reassignments)
           n == NextPlacement(s)
           home == Home(s, sel)
           claims == [r \in Resource |-> ClaimOf(s, q, sel, r)]
           observed == [r \in Resource |->
                           IF r \in Range(sel) THEN s.resources[r].generation ELSE 0]
           placement ==
               [state |-> "Reserved", request |-> q, generation |-> generation,
                epoch |-> s.epoch, reassignments |-> reassignments,
                resources |-> Range(sel), observed |-> observed,
                worker |-> home.worker, boot |-> home.boot]
           exclusive == {sel[i] : i \in {j \in DOMAIN sel :
                                     ClaimsExclusively(s, Demand[q][j], sel[j])}}
           reservation == [state |-> "Active", claims |-> claims, exclusive |-> exclusive]
           res == [r \in Resource |->
                      [s.resources[r] EXCEPT !.reserved = s.resources[r].reserved + claims[r]]]
<1>1. s \in SchedulerState /\ n \in PlacementId
  BY NextPlacementIsFresh DEF Inv
<1>2. t = [s EXCEPT !.placements[n] = placement, !.reservations[n] = reservation,
                    !.resources = res, !.unitCurrent[UnitOf[q]] = n,
                    !.requests[q] = [state |-> "Placed", current |-> n]]
  BY DEF Commit
<1>3. reservation.claims = claims /\ reservation.exclusive = exclusive
  OBVIOUS
<1> HIDE DEF placement, reservation, res, t, n
<1>4. t.reservations[n] = reservation
  BY <1>1, <1>2 DEF SchedulerState
<1> QED BY <1>3, <1>4 DEF t, n

LEMMA CommitWhole ==
    ASSUME NEW s, Inv(s), Whole(s), ~ LogIsFull(s), NEW q \in Request,
           NEW sel \in Selections(s, q), NEW generation \in Nat, NEW reassignments \in Nat
    PROVE  Whole(Commit(s, q, sel, generation, reassignments))
<1> DEFINE t == Commit(s, q, sel, generation, reassignments)
           n == NextPlacement(s)
           claims == [r \in Resource |-> ClaimOf(s, q, sel, r)]
<1>1. Adds(s, t, n, q, claims)
  BY CommitAdds
<1>2. /\ t.reservations[n].claims = [r \in Resource |-> ClaimOf(s, q, sel, r)]
      /\ t.reservations[n].exclusive =
             {sel[i] : i \in {j \in DOMAIN sel : ClaimsExclusively(s, Demand[q][j], sel[j])}}
  BY CommitReserves
<1>3. n \in PlacementId /\ s \in SchedulerState /\ claims \in [Resource -> Nat]
  BY NextPlacementIsFresh, ClaimsFit DEF Inv
<1>4. /\ Range(sel) \subseteq Resource
      /\ \A r \in Range(sel) : s.resources[r].lifecycle # "Absent"
  BY SelectedAreFree
<1>5. ASSUME NEW i \in DOMAIN sel, ClaimsExclusively(s, Demand[q][i], sel[i])
      PROVE  /\ sel[i] \in Resource /\ s.resources[sel[i]].lifecycle # "Absent"
             /\ ClaimOf(s, q, sel, sel[i]) = s.resources[sel[i]].slots
  <2>1. sel[i] \in Range(sel)
    BY DEF Range
  <2>2. (CHOOSE j \in DOMAIN sel : sel[j] = sel[i]) = i
    BY DEF Selections
  <2>3. ClaimOf(s, q, sel, sel[i]) = SlotsClaimed(s, Demand[q][i], sel[i])
    BY <2>1, <2>2 DEF ClaimOf
  <2> QED BY <1>4, <1>5, <2>1, <2>3 DEF SlotsClaimed
<1> HIDE DEF t, n, claims
<1>6. /\ \A p \in PlacementId : p # n => t.reservations[p] = s.reservations[p]
      /\ \A r \in Resource : /\ s.resources[r] \in ResourceRecord
                             /\ t.resources[r] = [s.resources[r] EXCEPT
                                    !.reserved = s.resources[r].reserved + claims[r]]
  BY <1>1, <1>3, Parts DEF Adds, SchedulerState
<1>7. \A r \in Resource : /\ t.resources[r].lifecycle = s.resources[r].lifecycle
                         /\ t.resources[r].slots = s.resources[r].slots
  BY <1>6 DEF ResourceRecord
<1>8. TakesWhole(t, n)
  <2> SUFFICES ASSUME NEW r \in t.reservations[n].exclusive
               PROVE  /\ t.resources[r].lifecycle # "Absent"
                      /\ t.reservations[n].claims[r] = t.resources[r].slots
    BY DEF TakesWhole
  <2>1. PICK i \in DOMAIN sel : r = sel[i] /\ ClaimsExclusively(s, Demand[q][i], sel[i])
    BY <1>2
  <2> QED BY <1>2, <1>5, <1>7, <2>1
<1>9. ASSUME NEW p \in Active(t), p # n PROVE TakesWhole(t, p)
  <2>1. p \in Active(s) /\ t.reservations[p] = s.reservations[p]
    BY <1>6, <1>9 DEF Active
  <2>2. s.reservations[p].exclusive \subseteq Resource
    BY <1>3, <2>1, Parts DEF ReservationRecord
  <2> QED BY <1>7, <2>1, <2>2 DEF Whole, TakesWhole
<1>10. \A r \in Resource : AsAdvertised(t, r)
  BY <1>7 DEF Whole, AsAdvertised
<1> QED BY <1>8, <1>9, <1>10 DEF Whole, t

LEMMA ScheduleWhole ==
    ASSUME NEW s, Inv(s), Whole(s), NEW q \in Request, NEW generation \in Nat,
           NEW reassignments \in Nat, NEW t \in Schedule(s, q, generation, reassignments)
    PROVE  Whole(t)
<1>1. CASE t = RejectRequest(s, q)
  BY <1>1, SameLedgerWhole DEF RejectRequest, Inv, SchedulerState
<1>2. ASSUME NEW sel \in Selections(s, q), ~ LogIsFull(s),
             t = Commit(s, q, sel, generation, reassignments)
      PROVE  Whole(t)
  BY <1>2, CommitWhole
<1>3. \/ t = RejectRequest(s, q)
      \/ \E sel \in Selections(s, q) :
            t = IF LogIsFull(s) THEN s ELSE Commit(s, q, sel, generation, reassignments)
  BY DEF Schedule
<1> QED BY <1>1, <1>2, <1>3

LEMMA ReplaceWhole ==
    ASSUME NEW s, Inv(s), Whole(s), NEW p \in Placements(s), NEW t \in Replace(s, p)
    PROVE  Whole(t)
<1>1. s.placements[p] \in PlacementRecord
  BY Parts DEF Inv
<1>2. /\ s.placements[p].request \in Request
      /\ s.placements[p].generation + 1 \in Nat
      /\ s.placements[p].reassignments + 1 \in Nat
  BY <1>1 DEF PlacementRecord
<1> QED BY <1>2, ScheduleWhole DEF Replace

LEMMA ResourceWhole ==
    ASSUME FixedSlots, Inv(state), Whole(state), ResourceOperation
    PROVE  Whole(state')
<1>1. PICK r \in Resource :
        \/ \E b \in BootsOf(state, r), ad \in Advertised[r] : RegisterResource(r, b, ad)
        \/ \E b \in BootsOf(state, r), ad \in Advertised[r] : PublishResourceState(r, b, ad)
        \/ RetireResource(r)
  BY DEF ResourceOperation
<1>2. ASSUME NEW b, NEW ad \in Advertised[r], NEW m, Inv(m), Whole(m), NEW generation, NEW reserved,
             state' = [m EXCEPT !.resources[r] = CurrentRecord(ad, b, generation, reserved)]
      PROVE  Whole(state')
  <2> DEFINE x == CurrentRecord(ad, b, generation, reserved)
  <2>1. x.lifecycle # "Absent" /\ x.slots = ad.slots
    BY DEF CurrentRecord
  <2> HIDE DEF x
  <2> QED BY <1>2, <2>1, ResourceEditWhole DEF x
<1>3. ASSUME NEW b \in BootsOf(state, r), NEW ad \in Advertised[r], RegisterResource(r, b, ad)
      PROVE  Whole(state')
  BY <1>2, <1>3, AdoptOwnerWhole DEF RegisterResource, Become, Registrable
<1>4. ASSUME NEW b \in BootsOf(state, r), NEW ad \in Advertised[r],
             PublishResourceState(r, b, ad)
      PROVE  Whole(state')
  <2> DEFINE m == IF state.resources[r].boot = b THEN state ELSE AdoptOwner(state, r, b)
             next == m.resources[r].generation + 1
             held == m.resources[r].reserved
  <2>1. state' = [m EXCEPT !.resources[r] = CurrentRecord(ad, b, next, held)] \/ state' = m
    BY <1>4 DEF PublishResourceState, Become
  <2>2. Inv(m) /\ Whole(m)
    BY AdoptOwnerWhole
  <2> HIDE DEF m, next, held
  <2> QED BY <1>2, <2>1, <2>2
<1>5. CASE RetireResource(r)
  <2> DEFINE record == state.resources[r]
             next == record.generation + 1
             x == [record EXCEPT !.lifecycle = "Retired", !.authoritative = FALSE,
                                 !.generation = next]
  <2>1. state \in SchedulerState /\ record \in ResourceRecord /\ record.lifecycle # "Absent"
    BY <1>5, Parts DEF Inv, RetireResource, Retirable
  <2>2. state' = [state EXCEPT !.resources[r] = x]
    BY <1>5, <2>1 DEF RetireResource, Become, SchedulerState, Retirable
  <2> HIDE DEF next
  <2>3. x.lifecycle # "Absent" /\ x.slots = record.slots
    BY <2>1 DEF ResourceRecord
  <2> HIDE DEF x
  <2> QED BY <2>1, <2>2, <2>3, ResourceEditWhole
<1> QED BY <1>1, <1>3, <1>4, <1>5

LEMMA RequestWhole ==
    ASSUME Inv(state), Whole(state), NEW q \in Request, SubmitRequest(q) \/ CancelRequest(q)
    PROVE  Whole(state')
<1>1. CASE SubmitRequest(q)
  <2> DEFINE x == [state |-> "Submitted", current |-> NoPlacement]
             m == [state EXCEPT !.requests[q] = x]
  <2>1. x \in StoredRequest /\ x.state # "Placed" /\ x.current = NoPlacement
    BY DEF StoredRequest
  <2>2. state' \in Schedule(m, q, 1, 0)
    BY <1>1 DEF SubmitRequest, Become, Submittable
  <2>3. m.reservations = state.reservations /\ m.resources = state.resources
    BY DEF Inv, SchedulerState
  <2> HIDE DEF x
  <2>4. Inv(m)
    BY <2>1, RequestEditStep
  <2> HIDE DEF m
  <2> QED BY <2>2, <2>3, <2>4, SameLedgerWhole, ScheduleWhole
<1>2. CASE CancelRequest(q)
  <2> DEFINE P == {p \in Placements(state) : state.placements[p].request = q}
             e == Terminate(state, P, "Cancelled")
  <2>1. Inv(e) /\ Whole(e)
    <3>1. "Cancelled" \in EndStates
      BY DEF EndStates
    <3> HIDE DEF P
    <3> QED BY <3>1, TerminateWhole
  <2>2. state' = [e EXCEPT !.requests[q] = [state |-> "Cancelled", current |-> NoPlacement]]
    BY <1>2 DEF CancelRequest, Become
  <2> HIDE DEF e
  <2>3. state'.reservations = e.reservations /\ state'.resources = e.resources
    BY <2>1, <2>2 DEF Inv, SchedulerState
  <2> QED BY <2>1, <2>3, SameLedgerWhole
<1> QED BY <1>1, <1>2

LEMMA PlacementWhole ==
    ASSUME Inv(state), Whole(state), PlacementOperation
    PROVE  Whole(state')
<1>1. PICK p \in PlacementId, c \in Credential :
         \/ \E b \in Boot \cup {NoBoot} :
               \/ MarkAssigned(p, c, b)
               \/ MarkRunning(p, c, b)
               \/ \E evidence \in BOOLEAN, target \in {"Completed", "Failed"} :
                      ReportCompletion(p, c, b, evidence, target)
         \/ CancelPlacement(p, c)
         \/ ReassignPlacement(p, c)
         \/ PreemptPlacement(p, c)
  BY DEF PlacementOperation
<1>2. ASSUME NEW b, MarkAssigned(p, c, b) \/ MarkRunning(p, c, b)
      PROVE  Whole(state')
  <2>1. state'.reservations = state.reservations /\ state'.resources = state.resources
    BY <1>2 DEF MarkAssigned, MarkRunning, Become, Inv, SchedulerState, Assignable, Authorised, Startable
  <2> QED BY <2>1, SameLedgerWhole
<1>3. ASSUME NEW target \in EndStates
      PROVE  Inv(Terminate(state, {p}, target)) /\ Whole(Terminate(state, {p}, target))
  BY TerminateWhole
<1>4. ASSUME NEW b, NEW evidence, NEW target \in {"Completed", "Failed"},
             ReportCompletion(p, c, b, evidence, target)
      PROVE  Whole(state')
  BY <1>3, <1>4 DEF ReportCompletion, Become, EndStates, Completable, Authorised
<1>5. CASE CancelPlacement(p, c)
  BY <1>3, <1>5 DEF CancelPlacement, Become, EndStates, EndableByController
<1>6. CASE ReassignPlacement(p, c)
  <2> DEFINE e == Terminate(state, {p}, "ReassignmentRequired")
  <2>1. /\ Inv(e) /\ Keeps(state, e) /\ Whole(e) /\ p \in Placements(state)
    BY <1>3, <1>6, TerminateStep DEF EndStates, ReassignPlacement, Known, Reassignable
  <2>2. state' = e \/ state' \in Replace(e, p)
    BY <1>6 DEF ReassignPlacement, Become, Reassignable
  <2> HIDE DEF e
  <2>3. p \in Placements(e)
    BY <2>1 DEF Keeps, LogKept
  <2> QED BY <2>1, <2>2, <2>3, ReplaceWhole
<1>7. CASE PreemptPlacement(p, c)
  <2> DEFINE q == state.placements[p].request
             e == Terminate(state, {p}, "Preempted")
             m == [e EXCEPT !.requests[q].state = "Submitted"]
  <2>1. /\ Inv(e) /\ Keeps(state, e) /\ Whole(e) /\ p \in Placements(state)
    BY <1>3, <1>7, TerminateStep DEF EndStates, PreemptPlacement, Known, EndableByController
  <2>2. q \in Request
    BY <2>1, Parts DEF Inv, PlacementRecord
  <2>3. state' = m \/ state' \in Replace(m, p)
    BY <1>7 DEF PreemptPlacement, Become, EndableByController
  <2> HIDE DEF e, q
  <2>4. m.reservations = e.reservations /\ m.resources = e.resources
    BY <2>1 DEF Inv, SchedulerState
  <2>5. Inv(m) /\ Keeps(e, m)
    <3> DEFINE x == [e.requests[q] EXCEPT !.state = "Submitted"]
    <3>1. e \in SchedulerState /\ e.requests[q] \in StoredRequest
      BY <2>1, <2>2, Parts DEF Inv
    <3>2. /\ x \in StoredRequest /\ x.state # "Placed"
          /\ x.current = e.requests[q].current
      BY <3>1 DEF StoredRequest
    <3>3. m = [e EXCEPT !.requests[q] = x]
      BY <2>2, <3>1 DEF SchedulerState
    <3> HIDE DEF m, x
    <3> QED BY <2>1, <2>2, <3>2, <3>3, RequestEditStep
  <2> HIDE DEF m
  <2>6. p \in Placements(m)
    BY <2>1, <2>5 DEF Keeps, LogKept
  <2> QED BY <2>1, <2>3, <2>4, <2>5, <2>6, SameLedgerWhole, ReplaceWhole
<1> QED BY <1>1, <1>2, <1>3, <1>4, <1>5, <1>6, <1>7

LEMMA NextWhole ==
    ASSUME FixedSlots, Inv(state), Whole(state), [Next]_state
    PROVE  Whole(state')
<1>1. CASE UNCHANGED state
  BY <1>1
<1>2. CASE (\E e \in 1 .. MaxEpoch : AdoptEpoch(e)) \/ BeginShutdown
  <2>1. state'.reservations = state.reservations /\ state'.resources = state.resources
    BY <1>2 DEF AdoptEpoch, BeginShutdown, Become, Inv, SchedulerState
  <2> QED BY <2>1, SameLedgerWhole
<1>3. CASE WorkerOperation
  BY <1>3, AdoptWhole, InvalidateWhole
     DEF WorkerOperation, WorkerConnected, MarkWorkerLost, Become, Deliverable
<1> QED BY <1>1, <1>2, <1>3, ResourceWhole, RequestWhole, PlacementWhole DEF Next

(* An exclusive claim leaves no slot for another one. *)
LEMMA WholeIsAlone ==
    ASSUME NEW s, Inv(s), Whole(s), NEW p \in Active(s), NEW r \in s.reservations[p].exclusive,
           NEW o \in Active(s) \ {p}
    PROVE  s.reservations[o].claims[r] = 0
<1> DEFINE rest == Active(s) \ {p}
           others == rest \ {o}
<1>1. /\ s \in SchedulerState /\ MaxPlacements \in Nat /\ r \in Resource
      /\ p \in PlacementId /\ o \in PlacementId
      /\ s.resources[r] \in ResourceRecord
      /\ s.reservations[p].claims[r] \in Nat /\ s.reservations[o].claims[r] \in Nat
  <2>1. s \in SchedulerState /\ MaxPlacements \in Nat
    BY ConstantsAssumption DEF Inv
  <2>2. /\ p \in PlacementId /\ s.reservations[p] \in ReservationRecord
        /\ o \in PlacementId /\ s.reservations[o] \in ReservationRecord
    BY <2>1, Parts
  <2>3. r \in Resource
    BY <2>2 DEF ReservationRecord
  <2> QED BY <2>1, <2>2, <2>3, Parts DEF ReservationRecord
<1>2. /\ ClaimsAreNatural(s, {p}, r) /\ ClaimsAreNatural(s, rest, r)
      /\ ClaimsAreNatural(s, {o}, r) /\ ClaimsAreNatural(s, others, r)
      /\ ClaimedSlots(s, others, r) \in Nat
  BY <1>1, ActiveClaims
<1>3. ClaimedSlots(s, Active(s), r) = ClaimedSlots(s, {p}, r) + ClaimedSlots(s, rest, r)
  <2>1. \A n \in PlacementId :
           ClaimIn(s, Active(s), r, n) = ClaimIn(s, {p}, r, n) + ClaimIn(s, rest, r, n)
    BY <1>1, <1>2 DEF ClaimIn, ClaimsAreNatural
  <2>2. ClaimsAreNatural(s, {p}, r) /\ ClaimsAreNatural(s, rest, r)
    BY <1>2
  <2> HIDE DEF rest
  <2> QED BY <1>1, <2>1, <2>2, ClaimedSlotsAdd
<1>4. ClaimedSlots(s, rest, r) = ClaimedSlots(s, {o}, r) + ClaimedSlots(s, others, r)
  <2>1. \A n \in PlacementId :
           ClaimIn(s, rest, r, n) = ClaimIn(s, {o}, r, n) + ClaimIn(s, others, r, n)
    BY <1>1, <1>2 DEF ClaimIn, ClaimsAreNatural
  <2>2. ClaimsAreNatural(s, {o}, r) /\ ClaimsAreNatural(s, others, r)
    BY <1>2
  <2> HIDE DEF rest, others
  <2> QED BY <1>1, <2>1, <2>2, ClaimedSlotsAdd
<1> HIDE DEF rest, others
<1>5. /\ ClaimedSlots(s, {p}, r) = s.reservations[p].claims[r]
      /\ ClaimedSlots(s, {o}, r) = s.reservations[o].claims[r]
  BY <1>1, ClaimedSlotsOne
<1>6. /\ s.resources[r].reserved = ClaimedSlots(s, Active(s), r)
      /\ s.resources[r].occupancy + s.resources[r].reserved <= s.resources[r].slots
      /\ s.reservations[p].claims[r] = s.resources[r].slots
  BY <1>1 DEF Inv, Mirrored, WithinSlots, Occupied, Whole, TakesWhole
<1>7. s.resources[r].occupancy \in Nat /\ s.resources[r].slots \in Nat
  BY <1>1 DEF ResourceRecord
<1> QED BY <1>1, <1>2, <1>3, <1>4, <1>5, <1>6, <1>7

(* Exclusive claims take whole resources, wherever slots never change. *)
THEOREM WholeHolds == FixedSlots => (Spec => []Whole(state))
<1> SUFFICES ASSUME FixedSlots PROVE Spec => []Whole(state)
  OBVIOUS
<1>1. Init => Whole(state)
  BY DEF Init, EmptyState, UnregisteredResource, Absent, Active, Whole, AsAdvertised
<1>2. Inv(state) /\ Whole(state) /\ [Next]_state => Whole(state)'
  BY NextWhole
<1> QED BY <1>1, <1>2, InvHolds, PTL DEF Spec

(***************************************************************************)
(* A resource whose slots never change and that a reservation claims       *)
(* exclusively backs no other active reservation, whether the request or   *)
(* the sharing mode asked for it, and whatever the mode became since.      *)
(***************************************************************************)
THEOREM ExclusiveIsAlone == FixedSlots => (Spec => []ExclusiveClaimIsAlone)
<1> SUFFICES ASSUME FixedSlots PROVE Spec => []ExclusiveClaimIsAlone
  OBVIOUS
<1>1. Inv(state) /\ Whole(state) => ExclusiveClaimIsAlone
  BY WholeIsAlone DEF ExclusiveClaimIsAlone
<1> QED BY <1>1, InvHolds, WholeHolds, PTL
===============================================================================
