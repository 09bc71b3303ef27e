----------------------------- MODULE CarefulProofs -----------------------------
(***************************************************************************)
(* What careful controllers preserve, for any workers, resources, requests *)
(* and bounds: the current placement of a unit is its only live one, and   *)
(* the placements of a request count up to its reassignment budget.        *)
(***************************************************************************)
EXTENDS SoundLogProofs

OfRequest(s, q) == {p \in Placements(s) : s.placements[p].request = q}

(* A live placement is what its unit and its request call current. *)
Standing(s) ==
    \A p \in Live(s) :
        /\ s.unitCurrent[UnitOfPlacement(s, p)] = p
        /\ s.requests[s.placements[p].request] = [state |-> "Placed", current |-> p]

(* Only the newest placement of a request may be live. *)
Newest(s) ==
    \A p \in Live(s) : \A o \in OfRequest(s, s.placements[p].request) : o <= p

(* The reassignments of a request's placements count up, within the budget. *)
Counted(s) ==
    \A q \in Request : \A p \in OfRequest(s, q) :
        /\ s.placements[p].reassignments <= MaxReassignments[q]
        /\ \A o \in OfRequest(s, q) :
              o < p => s.placements[o].reassignments < s.placements[p].reassignments

Careful(s) == Standing(s) /\ Newest(s) /\ Counted(s)

(* Where a placement of q with that many reassignments may be committed. *)
Ready(s, q, reassignments) ==
    /\ \A p \in Live(s) : UnitOfPlacement(s, p) # UnitOf[q]
    /\ reassignments <= MaxReassignments[q]
    /\ \A o \in OfRequest(s, q) : s.placements[o].reassignments < reassignments

(* Placements keep their identity. *)
LEMMA SameIdentity ==
    ASSUME NEW s, Inv(s), NEW t, Keeps(s, t), NEW p \in Placements(s)
    PROVE  /\ p \in Placements(t)
           /\ t.placements[p].request = s.placements[p].request
           /\ t.placements[p].generation = s.placements[p].generation
           /\ t.placements[p].reassignments = s.placements[p].reassignments
           /\ UnitOfPlacement(t, p) = UnitOfPlacement(s, p)
<1>1. s.placements[p] \in PlacementRecord
  BY Parts DEF Inv
<1>2. /\ p \in Placements(t)
      /\ t.placements[p] = [s.placements[p] EXCEPT !.state = t.placements[p].state]
  BY DEF Keeps, LogKept
<1> QED BY <1>1, <1>2 DEF PlacementRecord, UnitOfPlacement

LEMMA SameRequestLog ==
    ASSUME NEW s, Inv(s), NEW t, Keeps(s, t), NoBirths(s, t)
    PROVE  \A q : OfRequest(t, q) = OfRequest(s, q)
<1>1. Placements(t) = Placements(s)
  BY SamePlacements
<1> QED BY <1>1, SameIdentity DEF OfRequest

(* A helper that adds no placement, and leaves the live ones current. *)
LEMMA QuietCareful ==
    ASSUME NEW s, Inv(s), Careful(s), NEW t, Keeps(s, t), NoBirths(s, t),
           \A p \in Live(t) :
              /\ p \in Live(s)
              /\ t.unitCurrent[UnitOfPlacement(s, p)] = p
              /\ t.requests[s.placements[p].request] = [state |-> "Placed", current |-> p]
    PROVE  Careful(t)
<1>1. \A q : OfRequest(t, q) = OfRequest(s, q)
  BY SameRequestLog
<1>2. \A p \in Placements(s) : /\ t.placements[p].request = s.placements[p].request
                               /\ t.placements[p].reassignments = s.placements[p].reassignments
                               /\ UnitOfPlacement(t, p) = UnitOfPlacement(s, p)
  BY SameIdentity
<1>3. \A p \in Live(s) : p \in Placements(s)
  BY Parts DEF Inv
<1>4. Standing(t)
  BY <1>2, <1>3 DEF Standing
<1>5. Newest(t)
  BY <1>1, <1>2, <1>3 DEF Careful, Newest
<1>6. Counted(t)
  <2>1. \A q : \A p \in OfRequest(s, q) : p \in Placements(s)
    BY DEF OfRequest
  <2> QED BY <1>1, <1>2, <2>1 DEF Careful, Counted
<1> QED BY <1>4, <1>5, <1>6 DEF Careful

(* Units and requests stay: whatever is live stays current. *)
LEMMA SameTablesCareful ==
    ASSUME NEW s, Inv(s), Careful(s), NEW t, Keeps(s, t), NoBirths(s, t),
           t.unitCurrent = s.unitCurrent, t.requests = s.requests, Live(t) \subseteq Live(s)
    PROVE  Careful(t)
BY QuietCareful DEF Careful, Standing

(* terminate_placement. *)
LEMMA TerminateCareful ==
    ASSUME NEW s, Inv(s), Careful(s), NEW P, NEW target \in EndStates
    PROVE  LET t == Terminate(s, P, target)
           IN  /\ Inv(t) /\ Keeps(s, t) /\ NoBirths(s, t) /\ Careful(t)
               /\ Live(t) = Live(s) \ P
<1> DEFINE t == Terminate(s, P, target)
<1>1. Ends(s, t, P, target) /\ NoBirths(s, t)
  BY TerminateEnds, TerminateNoBirths
<1> HIDE DEF t
<1>2. Inv(t) /\ Keeps(s, t) /\ Live(t) = Live(s) \ P
  BY <1>1, EndsStep
<1>3. ASSUME NEW p \in Live(t)
      PROVE  /\ p \in Live(s)
             /\ t.unitCurrent[UnitOfPlacement(s, p)] = p
             /\ t.requests[s.placements[p].request] = [state |-> "Placed", current |-> p]
  <2>1. p \in Live(s) /\ p \notin P
    BY <1>2
  <2>2. s.placements[p] \in PlacementRecord
    BY <2>1, Parts DEF Inv
  <2>3. s.placements[p].request \in Request /\ UnitOfPlacement(s, p) \in Unit
    BY <2>2, ConstantsAssumption DEF PlacementRecord, UnitOfPlacement
  <2>4. /\ s.unitCurrent[UnitOfPlacement(s, p)] = p
        /\ s.requests[s.placements[p].request] = [state |-> "Placed", current |-> p]
    BY <2>1 DEF Careful, Standing
  <2>5. s.requests[s.placements[p].request].current = p
    BY <2>4
  <2>6. t.unitCurrent[UnitOfPlacement(s, p)] = s.unitCurrent[UnitOfPlacement(s, p)]
    BY <1>1, <2>1, <2>3, <2>4 DEF Ends
  <2>7. t.requests[s.placements[p].request] = s.requests[s.placements[p].request]
    BY <1>1, <2>1, <2>3, <2>5 DEF Ends
  <2> QED BY <2>1, <2>4, <2>6, <2>7
<1>4. Careful(t)
  BY <1>1, <1>2, <1>3, QuietCareful
<1> QED BY <1>1, <1>2, <1>4 DEF t

(* A request without a live placement takes another outcome. *)
LEMMA RequestEditCareful ==
    ASSUME NEW s, Inv(s), Careful(s), NEW q \in Request, NEW x \in StoredRequest,
           x.state # "Placed", x.current \in {NoPlacement, s.requests[q].current},
           \A p \in Live(s) : s.placements[p].request # q
    PROVE  LET t == [s EXCEPT !.requests[q] = x]
           IN  /\ Inv(t) /\ Keeps(s, t) /\ NoBirths(s, t) /\ Careful(t)
               /\ Live(t) = Live(s)
<1> DEFINE t == [s EXCEPT !.requests[q] = x]
<1>1. Inv(t) /\ Keeps(s, t)
  BY RequestEditStep
<1>2. /\ t.placements = s.placements /\ t.unitCurrent = s.unitCurrent
      /\ \A o \in Request : o # q => t.requests[o] = s.requests[o]
  BY DEF Inv, SchedulerState
<1> HIDE DEF t
<1>3. Live(t) = Live(s) /\ NoBirths(s, t)
  BY <1>2 DEF Live, NoBirths, Placements
<1>4. \A p \in Live(s) : s.placements[p].request \in Request
  BY Parts DEF Inv, PlacementRecord
<1>5. Careful(t)
  BY <1>1, <1>2, <1>3, <1>4, QuietCareful DEF Careful, Standing
<1> QED BY <1>1, <1>3, <1>5 DEF t

(* invalidate_worker_incarnation and adopt_worker_incarnation. *)
LEMMA InvalidateCareful ==
    ASSUME NEW s, Inv(s), Careful(s), NEW w \in Worker, NEW b
    PROVE  Inv(Invalidate(s, w, b)) /\ Careful(Invalidate(s, w, b))
<1> DEFINE d == Demote(s, w, b)
<1>1. Inv(d) /\ Keeps(s, d)
  BY DemoteStep
<1>2. /\ d.placements = s.placements /\ d.unitCurrent = s.unitCurrent
      /\ d.requests = s.requests
  BY DEF Demote, Inv, SchedulerState
<1>3. Invalidate(s, w, b) = Terminate(d, TouchedBy(s, w, b), "ReassignmentRequired")
  BY DEF Invalidate, Demote
<1> HIDE DEF d
<1>4. NoBirths(s, d) /\ Live(d) = Live(s)
  BY <1>2 DEF NoBirths, Placements, Live
<1>5. Careful(d)
  BY <1>1, <1>2, <1>4, SameTablesCareful
<1> QED BY <1>1, <1>3, <1>5, TerminateCareful DEF EndStates

LEMMA AdoptCareful ==
    ASSUME NEW s, Inv(s), Careful(s), NEW w \in Worker, NEW b \in Boot
    PROVE  Inv(Adopt(s, w, b)) /\ Careful(Adopt(s, w, b))
<1> DEFINE known == s.workers[w].boot
           f == IF known \in {NoBoot, b} THEN s ELSE Invalidate(s, w, known)
           t == Adopt(s, w, b)
<1>1. Inv(f) /\ Careful(f)
  BY InvalidateCareful
<1>2. t = [f EXCEPT !.workers[w] = [boot |-> b, connected |-> TRUE]]
  BY DEF Adopt
<1> HIDE DEF f, t
<1>3. /\ t \in SchedulerState /\ SameBooks(f, t) /\ t.resources = f.resources
      /\ t.placements = f.placements /\ t.requests = f.requests
      /\ t.unitCurrent = f.unitCurrent
  BY <1>1, <1>2 DEF Inv, SchedulerState, WorkerRecord, SameBooks
<1>4. Inv(t) /\ Keeps(f, t)
  BY <1>1, <1>3, OutsideBooksStep
<1>5. NoBirths(f, t) /\ Live(t) = Live(f)
  BY <1>3 DEF NoBirths, Placements, Live
<1>6. Careful(t)
  BY <1>1, <1>3, <1>4, <1>5, SameTablesCareful
<1> QED BY <1>4, <1>6 DEF t

LEMMA AdoptOwnerCareful ==
    ASSUME NEW s, Inv(s), Careful(s), NEW r \in Resource, NEW b \in BootsOf(state, r)
    PROVE  Careful(AdoptOwner(s, r, b)) /\ AdoptOwner(s, r, b) \in SchedulerState
<1>1. CASE Owner[r] = NoWorker
  BY <1>1 DEF AdoptOwner, Inv
<1>2. CASE Owner[r] # NoWorker
  <2>1. Owner[r] \in Worker /\ b \in Boot
    BY <1>2, ConstantsAssumption DEF BootsOf, Deliverable
  <2> QED BY <1>2, <2>1, AdoptCareful DEF AdoptOwner, Inv
<1> QED BY <1>1, <1>2

(* The log and the tables are all that counts. *)
LEMMA SameBooksCareful ==
    ASSUME NEW s, Careful(s), NEW t, t.placements = s.placements,
           t.unitCurrent = s.unitCurrent, t.requests = s.requests
    PROVE  Careful(t)
<1>1. Live(t) = Live(s) /\ \A q : OfRequest(t, q) = OfRequest(s, q)
  BY DEF Live, OfRequest, Placements
<1> QED BY <1>1 DEF Careful, Standing, Newest, Counted, UnitOfPlacement

(* The commit of schedule_locked. *)
LEMMA CommitCareful ==
    ASSUME NEW s, Inv(s), Careful(s), ~ LogIsFull(s), NEW q \in Request,
           NEW sel \in Selections(s, q), NEW generation \in Nat, NEW reassignments \in Nat,
           Ready(s, q, reassignments)
    PROVE  Careful(Commit(s, q, sel, generation, reassignments))
<1> DEFINE t == Commit(s, q, sel, generation, reassignments)
           n == NextPlacement(s)
           claims == [r \in Resource |-> ClaimOf(s, q, sel, r)]
<1>1. Adds(s, t, n, q, claims) /\ t.placements[n].reassignments = reassignments
  <2>1. Adds(s, t, n, q, claims)
    BY CommitAdds
  <2>2. /\ t.epoch = s.epoch
        /\ t.placements[n].epoch = s.epoch
        /\ t.placements[n].generation = generation
        /\ t.placements[n].reassignments = reassignments
        /\ t.placements[n].resources = Range(sel)
        /\ t.placements[n].observed = [r \in Resource |->
               IF r \in Range(sel) THEN s.resources[r].generation ELSE 0]
    BY CommitWrites
  <2> QED BY <2>1, <2>2
<1>2. /\ n \in PlacementId /\ s.placements[n] = Absent /\ Placements(s) \cup {n} = 1 .. n
      /\ s \in SchedulerState
  BY NextPlacementIsFresh DEF Inv
<1> HIDE DEF t, n, claims
<1>3. /\ n \in Nat /\ n \notin Placements(s) /\ \A o \in Placements(s) : o \in Nat /\ o < n
  <2>1. n \in Nat /\ n \notin Placements(s)
    BY <1>2, AbsentOrPlaced DEF PlacementId
  <2>2. \A o \in Placements(s) : o \in 1 .. n /\ o # n
    BY <1>2, <2>1
  <2> QED BY <2>1, <2>2
<1>4. /\ \A p \in PlacementId : p # n => t.placements[p] = s.placements[p]
      /\ t.placements[n].request = q /\ t.placements[n].state = "Reserved"
      /\ \A u \in Unit : t.unitCurrent[u] = IF u = UnitOf[q] THEN n ELSE s.unitCurrent[u]
      /\ \A o \in Request : t.requests[o] = IF o = q THEN [state |-> "Placed", current |-> n]
                                                    ELSE s.requests[o]
  BY <1>1, <1>2 DEF Adds, SchedulerState
<1>5. Placements(t) = Placements(s) \cup {n} /\ Live(t) = Live(s) \cup {n}
  BY <1>2, <1>4 DEF Placements, Live, LiveStates
<1>6. \A p \in Placements(s) : p \in PlacementId /\ p # n /\ t.placements[p] = s.placements[p]
  BY <1>2, <1>3, <1>4, Parts
<1>7. \A p \in Live(s) : /\ p \in Placements(s) /\ s.placements[p].request \in Request
                         /\ UnitOfPlacement(s, p) \in Unit
                         /\ UnitOfPlacement(s, p) # UnitOf[q] /\ s.placements[p].request # q
  <2>1. \A p \in Live(s) : p \in Placements(s) /\ s.placements[p].request \in Request
    BY <1>2, Parts DEF PlacementRecord
  <2> QED BY <2>1, ConstantsAssumption DEF Ready, UnitOfPlacement
<1>8. UnitOf[q] \in Unit
  BY ConstantsAssumption
<1>9. \A o : OfRequest(t, o) = IF o = q THEN OfRequest(s, o) \cup {n} ELSE OfRequest(s, o)
  BY <1>4, <1>5, <1>6 DEF OfRequest
<1>10. Standing(t)
  <2>1. ASSUME NEW p \in Live(s)
        PROVE  /\ t.unitCurrent[UnitOfPlacement(t, p)] = p
               /\ t.requests[t.placements[p].request] = [state |-> "Placed", current |-> p]
    <3>1. t.placements[p] = s.placements[p]
      BY <1>6, <1>7
    <3>2. UnitOfPlacement(t, p) = UnitOfPlacement(s, p)
      BY <3>1 DEF UnitOfPlacement
    <3>3. /\ s.unitCurrent[UnitOfPlacement(s, p)] = p
          /\ s.requests[s.placements[p].request] = [state |-> "Placed", current |-> p]
      BY DEF Careful, Standing
    <3> QED BY <1>4, <1>7, <3>1, <3>2, <3>3
  <2>2. /\ t.unitCurrent[UnitOfPlacement(t, n)] = n
        /\ t.requests[t.placements[n].request] = [state |-> "Placed", current |-> n]
    BY <1>4, <1>8 DEF UnitOfPlacement
  <2> QED BY <1>5, <2>1, <2>2 DEF Standing
<1>11. Newest(t)
  <2>1. \A p \in Live(s) : OfRequest(t, t.placements[p].request) = OfRequest(s, s.placements[p].request)
    BY <1>6, <1>7, <1>9
  <2>2. \A o \in OfRequest(t, q) : o <= n
    BY <1>3, <1>9 DEF OfRequest
  <2> QED BY <1>4, <1>5, <2>1, <2>2 DEF Careful, Newest
<1>12. Counted(t)
  <2>1. ASSUME NEW o \in Request, o # q, NEW p \in OfRequest(t, o)
        PROVE  /\ t.placements[p].reassignments <= MaxReassignments[o]
               /\ \A x \in OfRequest(t, o) :
                     x < p => t.placements[x].reassignments < t.placements[p].reassignments
    <3>1. OfRequest(t, o) = OfRequest(s, o)
      BY <1>9, <2>1
    <3>2. \A x \in OfRequest(s, o) : t.placements[x] = s.placements[x]
      BY <1>6 DEF OfRequest
    <3> QED BY <2>1, <3>1, <3>2 DEF Careful, Counted
  <2>2. \A x \in OfRequest(s, q) : t.placements[x] = s.placements[x] /\ x \in Nat /\ x < n
    BY <1>3, <1>6 DEF OfRequest
  <2>3. ASSUME NEW p \in OfRequest(s, q)
        PROVE  /\ t.placements[p].reassignments <= MaxReassignments[q]
               /\ \A x \in OfRequest(t, q) :
                     x < p => t.placements[x].reassignments < t.placements[p].reassignments
    <3>1. ~ n < p
      BY <1>3, <2>2
    <3> QED BY <1>9, <2>2, <3>1 DEF Careful, Counted
  <2>4. /\ t.placements[n].reassignments <= MaxReassignments[q]
        /\ \A x \in OfRequest(t, q) :
              x < n => t.placements[x].reassignments < t.placements[n].reassignments
    <3>1. ~ n < n
      BY <1>3
    <3> QED BY <1>1, <1>9, <2>2, <3>1 DEF Ready
  <2> QED BY <1>9, <2>1, <2>3, <2>4 DEF Counted
<1> QED BY <1>10, <1>11, <1>12 DEF Careful, t

LEMMA ScheduleCareful ==
    ASSUME NEW s, Inv(s), Careful(s), NEW q \in Request, NEW generation \in Nat,
           NEW reassignments \in Nat, Ready(s, q, reassignments),
           NEW t \in Schedule(s, q, generation, reassignments)
    PROVE  Careful(t)
<1>1. CASE t = RejectRequest(s, q)
  <2> DEFINE x == [state |-> "NoPlacement", current |-> NoPlacement]
  <2>1. x \in StoredRequest /\ x.state # "Placed" /\ x.current = NoPlacement
    BY DEF StoredRequest
  <2>2. t = [s EXCEPT !.requests[q] = x]
    BY <1>1 DEF RejectRequest
  <2>3. \A p \in Live(s) : s.placements[p].request # q
    BY DEF Ready, UnitOfPlacement
  <2> HIDE DEF x
  <2> QED BY <2>1, <2>2, <2>3, RequestEditCareful
<1>2. ASSUME NEW sel \in Selections(s, q), ~ LogIsFull(s),
             t = Commit(s, q, sel, generation, reassignments)
      PROVE  Careful(t)
  BY <1>2, CommitCareful
<1>3. \/ t = RejectRequest(s, q)
      \/ \E sel \in Selections(s, q) :
            t = IF LogIsFull(s) THEN s ELSE Commit(s, q, sel, generation, reassignments)
  BY DEF Schedule
<1> QED BY <1>1, <1>2, <1>3

(* Once its predecessor p is over, a successor may be committed. *)
LEMMA ReplaceCareful ==
    ASSUME NEW s, Inv(s), Careful(s), NEW p \in Placements(s), NEW q, q = s.placements[p].request,
           \A o \in Live(s) : UnitOfPlacement(s, o) # UnitOf[q],
           \A o \in OfRequest(s, q) : o <= p,
           s.placements[p].reassignments < MaxReassignments[q],
           NEW t \in Replace(s, p)
    PROVE  Careful(t)
<1> DEFINE count == s.placements[p].reassignments + 1
<1>1. s.placements[p] \in PlacementRecord /\ p \in PlacementId
  BY Parts DEF Inv
<1>2. /\ q \in Request /\ s.placements[p].generation + 1 \in Nat
      /\ s.placements[p].reassignments \in Nat /\ MaxReassignments[q] \in Nat
  BY <1>1, ConstantsAssumption DEF PlacementRecord
<1>3. ASSUME NEW o \in OfRequest(s, q) PROVE s.placements[o].reassignments < count
  <2>1. s.placements[o] \in PlacementRecord /\ o \in PlacementId /\ o <= p
    BY <1>3, Parts DEF Inv, OfRequest
  <2>2. s.placements[o].reassignments \in Nat /\ o \in Nat /\ p \in Nat
    BY <1>1, <2>1 DEF PlacementRecord, PlacementId
  <2>3. o < p => s.placements[o].reassignments < s.placements[p].reassignments
    BY <1>2 DEF Careful, Counted, OfRequest
  <2> QED BY <1>2, <2>1, <2>2, <2>3
<1>4. Ready(s, q, count)
  BY <1>2, <1>3 DEF Ready
<1> QED BY <1>2, <1>4, ScheduleCareful DEF Replace

-----------------------------------------------------------------------------
(* The operations. *)
LEMMA ResourceCareful ==
    ASSUME Inv(state), Careful(state), ResourceOperation
    PROVE  Careful(state')
<1>1. PICK r \in Resource :
        \/ \E b \in BootsOf(state, r), ad \in Advertised[r] : RegisterResource(r, b, ad)
        \/ \E b \in BootsOf(state, r), ad \in Advertised[r] : PublishResourceState(r, b, ad)
        \/ RetireResource(r)
  BY DEF ResourceOperation
<1>2. ASSUME NEW m \in SchedulerState, Careful(m), NEW x, state' = [m EXCEPT !.resources[r] = x]
      PROVE  Careful(state')
  BY <1>2, SameBooksCareful DEF SchedulerState
<1>3. ASSUME NEW b \in BootsOf(state, r), NEW ad, RegisterResource(r, b, ad)
      PROVE  Careful(state')
  BY <1>2, <1>3, AdoptOwnerCareful DEF RegisterResource, Become, Registrable
<1>4. ASSUME NEW b \in BootsOf(state, r), NEW ad, PublishResourceState(r, b, ad)
      PROVE  Careful(state')
  <2> DEFINE m == IF state.resources[r].boot = b THEN state ELSE AdoptOwner(state, r, b)
             record == CurrentRecord(ad, b, m.resources[r].generation + 1, m.resources[r].reserved)
  <2>1. state' = [m EXCEPT !.resources[r] = record] \/ state' = m
    BY <1>4 DEF PublishResourceState, Become
  <2>2. m \in SchedulerState /\ Careful(m)
    BY AdoptOwnerCareful DEF Inv
  <2> HIDE DEF m, record
  <2> QED BY <1>2, <2>1, <2>2
<1>5. CASE RetireResource(r)
  <2>1. /\ state'.placements = state.placements /\ state'.requests = state.requests
        /\ state'.unitCurrent = state.unitCurrent
    BY <1>5 DEF RetireResource, Become, Inv, SchedulerState, Retirable
  <2> QED BY <2>1, SameBooksCareful
<1> QED BY <1>1, <1>3, <1>4, <1>5

LEMMA WorkerCareful ==
    ASSUME Inv(state), Careful(state), WorkerOperation
    PROVE  Careful(state')
<1>1. ASSUME NEW w \in Worker, NEW b \in Deliverable(state, w), WorkerConnected(w, b)
      PROVE  Careful(state')
  BY <1>1, AdoptCareful DEF WorkerConnected, Become, Deliverable
<1>2. ASSUME NEW w \in Worker, NEW b \in Boot, MarkWorkerLost(w, b)
      PROVE  Careful(state')
  BY <1>2, InvalidateCareful DEF MarkWorkerLost, Become
<1> QED BY <1>1, <1>2 DEF WorkerOperation

(* A request is submitted once, and while its unit has nothing live. *)
LEMMA SubmitCareful ==
    ASSUME Inv(state), Sound(state), Careful(state), NEW q \in Request, SubmitRequest(q)
    PROVE  Careful(state')
<1> DEFINE x == [state |-> "Submitted", current |-> NoPlacement]
           m == [state EXCEPT !.requests[q] = x]
<1>1. x \in StoredRequest /\ x.state # "Placed" /\ x.current = NoPlacement
  BY DEF StoredRequest
<1>2. state' \in Schedule(m, q, 1, 0)
  BY DEF SubmitRequest, Become, Submittable
<1>3. OfRequest(state, q) = {}
  BY DEF SubmitRequest, Sound, Founded, OfRequest, Submittable
<1>4. \A p \in Live(state) : p \in Placements(state)
  BY Parts DEF Inv
<1>5. \A p \in Live(state) : UnitOfPlacement(state, p) # UnitOf[q]
  BY DEF SubmitRequest, Careful, Standing, Submittable
<1>6. \A p \in Live(state) : state.placements[p].request # q
  BY <1>3, <1>4 DEF OfRequest
<1> HIDE DEF x
<1>7. Inv(m) /\ Keeps(state, m) /\ NoBirths(state, m) /\ Careful(m) /\ Live(m) = Live(state)
  BY <1>1, <1>6, RequestEditCareful
<1> HIDE DEF m
<1>8. Ready(m, q, 0)
  <2>1. OfRequest(m, q) = {}
    BY <1>3, <1>7, SameRequestLog
  <2>2. \A p \in Live(m) : UnitOfPlacement(m, p) # UnitOf[q]
    BY <1>4, <1>5, <1>7, SameIdentity
  <2>3. 0 <= MaxReassignments[q]
    BY ConstantsAssumption
  <2> QED BY <2>1, <2>2, <2>3 DEF Ready
<1> QED BY <1>2, <1>7, <1>8, ScheduleCareful

LEMMA CancelRequestCareful ==
    ASSUME Inv(state), Careful(state), NEW q \in Request, CancelRequest(q)
    PROVE  Careful(state')
<1> DEFINE P == OfRequest(state, q)
           e == Terminate(state, P, "Cancelled")
           x == [state |-> "Cancelled", current |-> NoPlacement]
<1>1. Inv(e) /\ Keeps(state, e) /\ Careful(e) /\ Live(e) = Live(state) \ P
  <2>1. "Cancelled" \in EndStates
    BY DEF EndStates
  <2> HIDE DEF P
  <2> QED BY <2>1, TerminateCareful
<1>2. state' = [e EXCEPT !.requests[q] = x]
  BY DEF CancelRequest, Become, OfRequest
<1>3. x \in StoredRequest /\ x.state # "Placed" /\ x.current = NoPlacement
  BY DEF StoredRequest
<1> HIDE DEF e, x
<1>4. \A p \in Live(e) : e.placements[p].request # q
  <2>1. \A p \in Live(e) : p \in Placements(state) /\ p \notin P
    BY <1>1, Parts DEF Inv
  <2> QED BY <1>1, <2>1, SameIdentity DEF OfRequest
<1> QED BY <1>1, <1>2, <1>3, <1>4, RequestEditCareful

LEMMA MarkCareful ==
    ASSUME Inv(state), Careful(state), NEW p \in PlacementId, NEW c, NEW b,
           MarkAssigned(p, c, b) \/ MarkRunning(p, c, b)
    PROVE  Careful(state')
<1>1. PICK x \in LiveStates : state' = [state EXCEPT !.placements[p].state = x]
  BY DEF MarkAssigned, MarkRunning, Become, LiveStates, Assignable, Authorised, Startable
<1>2. p \in Live(state) /\ p \in Placements(state)
  BY DEF MarkAssigned, MarkRunning, Known, Live, LiveStates, Assignable, Authorised, Startable
<1>3. Keeps(state, state')
  BY <1>1, <1>2, PlacementEditStep
<1>4. /\ state'.unitCurrent = state.unitCurrent /\ state'.requests = state.requests
      /\ \A o \in PlacementId : o # p => state'.placements[o] = state.placements[o]
  BY <1>1 DEF Inv, SchedulerState
<1>5. NoBirths(state, state') /\ Live(state') \subseteq Live(state)
  BY <1>2, <1>4 DEF NoBirths, Placements, Live
<1> QED BY <1>3, <1>4, <1>5, SameTablesCareful

(* A careful controller reassigns the newest placement of a request, while its unit has nothing else live. *)
LEMMA ReassignCareful ==
    ASSUME CarefulControllers, Inv(state), Careful(state), NEW p \in PlacementId, NEW c,
           ReassignPlacement(p, c)
    PROVE  Careful(state')
<1> DEFINE e == Terminate(state, {p}, "ReassignmentRequired")
           q == state.placements[p].request
<1>1. /\ Inv(e) /\ Keeps(state, e) /\ NoBirths(state, e) /\ Careful(e)
      /\ Live(e) = Live(state) \ {p}
  BY TerminateCareful DEF EndStates
<1>2. p \in Placements(state) /\ MayReassign(p)
  BY DEF ReassignPlacement, Known, Reassignable
<1>3. state' = e \/ (WithinBudget(p) /\ state' \in Replace(e, p))
  BY DEF ReassignPlacement, Become, Reassignable
<1> HIDE DEF e
<1>4. /\ p \in Placements(e) /\ q = e.placements[p].request
      /\ e.placements[p].reassignments = state.placements[p].reassignments
  BY <1>1, <1>2, SameIdentity
<1>5. \A o \in Live(e) : UnitOfPlacement(e, o) # UnitOf[q]
  <2>1. \A o \in Live(e) : o \in Live(state) /\ o \in Placements(state) \ {p}
    BY <1>1, Parts DEF Inv
  <2> QED BY <1>1, <1>2, <2>1, SameIdentity DEF MayReassign
<1>6. \A o \in OfRequest(e, q) : o <= p
  <2>1. OfRequest(e, q) = OfRequest(state, q)
    BY <1>1, SameRequestLog
  <2>2. \A o \in OfRequest(state, q) : o # p => o < p
    BY <1>2 DEF MayReassign, OfRequest
  <2>3. \A o \in OfRequest(state, q) : o \in Nat
    BY Parts DEF OfRequest, Inv, PlacementId
  <2> QED BY <2>1, <2>2, <2>3 DEF PlacementId
<1>7. WithinBudget(p) => e.placements[p].reassignments < MaxReassignments[q]
  BY <1>4 DEF WithinBudget
<1> QED BY <1>1, <1>3, <1>4, <1>5, <1>6, <1>7, ReplaceCareful

(* A preempted placement was live: it is the newest, and alone in its unit. *)
LEMMA PreemptCareful ==
    ASSUME Inv(state), Careful(state), NEW p \in PlacementId, NEW c, PreemptPlacement(p, c)
    PROVE  Careful(state')
<1> DEFINE e == Terminate(state, {p}, "Preempted")
           q == state.placements[p].request
           m == [e EXCEPT !.requests[q].state = "Submitted"]
<1>1. /\ Inv(e) /\ Keeps(state, e) /\ NoBirths(state, e) /\ Careful(e)
      /\ Live(e) = Live(state) \ {p}
  BY TerminateCareful DEF EndStates
<1>2. p \in Placements(state) /\ p \in Live(state) /\ q \in Request
  <2>1. p \in Placements(state) /\ p \in Live(state)
    BY DEF PreemptPlacement, Known, EndableByController
  <2>2. state.placements[p] \in PlacementRecord
    BY <2>1, Parts DEF Inv
  <2> QED BY <2>1, <2>2 DEF PlacementRecord
<1>3. state' = m \/ (WithinBudget(p) /\ state' \in Replace(m, p))
  BY DEF PreemptPlacement, Become, EndableByController
<1> HIDE DEF e
<1>4. \A o \in Live(e) : UnitOfPlacement(e, o) # UnitOf[q] /\ e.placements[o].request # q
  <2>1. \A o \in Live(e) : o \in Live(state) /\ o \in Placements(state) /\ o # p
    BY <1>1, Parts DEF Inv
  <2>2. \A o \in Live(state) : o # p => UnitOfPlacement(state, o) # UnitOfPlacement(state, p)
    BY <1>2 DEF Careful, Standing
  <2>3. \A o \in Live(e) : UnitOfPlacement(e, o) # UnitOf[q]
    BY <1>1, <2>1, <2>2, SameIdentity DEF UnitOfPlacement
  <2> QED BY <2>3 DEF UnitOfPlacement
<1>5. /\ Inv(m) /\ Keeps(e, m) /\ NoBirths(e, m) /\ Careful(m) /\ Live(m) = Live(e)
  <2> DEFINE x == [e.requests[q] EXCEPT !.state = "Submitted"]
  <2> HIDE DEF q
  <2>1. e \in SchedulerState /\ e.requests[q] \in StoredRequest
    BY <1>1, <1>2, Parts DEF Inv
  <2>2. x \in StoredRequest /\ x.state # "Placed" /\ x.current = e.requests[q].current
    BY <2>1 DEF StoredRequest
  <2>3. m = [e EXCEPT !.requests[q] = x]
    BY <1>2, <2>1 DEF SchedulerState
  <2> HIDE DEF m, x
  <2> QED BY <1>1, <1>2, <1>4, <2>2, <2>3, RequestEditCareful
<1> HIDE DEF m
<1>6. /\ p \in Placements(e) /\ p \in Placements(m) /\ q = m.placements[p].request
      /\ m.placements[p].reassignments = state.placements[p].reassignments
  BY <1>1, <1>2, <1>5, SameIdentity
<1>7. \A o \in Live(m) : UnitOfPlacement(m, o) # UnitOf[q]
  <2>1. \A o \in Live(m) : o \in Live(e) /\ o \in Placements(e)
    BY <1>1, <1>5, Parts DEF Inv
  <2> QED BY <1>1, <1>4, <1>5, <2>1, SameIdentity
<1>8. \A o \in OfRequest(m, q) : o <= p
  <2>1. OfRequest(m, q) = OfRequest(state, q)
    BY <1>1, <1>5, SameRequestLog
  <2> QED BY <1>2, <2>1 DEF Careful, Newest
<1>9. WithinBudget(p) => m.placements[p].reassignments < MaxReassignments[q]
  BY <1>6 DEF WithinBudget
<1> QED BY <1>3, <1>5, <1>6, <1>7, <1>8, <1>9, ReplaceCareful

LEMMA PlacementCareful ==
    ASSUME CarefulControllers, Inv(state), Careful(state), PlacementOperation
    PROVE  Careful(state')
<1>1. PICK p \in PlacementId, c \in Credential :
         \/ \E b \in Boot \cup {NoBoot} :
               \/ MarkAssigned(p, c, b)
               \/ MarkRunning(p, c, b)
               \/ \E evidence \in BOOLEAN, target \in {"Completed", "Failed"} :
                      ReportCompletion(p, c, b, evidence, target)
         \/ CancelPlacement(p, c)
         \/ ReassignPlacement(p, c)
         \/ PreemptPlacement(p, c)
  BY DEF PlacementOperation
<1>2. ASSUME NEW b, NEW evidence, NEW target \in {"Completed", "Failed"},
             ReportCompletion(p, c, b, evidence, target)
      PROVE  Careful(state')
  BY <1>2, TerminateCareful DEF ReportCompletion, Become, EndStates, Completable, Authorised
<1>3. CASE CancelPlacement(p, c)
  BY <1>3, TerminateCareful DEF CancelPlacement, Become, EndStates, EndableByController
<1> QED BY <1>1, <1>2, <1>3, MarkCareful, ReassignCareful, PreemptCareful

LEMMA NextCareful ==
    ASSUME CarefulControllers, Inv(state), Sound(state), Careful(state), [Next]_state
    PROVE  Careful(state')
<1>1. CASE UNCHANGED state
  BY <1>1
<1>2. CASE (\E e \in 1 .. MaxEpoch : AdoptEpoch(e)) \/ BeginShutdown
  <2>1. /\ state'.placements = state.placements /\ state'.requests = state.requests
        /\ state'.unitCurrent = state.unitCurrent
    BY <1>2 DEF AdoptEpoch, BeginShutdown, Become, Inv, SchedulerState
  <2> QED BY <2>1, SameBooksCareful
<1> QED BY <1>1, <1>2, ResourceCareful, WorkerCareful, SubmitCareful, CancelRequestCareful,
          PlacementCareful DEF Next

LEMMA InitCareful ==
    ASSUME Init PROVE Careful(state)
<1>1. \A p \in PlacementId : state.placements[p] = Absent
  BY DEF Init, EmptyState
<1>2. Live(state) = {} /\ Placements(state) = {}
  BY <1>1 DEF Live, Placements, Absent, LiveStates
<1> QED BY <1>2 DEF Careful, Standing, Newest, Counted, OfRequest

(* What careful controllers preserve holds in every reachable state. *)
THEOREM CarefulHolds == CarefulControllers => (Spec => []Careful(state))
<1> SUFFICES ASSUME CarefulControllers PROVE Spec => []Careful(state)
  OBVIOUS
<1>1. Init => Careful(state)
  BY InitCareful
<1>2. Inv(state) /\ Sound(state) /\ Careful(state) /\ [Next]_state => Careful(state)'
  BY NextCareful
<1> QED BY <1>1, <1>2, InvHolds, SoundHolds, PTL DEF Spec

(***************************************************************************)
(* While controllers reassign only the newest placement of a request that  *)
(* is not over, a unit has at most one live placement: submit_request goes *)
(* by the unit's current placement, and that is the only live one.         *)
(***************************************************************************)
THEOREM OneIsLive == CarefulControllers => (Spec => []OneLivePlacementPerUnit)
<1> SUFFICES ASSUME CarefulControllers PROVE Spec => []OneLivePlacementPerUnit
  OBVIOUS
<1>1. Careful(state) => OneLivePlacementPerUnit
  BY DEF Careful, Standing, OneLivePlacementPerUnit
<1> QED BY <1>1, CarefulHolds, PTL

(***************************************************************************)
(* With such controllers, only a request that is placed holds a live       *)
(* placement, the one it calls current: cancelling or ending it leaves     *)
(* nothing behind.                                                         *)
(***************************************************************************)
THEOREM OnlyPlacedHold == CarefulControllers => (Spec => []OnlyPlacedRequestsHoldPlacements)
<1> SUFFICES ASSUME CarefulControllers PROVE Spec => []OnlyPlacedRequestsHoldPlacements
  OBVIOUS
<1>1. Careful(state) => OnlyPlacedRequestsHoldPlacements
  BY DEF Careful, Standing, OnlyPlacedRequestsHoldPlacements
<1> QED BY <1>1, CarefulHolds, PTL

(* No two placements of a request have the same number of reassignments. *)
LEMMA BudgetCounts ==
    ASSUME Inv(state), Careful(state) PROVE BudgetBoundsPlacements
<1> SUFFICES ASSUME NEW q \in Request
             PROVE  Cardinality(OfRequest(state, q)) <= MaxReassignments[q] + 1
  BY DEF BudgetBoundsPlacements, OfRequest
<1> DEFINE S == OfRequest(state, q)
           T == 0 .. MaxReassignments[q]
           f == [p \in S |-> state.placements[p].reassignments]
<1>1. MaxReassignments[q] \in Nat
  BY ConstantsAssumption
<1>2. \A p \in S : p \in Nat /\ state.placements[p].reassignments \in Nat
  <2>1. \A p \in S : p \in PlacementId /\ state.placements[p] \in PlacementRecord
    BY Parts DEF OfRequest, Inv
  <2> QED BY <2>1 DEF PlacementId, PlacementRecord
<1>3. \A p \in S : /\ state.placements[p].reassignments <= MaxReassignments[q]
                   /\ \A o \in S : o < p => state.placements[o].reassignments
                                              < state.placements[p].reassignments
  BY DEF Careful, Counted
<1> HIDE DEF S
<1>4. f \in [S -> T]
  BY <1>1, <1>2, <1>3
<1>5. ASSUME NEW o \in S, NEW p \in S, f[o] = f[p] PROVE o = p
  <2>1. ~ o < p /\ ~ p < o
    BY <1>2, <1>3, <1>5
  <2> QED BY <1>2, <2>1
<1>6. f \in Injection(S, T)
  BY <1>4, <1>5 DEF Injection, IsInjective
<1>7. IsFiniteSet(T) /\ Cardinality(T) = MaxReassignments[q] + 1
  BY <1>1, FS_Interval
<1> HIDE DEF f, T
<1>8. Cardinality(S) <= Cardinality(T)
  BY <1>6, <1>7, FS_Injection
<1> QED BY <1>7, <1>8 DEF S

(***************************************************************************)
(* With such controllers, the reassignment budget bounds the placements a  *)
(* request ever gets, whether they are lost, reassigned or preempted.      *)
(***************************************************************************)
THEOREM BudgetIsKept == CarefulControllers => (Spec => []BudgetBoundsPlacements)
<1> SUFFICES ASSUME CarefulControllers PROVE Spec => []BudgetBoundsPlacements
  OBVIOUS
<1>1. Inv(state) /\ Careful(state) => BudgetBoundsPlacements
  BY BudgetCounts
<1> QED BY <1>1, InvHolds, CarefulHolds, PTL
================================================================================
