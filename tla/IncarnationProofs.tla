--------------------------- MODULE IncarnationProofs ---------------------------
(***************************************************************************)
(* Authority follows worker incarnations, for any workers, resources and   *)
(* bounds, as long as the traffic of a superseded boot never arrives: what *)
(* is authoritative and what is live belongs to the incarnation that the   *)
(* coordinator has on record as connected.                                 *)
(***************************************************************************)
EXTENDS SoundLogProofs

On(s, w, b) == s.workers[w] = [boot |-> b, connected |-> TRUE]

(* A resource was last heard of from its worker's boot or from an earlier one. *)
Heard(s, r) ==
    Owner[r] # NoWorker =>
        /\ s.resources[r].boot <= s.workers[Owner[r]].boot
        /\ s.resources[r].authoritative => On(s, Owner[r], s.resources[r].boot)

Housed(s, p) ==
    s.placements[p].worker # NoWorker => On(s, s.placements[p].worker, s.placements[p].boot)

Incarnate(s) ==
    /\ \A w \in Worker : s.workers[w].connected => s.workers[w].boot # NoBoot
    /\ \A r \in Resource : Heard(s, r)
    /\ EvidenceRequired => \A p \in Live(s) : Housed(s, p)

(* Boots are numbers, workers and placements name workers. *)
LEMMA BootParts ==
    ASSUME NEW s \in SchedulerState
    PROVE  /\ \A w \in Worker : /\ s.workers[w] \in WorkerRecord /\ s.workers[w].boot \in Nat
                                /\ s.workers[w].connected \in BOOLEAN
           /\ \A r \in Resource : /\ s.resources[r].boot \in Nat
                                  /\ Owner[r] # NoWorker => Owner[r] \in Worker
           /\ \A p \in Live(s) : s.placements[p].worker # NoWorker =>
                                     s.placements[p].worker \in Worker
<1>1. \A w \in Worker : s.workers[w] \in WorkerRecord
  BY DEF SchedulerState
<1>2. Boot \cup {NoBoot} \subseteq Nat
  BY ConstantsAssumption DEF Boot, NoBoot
<1>3. \A w \in Worker : s.workers[w].boot \in Nat /\ s.workers[w].connected \in BOOLEAN
  BY <1>1, <1>2 DEF WorkerRecord
<1>4. \A r \in Resource : s.resources[r].boot \in Nat
  BY <1>2, Parts DEF ResourceRecord
<1>5. \A r \in Resource : Owner[r] # NoWorker => Owner[r] \in Worker
  BY ConstantsAssumption
<1>6. \A p \in Live(s) : s.placements[p].worker # NoWorker => s.placements[p].worker \in Worker
  BY Parts DEF PlacementRecord
<1> QED BY <1>1, <1>3, <1>4, <1>5, <1>6

(* Where workers stay and nothing comes to be authoritative, live or assigned. *)
LEMMA QuietIncarnate ==
    ASSUME NEW s, Incarnate(s), NEW t, t.workers = s.workers,
           \A r \in Resource : /\ t.resources[r].boot = s.resources[r].boot
                               /\ t.resources[r].authoritative => s.resources[r].authoritative,
           \A p \in Live(t) : /\ p \in Live(s)
                              /\ t.placements[p].worker = s.placements[p].worker
                              /\ t.placements[p].boot = s.placements[p].boot
    PROVE  Incarnate(t)
<1>1. \A r \in Resource : Heard(t, r)
  BY DEF Incarnate, Heard, On
<1>2. EvidenceRequired => \A p \in Live(t) : Housed(t, p)
  BY DEF Incarnate, Housed, On
<1> QED BY <1>1, <1>2 DEF Incarnate

(* What is live after a placement ended was live before, with the same worker. *)
LEMMA EndsQuiet ==
    ASSUME NEW s, Inv(s), NEW t, NEW P, NEW target \in EndStates, Ends(s, t, P, target)
    PROVE  /\ t.workers = s.workers
           /\ \A r \in Resource : /\ t.resources[r].boot = s.resources[r].boot
                                  /\ t.resources[r].authoritative = s.resources[r].authoritative
           /\ \A p \in Live(t) : /\ p \in Live(s) /\ p \notin P
                                 /\ t.placements[p] = s.placements[p]
<1>1. \A r \in Resource : s.resources[r] \in ResourceRecord
  BY Parts DEF Inv
<1>2. \A r \in Resource : /\ t.resources[r].boot = s.resources[r].boot
                          /\ t.resources[r].authoritative = s.resources[r].authoritative
  BY <1>1 DEF Ends, ResourceRecord
<1>3. ASSUME NEW p \in Live(t)
      PROVE  p \in Live(s) /\ p \notin P /\ t.placements[p] = s.placements[p]
  <2>1. p \in PlacementId
    BY DEF Live
  <2>2. p \notin P \cap Live(s)
    <3>1. SUFFICES ASSUME p \in P \cap Live(s) PROVE FALSE
      OBVIOUS
    <3>2. s.placements[p] \in PlacementRecord
      BY <3>1, Parts DEF Inv
    <3>3. t.placements[p].state = target
      BY <2>1, <3>1, <3>2 DEF Ends, PlacementRecord
    <3> QED BY <3>3 DEF Live, LiveStates, EndStates
  <2>3. t.placements[p] = s.placements[p]
    BY <2>1, <2>2 DEF Ends
  <2> QED BY <2>1, <2>2, <2>3 DEF Live
<1> QED BY <1>2, <1>3 DEF Ends

LEMMA TerminateIncarnate ==
    ASSUME NEW s, Inv(s), Incarnate(s), NEW P, NEW target \in EndStates
    PROVE  Incarnate(Terminate(s, P, target))
<1> DEFINE t == Terminate(s, P, target)
<1>1. Ends(s, t, P, target)
  BY TerminateEnds
<1> HIDE DEF t
<1> QED BY <1>1, EndsQuiet, QuietIncarnate DEF t

(* A lost incarnation keeps neither authority nor placements. *)
LEMMA InvalidateIncarnate ==
    ASSUME NEW s, Inv(s), Incarnate(s), NEW w \in Worker
    PROVE  LET b == s.workers[w].boot
               t == Invalidate(s, w, b)
           IN  /\ Incarnate(t)
               /\ t.workers = [s.workers EXCEPT ![w].connected = FALSE]
               /\ \A r \in Resource : t.resources[r].boot = s.resources[r].boot
               /\ \A r \in Resource : Owner[r] = w => ~ t.resources[r].authoritative
               /\ EvidenceRequired => \A p \in Live(t) : t.placements[p].worker # w
<1> DEFINE b == s.workers[w].boot
           d == Demote(s, w, b)
           P == TouchedBy(s, w, b)
           t == Invalidate(s, w, b)
<1>1. Inv(d) /\ s \in SchedulerState /\ w # NoWorker
  BY DemoteStep, ConstantsAssumption DEF Inv
<1>2. t = Terminate(d, P, "ReassignmentRequired")
  BY DEF Invalidate, Demote
<1>3. /\ d.placements = s.placements
      /\ d.workers = [s.workers EXCEPT ![w].connected = FALSE]
      /\ \A r \in Resource :
            d.resources[r] = IF r \in OwnedBy(s, w, b) THEN LoseResource(s.resources[r])
                                                       ELSE s.resources[r]
  <2>1. s.workers[w].connected \in BOOLEAN
    BY <1>1, BootParts
  <2> QED BY <1>1, <2>1 DEF Demote, SchedulerState
<1>4. ASSUME NEW r \in Resource
      PROVE  /\ d.resources[r].boot = s.resources[r].boot
             /\ d.resources[r].authoritative => s.resources[r].authoritative
             /\ Owner[r] = w => ~ d.resources[r].authoritative
  <2>1. s.resources[r] \in ResourceRecord
    BY <1>1, Parts
  <2>2. CASE r \in OwnedBy(s, w, b)
    <3>1. d.resources[r] = LoseResource(s.resources[r])
      BY <1>3, <2>2
    <3>2. /\ LoseResource(s.resources[r]).boot = s.resources[r].boot
          /\ LoseResource(s.resources[r]).authoritative = FALSE
      BY <2>1 DEF LoseResource, ResourceRecord
    <3> QED BY <3>1, <3>2
  <2>3. CASE r \notin OwnedBy(s, w, b)
    <3>1. d.resources[r] = s.resources[r]
      BY <1>3, <2>3
    <3>2. ASSUME Owner[r] = w, s.resources[r].authoritative PROVE s.resources[r].boot = b
      <4>1. On(s, w, s.resources[r].boot)
        BY <1>1, <3>2 DEF Incarnate, Heard
      <4> QED BY <4>1 DEF On
    <3>3. Owner[r] = w => ~ s.resources[r].authoritative
      BY <2>3, <3>2 DEF OwnedBy
    <3> QED BY <3>1, <3>3
  <2> QED BY <2>2, <2>3
<1>5. \A p \in Live(s) : s.placements[p].worker = w /\ s.placements[p].boot = b => p \in P
  BY DEF TouchedBy
<1> HIDE DEF d, t, P
<1>6. Ends(d, t, P, "ReassignmentRequired")
  BY <1>1, <1>2, TerminateEnds DEF EndStates
<1>7. /\ t.workers = d.workers
      /\ \A r \in Resource : /\ t.resources[r].boot = d.resources[r].boot
                             /\ t.resources[r].authoritative = d.resources[r].authoritative
      /\ \A p \in Live(t) : /\ p \in Live(d) /\ p \notin P
                            /\ t.placements[p] = d.placements[p]
  BY <1>1, <1>6, EndsQuiet DEF EndStates
<1>8. \A p \in Live(t) : /\ p \in Live(s) /\ p \notin P
                         /\ t.placements[p] = s.placements[p]
  BY <1>3, <1>7 DEF Live
<1>9. EvidenceRequired => \A p \in Live(t) : t.placements[p].worker # w
  <2> SUFFICES ASSUME EvidenceRequired, NEW p \in Live(t), t.placements[p].worker = w
               PROVE  FALSE
    OBVIOUS
  <2>1. On(s, w, s.placements[p].boot) /\ s.placements[p].worker = w
    BY <1>1, <1>8 DEF Incarnate, Housed
  <2>2. s.placements[p].boot = b
    BY <2>1 DEF On
  <2> QED BY <1>5, <1>8, <2>1, <2>2
<1>10. /\ t.workers[w].connected = FALSE /\ t.workers[w].boot = b
       /\ \A o \in Worker : o # w => t.workers[o] = s.workers[o]
       /\ \A o \in Worker : t.workers[o].boot = s.workers[o].boot
  <2>1. s.workers \in [Worker -> WorkerRecord]
    BY <1>1 DEF SchedulerState
  <2> QED BY <1>3, <1>7, <2>1 DEF WorkerRecord
<1>11. Incarnate(t)
  <2>1. \A o \in Worker : t.workers[o].connected => t.workers[o].boot # NoBoot
    BY <1>10 DEF Incarnate
  <2>2. ASSUME NEW r \in Resource, Owner[r] # NoWorker
        PROVE  /\ t.resources[r].boot <= t.workers[Owner[r]].boot
               /\ t.resources[r].authoritative => On(t, Owner[r], t.resources[r].boot)
    <3>1. Owner[r] \in Worker /\ Heard(s, r)
      BY <1>1, <2>2, BootParts DEF Incarnate
    <3>2. t.resources[r].boot <= t.workers[Owner[r]].boot
      BY <1>4, <1>7, <1>10, <2>2, <3>1 DEF Heard
    <3>3. t.resources[r].authoritative => On(t, Owner[r], t.resources[r].boot)
      BY <1>4, <1>7, <1>10, <2>2, <3>1 DEF Heard, On
    <3> QED BY <3>2, <3>3
  <2>3. ASSUME EvidenceRequired, NEW p \in Live(t) PROVE Housed(t, p)
    <3> SUFFICES ASSUME t.placements[p].worker # NoWorker
                 PROVE  On(t, t.placements[p].worker, t.placements[p].boot)
      BY DEF Housed
    <3>1. /\ p \in Live(s) /\ t.placements[p] = s.placements[p]
          /\ t.placements[p].worker # w /\ s.placements[p].worker \in Worker
      BY <1>1, <1>8, <1>9, <2>3, BootParts
    <3>2. On(s, s.placements[p].worker, s.placements[p].boot)
      BY <2>3, <3>1 DEF Incarnate, Housed
    <3> QED BY <1>10, <3>1, <3>2 DEF On
  <2> QED BY <2>1, <2>2, <2>3 DEF Incarnate, Heard
<1>12. \A r \in Resource : t.resources[r].boot = s.resources[r].boot
  BY <1>4, <1>7
<1>13. \A r \in Resource : Owner[r] = w => ~ t.resources[r].authoritative
  BY <1>4, <1>7
<1>14. t.workers = [s.workers EXCEPT ![w].connected = FALSE]
  BY <1>3, <1>7
<1> QED BY <1>9, <1>11, <1>12, <1>13, <1>14 DEF t

(* A worker that takes over its next incarnation, the one before fenced. *)
LEMMA AdoptIncarnate ==
    ASSUME OrderedWorkers, NEW s, Inv(s), Incarnate(s), NEW w \in Worker,
           NEW b \in Deliverable(s, w)
    PROVE  LET t == Adopt(s, w, b)
           IN  /\ Incarnate(t) /\ On(t, w, b)
               /\ \A r \in Resource : t.resources[r].boot = s.resources[r].boot
<1> DEFINE known == s.workers[w].boot
           f == IF known \in {NoBoot, b} THEN s ELSE Invalidate(s, w, known)
           t == Adopt(s, w, b)
<1>1. /\ s \in SchedulerState /\ b \in Boot /\ b \in Nat /\ known \in Nat /\ w # NoWorker
      /\ b > known \/ (b = known /\ s.workers[w].connected)
  BY BootParts, ConstantsAssumption DEF Deliverable, Inv, Boot
<1>2. t = [f EXCEPT !.workers[w] = [boot |-> b, connected |-> TRUE]]
  BY DEF Adopt
<1>3. CASE b = known
  <2>1. f = s
    BY <1>3
  <2>2. s.workers[w] = [boot |-> b, connected |-> TRUE]
    <3>1. s.workers[w] \in WorkerRecord /\ s.workers[w].connected
      BY <1>1, <1>3, BootParts
    <3> QED BY <1>3, <3>1 DEF WorkerRecord
  <2> HIDE DEF f, t
  <2>3. t.workers = s.workers /\ t.resources = s.resources /\ t.placements = s.placements
    BY <1>1, <1>2, <2>1, <2>2 DEF SchedulerState
  <2>4. Live(t) = Live(s)
    BY <2>3 DEF Live
  <2>5. Incarnate(t)
    BY <2>3, <2>4, QuietIncarnate
  <2> QED BY <2>2, <2>3, <2>5 DEF On, t
<1>4. CASE b # known
  <2>1. /\ Incarnate(f) /\ f \in SchedulerState
        /\ f.workers[w].boot = known
        /\ \A r \in Resource : f.resources[r].boot = s.resources[r].boot
        /\ \A r \in Resource : Owner[r] = w => ~ f.resources[r].authoritative
        /\ EvidenceRequired => \A p \in Live(f) : f.placements[p].worker # w
    <3>1. CASE known = NoBoot
      <4>1. f = s /\ ~ s.workers[w].connected
        BY <3>1, <1>1 DEF Incarnate
      <4> HIDE DEF f
      <4>2. \A o : ~ On(s, w, o)
        BY <4>1 DEF On
      <4>3. \A r \in Resource : Owner[r] = w => ~ s.resources[r].authoritative
        BY <1>1, <4>2 DEF Incarnate, Heard
      <4>4. EvidenceRequired => \A p \in Live(s) : s.placements[p].worker # w
        BY <1>1, <4>2 DEF Incarnate, Housed
      <4> QED BY <1>1, <4>1, <4>3, <4>4
    <3>2. CASE known # NoBoot
      <4>1. f = Invalidate(s, w, known)
        BY <1>4, <3>2
      <4>2. Invalidate(s, w, known) \in SchedulerState
        BY InvalidateStep DEF Inv
      <4>3. s.workers \in [Worker -> WorkerRecord]
        BY <1>1 DEF SchedulerState
      <4>4. LET i == Invalidate(s, w, s.workers[w].boot)
            IN  /\ Incarnate(i)
                /\ i.workers = [s.workers EXCEPT ![w].connected = FALSE]
                /\ \A r \in Resource : i.resources[r].boot = s.resources[r].boot
                /\ \A r \in Resource : Owner[r] = w => ~ i.resources[r].authoritative
                /\ EvidenceRequired => \A p \in Live(i) : i.placements[p].worker # w
        BY InvalidateIncarnate
      <4> HIDE DEF f
      <4>5. f.workers[w].boot = known
        BY <4>1, <4>3, <4>4 DEF WorkerRecord
      <4> QED BY <4>1, <4>2, <4>4, <4>5
    <3> QED BY <3>1, <3>2
  <2> HIDE DEF f, t
  <2>2. /\ t.resources = f.resources /\ t.placements = f.placements /\ On(t, w, b)
        /\ \A o \in Worker : o # w => t.workers[o] = f.workers[o]
    BY <1>2, <2>1 DEF SchedulerState, On
  <2>3. Live(t) = Live(f)
    BY <2>2 DEF Live
  <2>4. \A o \in Worker : t.workers[o].connected => t.workers[o].boot # NoBoot
    BY <1>1, <2>1, <2>2 DEF On, Incarnate, NoBoot, Boot
  <2>5. ASSUME NEW r \in Resource PROVE Heard(t, r)
    <3> SUFFICES ASSUME Owner[r] # NoWorker
                 PROVE  /\ t.resources[r].boot <= t.workers[Owner[r]].boot
                        /\ t.resources[r].authoritative => On(t, Owner[r], t.resources[r].boot)
      BY DEF Heard
    <3>1. Owner[r] \in Worker /\ Heard(f, r) /\ f.resources[r].boot \in Nat
      BY <2>1, BootParts DEF Incarnate
    <3>2. CASE Owner[r] = w
      <4>1. f.resources[r].boot <= known /\ ~ f.resources[r].authoritative
        BY <2>1, <3>1, <3>2 DEF Heard
      <4>2. t.workers[w].boot = b
        BY <2>2 DEF On
      <4> QED BY <1>1, <1>4, <2>2, <3>1, <3>2, <4>1, <4>2
    <3>3. CASE Owner[r] # w
      BY <2>2, <3>1, <3>3 DEF Heard, On
    <3> QED BY <3>2, <3>3
  <2>6. EvidenceRequired => \A p \in Live(t) : Housed(t, p)
    <3> SUFFICES ASSUME EvidenceRequired, NEW p \in Live(t), t.placements[p].worker # NoWorker
                 PROVE  On(t, t.placements[p].worker, t.placements[p].boot)
      BY DEF Housed
    <3>1. /\ p \in Live(f) /\ t.placements[p] = f.placements[p]
          /\ t.placements[p].worker # w /\ f.placements[p].worker \in Worker
      BY <2>1, <2>2, <2>3, BootParts
    <3>2. On(f, f.placements[p].worker, f.placements[p].boot)
      BY <2>1, <3>1 DEF Incarnate, Housed
    <3> QED BY <2>2, <3>1, <3>2 DEF On
  <2>7. Incarnate(t)
    BY <2>4, <2>5, <2>6 DEF Incarnate
  <2> QED BY <2>1, <2>2, <2>7 DEF t
<1> QED BY <1>3, <1>4

(* A resource takes a record of its worker's connected incarnation, or loses authority. *)
LEMMA ResourceEditIncarnate ==
    ASSUME NEW s \in SchedulerState, Incarnate(s), NEW r \in Resource, NEW x \in ResourceRecord,
           \/ x.boot = s.resources[r].boot /\ ~ x.authoritative
           \/ Owner[r] # NoWorker => On(s, Owner[r], x.boot)
    PROVE  Incarnate([s EXCEPT !.resources[r] = x])
<1> DEFINE t == [s EXCEPT !.resources[r] = x]
<1>1. /\ t.workers = s.workers /\ t.placements = s.placements
      /\ \A o \in Resource : t.resources[o] = IF o = r THEN x ELSE s.resources[o]
  BY DEF SchedulerState
<1> HIDE DEF t
<1>2. ASSUME NEW o \in Resource PROVE Heard(t, o)
  <2>1. Heard(s, o)
    BY DEF Incarnate
  <2>2. CASE o # r
    BY <1>1, <2>1, <2>2 DEF Heard, On
  <2>3. CASE o = r
    <3> SUFFICES ASSUME Owner[r] # NoWorker PROVE Heard(t, r)
      BY <2>3 DEF Heard
    <3>1. x.boot \in Nat /\ t.resources[r] = x
      <4>1. x.boot \in Boot \cup {NoBoot}
        BY DEF ResourceRecord
      <4> QED BY <1>1, <4>1, ConstantsAssumption DEF Boot, NoBoot
    <3>2. CASE x.boot = s.resources[r].boot /\ ~ x.authoritative
      BY <1>1, <2>1, <2>3, <3>1, <3>2 DEF Heard
    <3>3. CASE On(s, Owner[r], x.boot)
      <4>1. s.workers[Owner[r]].boot = x.boot
        BY <3>3 DEF On
      <4>2. t.resources[r].boot <= t.workers[Owner[r]].boot
        BY <1>1, <3>1, <4>1
      <4>3. On(t, Owner[r], t.resources[r].boot)
        BY <1>1, <3>1, <3>3 DEF On
      <4> QED BY <4>2, <4>3 DEF Heard
    <3> QED BY <3>2, <3>3
  <2> QED BY <2>2, <2>3
<1>3. EvidenceRequired => \A p \in Live(t) : Housed(t, p)
  BY <1>1 DEF Incarnate, Live, Housed, On
<1> QED BY <1>1, <1>2, <1>3 DEF Incarnate, t

(* The commit of schedule_locked assigns the placement to a connected incarnation. *)
LEMMA CommitIncarnate ==
    ASSUME NEW s, Inv(s), Incarnate(s), ~ LogIsFull(s), NEW q \in Request,
           NEW sel \in Selections(s, q), NEW generation \in Nat, NEW reassignments \in Nat
    PROVE  Incarnate(Commit(s, q, sel, generation, reassignments))
<1> DEFINE t == Commit(s, q, sel, generation, reassignments)
           n == NextPlacement(s)
           bound == t.placements[n]
           claims == [r \in Resource |-> ClaimOf(s, q, sel, r)]
<1>1. Adds(s, t, n, q, claims) /\ n \in PlacementId /\ s \in SchedulerState
  BY CommitAdds, NextPlacementIsFresh DEF Inv
<1>2. /\ t.workers = s.workers
      /\ bound.worker # NoWorker =>
            \E r \in Range(sel) : bound.worker = Owner[r] /\ bound.boot = s.resources[r].boot
  BY CommitBinds
<1> HIDE DEF t, n, claims
<1>3. /\ \A p \in PlacementId : p # n => t.placements[p] = s.placements[p]
      /\ \A r \in Resource : /\ t.resources[r].boot = s.resources[r].boot
                             /\ t.resources[r].authoritative = s.resources[r].authoritative
  <2>1. \A r \in Resource : s.resources[r] \in ResourceRecord
    BY <1>1, Parts
  <2>2. \A p \in PlacementId : p # n => t.placements[p] = s.placements[p]
    BY <1>1 DEF Adds, SchedulerState
  <2>3. \A r \in Resource :
           t.resources[r] = [s.resources[r] EXCEPT !.reserved = s.resources[r].reserved + claims[r]]
    BY <1>1 DEF Adds
  <2>4. \A r \in Resource : /\ t.resources[r].boot = s.resources[r].boot
                             /\ t.resources[r].authoritative = s.resources[r].authoritative
    BY <2>1, <2>3 DEF ResourceRecord
  <2> QED BY <2>2, <2>4
<1>4. \A r \in Resource : Heard(t, r)
  BY <1>2, <1>3 DEF Incarnate, Heard, On
<1>5. ASSUME EvidenceRequired, NEW p \in Live(t) PROVE Housed(t, p)
  <2>1. CASE p # n
    <3>1. p \in Live(s) /\ t.placements[p] = s.placements[p]
      BY <1>3, <2>1 DEF Live
    <3> QED BY <1>2, <1>5, <3>1 DEF Incarnate, Housed, On
  <2>2. CASE p = n
    <3> SUFFICES ASSUME bound.worker # NoWorker PROVE On(t, bound.worker, bound.boot)
      BY <1>2, <2>2 DEF Housed
    <3>1. PICK r \in Range(sel) : bound.worker = Owner[r] /\ bound.boot = s.resources[r].boot
      BY <1>2
    <3>2. r \in Resource /\ ~ Barred(s, r)
      BY <3>1, SelectedAreFree
    <3>3. s.resources[r].authoritative
      BY <1>5, <3>2 DEF Barred
    <3>4. On(s, Owner[r], s.resources[r].boot)
      BY <3>1, <3>2, <3>3 DEF Incarnate, Heard
    <3> QED BY <1>2, <3>1, <3>4 DEF On
  <2> QED BY <2>1, <2>2
<1> QED BY <1>2, <1>4, <1>5 DEF Incarnate, t

LEMMA ScheduleIncarnate ==
    ASSUME NEW s, Inv(s), Incarnate(s), NEW q \in Request, NEW generation \in Nat,
           NEW reassignments \in Nat, NEW t \in Schedule(s, q, generation, reassignments)
    PROVE  Incarnate(t)
<1>1. CASE t = RejectRequest(s, q)
  <2>1. /\ t.workers = s.workers /\ t.resources = s.resources /\ t.placements = s.placements
    BY <1>1 DEF RejectRequest, Inv, SchedulerState
  <2>2. Live(t) = Live(s)
    BY <2>1 DEF Live
  <2> QED BY <2>1, <2>2, QuietIncarnate
<1>2. ASSUME NEW sel \in Selections(s, q), ~ LogIsFull(s),
             t = Commit(s, q, sel, generation, reassignments)
      PROVE  Incarnate(t)
  BY <1>2, CommitIncarnate
<1>3. \/ t = RejectRequest(s, q)
      \/ \E sel \in Selections(s, q) :
            t = IF LogIsFull(s) THEN s ELSE Commit(s, q, sel, generation, reassignments)
  BY DEF Schedule
<1> QED BY <1>1, <1>2, <1>3

LEMMA ReplaceIncarnate ==
    ASSUME NEW s, Inv(s), Incarnate(s), NEW p \in Placements(s), NEW t \in Replace(s, p)
    PROVE  Incarnate(t)
<1>1. s.placements[p] \in PlacementRecord
  BY Parts DEF Inv
<1>2. /\ s.placements[p].request \in Request
      /\ s.placements[p].generation + 1 \in Nat
      /\ s.placements[p].reassignments + 1 \in Nat
  BY <1>1 DEF PlacementRecord
<1> QED BY <1>2, ScheduleIncarnate DEF Replace

-----------------------------------------------------------------------------
(* The operations. *)
LEMMA ResourceIncarnate ==
    ASSUME OrderedWorkers, Inv(state), Incarnate(state), ResourceOperation
    PROVE  Incarnate(state')
<1>1. PICK r \in Resource :
        \/ \E b \in BootsOf(state, r), ad \in Advertised[r] : RegisterResource(r, b, ad)
        \/ \E b \in BootsOf(state, r), ad \in Advertised[r] : PublishResourceState(r, b, ad)
        \/ RetireResource(r)
  BY DEF ResourceOperation
<1>2. ASSUME NEW b \in BootsOf(state, r)
      PROVE  /\ Incarnate(AdoptOwner(state, r, b)) /\ AdoptOwner(state, r, b) \in SchedulerState
             /\ Owner[r] # NoWorker => On(AdoptOwner(state, r, b), Owner[r], b)
  <2>1. AdoptOwner(state, r, b) \in SchedulerState
    BY BootsOfType, AdoptOwnerStep DEF Inv
  <2>2. CASE Owner[r] = NoWorker
    BY <2>1, <2>2 DEF AdoptOwner
  <2>3. CASE Owner[r] # NoWorker
    <3>1. Owner[r] \in Worker /\ b \in Deliverable(state, Owner[r])
      BY <2>3, ConstantsAssumption DEF BootsOf
    <3>2. AdoptOwner(state, r, b) = Adopt(state, Owner[r], b)
      BY <2>3 DEF AdoptOwner
    <3> QED BY <2>1, <3>1, <3>2, AdoptIncarnate
  <2> QED BY <2>2, <2>3
<1>3. ASSUME NEW b \in BootsOf(state, r), NEW ad \in Advertised[r], NEW m \in SchedulerState,
             Incarnate(m), Owner[r] # NoWorker => On(m, Owner[r], b),
             NEW generation \in Nat, NEW reserved \in Nat,
             state' = [m EXCEPT !.resources[r] = CurrentRecord(ad, b, generation, reserved)]
      PROVE  Incarnate(state')
  <2> DEFINE x == CurrentRecord(ad, b, generation, reserved)
  <2>1. x \in ResourceRecord
    BY AdvertisedType, BootsOfType, CurrentRecordType
  <2>2. x.boot = b
    BY DEF CurrentRecord
  <2> HIDE DEF x
  <2> QED BY <1>3, <2>1, <2>2, ResourceEditIncarnate DEF x
<1>4. ASSUME NEW b \in BootsOf(state, r), NEW ad \in Advertised[r], RegisterResource(r, b, ad)
      PROVE  Incarnate(state')
  <2>1. state' = [AdoptOwner(state, r, b) EXCEPT !.resources[r] = CurrentRecord(ad, b, 1, 0)]
    BY <1>4 DEF RegisterResource, Become, Registrable
  <2>2. 1 \in Nat /\ 0 \in Nat
    OBVIOUS
  <2> QED BY <1>2, <1>3, <2>1, <2>2
<1>5. ASSUME NEW b \in BootsOf(state, r), NEW ad \in Advertised[r],
             PublishResourceState(r, b, ad)
      PROVE  Incarnate(state')
  <2> DEFINE m == IF state.resources[r].boot = b THEN state ELSE AdoptOwner(state, r, b)
             next == m.resources[r].generation + 1
             held == m.resources[r].reserved
  <2>1. \/ state' = [m EXCEPT !.resources[r] = CurrentRecord(ad, b, next, held)]
        \/ state' = m
    BY <1>5 DEF PublishResourceState, Become
  <2>2. /\ Incarnate(m) /\ m \in SchedulerState
        /\ Owner[r] # NoWorker => On(m, Owner[r], b)
    <3>1. CASE state.resources[r].boot # b
      BY <1>2, <3>1
    <3>2. CASE state.resources[r].boot = b
      <4>1. m = state /\ state \in SchedulerState
        BY <3>2 DEF Inv
      <4> HIDE DEF m
      <4>2. ASSUME Owner[r] # NoWorker PROVE On(state, Owner[r], b)
        <5>1. /\ Owner[r] \in Worker /\ b \in Deliverable(state, Owner[r])
              /\ state.resources[r].boot <= state.workers[Owner[r]].boot
          BY <4>2, ConstantsAssumption DEF BootsOf, Incarnate, Heard
        <5>2. /\ state.workers[Owner[r]] \in WorkerRecord
              /\ state.workers[Owner[r]].boot \in Nat /\ b \in Nat
          BY <3>2, <4>1, <5>1, BootParts
        <5>3. b = state.workers[Owner[r]].boot /\ state.workers[Owner[r]].connected
          BY <3>2, <5>1, <5>2 DEF Deliverable
        <5> QED BY <5>2, <5>3 DEF On, WorkerRecord
      <4> QED BY <4>1, <4>2
    <3> QED BY <3>1, <3>2
  <2> HIDE DEF m
  <2>3. m.resources[r] \in ResourceRecord
    BY <2>2, Parts
  <2>4. next \in Nat /\ held \in Nat
    BY <2>3 DEF ResourceRecord
  <2> HIDE DEF next, held
  <2> QED BY <1>3, <2>1, <2>2, <2>4
<1>6. CASE RetireResource(r)
  <2> DEFINE record == state.resources[r]
             next == record.generation + 1
             x == [record EXCEPT !.lifecycle = "Retired", !.authoritative = FALSE,
                                 !.generation = next]
  <2>1. state \in SchedulerState /\ record \in ResourceRecord
    BY Parts DEF Inv
  <2>2. next \in Nat
    BY <2>1 DEF ResourceRecord
  <2>3. state' = [state EXCEPT !.resources[r] = x]
    BY <1>6, <2>1 DEF RetireResource, Become, SchedulerState, Retirable
  <2> HIDE DEF next
  <2>4. x \in ResourceRecord /\ x.boot = record.boot /\ ~ x.authoritative
    BY <2>1, <2>2 DEF ResourceRecord
  <2> HIDE DEF x
  <2> QED BY <2>1, <2>3, <2>4, ResourceEditIncarnate
<1> QED BY <1>1, <1>4, <1>5, <1>6

LEMMA WorkerIncarnate ==
    ASSUME OrderedWorkers, Inv(state), Incarnate(state), WorkerOperation
    PROVE  Incarnate(state')
<1>1. ASSUME NEW w \in Worker, NEW b \in Deliverable(state, w), WorkerConnected(w, b)
      PROVE  Incarnate(state')
  BY <1>1, AdoptIncarnate DEF WorkerConnected, Become
<1>2. ASSUME NEW w \in Worker, NEW b \in Boot, MarkWorkerLost(w, b)
      PROVE  Incarnate(state')
  BY <1>2, InvalidateIncarnate DEF MarkWorkerLost, Become
<1> QED BY <1>1, <1>2 DEF WorkerOperation

(* A request changes its record only. *)
LEMMA RequestEditIncarnate ==
    ASSUME NEW s \in SchedulerState, Incarnate(s), NEW q, NEW x
    PROVE  Incarnate([s EXCEPT !.requests[q] = x])
<1> DEFINE t == [s EXCEPT !.requests[q] = x]
<1>1. t.workers = s.workers /\ t.resources = s.resources /\ t.placements = s.placements
  BY DEF SchedulerState
<1>2. Live(t) = Live(s)
  BY <1>1 DEF Live
<1> HIDE DEF t
<1> QED BY <1>1, <1>2, QuietIncarnate DEF t

LEMMA RequestIncarnate ==
    ASSUME Inv(state), Incarnate(state), NEW q \in Request, SubmitRequest(q) \/ CancelRequest(q)
    PROVE  Incarnate(state')
<1>1. CASE SubmitRequest(q)
  <2> DEFINE x == [state |-> "Submitted", current |-> NoPlacement]
             submitted == [state EXCEPT !.requests[q] = x]
  <2>1. x \in StoredRequest /\ x.state # "Placed" /\ x.current = NoPlacement
    BY DEF StoredRequest
  <2>2. state' \in Schedule(submitted, q, 1, 0)
    BY <1>1 DEF SubmitRequest, Become, Submittable
  <2> HIDE DEF x
  <2>3. Inv(submitted) /\ Incarnate(submitted)
    BY <2>1, RequestEditStep, RequestEditIncarnate DEF Inv
  <2> HIDE DEF submitted
  <2> QED BY <2>2, <2>3, ScheduleIncarnate
<1>2. CASE CancelRequest(q)
  <2> DEFINE P == {p \in Placements(state) : state.placements[p].request = q}
             e == Terminate(state, P, "Cancelled")
             x == [state |-> "Cancelled", current |-> NoPlacement]
  <2>1. e \in SchedulerState /\ Incarnate(e)
    <3>1. "Cancelled" \in EndStates
      BY DEF EndStates
    <3> HIDE DEF P
    <3> QED BY <3>1, TerminateStep, TerminateIncarnate DEF Inv
  <2>2. state' = [e EXCEPT !.requests[q] = x]
    BY <1>2 DEF CancelRequest, Become
  <2> HIDE DEF e, x
  <2> QED BY <2>1, <2>2, RequestEditIncarnate
<1> QED BY <1>1, <1>2

LEMMA PlacementIncarnate ==
    ASSUME Inv(state), Incarnate(state), PlacementOperation
    PROVE  Incarnate(state')
<1>1. PICK p \in PlacementId, c \in Credential :
         \/ \E b \in Boot \cup {NoBoot} :
               \/ MarkAssigned(p, c, b)
               \/ MarkRunning(p, c, b)
               \/ \E evidence \in BOOLEAN, target \in {"Completed", "Failed"} :
                      ReportCompletion(p, c, b, evidence, target)
         \/ CancelPlacement(p, c)
         \/ ReassignPlacement(p, c)
         \/ PreemptPlacement(p, c)
  BY DEF PlacementOperation
<1>2. ASSUME NEW b, MarkAssigned(p, c, b) \/ MarkRunning(p, c, b)
      PROVE  Incarnate(state')
  <2>1. PICK x \in LiveStates : state' = [state EXCEPT !.placements[p].state = x]
    BY <1>2 DEF MarkAssigned, MarkRunning, Become, LiveStates, Assignable, Authorised, Startable
  <2>2. p \in Live(state) /\ state \in SchedulerState
    BY <1>2 DEF MarkAssigned, MarkRunning, Live, LiveStates, Inv, Assignable, Authorised, Startable
  <2>3. state.placements[p] \in PlacementRecord
    BY <2>2, Parts
  <2>4. /\ state'.workers = state.workers /\ state'.resources = state.resources
        /\ state'.placements = [state.placements EXCEPT ![p].state = x]
    BY <2>1, <2>2 DEF SchedulerState
  <2>5. \A o \in PlacementId : state'.placements[o] =
           IF o = p THEN [state.placements[p] EXCEPT !.state = x] ELSE state.placements[o]
    BY <2>2, <2>4 DEF SchedulerState
  <2>6. \A o \in Live(state') : /\ o \in Live(state)
                               /\ state'.placements[o].worker = state.placements[o].worker
                               /\ state'.placements[o].boot = state.placements[o].boot
    BY <2>2, <2>3, <2>5 DEF Live, PlacementRecord
  <2> QED BY <2>4, <2>6, QuietIncarnate
<1>3. ASSUME NEW target \in EndStates
      PROVE  Inv(Terminate(state, {p}, target)) /\ Incarnate(Terminate(state, {p}, target))
  BY TerminateStep, TerminateIncarnate
<1>4. ASSUME NEW b, NEW evidence, NEW target \in {"Completed", "Failed"},
             ReportCompletion(p, c, b, evidence, target)
      PROVE  Incarnate(state')
  BY <1>3, <1>4 DEF ReportCompletion, Become, EndStates, Completable, Authorised
<1>5. CASE CancelPlacement(p, c)
  BY <1>3, <1>5 DEF CancelPlacement, Become, EndStates, EndableByController
<1>6. CASE ReassignPlacement(p, c)
  <2> DEFINE e == Terminate(state, {p}, "ReassignmentRequired")
  <2>1. /\ Inv(e) /\ Keeps(state, e) /\ Incarnate(e) /\ p \in Placements(state)
    BY <1>3, <1>6, TerminateStep DEF EndStates, ReassignPlacement, Known, Reassignable
  <2>2. state' = e \/ state' \in Replace(e, p)
    BY <1>6 DEF ReassignPlacement, Become, Reassignable
  <2> HIDE DEF e
  <2>3. p \in Placements(e)
    BY <2>1 DEF Keeps, LogKept
  <2> QED BY <2>1, <2>2, <2>3, ReplaceIncarnate
<1>7. CASE PreemptPlacement(p, c)
  <2> DEFINE q == state.placements[p].request
             e == Terminate(state, {p}, "Preempted")
             m == [e EXCEPT !.requests[q].state = "Submitted"]
  <2>1. /\ Inv(e) /\ Keeps(state, e) /\ Incarnate(e) /\ p \in Placements(state)
    BY <1>3, <1>7, TerminateStep DEF EndStates, PreemptPlacement, Known, EndableByController
  <2>2. q \in Request
    BY <2>1, Parts DEF Inv, PlacementRecord
  <2>3. state' = m \/ state' \in Replace(m, p)
    BY <1>7 DEF PreemptPlacement, Become, EndableByController
  <2> HIDE DEF e, q
  <2>4. Inv(m) /\ Keeps(e, m) /\ Incarnate(m)
    <3> DEFINE x == [e.requests[q] EXCEPT !.state = "Submitted"]
    <3>1. e \in SchedulerState /\ e.requests[q] \in StoredRequest
      BY <2>1, <2>2, Parts DEF Inv
    <3>2. /\ x \in StoredRequest /\ x.state # "Placed"
          /\ x.current = e.requests[q].current
      BY <3>1 DEF StoredRequest
    <3>3. m = [e EXCEPT !.requests[q] = x]
      BY <2>2, <3>1 DEF SchedulerState
    <3> HIDE DEF m, x
    <3> QED BY <2>1, <2>2, <3>1, <3>2, <3>3, RequestEditStep, RequestEditIncarnate
  <2> HIDE DEF m
  <2>5. p \in Placements(m)
    BY <2>1, <2>4 DEF Keeps, LogKept
  <2> QED BY <2>3, <2>4, <2>5, ReplaceIncarnate
<1> QED BY <1>1, <1>2, <1>4, <1>5, <1>6, <1>7

LEMMA NextIncarnate ==
    ASSUME OrderedWorkers, Inv(state), Incarnate(state), [Next]_state
    PROVE  Incarnate(state')
<1>1. CASE UNCHANGED state
  BY <1>1
<1>2. CASE (\E e \in 1 .. MaxEpoch : AdoptEpoch(e)) \/ BeginShutdown
  <2>1. /\ state'.workers = state.workers /\ state'.resources = state.resources
        /\ state'.placements = state.placements
    BY <1>2 DEF AdoptEpoch, BeginShutdown, Become, Inv, SchedulerState
  <2>2. Live(state') = Live(state)
    BY <2>1 DEF Live
  <2> QED BY <2>1, <2>2, QuietIncarnate
<1> QED BY <1>1, <1>2, ResourceIncarnate, WorkerIncarnate, RequestIncarnate,
          PlacementIncarnate DEF Next

LEMMA InitIncarnate ==
    ASSUME Init PROVE Incarnate(state)
<1>1. /\ state \in SchedulerState
      /\ \A w \in Worker : state.workers[w] = UnknownWorker
      /\ \A r \in Resource : state.resources[r] = UnregisteredResource
      /\ \A p \in PlacementId : state.placements[p] = Absent
  BY InitInv DEF Init, EmptyState, Inv
<1>2. Live(state) = {}
  BY <1>1 DEF Live, Absent, LiveStates
<1>3. \A r \in Resource : Heard(state, r)
  BY <1>1, BootParts DEF Heard, UnregisteredResource, UnknownWorker, NoBoot
<1> QED BY <1>1, <1>2, <1>3 DEF Incarnate, UnknownWorker

(* Authority and live placements stay with connected incarnations, in every reachable state. *)
THEOREM IncarnateHolds == OrderedWorkers => (Spec => []Incarnate(state))
<1> SUFFICES ASSUME OrderedWorkers PROVE Spec => []Incarnate(state)
  OBVIOUS
<1>1. Init => Incarnate(state)
  BY InitIncarnate
<1>2. Inv(state) /\ Incarnate(state) /\ [Next]_state => Incarnate(state)'
  BY NextIncarnate
<1> QED BY <1>1, <1>2, InvHolds, PTL DEF Spec

(***************************************************************************)
(* While the traffic of superseded boots never arrives, the evidence of a  *)
(* worker is authoritative only for the incarnation on record: adoption    *)
(* and loss demote whatever the old one had, and a publication from the    *)
(* boot of the resource record needs no adoption.                          *)
(***************************************************************************)
THEOREM AuthorityIsCurrent == OrderedWorkers => (Spec => []AuthorityFollowsIncarnation)
<1> SUFFICES ASSUME OrderedWorkers PROVE Spec => []AuthorityFollowsIncarnation
  OBVIOUS
<1>1. Incarnate(state) => AuthorityFollowsIncarnation
  BY DEF Incarnate, Heard, On, AuthorityFollowsIncarnation
<1> QED BY <1>1, IncarnateHolds, PTL

(* A live placement claims something of each of its resources, so they are not barred. *)
LEMMA LiveHoldsAuthority ==
    ASSUME EvidenceRequired, NEW s, Inv(s), Sound(s), NEW p \in Live(s),
           NEW r \in s.placements[p].resources
    PROVE  s.resources[r].authoritative
<1> SUFFICES ASSUME ~ s.resources[r].authoritative PROVE FALSE
  OBVIOUS
<1>1. /\ s \in SchedulerState /\ MaxPlacements \in Nat
      /\ p \in Placements(s) /\ p \in Active(s) /\ p \in PlacementId
  BY ConstantsAssumption, Parts DEF Inv, Paired
<1>2. r \in Resource
  BY <1>1, Parts DEF PlacementRecord
<1>3. s.reservations[p].claims[r] > 0 /\ s.reservations[p].claims[r] \in Nat
  BY <1>1, <1>2, Parts DEF Inv, Paired, ReservationRecord
<1>4. ClaimedSlots(s, Active(s), r) = 0
  BY <1>2 DEF Sound, Free, Barred, Inv, Mirrored
<1> DEFINE rest == Active(s) \ {p}
<1>5. /\ ClaimsAreNatural(s, {p}, r) /\ ClaimsAreNatural(s, rest, r)
      /\ ClaimedSlots(s, rest, r) \in Nat
  BY <1>1, <1>2, ActiveClaims
<1>6. \A n \in PlacementId :
         ClaimIn(s, Active(s), r, n) = ClaimIn(s, {p}, r, n) + ClaimIn(s, rest, r, n)
  BY <1>1, <1>5 DEF ClaimIn, ClaimsAreNatural
<1> HIDE DEF rest
<1>7. ClaimedSlots(s, Active(s), r) = ClaimedSlots(s, {p}, r) + ClaimedSlots(s, rest, r)
  BY <1>1, <1>5, <1>6, ClaimedSlotsAdd
<1>8. ClaimedSlots(s, {p}, r) = s.reservations[p].claims[r]
  BY <1>1, <1>3, ClaimedSlotsOne
<1> QED BY <1>3, <1>4, <1>5, <1>7, <1>8

(***************************************************************************)
(* If requests insist on current evidence as well, every live placement is *)
(* assigned to a connected incarnation and rests on current evidence only: *)
(* a dead incarnation leaves no live placement behind.                     *)
(***************************************************************************)
THEOREM LiveIsOnCurrent ==
    OrderedWorkers /\ EvidenceRequired => (Spec => []LiveOnCurrentIncarnation)
<1> SUFFICES ASSUME OrderedWorkers, EvidenceRequired PROVE Spec => []LiveOnCurrentIncarnation
  OBVIOUS
<1>1. Inv(state) /\ Sound(state) /\ Incarnate(state) => LiveOnCurrentIncarnation
  BY LiveHoldsAuthority DEF Incarnate, Housed, On, LiveOnCurrentIncarnation
<1> QED BY <1>1, InvHolds, SoundHolds, IncarnateHolds, PTL
================================================================================
