--------------------------- MODULE CoordinatorProofs ---------------------------
(***************************************************************************)
(* The safety properties of the cluster, for any workers, boots,           *)
(* controllers, sessions and bounds.                                       *)
(***************************************************************************)
EXTENDS Coordinator, SoundLogProofs, SequenceTheorems

-----------------------------------------------------------------------------
(***************************************************************************)
(* What an engine operation means to the incarnation a of a worker.        *)
(***************************************************************************)
HoldsNothing(s, a) ==
    /\ \A p \in Live(s) :
          ~ (s.placements[p].worker = WorkerOf(a) /\ s.placements[p].boot = BootOf(a))
    /\ \A r \in Resource : Owner[r] = WorkerOf(a) /\ s.resources[r].boot = BootOf(a) =>
          ~ s.resources[r].authoritative /\ s.resources[r].lifecycle \in {"Lost", "Retired"}

Recorded(s, a) == s.workers[WorkerOf(a)].boot = BootOf(a)

(* Only an import leaves resources registered without being current. *)
NeverRegistered(s) == \A r \in Resource : s.resources[r].lifecycle # "Registered"

Finished(s, p) == s.placements[p].state \in {"Completed", "Failed"}

(* Only placements in P come to a result. *)
FinishesOnly(s, t, P) == \A p \in PlacementId : Finished(t, p) => Finished(s, p) \/ p \in P

(***************************************************************************)
(* Boots stay, and nothing comes to be live, authoritative or usable.      *)
(***************************************************************************)
Fades(s, t) ==
    /\ \A w \in Worker : t.workers[w].boot = s.workers[w].boot
    /\ \A r \in Resource :
          /\ t.resources[r].boot = s.resources[r].boot
          /\ t.resources[r].authoritative => s.resources[r].authoritative
          /\ \/ t.resources[r].lifecycle = s.resources[r].lifecycle
             \/ t.resources[r].lifecycle \in {"Lost", "Retired"}
    /\ \A p \in Live(t) : /\ p \in Live(s)
                          /\ t.placements[p].worker = s.placements[p].worker
                          /\ t.placements[p].boot = s.placements[p].boot

(* Boots stay, and who holds nothing still holds nothing. *)
Quiet(s, t) ==
    /\ \A w \in Worker : t.workers[w].boot = s.workers[w].boot
    /\ \A r \in Resource : t.resources[r].boot = s.resources[r].boot
    /\ \A a \in Agent : HoldsNothing(s, a) => HoldsNothing(t, a)
    /\ NeverRegistered(s) => NeverRegistered(t)

(* Incarnation a speaks up for the resources R: the one on record before holds nothing now. *)
TakesOver(s, t, a, R) ==
    /\ t.workers[WorkerOf(a)].boot = BootOf(a)
    /\ \A w \in Worker \ {WorkerOf(a)} : t.workers[w].boot = s.workers[w].boot
    /\ \A r \in Resource \ R : t.resources[r].boot = s.resources[r].boot
    /\ \A r \in R : Owner[r] = WorkerOf(a)
                    /\ t.resources[r].boot \in {s.resources[r].boot, BootOf(a)}
    /\ \A c \in Agent \ {a} :
          \/ HoldsNothing(s, c)
          \/ WorkerOf(c) = WorkerOf(a) /\ Recorded(s, c)
          => HoldsNothing(t, c)
    /\ NeverRegistered(s) => NeverRegistered(t)

(* An agent is a worker and a boot. *)
LEMMA AgentParts ==
    ASSUME NEW a \in Agent
    PROVE  /\ WorkerOf(a) \in Worker /\ BootOf(a) \in Boot /\ a = <<WorkerOf(a), BootOf(a)>>
           /\ WorkerOf(a) # NoWorker /\ BootOf(a) # NoBoot
BY ConstantsAssumption DEF Agent, WorkerOf, BootOf, Boot, NoBoot

LEMMA FadesQuiet ==
    ASSUME NEW s, NEW t, Fades(s, t)
    PROVE  Quiet(s, t)
<1>1. ASSUME NEW a \in Agent, HoldsNothing(s, a) PROVE HoldsNothing(t, a)
  BY <1>1 DEF HoldsNothing, Fades
<1>2. NeverRegistered(s) => NeverRegistered(t)
  BY DEF NeverRegistered, Fades
<1> QED BY <1>1, <1>2 DEF Quiet, Fades

LEMMA FadesTransitive ==
    ASSUME NEW s, NEW u, NEW t, Fades(s, u), Fades(u, t)
    PROVE  Fades(s, t)
BY DEF Fades

LEMMA QuietTransitive ==
    ASSUME NEW s, NEW u, NEW t, Quiet(s, u), Quiet(u, t)
    PROVE  Quiet(s, t)
BY DEF Quiet

LEMMA FinishesTransitive ==
    ASSUME NEW s, NEW u, NEW t, NEW P, FinishesOnly(s, u, P), FinishesOnly(u, t, P)
    PROVE  FinishesOnly(s, t, P)
BY DEF FinishesOnly

(* Placements that end. *)
LEMMA TerminateFades ==
    ASSUME NEW s, Inv(s), NEW P, NEW target \in EndStates
    PROVE  LET t == Terminate(s, P, target)
           IN  /\ Fades(s, t)
               /\ FinishesOnly(s, t, P)
               /\ target \notin {"Completed", "Failed"} => FinishesOnly(s, t, {})
<1> DEFINE t == Terminate(s, P, target)
<1>1. Ends(s, t, P, target)
  BY TerminateEnds
<1> HIDE DEF t
<1>2. \A r \in Resource : s.resources[r] \in ResourceRecord
  BY Parts DEF Inv
<1>3. \A r \in Resource : /\ t.resources[r].boot = s.resources[r].boot
                          /\ t.resources[r].authoritative = s.resources[r].authoritative
                          /\ t.resources[r].lifecycle = s.resources[r].lifecycle
  BY <1>1, <1>2 DEF Ends, ResourceRecord
<1>4. ASSUME NEW p \in PlacementId
      PROVE  \/ t.placements[p] = s.placements[p]
             \/ /\ t.placements[p].state = target
                /\ p \in P
  <2>1. CASE p \in P \cap Live(s)
    <3>1. s.placements[p] \in PlacementRecord
      BY <2>1, Parts DEF Inv
    <3> QED BY <1>1, <2>1, <3>1 DEF Ends, PlacementRecord
  <2>2. CASE p \notin P \cap Live(s)
    BY <1>1, <2>2 DEF Ends
  <2> QED BY <2>1, <2>2
<1>5. \A p \in Live(t) : p \in Live(s) /\ t.placements[p] = s.placements[p]
  BY <1>4 DEF Live, LiveStates, EndStates
<1>6. Fades(s, t)
  BY <1>1, <1>3, <1>5 DEF Fades, Ends
<1>7. FinishesOnly(s, t, P) /\ (target \notin {"Completed", "Failed"} => FinishesOnly(s, t, {}))
  BY <1>4 DEF FinishesOnly, Finished
<1> QED BY <1>6, <1>7 DEF t

(* The loss of an incarnation leaves it with nothing. *)
LEMMA InvalidateSilences ==
    ASSUME NEW s, Inv(s), NEW w \in Worker, NEW b
    PROVE  LET t == Invalidate(s, w, b)
           IN  /\ Fades(s, t) /\ FinishesOnly(s, t, {})
               /\ NeverRegistered(s) /\ <<w, b>> \in Agent => HoldsNothing(t, <<w, b>>)
<1> DEFINE d == Demote(s, w, b)
           P == TouchedBy(s, w, b)
           t == Invalidate(s, w, b)
<1>1. Inv(d) /\ s \in SchedulerState
  BY DemoteStep DEF Inv
<1>2. t = Terminate(d, P, "ReassignmentRequired")
  BY DEF Invalidate, Demote
<1>3. /\ d.placements = s.placements
      /\ \A o \in Worker : d.workers[o].boot = s.workers[o].boot
      /\ \A r \in Resource :
            d.resources[r] = IF r \in OwnedBy(s, w, b) THEN LoseResource(s.resources[r])
                                                       ELSE s.resources[r]
  BY <1>1 DEF Demote, SchedulerState, WorkerRecord
<1>4. ASSUME NEW r \in Resource
      PROVE  /\ d.resources[r].boot = s.resources[r].boot
             /\ d.resources[r].authoritative => s.resources[r].authoritative
             /\ \/ d.resources[r].lifecycle = s.resources[r].lifecycle
                \/ d.resources[r].lifecycle = "Lost"
             /\ r \in OwnedBy(s, w, b) => ~ d.resources[r].authoritative
                                          /\ d.resources[r].lifecycle = "Lost"
  <2>1. s.resources[r] \in ResourceRecord
    BY <1>1, Parts
  <2> QED BY <1>3, <2>1 DEF LoseResource, ResourceRecord
<1>5. Live(d) = Live(s)
  BY <1>3 DEF Live
<1>6. Fades(s, d) /\ FinishesOnly(s, d, {})
  BY <1>3, <1>4, <1>5 DEF Fades, FinishesOnly, Finished
<1> HIDE DEF d, t
<1>7. Fades(d, t) /\ FinishesOnly(d, t, {}) /\ Ends(d, t, P, "ReassignmentRequired")
  BY <1>1, <1>2, TerminateFades, TerminateEnds DEF EndStates
<1>8. Fades(s, t) /\ FinishesOnly(s, t, {})
  BY <1>6, <1>7, FadesTransitive, FinishesTransitive
<1>9. ASSUME NeverRegistered(s), <<w, b>> \in Agent PROVE HoldsNothing(t, <<w, b>>)
  <2>1. WorkerOf(<<w, b>>) = w /\ BootOf(<<w, b>>) = b /\ b # NoBoot
    BY <1>9, AgentParts DEF WorkerOf, BootOf
  <2>2. ASSUME NEW p \in Live(t), t.placements[p].worker = w, t.placements[p].boot = b PROVE FALSE
    <3>1. p \in Live(s) /\ s.placements[p].worker = w /\ s.placements[p].boot = b
      BY <1>8, <2>2 DEF Fades
    <3>2. p \in P /\ p \in Live(d) /\ d.placements[p] \in PlacementRecord
      BY <1>1, <1>5, <3>1, Parts DEF TouchedBy, Inv
    <3>3. t.placements[p].state = "ReassignmentRequired"
      BY <1>7, <3>2 DEF Ends, PlacementRecord, Live
    <3> QED BY <2>2, <3>3 DEF Live, LiveStates
  <2>3. ASSUME NEW r \in Resource, Owner[r] = w, t.resources[r].boot = b
        PROVE  ~ t.resources[r].authoritative /\ t.resources[r].lifecycle \in {"Lost", "Retired"}
    <3>1. /\ s.resources[r].boot = b /\ d.resources[r].boot = b
          /\ t.resources[r].authoritative => d.resources[r].authoritative
          /\ \/ t.resources[r].lifecycle = d.resources[r].lifecycle
             \/ t.resources[r].lifecycle \in {"Lost", "Retired"}
      BY <1>4, <1>7, <2>3 DEF Fades
    <3>2. CASE r \in OwnedBy(s, w, b)
      BY <1>4, <3>1, <3>2
    <3>3. CASE r \notin OwnedBy(s, w, b)
      <4>1. ~ s.resources[r].authoritative /\ s.resources[r].lifecycle # "Current"
        BY <2>3, <3>1, <3>3 DEF OwnedBy
      <4>2. s.resources[r].lifecycle # "Absent"
        BY <2>1, <3>1 DEF Inv, Sized, UnregisteredResource
      <4>3. s.resources[r].lifecycle \in {"Lost", "Retired"}
        BY <1>1, <1>9, <4>1, <4>2, Parts DEF NeverRegistered, ResourceRecord
      <4>4. d.resources[r] = s.resources[r]
        BY <1>3, <3>3
      <4> QED BY <3>1, <4>1, <4>3, <4>4
    <3> QED BY <3>2, <3>3
  <2> QED BY <2>1, <2>2, <2>3 DEF HoldsNothing
<1> QED BY <1>8, <1>9 DEF t

(* adopt_worker_incarnation. *)
LEMMA AdoptTakesOver ==
    ASSUME NEW s, Inv(s), NeverRegistered(s), NEW a \in Agent
    PROVE  LET t == Adopt(s, WorkerOf(a), BootOf(a))
           IN  /\ TakesOver(s, t, a, {}) /\ FinishesOnly(s, t, {})
               /\ \A c \in Agent : HoldsNothing(s, c) => HoldsNothing(t, c)
<1> DEFINE w == WorkerOf(a)
           b == BootOf(a)
           known == s.workers[w].boot
           f == IF known \in {NoBoot, b} THEN s ELSE Invalidate(s, w, known)
           t == Adopt(s, w, b)
<1>1. w \in Worker /\ b \in Boot /\ a = <<w, b>> /\ s \in SchedulerState
  BY AgentParts DEF Inv
<1>2. /\ Fades(s, f) /\ FinishesOnly(s, f, {}) /\ f \in SchedulerState
      /\ \A c \in Agent \ {a} : WorkerOf(c) = w /\ Recorded(s, c) => HoldsNothing(f, c)
  <2>1. CASE known \in {NoBoot, b}
    <3>1. f = s
      BY <2>1
    <3>2. ASSUME NEW c \in Agent \ {a}, WorkerOf(c) = w, Recorded(s, c) PROVE FALSE
      BY <1>1, <2>1, <3>2, AgentParts DEF Recorded
    <3> HIDE DEF f
    <3> QED BY <1>1, <3>1, <3>2 DEF Fades, FinishesOnly
  <2>2. CASE known \notin {NoBoot, b}
    <3>1. f = Invalidate(s, w, known)
      BY <2>2
    <3>2. LET i == Invalidate(s, w, known)
          IN  /\ Fades(s, i) /\ FinishesOnly(s, i, {}) /\ i \in SchedulerState
              /\ <<w, known>> \in Agent => HoldsNothing(i, <<w, known>>)
      BY <1>1, InvalidateSilences, InvalidateStep DEF Inv
    <3> HIDE DEF f
    <3>3. ASSUME NEW c \in Agent \ {a}, WorkerOf(c) = w, Recorded(s, c) PROVE c = <<w, known>>
      BY <3>3, AgentParts DEF Recorded
    <3> QED BY <3>1, <3>2, <3>3
  <2> QED BY <2>1, <2>2
<1>3. t = [f EXCEPT !.workers[w] = [boot |-> b, connected |-> TRUE]]
  BY DEF Adopt
<1> HIDE DEF f, t
<1>4. /\ t.placements = f.placements /\ t.resources = f.resources /\ t.workers[w].boot = b
      /\ \A o \in Worker \ {w} : t.workers[o] = f.workers[o]
  BY <1>1, <1>2, <1>3 DEF SchedulerState
<1>5. Live(t) = Live(f) /\ \A c \in Agent : HoldsNothing(f, c) => HoldsNothing(t, c)
  BY <1>4 DEF Live, HoldsNothing
<1>6. Quiet(s, f)
  BY <1>2, FadesQuiet
<1>7. \A c \in Agent : HoldsNothing(s, c) => HoldsNothing(t, c)
  BY <1>5, <1>6 DEF Quiet
<1>8. NeverRegistered(t)
  BY <1>4, <1>6 DEF Quiet, NeverRegistered
<1>9. TakesOver(s, t, a, {})
  BY <1>2, <1>4, <1>5, <1>6, <1>7, <1>8 DEF TakesOver, Quiet
<1>10. FinishesOnly(s, t, {})
  BY <1>2, <1>4 DEF FinishesOnly, Finished
<1> QED BY <1>7, <1>9, <1>10 DEF t
-----------------------------------------------------------------------------
(* Edits of one request, of one live placement and of one resource. *)
LEMMA RequestEditFades ==
    ASSUME NEW s \in SchedulerState, NEW q, NEW x
    PROVE  LET t == [s EXCEPT !.requests[q] = x] IN Fades(s, t) /\ FinishesOnly(s, t, {})
<1> DEFINE t == [s EXCEPT !.requests[q] = x]
<1>1. t.workers = s.workers /\ t.resources = s.resources /\ t.placements = s.placements
  BY DEF SchedulerState
<1> HIDE DEF t
<1>2. Fades(s, t) /\ FinishesOnly(s, t, {})
  BY <1>1 DEF Fades, FinishesOnly, Finished, Live
<1> QED BY <1>2 DEF t

LEMMA PlacementEditFades ==
    ASSUME NEW s \in SchedulerState, NEW p \in Live(s), NEW x \in LiveStates
    PROVE  LET t == [s EXCEPT !.placements[p].state = x] IN Fades(s, t) /\ FinishesOnly(s, t, {})
<1> DEFINE t == [s EXCEPT !.placements[p].state = x]
           edited == [s.placements[p] EXCEPT !.state = x]
<1>1. p \in PlacementId /\ s.placements[p] \in PlacementRecord
  BY Parts
<1>2. edited.state = x /\ edited.worker = s.placements[p].worker /\ edited.boot = s.placements[p].boot
  BY <1>1 DEF PlacementRecord
<1>3. t = [s EXCEPT !.placements[p] = edited]
  OBVIOUS
<1> HIDE DEF t, edited
<1>4. /\ t.workers = s.workers /\ t.resources = s.resources
      /\ \A o \in PlacementId : t.placements[o] = IF o = p THEN edited ELSE s.placements[o]
  BY <1>1, <1>3 DEF SchedulerState
<1>5. Fades(s, t)
  BY <1>1, <1>2, <1>4 DEF Fades, Live
<1>6. FinishesOnly(s, t, {})
  BY <1>2, <1>4 DEF FinishesOnly, Finished, LiveStates
<1> QED BY <1>5, <1>6 DEF t

LEMMA RetireFades ==
    ASSUME NEW s \in SchedulerState, NEW r \in Resource, NEW generation
    PROVE  LET t == [s EXCEPT !.resources[r].lifecycle = "Retired",
                              !.resources[r].authoritative = FALSE,
                              !.resources[r].generation = generation]
           IN  Fades(s, t) /\ FinishesOnly(s, t, {})
<1> DEFINE t == [s EXCEPT !.resources[r].lifecycle = "Retired",
                          !.resources[r].authoritative = FALSE,
                          !.resources[r].generation = generation]
           x == [s.resources[r] EXCEPT !.lifecycle = "Retired", !.authoritative = FALSE,
                                       !.generation = generation]
<1>1. s.resources[r] \in ResourceRecord
  BY Parts
<1>2. x.boot = s.resources[r].boot /\ ~ x.authoritative /\ x.lifecycle = "Retired"
  BY <1>1 DEF ResourceRecord
<1>3. t = [s EXCEPT !.resources[r] = x]
  BY DEF SchedulerState
<1> HIDE DEF t, x
<1>4. /\ t.workers = s.workers /\ t.placements = s.placements
      /\ \A o \in Resource : t.resources[o] = IF o = r THEN x ELSE s.resources[o]
  BY <1>1, <1>3 DEF SchedulerState
<1>5. Fades(s, t) /\ FinishesOnly(s, t, {})
  BY <1>2, <1>4 DEF Fades, FinishesOnly, Finished, Live
<1> QED BY <1>5 DEF t

(* A commit takes only resources that are neither lost nor retired. *)
LEMMA CommitQuiet ==
    ASSUME NEW s, Inv(s), ~ LogIsFull(s), NEW q \in Request, NEW sel \in Selections(s, q),
           NEW generation \in Nat, NEW reassignments \in Nat
    PROVE  LET t == Commit(s, q, sel, generation, reassignments)
           IN  Quiet(s, t) /\ FinishesOnly(s, t, {})
<1> DEFINE t == Commit(s, q, sel, generation, reassignments)
           n == NextPlacement(s)
           claims == [r \in Resource |-> ClaimOf(s, q, sel, r)]
<1>1. Adds(s, t, n, q, claims)
  BY CommitAdds
<1>2. n \in PlacementId /\ s \in SchedulerState
  BY NextPlacementIsFresh DEF Inv
<1>3. /\ t.workers = s.workers
      /\ t.placements[n].worker # NoWorker =>
            \E r \in Range(sel) : /\ t.placements[n].worker = Owner[r]
                                 /\ t.placements[n].boot = s.resources[r].boot
  BY CommitBinds
<1>4. \A r \in Range(sel) : r \in Resource /\ s.resources[r].lifecycle \notin {"Lost", "Retired"}
  <2>1. ASSUME NEW i \in Positions(q)
        PROVE  sel[i] \in Resource /\ s.resources[sel[i]].lifecycle \notin {"Lost", "Retired"}
    BY DEF Selections, Eligible
  <2>2. sel \in [Positions(q) -> Resource]
    BY DEF Selections
  <2> QED BY <2>1, <2>2 DEF Range
<1> HIDE DEF t, n, claims
<1>5. \A r \in Resource : /\ t.resources[r].boot = s.resources[r].boot
                          /\ t.resources[r].authoritative = s.resources[r].authoritative
                          /\ t.resources[r].lifecycle = s.resources[r].lifecycle
  <2> SUFFICES ASSUME NEW r \in Resource
               PROVE /\ t.resources[r].boot = s.resources[r].boot
                     /\ t.resources[r].authoritative = s.resources[r].authoritative
                     /\ t.resources[r].lifecycle = s.resources[r].lifecycle
    OBVIOUS
  <2> DEFINE more == s.resources[r].reserved + claims[r]
  <2>1. s.resources[r] \in ResourceRecord
    BY <1>2, Parts
  <2>2. t.resources[r] = [s.resources[r] EXCEPT !.reserved = more]
    BY <1>1 DEF Adds
  <2> HIDE DEF more
  <2> QED BY <2>1, <2>2 DEF ResourceRecord
<1>6. /\ \A p \in PlacementId \ {n} : t.placements[p] = s.placements[p]
      /\ t.placements[n].state = "Reserved"
  BY <1>1, <1>2 DEF Adds, SchedulerState
<1>7. ASSUME NEW a \in Agent, HoldsNothing(s, a) PROVE HoldsNothing(t, a)
  <2>1. ASSUME NEW p \in Live(t), t.placements[p].worker = WorkerOf(a),
               t.placements[p].boot = BootOf(a)
        PROVE  FALSE
    <3>1. CASE p = n
      <4>1. PICK r \in Range(sel) : /\ t.placements[n].worker = Owner[r]
                                    /\ t.placements[n].boot = s.resources[r].boot
        BY <1>3, <2>1, <3>1, AgentParts
      <4> QED BY <1>4, <1>7, <2>1, <3>1, <4>1 DEF HoldsNothing
    <3>2. CASE p # n
      BY <1>6, <1>7, <2>1, <3>2 DEF HoldsNothing, Live
    <3> QED BY <3>1, <3>2
  <2> QED BY <1>5, <1>7, <2>1 DEF HoldsNothing
<1>8. Quiet(s, t)
  BY <1>3, <1>5, <1>7 DEF Quiet, NeverRegistered
<1>9. FinishesOnly(s, t, {})
  BY <1>6 DEF FinishesOnly, Finished
<1> QED BY <1>8, <1>9 DEF t

(* Nor does schedule_locked, whatever it decides. *)
LEMMA ScheduleQuiet ==
    ASSUME NEW s, Inv(s), NEW q \in Request, NEW generation \in Nat, NEW reassignments \in Nat,
           NEW t \in Schedule(s, q, generation, reassignments)
    PROVE  Quiet(s, t) /\ FinishesOnly(s, t, {})
<1>1. CASE t = RejectRequest(s, q)
  <2>1. Fades(s, t) /\ FinishesOnly(s, t, {})
    BY <1>1, RequestEditFades DEF RejectRequest, Inv
  <2> QED BY <2>1, FadesQuiet
<1>2. CASE t = s
  BY <1>2 DEF Quiet, FinishesOnly
<1>3. ASSUME NEW sel \in Selections(s, q), ~ LogIsFull(s),
             t = Commit(s, q, sel, generation, reassignments)
      PROVE  Quiet(s, t) /\ FinishesOnly(s, t, {})
  BY <1>3, CommitQuiet
<1>4. \/ t = RejectRequest(s, q)
      \/ \E sel \in Selections(s, q) :
            t = IF LogIsFull(s) THEN s ELSE Commit(s, q, sel, generation, reassignments)
  BY DEF Schedule
<1> QED BY <1>1, <1>2, <1>3, <1>4

LEMMA ReplaceQuiet ==
    ASSUME NEW s, Inv(s), NEW p \in Placements(s), NEW t \in Replace(s, p)
    PROVE  Quiet(s, t) /\ FinishesOnly(s, t, {})
<1>1. s.placements[p] \in PlacementRecord
  BY Parts DEF Inv
<1>2. /\ s.placements[p].request \in Request
      /\ s.placements[p].generation + 1 \in Nat
      /\ s.placements[p].reassignments + 1 \in Nat
  BY <1>1 DEF PlacementRecord
<1> QED BY <1>2, ScheduleQuiet DEF Replace

-----------------------------------------------------------------------------
(***************************************************************************)
(* One lemma per operation of the engine that the server calls.            *)
(***************************************************************************)
LEMMA MarkAssignedQuiet ==
    ASSUME Inv(state), NEW p \in PlacementId, NEW c, NEW b, MarkAssigned(p, c, b)
    PROVE  Quiet(state, state') /\ FinishesOnly(state, state', {})
<1>1. p \in Live(state) /\ "Assigned" \in LiveStates
  BY DEF MarkAssigned, Live, LiveStates, Assignable, Authorised
<1>2. state' = [state EXCEPT !.placements[p].state = "Assigned"]
  BY DEF MarkAssigned, Become, Assignable, Authorised
<1>3. Fades(state, state') /\ FinishesOnly(state, state', {})
  BY <1>1, <1>2, PlacementEditFades DEF Inv
<1> QED BY <1>3, FadesQuiet

LEMMA MarkRunningQuiet ==
    ASSUME Inv(state), NEW p \in PlacementId, NEW c, NEW b, MarkRunning(p, c, b)
    PROVE  Quiet(state, state') /\ FinishesOnly(state, state', {})
<1>1. p \in Live(state) /\ "Running" \in LiveStates
  BY DEF MarkRunning, LiveStates, Startable, Authorised
<1>2. state' = [state EXCEPT !.placements[p].state = "Running"]
  BY DEF MarkRunning, Become, Startable, Authorised
<1>3. Fades(state, state') /\ FinishesOnly(state, state', {})
  BY <1>1, <1>2, PlacementEditFades DEF Inv
<1> QED BY <1>3, FadesQuiet

LEMMA ReportCompletionQuiet ==
    ASSUME Inv(state), NEW p \in PlacementId, NEW c, NEW b, NEW evidence,
           NEW target \in {"Completed", "Failed"}, ReportCompletion(p, c, b, evidence, target)
    PROVE  Quiet(state, state') /\ FinishesOnly(state, state', {p})
<1>1. target \in EndStates /\ state' = Terminate(state, {p}, target)
  BY DEF EndStates, ReportCompletion, Become, Completable, Authorised
<1>2. Fades(state, state') /\ FinishesOnly(state, state', {p})
  BY <1>1, TerminateFades
<1> QED BY <1>2, FadesQuiet

LEMMA CancelPlacementQuiet ==
    ASSUME Inv(state), NEW p \in PlacementId, NEW c, CancelPlacement(p, c)
    PROVE  Quiet(state, state') /\ FinishesOnly(state, state', {})
<1>1. "Cancelled" \in EndStates /\ state' = Terminate(state, {p}, "Cancelled")
  BY DEF EndStates, CancelPlacement, Become, EndableByController
<1>2. Fades(state, state') /\ FinishesOnly(state, state', {})
  BY <1>1, TerminateFades
<1> QED BY <1>2, FadesQuiet

LEMMA CancelRequestQuiet ==
    ASSUME Inv(state), NEW q \in Request, CancelRequest(q)
    PROVE  Quiet(state, state') /\ FinishesOnly(state, state', {})
<1> DEFINE P == {p \in Placements(state) : state.placements[p].request = q}
           e == Terminate(state, P, "Cancelled")
           x == [state |-> "Cancelled", current |-> NoPlacement]
<1>1. Inv(e) /\ Fades(state, e) /\ FinishesOnly(state, e, {})
  <2>1. "Cancelled" \in EndStates
    BY DEF EndStates
  <2> HIDE DEF P
  <2> QED BY <2>1, TerminateStep, TerminateFades
<1>2. state' = [e EXCEPT !.requests[q] = x]
  BY DEF CancelRequest, Become
<1> HIDE DEF e, x
<1>3. Fades(e, state') /\ FinishesOnly(e, state', {})
  BY <1>1, <1>2, RequestEditFades DEF Inv
<1> QED BY <1>1, <1>3, FadesTransitive, FinishesTransitive, FadesQuiet

LEMMA SubmitRequestQuiet ==
    ASSUME Inv(state), NEW q \in Request, SubmitRequest(q)
    PROVE  Quiet(state, state') /\ FinishesOnly(state, state', {})
<1> DEFINE x == [state |-> "Submitted", current |-> NoPlacement]
           submitted == [state EXCEPT !.requests[q] = x]
<1>1. x \in StoredRequest /\ x.state # "Placed" /\ x.current = NoPlacement
  BY DEF StoredRequest
<1>2. state' \in Schedule(submitted, q, 1, 0)
  BY DEF SubmitRequest, Become, Submittable
<1> HIDE DEF x
<1>3. Inv(submitted) /\ Fades(state, submitted) /\ FinishesOnly(state, submitted, {})
  BY <1>1, RequestEditStep, RequestEditFades DEF Inv
<1> HIDE DEF submitted
<1>4. Quiet(submitted, state') /\ FinishesOnly(submitted, state', {})
  BY <1>2, <1>3, ScheduleQuiet
<1> QED BY <1>3, <1>4, FadesQuiet, QuietTransitive, FinishesTransitive

LEMMA ReassignPlacementQuiet ==
    ASSUME Inv(state), NEW p \in PlacementId, NEW c, ReassignPlacement(p, c)
    PROVE  Quiet(state, state') /\ FinishesOnly(state, state', {})
<1> DEFINE e == Terminate(state, {p}, "ReassignmentRequired")
<1>1. Inv(e) /\ Keeps(state, e) /\ Fades(state, e) /\ FinishesOnly(state, e, {})
  <2>1. "ReassignmentRequired" \in EndStates
    BY DEF EndStates
  <2> QED BY <2>1, TerminateStep, TerminateFades
<1>2. p \in Placements(state)
  BY DEF ReassignPlacement, Known, Reassignable
<1>3. state' = e \/ state' \in Replace(e, p)
  BY DEF ReassignPlacement, Become, Reassignable
<1> HIDE DEF e
<1>4. p \in Placements(e) /\ Quiet(state, e)
  BY <1>1, <1>2, FadesQuiet DEF Keeps, LogKept
<1>5. CASE state' = e
  BY <1>1, <1>4, <1>5
<1>6. CASE state' \in Replace(e, p)
  <2>1. Quiet(e, state') /\ FinishesOnly(e, state', {})
    BY <1>1, <1>4, <1>6, ReplaceQuiet
  <2> QED BY <1>1, <1>4, <2>1, QuietTransitive, FinishesTransitive
<1> QED BY <1>3, <1>5, <1>6

LEMMA PreemptPlacementQuiet ==
    ASSUME Inv(state), NEW p \in PlacementId, NEW c, PreemptPlacement(p, c)
    PROVE  Quiet(state, state') /\ FinishesOnly(state, state', {})
<1> DEFINE q == state.placements[p].request
           e == Terminate(state, {p}, "Preempted")
           m == [e EXCEPT !.requests[q].state = "Submitted"]
<1>1. Inv(e) /\ Keeps(state, e) /\ Fades(state, e) /\ FinishesOnly(state, e, {})
  <2>1. "Preempted" \in EndStates
    BY DEF EndStates
  <2> QED BY <2>1, TerminateStep, TerminateFades
<1>2. p \in Placements(state) /\ q \in Request
  <2>1. p \in Placements(state)
    BY DEF PreemptPlacement, Known, EndableByController
  <2>2. state.placements[p] \in PlacementRecord
    BY <2>1, Parts DEF Inv
  <2> QED BY <2>1, <2>2 DEF PlacementRecord
<1>3. state' = m \/ state' \in Replace(m, p)
  BY DEF PreemptPlacement, Become, EndableByController
<1> HIDE DEF e, q
<1>4. Inv(m) /\ Keeps(e, m) /\ Fades(e, m) /\ FinishesOnly(e, m, {})
  <2> DEFINE x == [e.requests[q] EXCEPT !.state = "Submitted"]
  <2>1. e \in SchedulerState /\ e.requests[q] \in StoredRequest
    BY <1>1, <1>2, Parts DEF Inv
  <2>2. x \in StoredRequest /\ x.state # "Placed" /\ x.current = e.requests[q].current
    BY <2>1 DEF StoredRequest
  <2>3. m = [e EXCEPT !.requests[q] = x]
    BY <1>2, <2>1 DEF SchedulerState
  <2> HIDE DEF m, x
  <2> QED BY <1>1, <1>2, <2>1, <2>2, <2>3, RequestEditStep, RequestEditFades
<1> HIDE DEF m
<1>5. Quiet(state, m) /\ FinishesOnly(state, m, {})
  BY <1>1, <1>4, FadesTransitive, FinishesTransitive, FadesQuiet
<1>6. p \in Placements(m)
  BY <1>1, <1>2, <1>4 DEF Keeps, LogKept
<1>7. CASE state' = m
  BY <1>5, <1>7
<1>8. CASE state' \in Replace(m, p)
  <2>1. Quiet(m, state') /\ FinishesOnly(m, state', {})
    BY <1>4, <1>6, <1>8, ReplaceQuiet
  <2> QED BY <1>5, <2>1, QuietTransitive, FinishesTransitive
<1> QED BY <1>3, <1>7, <1>8

LEMMA RetireResourceQuiet ==
    ASSUME Inv(state), NEW r \in Resource, RetireResource(r)
    PROVE  Quiet(state, state') /\ FinishesOnly(state, state', {})
<1> DEFINE next == state.resources[r].generation + 1
<1>1. state' = [state EXCEPT !.resources[r].lifecycle = "Retired",
                             !.resources[r].authoritative = FALSE,
                             !.resources[r].generation = next]
  BY DEF RetireResource, Become, Retirable, Inv, SchedulerState
<1> HIDE DEF next
<1>2. Fades(state, state') /\ FinishesOnly(state, state', {})
  BY <1>1, RetireFades DEF Inv
<1> QED BY <1>2, FadesQuiet

(* A lost incarnation holds nothing. *)
LEMMA MarkWorkerLostQuiet ==
    ASSUME Inv(state), NeverRegistered(state), NEW a \in Agent,
           MarkWorkerLost(WorkerOf(a), BootOf(a))
    PROVE  Quiet(state, state') /\ FinishesOnly(state, state', {}) /\ HoldsNothing(state', a)
<1>1. WorkerOf(a) \in Worker /\ a = <<WorkerOf(a), BootOf(a)>>
  BY AgentParts
<1>2. LET t == Invalidate(state, WorkerOf(a), BootOf(a))
      IN  Fades(state, t) /\ FinishesOnly(state, t, {}) /\ HoldsNothing(t, a)
  BY <1>1, InvalidateSilences
<1>3. Fades(state, state') /\ FinishesOnly(state, state', {}) /\ HoldsNothing(state', a)
  BY <1>2 DEF MarkWorkerLost, Become
<1> QED BY <1>3, FadesQuiet

LEMMA WorkerConnectedTakesOver ==
    ASSUME Inv(state), NeverRegistered(state), NEW a \in Agent,
           WorkerConnected(WorkerOf(a), BootOf(a))
    PROVE  /\ TakesOver(state, state', a, {}) /\ FinishesOnly(state, state', {})
           /\ HoldsNothing(state, a) => HoldsNothing(state', a)
<1>1. LET t == Adopt(state, WorkerOf(a), BootOf(a))
      IN  /\ TakesOver(state, t, a, {}) /\ FinishesOnly(state, t, {})
          /\ \A c \in Agent : HoldsNothing(state, c) => HoldsNothing(t, c)
  BY AdoptTakesOver
<1> QED BY <1>1 DEF WorkerConnected, Become

(* A resource that incarnation a has not spoken for yet, and now does. *)
LEMMA SpeaksUp ==
    ASSUME NEW s, Inv(s), NeverRegistered(s), NEW a \in Agent, NEW r \in Resource,
           Owner[r] = WorkerOf(a), NEW x, x.boot = BootOf(a), x.lifecycle = "Current"
    PROVE  LET u == AdoptOwner(s, r, BootOf(a))
               t == [u EXCEPT !.resources[r] = x]
           IN  /\ TakesOver(s, u, a, {r}) /\ FinishesOnly(s, u, {})
               /\ TakesOver(s, t, a, {r}) /\ FinishesOnly(s, t, {})
<1> DEFINE u == AdoptOwner(s, r, BootOf(a))
           t == [u EXCEPT !.resources[r] = x]
<1>1. WorkerOf(a) \in Worker /\ BootOf(a) \in Boot /\ a = <<WorkerOf(a), BootOf(a)>>
      /\ WorkerOf(a) # NoWorker
  BY AgentParts
<1>2. u = Adopt(s, WorkerOf(a), BootOf(a))
  BY <1>1 DEF AdoptOwner
<1>3. TakesOver(s, u, a, {}) /\ FinishesOnly(s, u, {}) /\ u \in SchedulerState
  <2>1. LET v == Adopt(s, WorkerOf(a), BootOf(a))
        IN  TakesOver(s, v, a, {}) /\ FinishesOnly(s, v, {}) /\ v \in SchedulerState
    BY <1>1, AdoptTakesOver, AdoptStep DEF Inv
  <2> QED BY <1>2, <2>1
<1> HIDE DEF u
<1>4. /\ t.workers = u.workers /\ t.placements = u.placements /\ t.resources[r] = x
      /\ \A o \in Resource \ {r} : t.resources[o] = u.resources[o]
  BY <1>3 DEF SchedulerState
<1> HIDE DEF t
<1>5. TakesOver(s, u, a, {r})
  BY <1>3 DEF TakesOver
<1>6. ASSUME NEW c \in Agent \ {a}, HoldsNothing(u, c) PROVE HoldsNothing(t, c)
  <2>1. c = <<WorkerOf(c), BootOf(c)>>
    BY AgentParts
  <2>2. ~ (Owner[r] = WorkerOf(c) /\ x.boot = BootOf(c))
    BY <1>1, <2>1
  <2>3. Live(t) = Live(u)
    BY <1>4 DEF Live
  <2> QED BY <1>4, <1>6, <2>2, <2>3 DEF HoldsNothing
<1>7. NeverRegistered(u) => NeverRegistered(t)
  BY <1>4 DEF NeverRegistered
<1>8. TakesOver(s, t, a, {r})
  BY <1>3, <1>4, <1>6, <1>7 DEF TakesOver
<1>9. FinishesOnly(s, t, {})
  BY <1>3, <1>4 DEF FinishesOnly, Finished
<1> QED BY <1>3, <1>5, <1>8, <1>9 DEF t, u

LEMMA RegisterResourceTakesOver ==
    ASSUME Inv(state), NeverRegistered(state), NEW a \in Agent, NEW r \in Resource,
           Owner[r] = WorkerOf(a), NEW ad, RegisterResource(r, BootOf(a), ad)
    PROVE  TakesOver(state, state', a, {r}) /\ FinishesOnly(state, state', {})
<1> DEFINE x == CurrentRecord(ad, BootOf(a), 1, 0)
<1>1. x.boot = BootOf(a) /\ x.lifecycle = "Current"
  BY DEF CurrentRecord
<1>2. state' = [AdoptOwner(state, r, BootOf(a)) EXCEPT !.resources[r] = x]
  BY DEF RegisterResource, Become, Registrable
<1> HIDE DEF x
<1> QED BY <1>1, <1>2, SpeaksUp

LEMMA PublishResourceStateTakesOver ==
    ASSUME Inv(state), NeverRegistered(state), NEW a \in Agent, NEW r \in Resource,
           Owner[r] = WorkerOf(a), state.resources[r].boot # BootOf(a),
           NEW ad, PublishResourceState(r, BootOf(a), ad)
    PROVE  TakesOver(state, state', a, {r}) /\ FinishesOnly(state, state', {})
<1> DEFINE u == AdoptOwner(state, r, BootOf(a))
           x == CurrentRecord(ad, BootOf(a), u.resources[r].generation + 1,
                              u.resources[r].reserved)
<1>1. x.boot = BootOf(a) /\ x.lifecycle = "Current"
  BY DEF CurrentRecord
<1>2. state' = u \/ state' = [u EXCEPT !.resources[r] = x]
  BY DEF PublishResourceState, Become
<1> HIDE DEF x
<1>3. LET v == AdoptOwner(state, r, BootOf(a))
          t == [v EXCEPT !.resources[r] = x]
      IN  /\ TakesOver(state, v, a, {r}) /\ FinishesOnly(state, v, {})
          /\ TakesOver(state, t, a, {r}) /\ FinishesOnly(state, t, {})
  BY <1>1, SpeaksUp
<1> QED BY <1>2, <1>3

-----------------------------------------------------------------------------
(***************************************************************************)
(* Queues of frames, duties and connections.                               *)
(***************************************************************************)
(* At most one element of s is in E. *)
AtMostOne(s, E) == \A i, j \in DOMAIN s : s[i] \in E /\ s[j] \in E => i = j

LEMMA EmptyQueue ==
    ASSUME NEW S
    PROVE  /\ << >> \in Seq(S) /\ Range(<< >>) = {} /\ IsInjective(<< >>)
           /\ \A E : AtMostOne(<< >>, E)
BY DEF Range, AtMostOne, IsInjective

LEMMA SingleQueue ==
    ASSUME NEW S, NEW e \in S
    PROVE  /\ <<e>> \in Seq(S) /\ Range(<<e>>) = {e} /\ <<e>> # << >> /\ Head(<<e>>) = e
           /\ Tail(<<e>>) = << >>
BY DEF Range

LEMMA QueueRange ==
    ASSUME NEW S, NEW s \in Seq(S)
    PROVE  /\ Range(s) \subseteq S
           /\ s = << >> <=> Range(s) = {}
<1>1. Range(s) \subseteq S
  BY DEF Range
<1>2. DOMAIN s = 1 .. Len(s) /\ Len(s) \in Nat
  BY LenProperties
<1>3. ASSUME s # << >> PROVE Range(s) # {}
  <2>1. 1 \in DOMAIN s
    BY <1>2, <1>3, EmptySeq
  <2> QED BY <2>1 DEF Range
<1> QED BY <1>1, <1>3, EmptyQueue

(* A queue after its first element was taken. *)
LEMMA TakenQueue ==
    ASSUME NEW S, NEW s \in Seq(S), s # << >>
    PROVE  /\ Tail(s) \in Seq(S) /\ Head(s) \in S /\ Head(s) \in Range(s)
           /\ Range(Tail(s)) \subseteq Range(s)
           /\ Range(s) = {Head(s)} \cup Range(Tail(s))
           /\ IsInjective(s) => IsInjective(Tail(s)) /\ Head(s) \notin Range(Tail(s))
           /\ \A E : AtMostOne(s, E) =>
                 /\ AtMostOne(Tail(s), E)
                 /\ Head(s) \in E => \A x \in Range(Tail(s)) : x \notin E
<1>1. /\ Head(s) \in S /\ Tail(s) \in Seq(S) /\ Head(s) = s[1]
      /\ Len(Tail(s)) = Len(s) - 1 /\ Len(s) \in Nat \ {0}
      /\ \A i \in 1 .. Len(Tail(s)) : Tail(s)[i] = s[i + 1]
      /\ DOMAIN s = 1 .. Len(s) /\ DOMAIN Tail(s) = 1 .. Len(Tail(s))
  BY HeadTailProperties, LenProperties, EmptySeq
<1>2. Head(s) \in Range(s)
  BY <1>1 DEF Range
<1>3. \A i \in DOMAIN Tail(s) : i + 1 \in DOMAIN s /\ Tail(s)[i] = s[i + 1] /\ i \in Nat /\ i + 1 # 1
  BY <1>1
<1>4. Range(Tail(s)) \subseteq Range(s)
  BY <1>3 DEF Range
<1>5. ASSUME NEW i \in DOMAIN s, i # 1 PROVE s[i] \in Range(Tail(s))
  <2>1. i - 1 \in 1 .. Len(Tail(s)) /\ (i - 1) + 1 = i
    BY <1>1, <1>5
  <2> QED BY <1>1, <2>1 DEF Range
<1>6. Range(s) = {Head(s)} \cup Range(Tail(s))
  BY <1>1, <1>2, <1>4, <1>5 DEF Range
<1>7. ASSUME IsInjective(s) PROVE IsInjective(Tail(s)) /\ Head(s) \notin Range(Tail(s))
  <2>1. \A i, j \in DOMAIN Tail(s) : Tail(s)[i] = Tail(s)[j] => i + 1 = j + 1
    BY <1>3, <1>7 DEF IsInjective
  <2>2. \A i \in DOMAIN Tail(s) : Tail(s)[i] # s[1]
    BY <1>1, <1>3, <1>7 DEF IsInjective
  <2> QED BY <1>1, <1>3, <2>1, <2>2 DEF IsInjective, Range
<1>8. ASSUME NEW E, AtMostOne(s, E)
      PROVE  /\ AtMostOne(Tail(s), E)
             /\ Head(s) \in E => \A x \in Range(Tail(s)) : x \notin E
  <2>1. \A i, j \in DOMAIN Tail(s) : Tail(s)[i] \in E /\ Tail(s)[j] \in E => i + 1 = j + 1
    BY <1>3, <1>8 DEF AtMostOne
  <2>2. s[1] \in E => \A i \in DOMAIN Tail(s) : Tail(s)[i] \notin E
    BY <1>1, <1>3, <1>8 DEF AtMostOne
  <2> QED BY <1>1, <1>3, <2>1, <2>2 DEF AtMostOne, Range
<1> QED BY <1>1, <1>2, <1>4, <1>6, <1>7, <1>8

(* A queue with one more element. *)
LEMMA LongerQueue ==
    ASSUME NEW S, NEW s \in Seq(S), NEW e \in S
    PROVE  /\ Append(s, e) \in Seq(S) /\ Range(Append(s, e)) = Range(s) \cup {e}
           /\ IsInjective(s) /\ e \notin Range(s) => IsInjective(Append(s, e))
           /\ \A E : AtMostOne(s, E) /\ (e \in E => \A x \in Range(s) : x \notin E) =>
                 AtMostOne(Append(s, e), E)
<1> DEFINE t == Append(s, e)
           n == Len(s) + 1
<1>1. /\ t \in Seq(S) /\ Len(t) = n /\ \A i \in 1 .. Len(s) : t[i] = s[i]
      /\ t[n] = e /\ Len(s) \in Nat
      /\ DOMAIN s = 1 .. Len(s) /\ DOMAIN t = 1 .. Len(t)
  BY AppendProperties, LenProperties
<1> HIDE DEF t
<1>2. DOMAIN t = DOMAIN s \cup {n} /\ n \notin DOMAIN s /\ \A i \in DOMAIN s : t[i] = s[i]
  BY <1>1
<1>3. t[n] = e
  BY <1>1
<1> HIDE DEF n
<1>4. Range(t) = Range(s) \cup {e}
  BY <1>2, <1>3 DEF Range
<1>5. IsInjective(s) /\ e \notin Range(s) => IsInjective(t)
  BY <1>2, <1>3 DEF Range, IsInjective
<1>6. ASSUME NEW E, AtMostOne(s, E), e \in E => \A x \in Range(s) : x \notin E
      PROVE  AtMostOne(t, E)
  BY <1>2, <1>3, <1>6 DEF AtMostOne, Range
<1> QED BY <1>1, <1>4, <1>5, <1>6 DEF t

(* Frames that a client sends. *)
LEMMA SentQueue ==
    ASSUME NEW S, NEW s \in Seq(S), NEW e \in S
    PROVE  s \o << >> = s /\ s \o <<e>> = Append(s, e)
BY ConcatEmptySeq, AppendIsConcat

(* What is left of a queue when its end is lost. *)
LEMMA CutQueue ==
    ASSUME NEW S, NEW s \in Seq(S), NEW k \in 0 .. Len(s)
    PROVE  LET t == SubSeq(s, 1, k)
           IN  /\ t \in Seq(S) /\ Range(t) \subseteq Range(s)
               /\ \A e : s = <<e>> => t \in {<< >>, <<e>>}
<1> DEFINE t == SubSeq(s, 1, k)
<1>1. /\ Len(s) \in Nat /\ k \in Int /\ k <= Len(s) /\ DOMAIN s = 1 .. Len(s)
      /\ \A i \in 1 .. k : i \in DOMAIN s /\ s[i] \in S
  BY LenProperties, ElementOfSeq
<1>2. /\ t \in Seq(S)
      /\ Len(t) = IF 1 <= k THEN k - 1 + 1 ELSE 0
      /\ \A i \in 1 .. k - 1 + 1 : t[i] = s[1 + i - 1]
  BY <1>1, SubSeqProperties
<1> HIDE DEF t
<1>3. DOMAIN t = 1 .. k /\ \A i \in 1 .. k : t[i] = s[i]
  <2>1. DOMAIN t = 1 .. Len(t) /\ Len(t) \in Nat
    BY <1>2, LenProperties
  <2> QED BY <1>1, <1>2, <2>1
<1>4. Range(t) \subseteq Range(s)
  BY <1>1, <1>3 DEF Range
<1>5. ASSUME NEW e, s = <<e>> PROVE t \in {<< >>, <<e>>}
  <2>1. Len(s) = 1
    BY <1>5
  <2>2. CASE k = 0
    BY <2>2, SubSeqEmpty DEF t
  <2>3. CASE k = 1
    BY <1>5, <2>1, <2>3, SubSeqFull DEF t
  <2> QED BY <1>1, <2>1, <2>2, <2>3
<1> QED BY <1>2, <1>4, <1>5 DEF t

(* A queue after an element was removed. *)
LEMMA RemovedQueue ==
    ASSUME NEW S, NEW s \in Seq(S), IsInjective(s), NEW i \in DOMAIN s
    PROVE  LET t == SubSeq(s, 1, i - 1) \o SubSeq(s, i + 1, Len(s))
           IN  t \in Seq(S) /\ IsInjective(t) /\ Range(t) = Range(s) \ {s[i]}
<1> DEFINE u == SubSeq(s, 1, i - 1)
           v == SubSeq(s, i + 1, Len(s))
           t == u \o v
           from(j) == IF j < i THEN j ELSE j + 1
<1>1. Len(s) \in Nat /\ DOMAIN s = 1 .. Len(s) /\ i \in 1 .. Len(s) /\ \A j \in 1 .. Len(s) : s[j] \in S
  BY LenProperties, ElementOfSeq
<1>2. /\ u \in Seq(S) /\ Len(u) = i - 1
      /\ \A j \in 1 .. i - 1 : u[j] = s[j]
  <2>1. 1 \in Int /\ i - 1 \in Int /\ \A j \in 1 .. i - 1 : s[j] \in S
    BY <1>1
  <2>2. /\ u \in Seq(S) /\ Len(u) = IF 1 <= i - 1 THEN (i - 1) - 1 + 1 ELSE 0
        /\ \A j \in 1 .. (i - 1) - 1 + 1 : u[j] = s[1 + j - 1]
    BY <2>1, SubSeqProperties
  <2> QED BY <1>1, <2>2
<1>3. /\ v \in Seq(S) /\ Len(v) = Len(s) - i
      /\ \A j \in 1 .. Len(s) - i : v[j] = s[i + j]
  <2>1. Len(s) \in Int /\ i + 1 \in Int /\ \A j \in i + 1 .. Len(s) : s[j] \in S
    BY <1>1
  <2>2. /\ v \in Seq(S) /\ Len(v) = IF i + 1 <= Len(s) THEN Len(s) - (i + 1) + 1 ELSE 0
        /\ \A j \in 1 .. Len(s) - (i + 1) + 1 : v[j] = s[(i + 1) + j - 1]
    BY <2>1, SubSeqProperties
  <2>3. \A j \in 1 .. Len(s) - i : j \in 1 .. Len(s) - (i + 1) + 1 /\ (i + 1) + j - 1 = i + j
    BY <1>1
  <2>4. \A j \in 1 .. Len(s) - i : v[j] = s[i + j]
    BY <2>2, <2>3
  <2> QED BY <1>1, <2>2, <2>4
<1> HIDE DEF u, v
<1>4. /\ t \in Seq(S) /\ Len(t) = Len(u) + Len(v)
      /\ \A j \in 1 .. Len(u) + Len(v) : t[j] = IF j <= Len(u) THEN u[j] ELSE v[j - Len(u)]
  BY <1>2, <1>3, ConcatProperties
<1> HIDE DEF t
<1>5. DOMAIN t = 1 .. Len(s) - 1
  BY <1>1, <1>2, <1>3, <1>4, LenProperties
<1>6. ASSUME NEW j \in DOMAIN t
      PROVE  t[j] = s[from(j)] /\ from(j) \in DOMAIN s /\ from(j) # i /\ j \in Int
  <2>1. CASE j < i
    BY <1>1, <1>2, <1>3, <1>4, <1>5, <1>6, <2>1
  <2>2. CASE j >= i
    <3>1. j > Len(u) /\ j - Len(u) \in 1 .. Len(s) - i /\ i + (j - Len(u)) = j + 1
      BY <1>1, <1>2, <1>5, <1>6, <2>2
    <3>2. t[j] = v[j - Len(u)] /\ v[j - Len(u)] = s[j + 1]
      <4> DEFINE k == j - Len(u)
      <4>1. j \in 1 .. Len(u) + Len(v) /\ ~ (j <= Len(u))
        BY <1>1, <1>2, <1>3, <1>5, <1>6, <3>1
      <4>2. t[j] = v[j - Len(u)]
        BY <1>4, <4>1
      <4>3. k \in 1 .. Len(s) - i /\ i + k = j + 1
        BY <3>1
      <4> HIDE DEF k
      <4>4. v[k] = s[i + k]
        BY <1>3, <4>3
      <4> QED BY <4>2, <4>3, <4>4 DEF k
    <3> QED BY <1>1, <1>5, <1>6, <2>2, <3>2
  <2> QED BY <1>1, <1>5, <1>6, <2>1, <2>2
<1>7. ASSUME NEW k \in DOMAIN s, k # i PROVE \E j \in DOMAIN t : from(j) = k
  <2>1. CASE k < i
    BY <1>1, <1>5, <1>7, <2>1
  <2>2. CASE k > i
    <3>1. k - 1 \in DOMAIN t /\ from(k - 1) = k
      BY <1>1, <1>5, <1>7, <2>2
    <3> QED BY <3>1
  <2> QED BY <1>1, <1>7, <2>1, <2>2
<1>8. \A j, k \in DOMAIN t : from(j) = from(k) => j = k
  BY <1>1, <1>6
<1> HIDE DEF from
<1>9. IsInjective(t)
  BY <1>6, <1>8 DEF IsInjective
<1>10. Range(t) = Range(s) \ {s[i]}
  <2>1. \A j \in DOMAIN t : t[j] # s[i]
    BY <1>6 DEF IsInjective
  <2> QED BY <1>6, <1>7, <2>1 DEF Range
<1> QED BY <1>4, <1>9, <1>10 DEF t, u, v

-----------------------------------------------------------------------------
(***************************************************************************)
(* The inductive invariant, one operator per idea.  What concerns a single *)
(* client is an operator of that client.                                   *)
(***************************************************************************)
AckFrame ==
    [type: {"HelloAck", "ResourceAck", "LifecycleAck", "CompletionAck", "OtherAck"}, ok: BOOLEAN]

Assign(p) == [type |-> "Assign", placement |-> p]
Announce == [do |-> "announce"]
Reply(f) == [do |-> "reply", frame |-> f]
Push(p) == [do |-> "push", placement |-> p]
RequestShutdown == [do |-> "requestShutdown"]

IsTable(f) == f = [c \in Client |-> f[c]]

Tables ==
    /\ IsTable(client) /\ IsTable(link) /\ IsTable(toServer) /\ IsTable(toClient)
    /\ IsTable(thread) /\ IsTable(announced) /\ IsTable(owed)

FramesOf(c) == IF c \in Agent THEN AgentFrame ELSE ControllerFrame

Typed(c) ==
    /\ client[c] \in ClientProcess
    /\ link[c] \in {"unused", "open", "left", "shut"}
    /\ toServer[c] \in Seq(FramesOf(c))
    /\ toClient[c] \in Seq(ServerFrame)
    /\ thread[c] \in {"none", "serving", "ending", "ended"}
    /\ announced[c] \in BOOLEAN
    /\ owed[c] \in Seq(Duty)

(* A process that has not started has no connection. *)
Down(c) == client[c].pc = "down" =>
    /\ link[c] = "unused" /\ thread[c] = "none" /\ client[c].calls = 0
    /\ toServer[c] = << >> /\ toClient[c] = << >>

(* What a handler may owe, and to whom. *)
Duties(c) ==
    /\ c \in Agent => \/ owed[c] = << >>
                      \/ \E f \in AckFrame : owed[c] \in {<<Reply(f)>>, <<Announce, Reply(f)>>}
    /\ c \in Controller => \/ owed[c] \in {<< >>, <<RequestShutdown>>}
                           \/ \E p \in Placements(state) : owed[c] = <<Push(p)>>
    /\ owed[c] # << >> => thread[c] = "serving"
    /\ announced[c] => c \in Agent /\ thread[c] \in {"serving", "ending"}

Announcing(a) == owed[a] # << >> /\ Head(owed[a]) = Announce

(***************************************************************************)
(* An incarnation that the engine does not know as the current one of its  *)
(* worker, or whose connection is over, holds nothing.                     *)
(***************************************************************************)
Fenced(a) ==
    /\ Recorded(state, a) \/ HoldsNothing(state, a)
    /\ thread[a] \in {"ending", "ended"} => HoldsNothing(state, a)
    /\ Recorded(state, a) => \/ announced[a] \/ Announcing(a)
                             \/ thread[a] \in {"ending", "ended"}

(* Nothing but Hello passes between an agent and its thread before the announcement. *)
Introduced(a) == announced[a] \/ thread[a] = "ended"

Introduction(a) ==
    /\ client[a].pc \notin {"down", "hello", "gone"} => Introduced(a)
    /\ toClient[a] # << >> => Introduced(a)
    /\ \A m \in Range(toServer[a]) : m.type # "Hello" => Introduced(a)
    /\ owed[a] # << >> => Announcing(a) \/ Introduced(a)

(***************************************************************************)
(* An agent speaks for each of its resources once: until the coordinator   *)
(* has handled the frame, the resource is on record with another boot.     *)
(***************************************************************************)
Owned(a) == {r \in Resource : Owner[r] = WorkerOf(a)}
Unheard(a, r) == r \in Owned(a) /\ state.resources[r].boot # BootOf(a)
OfResource(m) == m.type \in {"RegisterResource", "PublishState"}
Chosen(a) == InRegistration(client[a].todo)

Unsent(a) ==
    IF client[a].pc = "down" THEN Owned(a)
    ELSE IF client[a].pc = "hello" THEN client[a].todo
    ELSE IF client[a].pc \in {"register", "publish"} THEN client[a].todo \ {Chosen(a)}
    ELSE {}

Question(a) ==
    IF client[a].pc = "hello" THEN [type |-> "Hello"]
    ELSE IF client[a].pc = "register" THEN [type |-> "RegisterResource", resource |-> Chosen(a)]
    ELSE [type |-> "PublishState", resource |-> Chosen(a)]

Starting == {"hello", "register", "publish"}
Started == {"serving", "assignAck", "running", "completion"}
Refusal == {f \in AckFrame : ~ f.ok}

NoneIn(s, E) == \A x \in Range(s) : x \notin E

(* While it starts, an agent has one question or one answer on the way. *)
OneAtATime(a) == client[a].pc \in Starting =>
    /\ client[a].todo \subseteq Owned(a)
    /\ client[a].pc # "hello" => client[a].todo # {}
    /\ toServer[a] # << >> => toServer[a] = <<Question(a)>> /\ owed[a] = << >>
    /\ toServer[a] # << >> \/ owed[a] # << >> => NoneIn(toClient[a], AckFrame)
    /\ AtMostOne(toClient[a], AckFrame)

Registration(a) ==
    /\ OneAtATime(a)
    /\ \A r \in Unsent(a) : Unheard(a, r)
    /\ \A m \in Range(toServer[a]) : OfResource(m) =>
          /\ client[a].pc \notin Started
          /\ toServer[a] = <<m>> /\ owed[a] = << >> /\ Unheard(a, m.resource)
    /\ client[a].pc = "register" =>
          \/ Unheard(a, Chosen(a))
          \/ /\ NoneIn(toClient[a], Refusal)
             /\ NoneIn(owed[a], {Reply(f) : f \in Refusal})

(***************************************************************************)
(* Assignments go to connections of the worker the placement is bound to,  *)
(* and an agent reports what it has executed.                              *)
(***************************************************************************)
Bound(p, a) == p \in Placements(state) /\ state.placements[p].worker = WorkerOf(a)

Assignments(a) ==
    /\ \A f \in Range(toClient[a]) : f.type = "Assign" => Bound(f.placement, a)
    /\ client[a].pc \in {"assignAck", "running", "completion"} => Bound(client[a].job, a)
    /\ \A m \in Range(toServer[a]) : m.type = "Completion" =>
          /\ Bound(m.placement, a) /\ m.boot = BootOf(a)
          /\ a \in Range(executions[m.placement])

Local(c) ==
    /\ Typed(c) /\ Down(c) /\ Duties(c)
    /\ c \in Agent => Fenced(c) /\ Introduction(c) /\ Registration(c) /\ Assignments(c)

(***************************************************************************)
(* The token of a placement: where its assignment is.                      *)
(***************************************************************************)
Stage == {"pushed", "sent", "handled", "executed"}

At(stage, c, p) ==
    \/ stage = "pushed" /\ Push(p) \in Range(owed[c])
    \/ stage = "sent" /\ Assign(p) \in Range(toClient[c])
    \/ stage = "handled" /\ client[c].pc \in {"assignAck", "running"} /\ client[c].job = p
    \/ stage = "executed" /\ c \in Range(executions[p])

AtOnePlace ==
    /\ executions = [p \in PlacementId |-> executions[p]]
    /\ \A p \in PlacementId : executions[p] \in Seq(Agent) /\ Len(executions[p]) <= 1
    /\ \A p \in PlacementId, x, y \in Stage, c, d \in Client :
          At(x, c, p) /\ At(y, d, p) => x = y /\ c = d
    /\ \A p \in PlacementId, x \in Stage, c \in Client : At(x, c, p) => p \in Placements(state)
    /\ \A p \in PlacementId, c \in Client : AtMostOne(toClient[c], {Assign(p)})

(* Every result is that of a run. *)
Proven(p) == <<state.placements[p].worker, state.placements[p].boot>> \in Range(executions[p])

Results == \A p \in Placements(state) : Finished(state, p) => Proven(p)

(* Connections wait for accept() before they have a thread, and a peer while they have one. *)
Serving == {c \in Client : thread[c] \in {"serving", "ending"}}

Loop ==
    /\ peers \in Seq(Client) /\ IsInjective(peers) /\ Range(peers) = Serving
    /\ backlog \in Seq(Client \cup {Wake}) /\ IsInjective(backlog)
    /\ \A c \in Range(backlog) \ {Wake} : thread[c] = "none" /\ client[c].pc # "down"
    /\ Wake \in Range(backlog) => stopping
    /\ stopping \in BOOLEAN
    /\ loop \in {"accepting", "closing", "joining", "stopped"}
    /\ overlooked \subseteq Agent

ClusterInv ==
    /\ Inv(state) /\ NeverRegistered(state)
    /\ Tables /\ \A c \in Client : Local(c)
    /\ AtOnePlace /\ Results /\ Loop

-----------------------------------------------------------------------------
(***************************************************************************)
(* What the steps of others leave as it is.                                *)
(***************************************************************************)
(* An engine operation of somebody else, as agent a sees it. *)
Spares(s, t, a) ==
    /\ HoldsNothing(s, a) => HoldsNothing(t, a)
    /\ Recorded(t, a) => Recorded(s, a)
    /\ Recorded(s, a) /\ ~ Recorded(t, a) => HoldsNothing(t, a)
    /\ \A r \in Owned(a) : s.resources[r].boot # BootOf(a) => t.resources[r].boot # BootOf(a)

LEMMA QuietSpares ==
    ASSUME NEW s, NEW t, Quiet(s, t), NEW a \in Agent
    PROVE  Spares(s, t, a)
BY AgentParts DEF Quiet, Spares, Recorded, Owned

LEMMA TakesOverSpares ==
    ASSUME NEW s, NEW t, NEW c \in Agent, NEW R, TakesOver(s, t, c, R), NEW a \in Agent, a # c
    PROVE  Spares(s, t, a)
<1>1. /\ WorkerOf(a) \in Worker /\ a = <<WorkerOf(a), BootOf(a)>>
      /\ WorkerOf(c) \in Worker /\ c = <<WorkerOf(c), BootOf(c)>>
  BY AgentParts
<1>2. WorkerOf(a) = WorkerOf(c) => BootOf(a) # BootOf(c)
  BY <1>1
<1>3. Recorded(t, a) => WorkerOf(a) # WorkerOf(c) /\ Recorded(s, a)
  BY <1>1, <1>2 DEF TakesOver, Recorded
<1>4. Recorded(s, a) /\ ~ Recorded(t, a) => WorkerOf(a) = WorkerOf(c)
  BY <1>1 DEF TakesOver, Recorded
<1>5. ASSUME NEW r \in Owned(a), s.resources[r].boot # BootOf(a)
      PROVE  t.resources[r].boot # BootOf(a)
  BY <1>2, <1>5 DEF TakesOver, Owned
<1> QED BY <1>3, <1>4, <1>5 DEF TakesOver, Spares

LEMMA SameSpares ==
    ASSUME NEW s, NEW a PROVE Spares(s, s, a)
BY DEF Spares

(* The engine moves on. *)
EngineMoves == Inv(state) /\ Inv(state') /\ NeverRegistered(state') /\ LogKept(state, state')

RunsKept == \A p \in PlacementId : Range(executions[p]) \subseteq Range(executions'[p])

SameThread(c) == thread'[c] = thread[c] /\ announced'[c] = announced[c] /\ owed'[c] = owed[c]

SameProcess(c) == /\ client'[c] = client[c] /\ link'[c] = link[c]
                  /\ toServer'[c] = toServer[c] /\ toClient'[c] = toClient[c]

LEMMA LogKeptBinds ==
    ASSUME EngineMoves, NEW p \in Placements(state)
    PROVE  /\ p \in Placements(state')
           /\ state'.placements[p].worker = state.placements[p].worker
           /\ state'.placements[p].boot = state.placements[p].boot
<1>1. state.placements[p] \in PlacementRecord
  BY Parts DEF EngineMoves, Inv
<1>2. /\ p \in Placements(state')
      /\ state'.placements[p] = [state.placements[p] EXCEPT !.state = state'.placements[p].state]
  BY DEF EngineMoves, LogKept
<1> DEFINE x == state'.placements[p].state
<1>3. state'.placements[p] = [state.placements[p] EXCEPT !.state = x]
  BY <1>2
<1> HIDE DEF x
<1> QED BY <1>1, <1>2, <1>3 DEF PlacementRecord

LEMMA BoundKept ==
    ASSUME EngineMoves, NEW p, NEW a, Bound(p, a)
    PROVE  Bound(p, a)'
BY LogKeptBinds DEF Bound

LEMMA DutiesKept ==
    ASSUME EngineMoves, NEW c \in Client, Duties(c), SameThread(c)
    PROVE  Duties(c)'
<1>1. \A p \in Placements(state) : p \in Placements(state')
  BY LogKeptBinds
<1> QED BY <1>1 DEF Duties, SameThread

LEMMA FencedKept ==
    ASSUME NEW a \in Agent, Fenced(a), SameThread(a), Spares(state, state', a)
    PROVE  Fenced(a)'
<1>1. Recorded(state', a) => Recorded(state, a)
  BY DEF Spares
<1>2. Announcing(a)' <=> Announcing(a)
  BY DEF Announcing, SameThread
<1>3. thread'[a] = thread[a] /\ announced'[a] = announced[a]
  BY DEF SameThread
<1>4. HoldsNothing(state, a) => HoldsNothing(state', a)
  BY DEF Spares
<1>5. Recorded(state', a) \/ HoldsNothing(state', a)
  BY <1>4 DEF Spares, Fenced
<1> QED BY <1>1, <1>2, <1>3, <1>4, <1>5 DEF Fenced

LEMMA IntroductionKept ==
    ASSUME NEW a \in Agent, Introduction(a), SameThread(a), SameProcess(a)
    PROVE  Introduction(a)'
BY DEF Introduction, Introduced, Announcing, SameThread, SameProcess

LEMMA RegistrationKept ==
    ASSUME NEW a \in Agent, Registration(a), owed'[a] = owed[a], SameProcess(a),
           Spares(state, state', a)
    PROVE  Registration(a)'
<1>1. \A r : Unheard(a, r) => Unheard(a, r)'
  BY DEF Unheard, Spares, Owned
<1>2. OneAtATime(a)' /\ Unsent(a)' = Unsent(a) /\ Chosen(a)' = Chosen(a)
  BY DEF Registration, OneAtATime, Unsent, Chosen, Question, SameProcess
<1> QED BY <1>1, <1>2 DEF Registration, SameProcess

LEMMA AssignmentsKept ==
    ASSUME EngineMoves, RunsKept, NEW a \in Agent, Assignments(a), Typed(a), SameProcess(a)
    PROVE  Assignments(a)'
<1>1. \A p : Bound(p, a) => Bound(p, a)'
  BY BoundKept
<1>2. \A m \in Range(toServer[a]) : m.type = "Completion" => m.placement \in PlacementId
  <2>1. Range(toServer[a]) \subseteq AgentFrame
    BY QueueRange DEF Typed, FramesOf
  <2> QED BY <2>1 DEF AgentFrame, ResourceFrame, AuthorityFrame, CompletionFrame
<1> QED BY <1>1, <1>2 DEF Assignments, SameProcess, RunsKept

(* A client that the step does not touch. *)
LEMMA LocalKept ==
    ASSUME EngineMoves, RunsKept, NEW c \in Client, Local(c), SameThread(c), SameProcess(c),
           c \in Agent => Spares(state, state', c)
    PROVE  Local(c)'
<1>1. Typed(c)' /\ Down(c)'
  BY DEF Local, Typed, Down, SameThread, SameProcess
<1>2. Duties(c)'
  BY DutiesKept DEF Local
<1>3. ASSUME c \in Agent PROVE Fenced(c)' /\ Introduction(c)' /\ Registration(c)' /\ Assignments(c)'
  BY <1>3, FencedKept, IntroductionKept, RegistrationKept, AssignmentsKept
     DEF Local, SameThread
<1> QED BY <1>1, <1>2, <1>3 DEF Local

LEMMA EngineStays ==
    ASSUME ClusterInv, UNCHANGED state
    PROVE  /\ EngineMoves /\ FinishesOnly(state, state', {})
           /\ \A a : Spares(state, state', a)
<1>1. LogKept(state, state)
  BY KeepsReflexive DEF ClusterInv, Inv, Keeps
<1>2. EngineMoves
  BY <1>1 DEF EngineMoves, ClusterInv, Inv
<1> QED BY <1>2, SameSpares DEF FinishesOnly

(* The tokens of P move to one place, the others stay or get lost. *)
TokensMove(P, y, d) ==
    /\ \A p \in P : p \in Placements(state')
    /\ \A p \in PlacementId \ P, x \in Stage, c \in Client : At(x, c, p)' => At(x, c, p)
    /\ \A p \in P, x \in Stage, c \in Client : At(x, c, p)' => x = y /\ c = d

LEMMA TokenMoves ==
    ASSUME AtOnePlace, EngineMoves,
           executions' = [p \in PlacementId |-> executions'[p]],
           \A p \in PlacementId : executions'[p] \in Seq(Agent) /\ Len(executions'[p]) <= 1,
           \A p \in PlacementId, c \in Client : AtMostOne(toClient'[c], {Assign(p)}),
           NEW P, NEW y, NEW d, TokensMove(P, y, d)
    PROVE  AtOnePlace'
<1>1. \A p \in Placements(state) : p \in Placements(state')
  BY LogKeptBinds
<1>2. \A p \in PlacementId, x \in Stage, c \in Client : At(x, c, p)' => p \in Placements(state')
  BY <1>1 DEF AtOnePlace, TokensMove
<1>3. ASSUME NEW p \in PlacementId, NEW x \in Stage, NEW z \in Stage, NEW c \in Client,
             NEW e \in Client, At(x, c, p)', At(z, e, p)'
      PROVE  x = z /\ c = e
  <2>1. CASE p \in P
    BY <1>3, <2>1 DEF TokensMove
  <2>2. CASE p \notin P
    BY <1>3, <2>2 DEF AtOnePlace, TokensMove
  <2> QED BY <2>1, <2>2
<1> QED BY <1>2, <1>3 DEF AtOnePlace

(* Tokens that stay or get lost. *)
LEMMA TokensStay ==
    ASSUME AtOnePlace, EngineMoves, UNCHANGED executions,
           \A c \in Client : /\ \A p : Push(p) \in Range(owed'[c]) => Push(p) \in Range(owed[c])
                             /\ \A p : Assign(p) \in Range(toClient'[c]) =>
                                          Assign(p) \in Range(toClient[c])
                             /\ \A p : AtMostOne(toClient[c], {Assign(p)}) =>
                                          AtMostOne(toClient'[c], {Assign(p)})
                             /\ client'[c].pc \in {"assignAck", "running"} =>
                                   /\ client[c].pc \in {"assignAck", "running"}
                                   /\ client'[c].job = client[c].job
    PROVE  AtOnePlace'
<1>1. \A p \in PlacementId, x \in Stage, c \in Client : At(x, c, p)' => At(x, c, p)
  BY DEF At, Stage
<1>2. \A p \in PlacementId, c \in Client : AtMostOne(toClient'[c], {Assign(p)})
  BY DEF AtOnePlace
<1>3. /\ executions' = [p \in PlacementId |-> executions'[p]]
      /\ \A p \in PlacementId : executions'[p] \in Seq(Agent) /\ Len(executions'[p]) <= 1
  BY DEF AtOnePlace
<1>4. TokensMove({}, "sent", Wake)
  BY <1>1 DEF TokensMove
<1> QED BY <1>2, <1>3, <1>4, TokenMoves

LEMMA ResultsKept ==
    ASSUME Results, EngineMoves, RunsKept, NEW P, FinishesOnly(state, state', P),
           \A p \in P : p \in Placements(state) /\ Proven(p)
    PROVE  Results'
<1> SUFFICES ASSUME NEW p \in Placements(state'), Finished(state', p) PROVE Proven(p)'
  BY DEF Results
<1>1. p \in PlacementId
  BY DEF Placements
<1>2. CASE p \in Placements(state)
  <2>1. Proven(p)
    BY <1>1, <1>2 DEF FinishesOnly, Results
  <2> QED BY <1>1, <1>2, <2>1, LogKeptBinds DEF Proven, RunsKept
<1>3. CASE p \notin Placements(state)
  <2>1. ~ Finished(state, p)
    BY <1>1, <1>3 DEF Placements, Finished
  <2>2. p \in P
    BY <1>1, <2>1 DEF FinishesOnly
  <2> QED BY <1>1, <1>3, <2>1, <2>2
<1> QED BY <1>2, <1>3

LEMMA LoopKept ==
    ASSUME Loop, UNCHANGED <<peers, thread>>, UNCHANGED loopVars,
           \A c \in Client : client'[c].pc = "down" => client[c].pc = "down"
    PROVE  Loop'
<1>1. Serving' = Serving
  BY DEF Serving
<1>2. \A c \in Range(backlog) \ {Wake} : c \in Client
  BY QueueRange DEF Loop
<1> QED BY <1>1, <1>2 DEF Loop, loopVars

-----------------------------------------------------------------------------
(***************************************************************************)
(* The steps of client processes.                                          *)
(***************************************************************************)
LEMMA ClientActs ==
    ASSUME ClusterInv, NEW c \in Client, UNCHANGED serverVars, UNCHANGED loopVars,
           IsTable(client'), IsTable(link'), IsTable(toServer'), IsTable(toClient'),
           \A d \in Client : d # c => SameProcess(d),
           RunsKept, client'[c].pc # "down", Typed(c)', AtOnePlace',
           c \in Agent => Introduction(c)' /\ Registration(c)' /\ Assignments(c)'
    PROVE  ClusterInv'
<1>1. /\ UNCHANGED state /\ UNCHANGED <<peers, thread>>
      /\ \A d \in Client : SameThread(d)
  BY DEF serverVars, SameThread
<1>2. /\ EngineMoves /\ FinishesOnly(state, state', {})
      /\ \A a : Spares(state, state', a)
  BY <1>1, EngineStays
<1>3. ASSUME NEW d \in Client PROVE Local(d)'
  <2>1. CASE d # c
    BY <1>1, <1>2, <2>1, LocalKept DEF ClusterInv
  <2>2. CASE d = c
    <3>1. Local(c)
      BY DEF ClusterInv
    <3>2. Duties(c)' /\ (c \in Agent => Fenced(c)')
      BY <1>1, <1>2, <3>1, DutiesKept, FencedKept DEF Local
    <3>3. Down(c)'
      BY DEF Down
    <3> QED BY <2>2, <3>2, <3>3 DEF Local
  <2> QED BY <2>1, <2>2
<1>4. Tables'
  BY DEF Tables, ClusterInv, serverVars, IsTable
<1>5. Results'
  BY <1>2, ResultsKept DEF ClusterInv
<1>6. Loop'
  BY <1>1, LoopKept DEF ClusterInv, SameProcess
<1> QED BY <1>2, <1>3, <1>4, <1>5, <1>6 DEF ClusterInv, EngineMoves

LEMMA LeavesStep ==
    ASSUME ClusterInv, NEW c \in Client, client[c].pc # "down",
           NEW k \in 0 .. Len(toServer[c]), Leaves(c, k),
           UNCHANGED executions, UNCHANGED serverVars, UNCHANGED loopVars
    PROVE  ClusterInv'
<1> DEFINE gone == [pc |-> "gone", todo |-> {}, job |-> NoPlacement, calls |-> 0]
           left == IF link[c] = "open" THEN "left" ELSE link[c]
           kept == SubSeq(toServer[c], 1, k)
<1>1. Tables /\ Local(c) /\ Typed(c)
  BY DEF ClusterInv, Local
<1>2. /\ client' = [client EXCEPT ![c] = gone]
      /\ link' = [link EXCEPT ![c] = left]
      /\ toServer' = [toServer EXCEPT ![c] = kept]
      /\ toClient' = [toClient EXCEPT ![c] = << >>]
  BY DEF Leaves
<1>3. /\ kept \in Seq(FramesOf(c)) /\ Range(kept) \subseteq Range(toServer[c])
      /\ \A e : toServer[c] = <<e>> => kept \in {<< >>, <<e>>}
  BY <1>1, CutQueue DEF Typed
<1>4. gone \in ClientProcess /\ gone.pc = "gone"
  <2>1. Len(Session) \in Nat
    BY ClusterAssumption, LenProperties
  <2> QED BY <2>1 DEF ClientProcess
<1>5. left \in {"unused", "open", "left", "shut"}
  BY <1>1 DEF Typed
<1> HIDE DEF gone, left, kept
<1>6. /\ IsTable(client') /\ IsTable(link') /\ IsTable(toServer') /\ IsTable(toClient')
      /\ client'[c] = gone /\ link'[c] = left /\ toServer'[c] = kept /\ toClient'[c] = << >>
      /\ \A d \in Client : d # c => SameProcess(d)
  <2>1. IsTable(client') /\ client'[c] = gone /\ \A d \in Client : d # c => client'[d] = client[d]
    BY <1>1, <1>2 DEF Tables, IsTable
  <2>2. IsTable(link') /\ link'[c] = left /\ \A d \in Client : d # c => link'[d] = link[d]
    BY <1>1, <1>2 DEF Tables, IsTable
  <2>3. IsTable(toServer') /\ toServer'[c] = kept /\ \A d \in Client : d # c => toServer'[d] = toServer[d]
    BY <1>1, <1>2 DEF Tables, IsTable
  <2>4. IsTable(toClient') /\ toClient'[c] = << >> /\ \A d \in Client : d # c => toClient'[d] = toClient[d]
    BY <1>1, <1>2 DEF Tables, IsTable
  <2> QED BY <2>1, <2>2, <2>3, <2>4 DEF SameProcess
<1>7. SameThread(c) /\ UNCHANGED state
  BY DEF serverVars, SameThread
<1>8. Typed(c)'
  BY <1>1, <1>3, <1>4, <1>5, <1>6, <1>7, EmptyQueue DEF Typed, SameThread
<1>9. RunsKept
  BY DEF RunsKept
<1>10. ASSUME c \in Agent PROVE Introduction(c)' /\ Registration(c)' /\ Assignments(c)'
  <2>1. Introduction(c) /\ Registration(c) /\ Assignments(c)
    BY <1>1, <1>10 DEF Local
  <2>2. Introduction(c)'
    BY <1>3, <1>4, <1>6, <1>7, <2>1 DEF Introduction, Introduced, Announcing, SameThread
  <2>3. OneAtATime(c)' /\ Unsent(c)' = {}
    BY <1>4, <1>6 DEF OneAtATime, Unsent, Starting
  <2>4. \A r : Unheard(c, r)' <=> Unheard(c, r)
    BY <1>7 DEF Unheard, Owned
  <2>5. ASSUME NEW m \in Range(kept), OfResource(m)
        PROVE  kept = <<m>> /\ owed[c] = << >> /\ Unheard(c, m.resource)
    <3>1. toServer[c] = <<m>> /\ owed[c] = << >> /\ Unheard(c, m.resource)
      BY <1>3, <2>1, <2>5 DEF Registration
    <3> QED BY <1>3, <2>5, <3>1, EmptyQueue
  <2>6. Registration(c)'
    BY <1>4, <1>6, <1>7, <2>3, <2>4, <2>5 DEF Registration, SameThread, Started
  <2>7. Assignments(c)'
    BY <1>3, <1>4, <1>6, <1>7, <2>1, EmptyQueue DEF Assignments, Bound
  <2> QED BY <2>2, <2>6, <2>7
<1>11. AtOnePlace'
  <2>1. \A d \in Client : d # c => client'[d] = client[d] /\ toClient'[d] = toClient[d]
    BY <1>6 DEF SameProcess
  <2>2. \A d \in Client : owed'[d] = owed[d]
    BY DEF serverVars
  <2>3. EngineMoves
    BY <1>7, EngineStays
  <2> QED BY <1>4, <1>6, <2>1, <2>2, <2>3, EmptyQueue, TokensStay DEF ClusterInv
<1> QED BY <1>4, <1>6, <1>8, <1>9, <1>10, <1>11, ClientActs

LEMMA ReplyIsAck ==
    ASSUME NEW a \in Client, toClient[a] \in Seq(ServerFrame), toClient[a] # << >>,
           client[a].pc \in Starting \cup {"assignAck", "running", "completion"}, IsReply(a)
    PROVE  Head(toClient[a]) \in AckFrame /\ (~ Succeeds(a) => Head(toClient[a]) \in Refusal)
<1>1. Head(toClient[a]) \in ServerFrame
  BY TakenQueue
<1>2. Head(toClient[a]).type \in {"HelloAck", "ResourceAck", "LifecycleAck", "CompletionAck"}
  BY DEF IsReply, Expected, Starting
<1>3. Head(toClient[a]) \in AckFrame
  BY <1>1, <1>2 DEF ServerFrame, AckFrame
<1> QED BY <1>3 DEF Refusal, Succeeds

LEMMA SendsFrames ==
    ASSUME Tables, NEW c \in Client, NEW S, toServer[c] \in Seq(S)
    PROVE  /\ Sends(c, << >>) => /\ IsTable(toServer') /\ toServer'[c] = toServer[c]
                                 /\ \A d \in Client : d # c => toServer'[d] = toServer[d]
           /\ \A f \in S : Sends(c, <<f>>) =>
                 /\ IsTable(toServer') /\ toServer'[c] \in Seq(S)
                 /\ Range(toServer'[c]) \subseteq Range(toServer[c]) \cup {f}
                 /\ toServer[c] = << >> => toServer'[c] \in {<< >>, <<f>>}
                 /\ \A d \in Client : d # c => toServer'[d] = toServer[d]
<1>1. ASSUME Sends(c, << >>)
      PROVE  /\ IsTable(toServer') /\ toServer'[c] = toServer[c]
             /\ \A d \in Client : d # c => toServer'[d] = toServer[d]
  <2>1. toServer[c] \o << >> = toServer[c]
    BY ConcatEmptySeq
  <2>2. toServer' = [toServer EXCEPT ![c] = toServer[c]]
    BY <1>1, <2>1 DEF Sends
  <2> QED BY <2>2 DEF Tables, IsTable
<1>2. ASSUME NEW f \in S, Sends(c, <<f>>)
      PROVE  /\ IsTable(toServer') /\ toServer'[c] \in Seq(S)
             /\ Range(toServer'[c]) \subseteq Range(toServer[c]) \cup {f}
             /\ toServer[c] = << >> => toServer'[c] \in {<< >>, <<f>>}
             /\ \A d \in Client : d # c => toServer'[d] = toServer[d]
  <2> DEFINE sent == IF link[c] = "open" THEN Append(toServer[c], f) ELSE toServer[c]
  <2>1. toServer[c] \o <<f>> = Append(toServer[c], f)
    BY SentQueue
  <2>2. toServer' = [toServer EXCEPT ![c] = sent]
    BY <1>2, <2>1 DEF Sends
  <2>3. sent \in Seq(S) /\ Range(sent) \subseteq Range(toServer[c]) \cup {f}
    BY LongerQueue
  <2>4. toServer[c] = << >> => sent \in {<< >>, <<f>>}
    OBVIOUS
  <2> HIDE DEF sent
  <2> QED BY <2>2, <2>3, <2>4 DEF Tables, IsTable
<1> QED BY <1>1, <1>2

LEMMA TakesFrame ==
    ASSUME Tables, NEW c \in Client, Takes(c)
    PROVE  /\ IsTable(toClient') /\ toClient'[c] = Tail(toClient[c])
           /\ \A d \in Client : d # c => toClient'[d] = toClient[d]
BY DEF Tables, IsTable, Takes

(* WorkerAgent::start has the answer it waits for and goes on. *)
LEMMA StartGoesOn ==
    ASSUME ClusterInv, NEW a \in Agent, client[a].pc \in Starting, toClient[a] # << >>,
           Head(toClient[a]) \in AckFrame, Takes(a),
           UNCHANGED <<link, executions>>, UNCHANGED serverVars, UNCHANGED loopVars,
           IsTable(client'), \A d \in Client : d # a => client'[d] = client[d],
           client'[a] \in ClientProcess, client'[a].todo \subseteq Owned(a),
           \A r \in Unsent(a)' : Unheard(a, r),
           \/ client'[a].pc = "serving" /\ Sends(a, << >>)
           \/ /\ client'[a].pc \in {"register", "publish"} /\ client'[a].todo # {}
              /\ Unheard(a, InRegistration(client'[a].todo))
              /\ Sends(a, <<Question(a)'>>)
    PROVE  ClusterInv'
<1> DEFINE q == Question(a)'
           starts == client'[a].pc \in {"register", "publish"}
<1>1. a \in Client /\ Tables /\ Typed(a) /\ Introduction(a) /\ Registration(a) /\ Assignments(a)
  BY DEF ClusterInv, Local, Client
<1>2. /\ toServer[a] = << >> /\ owed[a] = << >>
      /\ Tail(toClient[a]) \in Seq(ServerFrame) /\ NoneIn(Tail(toClient[a]), AckFrame)
      /\ Range(Tail(toClient[a])) \subseteq Range(toClient[a])
      /\ AtMostOne(Tail(toClient[a]), AckFrame)
      /\ \A p : AtMostOne(toClient[a], {Assign(p)}) => AtMostOne(Tail(toClient[a]), {Assign(p)})
  <2>1. Head(toClient[a]) \in Range(toClient[a])
    BY <1>1, TakenQueue DEF Typed
  <2>2. AtMostOne(toClient[a], AckFrame)
    BY <1>1 DEF Registration, OneAtATime
  <2>3. toServer[a] = << >> /\ owed[a] = << >>
    BY <1>1, <2>1 DEF Registration, OneAtATime, NoneIn
  <2> QED BY <1>1, <2>2, <2>3, TakenQueue DEF Typed, NoneIn
<1>3. /\ IsTable(toClient') /\ toClient'[a] = Tail(toClient[a])
      /\ \A d \in Client : d # a => toClient'[d] = toClient[d]
  BY <1>1, TakesFrame
<1>4. starts => q \in AgentFrame /\ OfResource(q) /\ q.resource = InRegistration(client'[a].todo)
                /\ q.type \notin {"Hello", "Completion"}
  BY DEF Question, Chosen, Unheard, Owned, AgentFrame, ResourceFrame, OfResource
<1>5. /\ IsTable(toServer') /\ toServer'[a] \in Seq(AgentFrame)
      /\ toServer'[a] = << >> \/ (starts /\ toServer'[a] = <<q>>)
      /\ \A d \in Client : d # a => toServer'[d] = toServer[d]
  <2>1. toServer[a] \in Seq(AgentFrame)
    BY <1>2, EmptyQueue
  <2>2. CASE Sends(a, << >>)
    BY <1>1, <1>2, <2>1, <2>2, SendsFrames
  <2>3. CASE starts /\ Sends(a, <<q>>)
    <3> HIDE DEF q
    <3>1. q \in AgentFrame
      BY <1>4, <2>3
    <3> QED BY <1>1, <1>2, <2>1, <2>3, <3>1, SendsFrames
  <2> QED BY <2>2, <2>3
<1>6. /\ \A d \in Client : d # a => SameProcess(d)
      /\ SameThread(a) /\ UNCHANGED state /\ IsTable(link')
  BY <1>1, <1>3, <1>5 DEF SameProcess, SameThread, serverVars, Tables
<1>7. Typed(a)'
  BY <1>1, <1>2, <1>3, <1>5, <1>6 DEF Typed, SameThread, FramesOf
<1>8. ASSUME NEW m \in Range(toServer'[a]) PROVE m = q /\ starts /\ toServer'[a] = <<q>>
  <2> HIDE DEF q, starts
  <2> QED BY <1>5, <1>8, EmptyQueue, SingleQueue
<1>9. Introduced(a) /\ client'[a].pc # "down"
  BY <1>1 DEF Introduction
<1>10. Introduction(a)'
  BY <1>6, <1>9, <1>2 DEF Introduction, Introduced, Announcing, SameThread
<1>11. \A r : Unheard(a, r)' <=> Unheard(a, r)
  BY <1>6 DEF Unheard, Owned
<1>12. OneAtATime(a)'
  <2>1. client'[a].pc # "hello"
    OBVIOUS
  <2>2. client'[a].pc = "serving" => client'[a].pc \notin Starting
    BY DEF Starting
  <2> HIDE DEF q
  <2> QED BY <1>2, <1>3, <1>5, <1>6, <2>1, <2>2 DEF OneAtATime, Owned, SameThread, q
<1>13. Registration(a)'
  <2>1. \A m \in Range(toServer'[a]) : OfResource(m) =>
           /\ client'[a].pc \notin Started
           /\ toServer'[a] = <<m>> /\ owed'[a] = << >> /\ Unheard(a, m.resource)'
    BY <1>2, <1>4, <1>6, <1>8, <1>11 DEF SameThread, Started
  <2>2. client'[a].pc = "register" => Unheard(a, Chosen(a))'
    BY <1>6 DEF Unheard, Chosen, Owned
  <2> QED BY <1>11, <1>12, <2>1, <2>2 DEF Registration
<1>14. Assignments(a)'
  <2>1. \A m \in Range(toServer'[a]) : m.type # "Completion"
    BY <1>4, <1>8
  <2>2. \A p : Bound(p, a)' <=> Bound(p, a)
    BY <1>6 DEF Bound
  <2>3. client'[a].pc \notin {"assignAck", "running", "completion"}
    OBVIOUS
  <2> QED BY <1>1, <1>2, <1>3, <2>1, <2>2, <2>3 DEF Assignments
<1>15. AtOnePlace'
  <2>1. EngineMoves
    BY <1>6, EngineStays
  <2>2. /\ \A d \in Client : owed'[d] = owed[d]
        /\ \A d \in Client : d # a => client'[d] = client[d] /\ toClient'[d] = toClient[d]
    BY <1>6 DEF serverVars, SameProcess
  <2>3. client'[a].pc \notin {"assignAck", "running"}
    OBVIOUS
  <2> QED BY <1>2, <1>3, <2>1, <2>2, <2>3, TokensStay DEF ClusterInv
<1>16. RunsKept
  BY DEF RunsKept
<1> QED BY <1>1, <1>3, <1>5, <1>6, <1>7, <1>9, <1>10, <1>13, <1>14, <1>15, <1>16, ClientActs

LEMMA AgentStartsStep ==
    ASSUME ClusterInv, NEW a \in Agent, AgentStarts(a)
    PROVE  ClusterInv'
<1> DEFINE todo == client[a].todo
           pc == client[a].pc
           left == IF pc = "hello" THEN todo ELSE todo \ {InRegistration(todo)}
           x == IF left = {} THEN "serving" ELSE "register"
<1>1. /\ a \in Client /\ Tables /\ Typed(a) /\ Registration(a) /\ IsTable(client)
      /\ client[a] \in ClientProcess /\ toClient[a] \in Seq(ServerFrame)
      /\ pc \in Starting /\ toClient[a] # << >>
      /\ UNCHANGED executions /\ UNCHANGED serverVars /\ UNCHANGED loopVars
      /\ todo \subseteq Owned(a)
  BY DEF ClusterInv, Local, Client, Tables, Typed, AgentStarts, Starting, Registration, OneAtATime
<1>2. left = Unsent(a) /\ left \subseteq todo
  BY <1>1 DEF Unsent, Starting, Chosen
<1>3. \A r \in left : Unheard(a, r)
  BY <1>1, <1>2 DEF Registration
<1>4. CASE Succeeds(a) /\ RegistersNext(a, left) /\ Takes(a) /\ UNCHANGED link
  <2>1. Head(toClient[a]) \in AckFrame
    BY <1>1, <1>4, ReplyIsAck DEF Succeeds
  <2>2. /\ client' = [client EXCEPT ![a].pc = x, ![a].todo = left]
        /\ Sends(a, IF left = {} THEN << >>
                    ELSE <<[type |-> "RegisterResource", resource |-> InRegistration(left)]>>)
    BY <1>4 DEF RegistersNext
  <2>3. left \in SUBSET Resource /\ x \in {"serving", "register"}
    BY <1>1, <1>2 DEF Owned
  <2>4. (left = {} => x = "serving") /\ (left # {} => x = "register")
    OBVIOUS
  <2>5. left # {} => InRegistration(left) \in left
    BY DEF InRegistration
  <2>6. left \subseteq Owned(a)
    BY <1>1, <1>2
  <2> HIDE DEF left, x
  <2>7. /\ IsTable(client') /\ \A d \in Client : d # a => client'[d] = client[d]
        /\ client'[a].pc = x /\ client'[a].todo = left
    BY <1>1, <2>2, <2>3 DEF IsTable, ClientProcess
  <2>8. client'[a] \in ClientProcess
    BY <1>1, <2>2, <2>3 DEF IsTable, ClientProcess, Waiting
  <2>9. Unsent(a)' \subseteq left
    BY <2>3, <2>7 DEF Unsent, Starting
  <2>10. CASE left = {}
    BY <1>1, <1>3, <1>4, <2>1, <2>2, <2>4, <2>6, <2>7, <2>8, <2>9, <2>10, StartGoesOn
  <2>11. CASE left # {}
    <3>1. Question(a)' = [type |-> "RegisterResource", resource |-> InRegistration(left)]
      BY <2>4, <2>7, <2>11 DEF Question, Chosen
    <3>2. Sends(a, <<Question(a)'>>)
      BY <2>2, <2>11, <3>1
    <3>3. Unheard(a, InRegistration(client'[a].todo))
      BY <1>3, <2>5, <2>7, <2>11
    <3> QED BY <1>1, <1>3, <1>4, <2>1, <2>4, <2>6, <2>7, <2>8, <2>9, <2>11, <3>2, <3>3, StartGoesOn
  <2> QED BY <2>10, <2>11
<1>5. CASE /\ pc = "register" /\ IsReply(a) /\ ~ Succeeds(a)
           /\ client' = [client EXCEPT ![a].pc = "publish"]
           /\ Sends(a, <<[type |-> "PublishState", resource |-> InRegistration(todo)]>>)
           /\ Takes(a) /\ UNCHANGED link
  <2>1. Head(toClient[a]) \in AckFrame /\ Head(toClient[a]) \in Refusal
    BY <1>1, <1>5, ReplyIsAck
  <2>2. Head(toClient[a]) \in Range(toClient[a])
    BY <1>1, TakenQueue
  <2>3. Unheard(a, Chosen(a))
    BY <1>1, <1>5, <2>1, <2>2 DEF Registration, NoneIn
  <2>4. todo # {}
    BY <1>1, <1>5 DEF Registration, OneAtATime
  <2>5. /\ IsTable(client') /\ \A d \in Client : d # a => client'[d] = client[d]
        /\ client'[a] = [client[a] EXCEPT !.pc = "publish"]
    BY <1>1, <1>5 DEF IsTable
  <2>6. client'[a].pc = "publish" /\ client'[a].todo = todo /\ client'[a] \in ClientProcess
    BY <1>1, <2>5 DEF ClientProcess, Waiting
  <2>7. Unsent(a)' = left
    BY <1>5, <2>6 DEF Unsent, Chosen
  <2>8. Question(a)' = [type |-> "PublishState", resource |-> InRegistration(todo)]
    BY <2>6 DEF Question, Chosen
  <2>9. Sends(a, <<Question(a)'>>)
    BY <1>5, <2>8
  <2>10. Unheard(a, InRegistration(client'[a].todo))
    BY <2>3, <2>6 DEF Chosen
  <2> HIDE DEF left, todo, pc
  <2>11. /\ client'[a].todo \subseteq Owned(a) /\ client'[a].todo # {}
         /\ \A r \in Unsent(a)' : Unheard(a, r)
    BY <1>1, <1>3, <2>4, <2>6, <2>7
  <2>12. client[a].pc \in Starting
    BY <1>1 DEF pc
  <2> QED BY <1>1, <1>5, <2>1, <2>5, <2>6, <2>9, <2>10, <2>11, <2>12, StartGoesOn
<1>6. CASE LeavesInOrder(a)
  <2>1. Len(toServer[a]) \in 0 .. Len(toServer[a]) /\ pc # "down"
    BY <1>1, LenProperties DEF Typed, Starting
  <2> QED BY <1>1, <1>6, <2>1, LeavesStep DEF LeavesInOrder
<1> QED BY <1>4, <1>5, <1>6 DEF AgentStarts

(* An agent that has started takes the next frame and may send one of its work. *)
OfWork(f, a) ==
    /\ f \in AgentFrame /\ f.type # "Hello" /\ ~ OfResource(f)
    /\ f.type = "Completion" => /\ Bound(f.placement, a) /\ f.boot = BootOf(a)
                                /\ a \in Range(executions'[f.placement])

LEMMA WorkGoesOn ==
    ASSUME ClusterInv, NEW a \in Agent, client[a].pc \in Started, toClient[a] # << >>, Takes(a),
           UNCHANGED link, UNCHANGED serverVars, UNCHANGED loopVars,
           IsTable(client'), \A d \in Client : d # a => client'[d] = client[d],
           client'[a] \in ClientProcess, client'[a].pc \in Started,
           client'[a].pc # "serving" => Bound(client'[a].job, a),
           RunsKept, AtOnePlace',
           \/ UNCHANGED toServer
           \/ \E f : OfWork(f, a) /\ Sends(a, <<f>>)
    PROVE  ClusterInv'
<1>1. a \in Client /\ Tables /\ Typed(a) /\ Introduction(a) /\ Registration(a) /\ Assignments(a)
  BY DEF ClusterInv, Local, Client
<1>2. /\ IsTable(toClient') /\ toClient'[a] = Tail(toClient[a])
      /\ \A d \in Client : d # a => toClient'[d] = toClient[d]
  BY <1>1, TakesFrame
<1>3. Tail(toClient[a]) \in Seq(ServerFrame) /\ Range(Tail(toClient[a])) \subseteq Range(toClient[a])
  BY <1>1, TakenQueue DEF Typed
<1>4. toServer[a] \in Seq(AgentFrame)
  BY <1>1 DEF Typed, FramesOf
<1>5. /\ IsTable(toServer') /\ toServer'[a] \in Seq(AgentFrame)
      /\ \A m \in Range(toServer'[a]) : m \in Range(toServer[a]) \/ OfWork(m, a)
      /\ \A d \in Client : d # a => toServer'[d] = toServer[d]
  <2>1. CASE UNCHANGED toServer
    BY <1>1, <1>4, <2>1 DEF Tables
  <2>2. CASE \E f : OfWork(f, a) /\ Sends(a, <<f>>)
    <3>1. PICK f : OfWork(f, a) /\ Sends(a, <<f>>)
      BY <2>2
    <3>2. f \in AgentFrame
      BY <3>1 DEF OfWork
    <3>3. /\ IsTable(toServer') /\ toServer'[a] \in Seq(AgentFrame)
          /\ Range(toServer'[a]) \subseteq Range(toServer[a]) \cup {f}
          /\ \A d \in Client : d # a => toServer'[d] = toServer[d]
      BY <1>1, <1>4, <3>1, <3>2, SendsFrames
    <3> QED BY <3>1, <3>3
  <2> QED BY <2>1, <2>2
<1>6. /\ \A d \in Client : d # a => SameProcess(d)
      /\ SameThread(a) /\ UNCHANGED state /\ IsTable(link')
  BY <1>1, <1>2, <1>5 DEF SameProcess, SameThread, serverVars, Tables
<1>7. Typed(a)'
  BY <1>1, <1>2, <1>3, <1>5, <1>6 DEF Typed, SameThread, FramesOf
<1>8. Introduced(a)
  BY <1>1 DEF Introduction, Started
<1>9. Introduction(a)'
  BY <1>6, <1>8 DEF Introduction, Introduced, Announcing, SameThread
<1>10. Registration(a)'
  <2>1. OneAtATime(a)' /\ Unsent(a)' = {} /\ client'[a].pc # "register"
    BY DEF OneAtATime, Unsent, Starting, Started
  <2>2. \A m \in Range(toServer'[a]) : ~ OfResource(m)
    BY <1>1, <1>5 DEF Registration, OfWork
  <2> QED BY <2>1, <2>2 DEF Registration
<1>11. Assignments(a)'
  <2>1. \A p : Bound(p, a)' <=> Bound(p, a)
    BY <1>6 DEF Bound
  <2>2. ASSUME NEW m \in Range(toServer'[a]), m.type = "Completion"
        PROVE  /\ Bound(m.placement, a) /\ m.boot = BootOf(a)
               /\ a \in Range(executions'[m.placement])
    <3>1. CASE m \in Range(toServer[a])
      <4>1. /\ Bound(m.placement, a) /\ m.boot = BootOf(a)
            /\ a \in Range(executions[m.placement])
        BY <1>1, <2>2, <3>1 DEF Assignments
      <4>2. m.placement \in PlacementId
        BY <4>1 DEF Bound, Placements
      <4> QED BY <4>1, <4>2 DEF RunsKept
    <3>2. CASE OfWork(m, a)
      BY <2>2, <3>2 DEF OfWork
    <3> QED BY <1>5, <2>2, <3>1, <3>2
  <2> QED BY <1>1, <1>2, <1>3, <2>1, <2>2 DEF Assignments
<1>12. client'[a].pc # "down"
  BY DEF Started
<1> QED BY <1>1, <1>2, <1>5, <1>6, <1>7, <1>9, <1>10, <1>11, <1>12, ClientActs

LEMMA TakenFrames ==
    ASSUME ClusterInv, NEW c \in Client, toClient[c] # << >>, Takes(c)
    PROVE  /\ \A d \in Client : \A p : Assign(p) \in Range(toClient'[d]) => Assign(p) \in Range(toClient[d])
           /\ \A d \in Client : \A p : AtMostOne(toClient[d], {Assign(p)}) =>
                 AtMostOne(toClient'[d], {Assign(p)})
           /\ \A p : AtMostOne(toClient[c], {Assign(p)}) /\ Head(toClient[c]) = Assign(p) =>
                 Assign(p) \notin Range(toClient'[c])
           /\ Head(toClient[c]) \in Range(toClient[c]) /\ Head(toClient[c]) \in ServerFrame
<1>1. Tables /\ toClient[c] \in Seq(ServerFrame)
  BY DEF ClusterInv, Local, Typed
<1>2. /\ toClient'[c] = Tail(toClient[c])
      /\ \A d \in Client : d # c => toClient'[d] = toClient[d]
  BY <1>1, TakesFrame
<1>3. /\ Range(Tail(toClient[c])) \subseteq Range(toClient[c])
      /\ Head(toClient[c]) \in Range(toClient[c]) /\ Head(toClient[c]) \in ServerFrame
      /\ \A E : AtMostOne(toClient[c], E) =>
            /\ AtMostOne(Tail(toClient[c]), E)
            /\ Head(toClient[c]) \in E => \A x \in Range(Tail(toClient[c])) : x \notin E
  BY <1>1, TakenQueue
<1>4. ASSUME NEW p, AtMostOne(toClient[c], {Assign(p)})
      PROVE  /\ AtMostOne(Tail(toClient[c]), {Assign(p)})
             /\ Head(toClient[c]) = Assign(p) => Assign(p) \notin Range(Tail(toClient[c]))
  BY <1>3, <1>4
<1> QED BY <1>2, <1>3, <1>4

LEMMA AgentServesStep ==
    ASSUME ClusterInv, NEW a \in Agent, AgentServes(a)
    PROVE  ClusterInv'
<1> DEFINE frame == Head(toClient[a])
<1>1. /\ a \in Client /\ Tables /\ Typed(a) /\ Assignments(a) /\ client[a] \in ClientProcess
      /\ client[a].pc = "serving" /\ client[a].pc \in Started /\ toClient[a] # << >>
      /\ UNCHANGED executions /\ UNCHANGED serverVars /\ UNCHANGED loopVars
  BY DEF ClusterInv, Local, Client, Typed, AgentServes, Started
<1>2. RunsKept /\ EngineMoves /\ \A d \in Client : owed'[d] = owed[d]
  BY <1>1, EngineStays DEF RunsKept, serverVars
<1>3. CASE /\ frame.type = "Assign"
           /\ client' = [client EXCEPT ![a].pc = "assignAck", ![a].job = frame.placement]
           /\ Sends(a, <<[type |-> "AssignAck", placement |-> frame.placement]>>)
           /\ Takes(a) /\ UNCHANGED link
  <2>1. /\ \A d \in Client : \A q : Assign(q) \in Range(toClient'[d]) => Assign(q) \in Range(toClient[d])
        /\ \A d \in Client : \A q : AtMostOne(toClient[d], {Assign(q)}) =>
              AtMostOne(toClient'[d], {Assign(q)})
        /\ \A q : AtMostOne(toClient[a], {Assign(q)}) /\ frame = Assign(q) =>
              Assign(q) \notin Range(toClient'[a])
        /\ frame \in Range(toClient[a]) /\ frame \in ServerFrame
    BY <1>1, <1>3, TakenFrames
  <2>2. PICK p \in PlacementId : frame = Assign(p) /\ frame.placement = p
    BY <1>3, <2>1 DEF ServerFrame, Assign
  <2>3. Bound(p, a)
    BY <1>1, <1>3, <2>1, <2>2 DEF Assignments
  <2> DEFINE f == [type |-> "AssignAck", placement |-> p]
  <2>4. Sends(a, <<f>>)
    BY <1>3, <2>2
  <2>5. OfWork(f, a)
    BY <2>2 DEF OfWork, OfResource, AgentFrame, AuthorityFrame
  <2> HIDE DEF f, frame
  <2>6. /\ IsTable(client') /\ \A d \in Client : d # a => client'[d] = client[d]
        /\ client'[a].pc = "assignAck" /\ client'[a].job = p /\ client'[a] \in ClientProcess
    BY <1>1, <1>3, <2>2 DEF Tables, IsTable, ClientProcess, Waiting
  <2>7. Assign(p) \in Range(toClient[a]) /\ Assign(p) \notin Range(toClient'[a])
    BY <1>1, <2>1, <2>2 DEF ClusterInv, AtOnePlace
  <2>8. AtOnePlace'
    <3>1. At("sent", a, p) /\ "sent" \in Stage
      BY <2>7 DEF At, Stage
    <3>2. ASSUME NEW x \in Stage, NEW c \in Client, At(x, c, p)' PROVE x = "handled" /\ c = a
      <4>1. CASE x = "handled" /\ c = a
        BY <4>1
      <4>2. CASE ~ (x = "handled" /\ c = a)
        <5>1. At(x, c, p)
          BY <1>1, <1>2, <2>1, <2>6, <3>2, <4>2 DEF At
        <5>2. x = "sent" /\ c = a
          BY <1>1, <2>2, <3>1, <5>1 DEF ClusterInv, AtOnePlace
        <5> QED BY <2>7, <3>2, <5>2 DEF At
      <4> QED BY <4>1, <4>2
    <3>3. ASSUME NEW q \in PlacementId \ {p}, NEW x \in Stage, NEW c \in Client, At(x, c, q)'
          PROVE  At(x, c, q)
      BY <1>1, <1>2, <2>1, <2>6, <3>3 DEF At
    <3>4. TokensMove({p}, "handled", a)
      BY <1>1, <2>3, <3>2, <3>3 DEF TokensMove, Bound, serverVars
    <3>5. /\ executions' = [q \in PlacementId |-> executions'[q]]
          /\ \A q \in PlacementId : executions'[q] \in Seq(Agent) /\ Len(executions'[q]) <= 1
          /\ \A q \in PlacementId, c \in Client : AtMostOne(toClient'[c], {Assign(q)})
      BY <1>1, <2>1 DEF ClusterInv, AtOnePlace
    <3> QED BY <1>2, <3>4, <3>5, TokenMoves DEF ClusterInv
  <2>9. client'[a].pc \in Started
    BY <2>6 DEF Started
  <2> QED BY <1>1, <1>2, <1>3, <2>3, <2>4, <2>5, <2>6, <2>8, <2>9, WorkGoesOn
<1>4. CASE LeavesInOrder(a)
  <2>1. Len(toServer[a]) \in 0 .. Len(toServer[a]) /\ client[a].pc # "down"
    BY <1>1, LenProperties DEF Typed
  <2> QED BY <1>1, <1>4, <2>1, LeavesStep DEF LeavesInOrder
<1>5. CASE Takes(a) /\ UNCHANGED <<client, link, toServer>>
  <2>1. AtOnePlace'
    <3>1. /\ \A d \in Client : \A q : Assign(q) \in Range(toClient'[d]) => Assign(q) \in Range(toClient[d])
          /\ \A d \in Client : \A q : AtMostOne(toClient[d], {Assign(q)}) =>
                AtMostOne(toClient'[d], {Assign(q)})
      BY <1>1, <1>5, TakenFrames
    <3> QED BY <1>1, <1>2, <1>5, <3>1, TokensStay DEF ClusterInv
  <2>2. IsTable(client') /\ client'[a].pc = "serving" /\ client'[a].pc \in Started
    BY <1>1, <1>5 DEF Tables
  <2> QED BY <1>1, <1>2, <1>5, <2>1, <2>2, WorkGoesOn
<1> QED BY <1>3, <1>4, <1>5 DEF AgentServes

LEMMA AgentHandlesAssignmentStep ==
    ASSUME ClusterInv, NEW a \in Agent, AgentHandlesAssignment(a)
    PROVE  ClusterInv'
<1>1. /\ a \in Client /\ Tables /\ Typed(a) /\ Assignments(a) /\ client[a] \in ClientProcess
      /\ client[a].pc \in {"assignAck", "running", "completion"} /\ client[a].pc \in Started
      /\ toClient[a] # << >> /\ Takes(a)
      /\ UNCHANGED link /\ UNCHANGED serverVars /\ UNCHANGED loopVars
  BY DEF ClusterInv, Local, Client, Typed, AgentHandlesAssignment, Started
<1>2. /\ EngineMoves /\ \A d \in Client : owed'[d] = owed[d]
      /\ UNCHANGED executions => RunsKept
  BY <1>1, EngineStays DEF RunsKept, serverVars
<1>3. PICK p \in Placements(state) : client[a].job = p /\ Bound(p, a)
  BY <1>1 DEF Assignments, Bound
<1>4. p \in PlacementId
  BY DEF Placements
<1>5. /\ \A d \in Client : \A q : Assign(q) \in Range(toClient'[d]) => Assign(q) \in Range(toClient[d])
      /\ \A d \in Client : \A q : AtMostOne(toClient[d], {Assign(q)}) =>
            AtMostOne(toClient'[d], {Assign(q)})
  BY <1>1, TakenFrames
<1>6. CASE /\ client[a].pc = "assignAck"
           /\ client' = [client EXCEPT ![a].pc = "running"]
           /\ Sends(a, <<[type |-> "Running", placement |-> p]>>)
           /\ UNCHANGED executions
  <2> DEFINE f == [type |-> "Running", placement |-> p]
  <2>1. OfWork(f, a)
    BY <1>4 DEF OfWork, OfResource, AgentFrame, AuthorityFrame
  <2>2. Sends(a, <<f>>)
    BY <1>6
  <2> HIDE DEF f
  <2>3. /\ IsTable(client') /\ \A d \in Client : d # a => client'[d] = client[d]
        /\ client'[a].pc = "running" /\ client'[a].job = p /\ client'[a] \in ClientProcess
    BY <1>1, <1>3, <1>4, <1>6 DEF Tables, IsTable, ClientProcess, Waiting
  <2>4. client'[a].pc \in Started
    BY <2>3 DEF Started
  <2>5. AtOnePlace'
    BY <1>2, <1>3, <1>5, <1>6, <2>3, TokensStay DEF ClusterInv
  <2> QED BY <1>1, <1>2, <1>3, <1>6, <2>1, <2>2, <2>3, <2>4, <2>5, WorkGoesOn
<1>7. CASE /\ client[a].pc = "running"
           /\ client' = [client EXCEPT ![a].pc = "completion"]
           /\ executions' = [executions EXCEPT ![p] = Append(@, a)]
           /\ \E target \in Outcomes : Sends(a, <<Completion(a, target)>>)
  <2>1. /\ executions = [q \in PlacementId |-> executions[q]]
        /\ \A q \in PlacementId : executions[q] \in Seq(Agent) /\ Len(executions[q]) <= 1
    BY DEF ClusterInv, AtOnePlace
  <2>2. At("handled", a, p) /\ "handled" \in Stage /\ "executed" \in Stage
    BY <1>3, <1>7 DEF At, Stage
  <2>3. Range(executions[p]) = {}
    <3>1. SUFFICES ASSUME NEW c \in Range(executions[p]) PROVE FALSE
      OBVIOUS
    <3>2. c \in Client /\ At("executed", c, p)
      BY <1>4, <2>1, QueueRange DEF At, Client
    <3> QED BY <1>1, <1>4, <2>2, <3>2 DEF ClusterInv, AtOnePlace
  <2>4. executions[p] = << >> /\ Append(executions[p], a) = <<a>>
    <3>1. executions[p] \in Seq(Agent)
      BY <1>4, <2>1
    <3>2. executions[p] = << >>
      BY <2>3, <3>1, QueueRange
    <3> QED BY <3>2
  <2>5. /\ executions' = [q \in PlacementId |-> executions'[q]]
        /\ executions'[p] = <<a>>
        /\ \A q \in PlacementId : q # p => executions'[q] = executions[q]
    BY <1>4, <1>7, <2>1, <2>4
  <2>6. /\ executions'[p] \in Seq(Agent) /\ Range(executions'[p]) = {a}
        /\ Len(executions'[p]) <= 1
    <3> DEFINE s == <<a>>
    <3>1. s \in Seq(Agent) /\ Range(s) = {a} /\ Len(s) <= 1
      BY SingleQueue
    <3>2. executions'[p] = s
      BY <2>5
    <3> HIDE DEF s
    <3> QED BY <3>1, <3>2
  <2>7. RunsKept
    BY <1>4, <2>3, <2>5 DEF RunsKept
  <2>8. PICK target \in {"Completed", "Failed"} : Sends(a, <<Completion(a, target)>>)
    BY <1>7, ClusterAssumption
  <2> DEFINE f == [type |-> "Completion", placement |-> p, boot |-> BootOf(a), target |-> target]
  <2>9. Completion(a, target) = f
    BY <1>3 DEF Completion, ClaimedBoot
  <2>10. OfWork(f, a)
    BY <1>3, <1>4, <2>5, <2>6, AgentParts DEF OfWork, OfResource, AgentFrame, CompletionFrame
  <2>11. Sends(a, <<f>>)
    BY <2>8, <2>9
  <2> HIDE DEF f
  <2>12. /\ IsTable(client') /\ \A d \in Client : d # a => client'[d] = client[d]
         /\ client'[a].pc = "completion" /\ client'[a].job = p /\ client'[a] \in ClientProcess
    BY <1>1, <1>3, <1>4, <1>7 DEF Tables, IsTable, ClientProcess, Waiting
  <2>13. client'[a].pc \in Started
    BY <2>12 DEF Started
  <2>14. AtOnePlace'
    <3>1. ASSUME NEW x \in Stage, NEW c \in Client, At(x, c, p)' PROVE x = "executed" /\ c = a
      <4>1. CASE x = "executed"
        BY <2>5, <2>6, <3>1, <4>1 DEF At
      <4>2. CASE x # "executed"
        <5>1. At(x, c, p)
          BY <1>2, <1>3, <1>5, <2>12, <3>1, <4>2 DEF At
        <5>2. x = "handled" /\ c = a
          BY <1>1, <1>4, <2>2, <5>1 DEF ClusterInv, AtOnePlace
        <5> QED BY <2>12, <3>1, <5>2 DEF At
      <4> QED BY <4>1, <4>2
    <3>2. ASSUME NEW q \in PlacementId \ {p}, NEW x \in Stage, NEW c \in Client, At(x, c, q)'
          PROVE  At(x, c, q)
      BY <1>2, <1>5, <2>5, <2>12, <3>2 DEF At
    <3>3. TokensMove({p}, "executed", a)
      BY <1>1, <3>1, <3>2 DEF TokensMove, serverVars
    <3>4. ASSUME NEW q \in PlacementId
          PROVE  executions'[q] \in Seq(Agent) /\ Len(executions'[q]) <= 1
      <4>1. CASE q = p
        BY <2>6, <4>1
      <4>2. CASE q # p
        BY <2>1, <2>5, <4>2
      <4> QED BY <4>1, <4>2
    <3>5. \A q \in PlacementId, c \in Client : AtMostOne(toClient'[c], {Assign(q)})
      BY <1>5 DEF ClusterInv, AtOnePlace
    <3>6. AtOnePlace /\ EngineMoves /\ executions' = [q \in PlacementId |-> executions'[q]]
      BY <1>2, <2>5 DEF ClusterInv
    <3>7. \A q \in PlacementId : executions'[q] \in Seq(Agent) /\ Len(executions'[q]) <= 1
      BY <3>4
    <3> QED BY <3>3, <3>5, <3>6, <3>7, TokenMoves
  <2> QED BY <1>1, <1>3, <2>7, <2>10, <2>11, <2>12, <2>13, <2>14, WorkGoesOn
<1>8. CASE GivesUpAssignment(a)
  <2>1. /\ IsTable(client') /\ \A d \in Client : d # a => client'[d] = client[d]
        /\ client'[a].pc = "serving" /\ client'[a] \in ClientProcess
    BY <1>1, <1>8 DEF GivesUpAssignment, Tables, IsTable, ClientProcess
  <2>2. UNCHANGED <<toServer, executions>> /\ client'[a].pc \in Started
    BY <1>8, <2>1 DEF GivesUpAssignment, Started
  <2>3. AtOnePlace'
    BY <1>2, <1>5, <2>1, <2>2, TokensStay DEF ClusterInv
  <2> QED BY <1>1, <1>2, <2>1, <2>2, <2>3, WorkGoesOn
<1> QED BY <1>3, <1>6, <1>7, <1>8 DEF AgentHandlesAssignment

LEMMA LeavesInOrderStep ==
    ASSUME ClusterInv, NEW c \in Client, client[c].pc # "down", LeavesInOrder(c),
           UNCHANGED executions, UNCHANGED serverVars, UNCHANGED loopVars
    PROVE  ClusterInv'
<1>1. toServer[c] \in Seq(FramesOf(c))
  BY DEF ClusterInv, Local, Typed
<1>2. Len(toServer[c]) \in 0 .. Len(toServer[c])
  BY <1>1, LenProperties
<1> QED BY <1>2, LeavesStep DEF LeavesInOrder

LEMMA AgentKilledStep ==
    ASSUME ClusterInv, NEW a \in Agent, AgentKilled(a)
    PROVE  ClusterInv'
BY LeavesStep DEF AgentKilled, Client

(* A process starts and sends its first frame. *)
LEMMA ConnectsStep ==
    ASSUME ClusterInv, NEW c \in Client, Connects(c),
           UNCHANGED <<toClient, stopping, loop, executions, overlooked>>, UNCHANGED serverVars,
           NEW f \in FramesOf(c), toServer' = [toServer EXCEPT ![c] = <<f>>],
           IsTable(client'), \A d \in Client : d # c => client'[d] = client[d],
           client'[c] \in ClientProcess, client'[c].pc \in {"hello", "call"},
           c \in Agent => /\ client'[c].pc = "hello" /\ client'[c].todo = Owned(c)
                          /\ f = [type |-> "Hello"]
    PROVE  ClusterInv'
<1> DEFINE s == <<f>>
<1>1. Tables /\ Local(c) /\ Typed(c) /\ Loop
  BY DEF ClusterInv, Local
<1>2. /\ client[c].pc = "down" /\ thread[c] = "none"
      /\ toServer[c] = << >> /\ toClient[c] = << >> /\ owed[c] = << >>
  BY <1>1 DEF Connects, Local, Down, Duties
<1>3. s \in Seq(FramesOf(c)) /\ Range(s) = {f} /\ s # << >>
  BY SingleQueue
<1>4. toServer' = [toServer EXCEPT ![c] = s]
  OBVIOUS
<1>5. c \in Agent => s = <<[type |-> "Hello"]>>
  OBVIOUS
<1> HIDE DEF s
<1>6. /\ IsTable(toServer') /\ toServer'[c] = s
      /\ \A d \in Client : d # c => toServer'[d] = toServer[d]
  BY <1>1, <1>4 DEF Tables, IsTable
<1>7. /\ IsTable(link') /\ link'[c] = "open"
      /\ \A d \in Client : d # c => link'[d] = link[d]
  BY <1>1 DEF Tables, IsTable, Connects
<1>8. /\ UNCHANGED <<state, peers, thread>> /\ \A d \in Client : SameThread(d)
      /\ \A d \in Client : d # c => SameProcess(d)
  BY <1>6, <1>7 DEF serverVars, SameThread, SameProcess
<1>9. /\ EngineMoves /\ FinishesOnly(state, state', {})
      /\ \A a : Spares(state, state', a)
  BY <1>8, EngineStays
<1>10. RunsKept
  BY DEF RunsKept
<1>11. Typed(c)' /\ Down(c)' /\ Duties(c)' /\ (c \in Agent => Fenced(c)')
  <2>1. Typed(c)'
    BY <1>1, <1>3, <1>6, <1>7, <1>8 DEF Typed, SameThread
  <2>2. Down(c)'
    BY DEF Down
  <2>3. Duties(c)' /\ (c \in Agent => Fenced(c)')
    BY <1>1, <1>8, <1>9, DutiesKept, FencedKept DEF Local
  <2> QED BY <2>1, <2>2, <2>3
<1>12. ASSUME c \in Agent PROVE Introduction(c)' /\ Registration(c)' /\ Assignments(c)'
  <2>1. f.type = "Hello" /\ toClient'[c] = << >> /\ owed'[c] = << >> /\ client'[c].pc = "hello"
    BY <1>2, <1>8, <1>12 DEF SameThread
  <2>2. Introduction(c)'
    BY <1>3, <1>6, <2>1 DEF Introduction
  <2>3. Owned(c)' = Owned(c) /\ Unsent(c) = Owned(c) /\ Unsent(c)' = Owned(c)
    BY <1>2, <1>12, <2>1 DEF Owned, Unsent
  <2>4. \A r : Unheard(c, r)' <=> Unheard(c, r)
    BY <1>8, <2>3 DEF Unheard
  <2>5. Question(c)' = [type |-> "Hello"]
    BY <2>1 DEF Question
  <2>6. NoneIn(toClient'[c], AckFrame) /\ AtMostOne(toClient'[c], AckFrame)
    BY <2>1, EmptyQueue DEF NoneIn
  <2>7. OneAtATime(c)'
    BY <1>5, <1>6, <1>12, <2>1, <2>3, <2>5, <2>6 DEF OneAtATime
  <2>8. \A m \in Range(toServer'[c]) : ~ OfResource(m)
    BY <1>3, <1>6, <2>1 DEF OfResource
  <2>9. Registration(c)'
    BY <1>1, <1>12, <2>1, <2>3, <2>4, <2>7, <2>8 DEF Local, Registration
  <2>10. Assignments(c)'
    BY <1>3, <1>6, <2>1, EmptyQueue DEF Assignments
  <2> QED BY <2>2, <2>9, <2>10
<1>13. ASSUME NEW d \in Client PROVE Local(d)'
  <2>1. CASE d # c
    BY <1>8, <1>9, <1>10, <2>1, LocalKept DEF ClusterInv
  <2>2. CASE d = c
    BY <1>11, <1>12, <2>2 DEF Local
  <2> QED BY <2>1, <2>2
<1>14. Tables'
  BY <1>1, <1>6, <1>7 DEF Tables, serverVars, IsTable
<1>15. AtOnePlace'
  <2>1. \A d \in Client : /\ owed'[d] = owed[d] /\ toClient'[d] = toClient[d]
                          /\ client'[d].pc \in {"assignAck", "running"} => client'[d] = client[d]
    BY DEF serverVars
  <2> QED BY <1>9, <2>1, TokensStay DEF ClusterInv
<1>16. Results'
  BY <1>9, <1>10, ResultsKept DEF ClusterInv
<1>17. Loop'
  <2>1. backlog \in Seq(Client \cup {Wake}) /\ IsInjective(backlog)
    BY <1>1 DEF Loop
  <2>2. c \notin Range(backlog) /\ c # Wake
    BY <1>1, <1>2, ClusterAssumption DEF Loop
  <2>3. /\ backlog' \in Seq(Client \cup {Wake}) /\ IsInjective(backlog')
        /\ Range(backlog') = Range(backlog) \cup {c}
    BY <2>1, <2>2, LongerQueue DEF Connects
  <2>4. \A d \in Range(backlog') \ {Wake} : thread'[d] = "none" /\ client'[d].pc # "down"
    <3>1. Range(backlog) \subseteq Client \cup {Wake}
      BY <2>1, QueueRange
    <3> QED BY <1>1, <1>2, <1>8, <2>3, <3>1 DEF Loop
  <2>5. Serving' = Serving
    BY <1>8 DEF Serving
  <2> QED BY <1>1, <1>8, <2>2, <2>3, <2>4, <2>5 DEF Loop
<1> QED BY <1>9, <1>13, <1>14, <1>15, <1>16, <1>17 DEF ClusterInv, EngineMoves

LEMMA AgentConnectsStep ==
    ASSUME ClusterInv, NEW a \in Agent, AgentConnects(a)
    PROVE  ClusterInv'
<1> DEFINE f == [type |-> "Hello"]
           todo == Owned(a)
<1>1. a \in Client /\ Tables /\ client[a] \in ClientProcess
  BY DEF ClusterInv, Local, Typed, Client
<1>2. f \in FramesOf(a) /\ toServer' = [toServer EXCEPT ![a] = <<f>>]
  BY DEF FramesOf, AgentFrame, AgentConnects
<1>3. client' = [client EXCEPT ![a].pc = "hello", ![a].todo = todo] /\ todo \in SUBSET Resource
  BY DEF AgentConnects, Owned
<1> HIDE DEF f, todo
<1>4. /\ IsTable(client') /\ \A d \in Client : d # a => client'[d] = client[d]
      /\ client'[a] \in ClientProcess /\ client'[a].pc = "hello" /\ client'[a].todo = todo
  BY <1>1, <1>3 DEF Tables, IsTable, ClientProcess, Waiting
<1>5. Connects(a) /\ UNCHANGED <<toClient, stopping, loop, executions, overlooked>>
      /\ UNCHANGED serverVars
  BY DEF AgentConnects
<1> QED BY <1>1, <1>2, <1>4, <1>5, ConnectsStep DEF f, todo

(* What a controller may call, and how it counts. *)
LEMMA CallsAreFrames ==
    ASSUME NEW k \in Controller, client[k] \in ClientProcess, client[k].calls < Len(Session),
           NEW frame \in Session[client[k].calls + 1]
    PROVE  frame \in ControllerFrame /\ CallsMade(k, frame) \in 0 .. Len(Session)
<1>1. Len(Session) \in Nat /\ client[k].calls \in Nat
  BY ClusterAssumption, LenProperties DEF ClientProcess
<1>2. client[k].calls + 1 \in 1 .. Len(Session)
  BY <1>1
<1>3. Session[client[k].calls + 1] \subseteq ControllerFrame
  BY <1>2, ClusterAssumption, ElementOfSeq
<1> QED BY <1>1, <1>2, <1>3 DEF CallsMade

LEMMA ControllerConnectsStep ==
    ASSUME ClusterInv, NEW k \in Controller, ControllerConnects(k)
    PROVE  ClusterInv'
<1>1. k \in Client /\ Tables /\ client[k] \in ClientProcess /\ Down(k)
  BY DEF ClusterInv, Local, Typed, Client
<1>2. client[k].calls = 0 /\ client[k].calls < Len(Session) /\ k \notin Agent
  <2>1. Session # << >> /\ Len(Session) \in Nat
    BY ClusterAssumption, LenProperties DEF ControllerConnects
  <2>2. Len(Session) # 0
    BY <2>1, ClusterAssumption, EmptySeq
  <2> QED BY <1>1, <2>1, <2>2, ClusterAssumption DEF ControllerConnects, Connects, Down
<1>3. PICK frame \in Session[1] :
          /\ client' = [client EXCEPT ![k].pc = "call", ![k].calls = CallsMade(k, frame)]
          /\ toServer' = [toServer EXCEPT ![k] = <<frame>>]
  BY DEF ControllerConnects
<1>4. frame \in FramesOf(k) /\ CallsMade(k, frame) \in 0 .. Len(Session)
  <2>1. client[k].calls + 1 = 1
    BY <1>2
  <2>2. frame \in Session[client[k].calls + 1]
    BY <2>1
  <2> QED BY <1>1, <1>2, <2>2, CallsAreFrames DEF FramesOf
<1> DEFINE n == CallsMade(k, frame)
<1>5. client' = [client EXCEPT ![k].pc = "call", ![k].calls = n] /\ n \in 0 .. Len(Session)
  BY <1>3, <1>4
<1> HIDE DEF n
<1>6. /\ IsTable(client') /\ \A d \in Client : d # k => client'[d] = client[d]
      /\ client'[k] \in ClientProcess /\ client'[k].pc = "call"
  BY <1>1, <1>5 DEF Tables, IsTable, ClientProcess, Waiting
<1>7. Connects(k) /\ UNCHANGED <<toClient, stopping, loop, executions, overlooked>>
      /\ UNCHANGED serverVars
  BY DEF ControllerConnects
<1> QED BY <1>1, <1>2, <1>3, <1>4, <1>6, <1>7, ConnectsStep

LEMMA ControllerCallsStep ==
    ASSUME ClusterInv, NEW k \in Controller, ControllerCalls(k)
    PROVE  ClusterInv'
<1>1. /\ k \in Client /\ k \notin Agent /\ Tables /\ Typed(k) /\ client[k] \in ClientProcess
      /\ client[k].pc = "call" /\ toClient[k] # << >> /\ client[k].calls < Len(Session)
      /\ Takes(k) /\ UNCHANGED <<link, executions>> /\ UNCHANGED serverVars /\ UNCHANGED loopVars
  BY ClusterAssumption DEF ClusterInv, Local, Typed, Client, ControllerCalls
<1>2. PICK frame \in Session[client[k].calls + 1] :
          client' = [client EXCEPT ![k].calls = CallsMade(k, frame)] /\ Sends(k, <<frame>>)
  BY DEF ControllerCalls
<1>3. frame \in ControllerFrame /\ CallsMade(k, frame) \in 0 .. Len(Session)
  BY <1>1, CallsAreFrames
<1> DEFINE n == CallsMade(k, frame)
<1>4. client' = [client EXCEPT ![k].calls = n] /\ n \in 0 .. Len(Session)
  BY <1>2, <1>3
<1> HIDE DEF n
<1>5. /\ IsTable(client') /\ \A d \in Client : d # k => client'[d] = client[d]
      /\ client'[k] \in ClientProcess /\ client'[k].pc = "call"
  BY <1>1, <1>4 DEF Tables, IsTable, ClientProcess
<1>6. /\ IsTable(toServer') /\ toServer'[k] \in Seq(FramesOf(k))
      /\ \A d \in Client : d # k => toServer'[d] = toServer[d]
  <2>1. toServer[k] \in Seq(ControllerFrame) /\ FramesOf(k) = ControllerFrame
    BY <1>1 DEF Typed, FramesOf
  <2> QED BY <1>1, <1>2, <1>3, <2>1, SendsFrames
<1>7. /\ IsTable(toClient') /\ toClient'[k] \in Seq(ServerFrame)
      /\ \A d \in Client : d # k => toClient'[d] = toClient[d]
  <2>1. Tail(toClient[k]) \in Seq(ServerFrame)
    BY <1>1, TakenQueue DEF Typed
  <2> QED BY <1>1, <2>1, TakesFrame
<1>8. \A d \in Client : d # k => SameProcess(d)
  BY <1>1, <1>5, <1>6, <1>7 DEF SameProcess
<1>9. Typed(k)'
  <2>1. FramesOf(k)' = FramesOf(k)
    BY DEF FramesOf
  <2> QED BY <1>1, <1>5, <1>6, <1>7, <2>1 DEF Typed, serverVars
<1>10. AtOnePlace'
  <2>1. EngineMoves /\ \A d \in Client : owed'[d] = owed[d]
    BY <1>1, EngineStays DEF serverVars
  <2>2. /\ \A d \in Client : \A q : Assign(q) \in Range(toClient'[d]) => Assign(q) \in Range(toClient[d])
        /\ \A d \in Client : \A q : AtMostOne(toClient[d], {Assign(q)}) =>
              AtMostOne(toClient'[d], {Assign(q)})
    BY <1>1, TakenFrames
  <2> QED BY <1>1, <1>5, <2>1, <2>2, TokensStay DEF ClusterInv
<1>11. RunsKept /\ IsTable(link')
  BY <1>1 DEF RunsKept, Tables
<1> QED BY <1>1, <1>5, <1>6, <1>7, <1>8, <1>9, <1>10, <1>11, ClientActs

-----------------------------------------------------------------------------
(***************************************************************************)
(* The handlers of the frames of agents.                                   *)
(***************************************************************************)
AgentReplies(a, type, ok, next) ==
    /\ owed' = [owed EXCEPT ![a] = Append(next, Reply([type |-> type, ok |-> ok]))]
    /\ UNCHANGED toClient

LEMMA AgentAnswers ==
    ASSUME NEW a \in Agent, NEW type, NEW ok, NEW next, Answers(a, type, ok, next)
    PROVE  AgentReplies(a, type, ok, next)
BY ClusterAssumption DEF Answers, AgentReplies, Reply

LEMMA AgentAnswered ==
    ASSUME NEW a \in Agent, NEW accepted, NEW operation, NEW type,
           Answered(a, accepted, operation, type)
    PROVE  \/ operation /\ AgentReplies(a, type, TRUE, << >>)
           \/ UNCHANGED state /\ AgentReplies(a, type, FALSE, << >>)
BY AgentAnswers DEF Answered

(* Results are those of runs. *)
FinishesProven ==
    \E P : /\ FinishesOnly(state, state', P)
           /\ \A p \in P : p \in Placements(state) /\ Proven(p)

LEMMA NothingFinishes ==
    ASSUME FinishesOnly(state, state', {})
    PROVE  FinishesProven
<1>1. FinishesOnly(state, state', {}) /\ \A p \in {} : p \in Placements(state) /\ Proven(p)
  OBVIOUS
<1> QED BY <1>1 DEF FinishesProven

(* What the engine does for agent a, and what its thread owes then. *)
Serves(a, m) ==
    /\ EngineMoves /\ FinishesProven /\ UNCHANGED toClient
    /\ \/ m.type # "Hello" /\ UNCHANGED state
       \/ m.type = "Hello" /\ TakesOver(state, state', a, {})
       \/ OfResource(m) /\ TakesOver(state, state', a, {m.resource})
       \/ m.type # "Hello" /\ Quiet(state, state')
    /\ \E f \in AckFrame :
          /\ m.type = "Hello" => owed' = [owed EXCEPT ![a] = <<Announce, Reply(f)>>]
          /\ m.type # "Hello" => owed' = [owed EXCEPT ![a] = <<Reply(f)>>]
          /\ m.type = "RegisterResource" /\ ~ f.ok => UNCHANGED state

LEMMA ShortQueues ==
    ASSUME NEW x, NEW y
    PROVE  Append(<< >>, x) = <<x>> /\ Append(<<x>>, y) = <<x, y>>
<1> DEFINE S == {x, y}
           s == <<x>>
           t == <<x, y>>
           u == Append(s, y)
<1>1. s \in Seq(S) /\ Len(s) = 1 /\ s[1] = x /\ y \in S
  OBVIOUS
<1>2. t \in Seq(S) /\ Len(t) = 2 /\ t[1] = x /\ t[2] = y
  OBVIOUS
<1> HIDE DEF S, s, t
<1>3. /\ u \in Seq(S) /\ Len(u) = Len(s) + 1
      /\ \A i \in 1 .. Len(s) : u[i] = s[i]
      /\ u[Len(s) + 1] = y
  BY <1>1, AppendProperties, ZenonT(60)
<1> HIDE DEF u
<1>4. Len(u) = 2 /\ u[1] = x /\ u[2] = y
  BY <1>1, <1>3
<1>5. Len(u) = Len(t) /\ \A i \in 1 .. Len(u) : u[i] = t[i]
  BY <1>2, <1>4
<1>6. u = t
  BY <1>2, <1>3, <1>5, SeqEqual
<1> QED BY <1>6 DEF s, t, u

LEMMA HelloServed ==
    ASSUME ClusterInv, NEW a \in Agent, NEW m, m.type = "Hello", HandleHello(a)
    PROVE  Serves(a, m)
<1> DEFINE f == [type |-> "HelloAck", ok |-> TRUE]
<1>1. WorkerConnected(WorkerOf(a), BootOf(a)) /\ AgentReplies(a, "HelloAck", TRUE, <<Announce>>)
  BY AgentAnswers DEF HandleHello, Announce
<1>2. Inv(state') /\ LogKept(state, state')
  BY <1>1, AgentParts, WorkerConnectedStep DEF Keeps, ClusterInv
<1>3. TakesOver(state, state', a, {}) /\ FinishesOnly(state, state', {})
  BY <1>1, WorkerConnectedTakesOver DEF ClusterInv
<1>4. EngineMoves
  BY <1>2, <1>3 DEF EngineMoves, ClusterInv, TakesOver
<1>5. f \in AckFrame /\ f.ok
  BY DEF AckFrame
<1>6. Append(<<Announce>>, Reply(f)) = <<Announce, Reply(f)>>
  BY ShortQueues
<1>7. owed' = [owed EXCEPT ![a] = <<Announce, Reply(f)>>] /\ UNCHANGED toClient
  BY <1>1, <1>6 DEF AgentReplies
<1> HIDE DEF f
<1> QED BY <1>3, <1>4, <1>5, <1>7, NothingFinishes DEF Serves

LEMMA RepliesOnce ==
    ASSUME NEW a \in Agent, NEW type, NEW ok \in BOOLEAN, AgentReplies(a, type, ok, << >>),
           type \in {"ResourceAck", "LifecycleAck", "CompletionAck"}
    PROVE  \E f \in AckFrame : /\ f.ok = ok /\ owed' = [owed EXCEPT ![a] = <<Reply(f)>>]
                               /\ UNCHANGED toClient
<1> DEFINE f == [type |-> type, ok |-> ok]
<1>1. f \in AckFrame /\ f.ok = ok
  BY DEF AckFrame
<1>2. Append(<< >>, Reply(f)) = <<Reply(f)>>
  BY ShortQueues
<1>3. owed' = [owed EXCEPT ![a] = <<Reply(f)>>] /\ UNCHANGED toClient
  BY <1>2 DEF AgentReplies
<1> HIDE DEF f
<1> QED BY <1>1, <1>3

LEMMA RefusalServed ==
    ASSUME ClusterInv, NEW a \in Agent, NEW m, m.type # "Hello", UNCHANGED state,
           NEW type \in {"ResourceAck", "LifecycleAck", "CompletionAck"},
           AgentReplies(a, type, FALSE, << >>)
    PROVE  Serves(a, m)
<1>1. EngineMoves /\ FinishesOnly(state, state', {})
  BY EngineStays
<1>2. \E f \in AckFrame : owed' = [owed EXCEPT ![a] = <<Reply(f)>>] /\ UNCHANGED toClient
  BY RepliesOnce
<1> QED BY <1>1, <1>2, NothingFinishes DEF Serves

LEMMA RegistrationServed ==
    ASSUME ClusterInv, NEW a \in Agent, NEW m, m.type = "RegisterResource",
           Unheard(a, m.resource), HandleAgentFrame(a, m)
    PROVE  Serves(a, m)
<1> DEFINE r == m.resource
           registers == \E ad \in Advertised[r] : RegisterResource(r, BootOf(a), ad)
<1>1. Answered(a, Registrable(r), registers, "ResourceAck")
  BY DEF HandleAgentFrame
<1> HIDE DEF registers
<1>2. \/ registers /\ AgentReplies(a, "ResourceAck", TRUE, << >>)
      \/ UNCHANGED state /\ AgentReplies(a, "ResourceAck", FALSE, << >>)
  BY <1>1, AgentAnswered
<1>3. CASE registers /\ AgentReplies(a, "ResourceAck", TRUE, << >>)
  <2>1. PICK ad \in Advertised[r] : RegisterResource(r, BootOf(a), ad)
    BY <1>3 DEF registers
  <2>2. r \in Resource /\ Owner[r] = WorkerOf(a) /\ BootOf(a) \in Boot
    BY AgentParts DEF Unheard, Owned
  <2>3. Inv(state') /\ LogKept(state, state')
    BY <2>1, <2>2, RegisterResourceStep DEF Keeps, ClusterInv
  <2>4. TakesOver(state, state', a, {r}) /\ FinishesOnly(state, state', {})
    BY <2>1, <2>2, RegisterResourceTakesOver DEF ClusterInv
  <2>5. EngineMoves
    BY <2>3, <2>4 DEF EngineMoves, ClusterInv, TakesOver
  <2>6. \E f \in AckFrame : /\ f.ok /\ owed' = [owed EXCEPT ![a] = <<Reply(f)>>]
                            /\ UNCHANGED toClient
    BY <1>3, RepliesOnce
  <2> QED BY <2>4, <2>5, <2>6, NothingFinishes DEF Serves, OfResource
<1>4. CASE UNCHANGED state /\ AgentReplies(a, "ResourceAck", FALSE, << >>)
  BY <1>4, RefusalServed
<1> QED BY <1>2, <1>3, <1>4

LEMMA PublicationServed ==
    ASSUME ClusterInv, NEW a \in Agent, NEW m, m.type = "PublishState",
           Unheard(a, m.resource), HandleAgentFrame(a, m)
    PROVE  Serves(a, m)
<1> DEFINE r == m.resource
<1>1. HandlePublish(a, r)
  BY DEF HandleAgentFrame
<1>2. r \in Resource /\ Owner[r] = WorkerOf(a) /\ BootOf(a) \in Boot
      /\ state.resources[r].boot # BootOf(a)
  BY AgentParts DEF Unheard, Owned
<1>3. CASE \E ad \in Advertised[r] : PublishResourceState(r, BootOf(a), ad)
  <2>1. PICK ad \in Advertised[r] : PublishResourceState(r, BootOf(a), ad)
    BY <1>3
  <2>2. Inv(state') /\ LogKept(state, state')
    BY <1>2, <2>1, PublishResourceStateStep DEF Keeps, ClusterInv
  <2>3. TakesOver(state, state', a, {r}) /\ FinishesOnly(state, state', {})
    BY <1>2, <2>1, PublishResourceStateTakesOver DEF ClusterInv
  <2>4. EngineMoves
    BY <2>2, <2>3 DEF EngineMoves, ClusterInv, TakesOver
  <2>5. PICK ok \in BOOLEAN : AgentReplies(a, "ResourceAck", ok, << >>)
    <3>1. \E ok \in BOOLEAN : Answers(a, "ResourceAck", ok, << >>)
      BY <1>1, <1>3 DEF HandlePublish
    <3> QED BY <3>1, AgentAnswers
  <2>6. \E f \in AckFrame : owed' = [owed EXCEPT ![a] = <<Reply(f)>>] /\ UNCHANGED toClient
    BY <2>5, RepliesOnce
  <2> QED BY <2>3, <2>4, <2>6, NothingFinishes DEF Serves, OfResource
<1>4. CASE UNCHANGED state /\ Answers(a, "ResourceAck", FALSE, << >>)
  BY <1>4, AgentAnswers, RefusalServed
<1> QED BY <1>1, <1>3, <1>4 DEF HandlePublish

(* An operation on the log, with results in P at most. *)
LogMoves(P) ==
    /\ Inv(state') /\ LogKept(state, state')
    /\ Quiet(state, state') /\ FinishesOnly(state, state', P)
    /\ \A q \in P : q \in Placements(state) /\ Proven(q)

LEMMA LogMoved ==
    ASSUME ClusterInv, NEW P, LogMoves(P)
    PROVE  EngineMoves /\ FinishesProven
BY DEF ClusterInv, LogMoves, EngineMoves, FinishesProven, Quiet

LEMMA OperationServed ==
    ASSUME ClusterInv, NEW a \in Agent, NEW m, m.type # "Hello", NEW P, LogMoves(P),
           NEW type \in {"ResourceAck", "LifecycleAck", "CompletionAck"},
           AgentReplies(a, type, TRUE, << >>)
    PROVE  Serves(a, m)
<1>1. \E f \in AckFrame : /\ f.ok = TRUE /\ owed' = [owed EXCEPT ![a] = <<Reply(f)>>]
                          /\ UNCHANGED toClient
  BY RepliesOnce
<1>2. Quiet(state, state')
  BY DEF LogMoves
<1> QED BY <1>1, <1>2, LogMoved DEF Serves

LEMMA AuthorityServed ==
    ASSUME ClusterInv, NEW a \in Agent, NEW m \in AgentFrame,
           m.type \in {"AssignAck", "Running", "Completion"},
           m.type = "Completion" => /\ Bound(m.placement, a) /\ m.boot = BootOf(a)
                                    /\ a \in Range(executions[m.placement]),
           HandleAgentFrame(a, m)
    PROVE  Serves(a, m)
<1> DEFINE p == m.placement
           c == EnvelopeCredential(p)
           b == state.placements[p].boot
<1>1. p \in PlacementId /\ (m.type = "Completion" => m.target \in {"Completed", "Failed"})
  BY DEF AgentFrame, ResourceFrame, AuthorityFrame, CompletionFrame
<1>2. \/ MarkAssigned(p, c, b) /\ AgentReplies(a, "LifecycleAck", TRUE, << >>)
      \/ MarkRunning(p, c, b) /\ AgentReplies(a, "LifecycleAck", TRUE, << >>)
      \/ /\ m.type = "Completion"
         /\ ReportCompletion(p, c, m.boot, TRUE, m.target)
         /\ AgentReplies(a, "CompletionAck", TRUE, << >>)
      \/ UNCHANGED state /\ \E type \in {"LifecycleAck", "CompletionAck"} :
                               AgentReplies(a, type, FALSE, << >>)
  <2>1. CASE m.type = "AssignAck"
    <3>1. Answered(a, Assignable(p, c, b), MarkAssigned(p, c, b), "LifecycleAck")
      BY <2>1 DEF HandleAgentFrame
    <3> QED BY <3>1, AgentAnswered
  <2>2. CASE m.type = "Running"
    <3>1. Answered(a, Startable(p, c, b), MarkRunning(p, c, b), "LifecycleAck")
      BY <2>2 DEF HandleAgentFrame
    <3> QED BY <3>1, AgentAnswered
  <2>3. CASE m.type = "Completion"
    <3>1. Answered(a, Completable(p, c, m.boot, TRUE),
                   ReportCompletion(p, c, m.boot, TRUE, m.target), "CompletionAck")
      BY <2>3 DEF HandleAgentFrame
    <3> QED BY <2>3, <3>1, AgentAnswers DEF Answered
  <2> QED BY <2>1, <2>2, <2>3
<1>3. Inv(state)
  BY DEF ClusterInv
<1>4. m.type # "Hello"
  OBVIOUS
<1>5. CASE MarkAssigned(p, c, b) /\ AgentReplies(a, "LifecycleAck", TRUE, << >>)
  <2>1. LogMoves({})
    BY <1>1, <1>3, <1>5, MarkAssignedStep, MarkAssignedQuiet DEF Keeps, LogMoves
  <2> QED BY <1>4, <1>5, <2>1, OperationServed
<1>6. CASE MarkRunning(p, c, b) /\ AgentReplies(a, "LifecycleAck", TRUE, << >>)
  <2>1. LogMoves({})
    BY <1>1, <1>3, <1>6, MarkRunningStep, MarkRunningQuiet DEF Keeps, LogMoves
  <2> QED BY <1>4, <1>6, <2>1, OperationServed
<1>7. CASE /\ m.type = "Completion"
           /\ ReportCompletion(p, c, m.boot, TRUE, m.target)
           /\ AgentReplies(a, "CompletionAck", TRUE, << >>)
  <2>1. /\ Inv(state') /\ LogKept(state, state')
        /\ Quiet(state, state') /\ FinishesOnly(state, state', {p})
    BY <1>1, <1>3, <1>7, ReportCompletionStep, ReportCompletionQuiet DEF Keeps
  <2>2. p \in Placements(state) /\ m.boot \in {NoBoot, b}
    BY <1>7 DEF ReportCompletion, Completable, Authorised, Known, IsBoundBoot
  <2>3. a = <<state.placements[p].worker, state.placements[p].boot>>
    BY <1>7, <2>2, AgentParts DEF Bound
  <2>4. Proven(p)
    BY <1>7, <2>3 DEF Proven
  <2>5. LogMoves({p})
    BY <2>1, <2>2, <2>4 DEF LogMoves
  <2> QED BY <1>4, <1>7, <2>5, OperationServed
<1>8. CASE UNCHANGED state /\ \E type \in {"LifecycleAck", "CompletionAck"} :
                                 AgentReplies(a, type, FALSE, << >>)
  BY <1>8, RefusalServed
<1> QED BY <1>2, <1>5, <1>6, <1>7, <1>8

LEMMA AgentFrameServed ==
    ASSUME ClusterInv, NEW a \in Agent, NEW m \in Range(toServer[a]), HandleAgentFrame(a, m)
    PROVE  Serves(a, m)
<1>1. Typed(a) /\ Registration(a) /\ Assignments(a)
  BY DEF ClusterInv, Local, Client
<1>2. m \in AgentFrame
  BY <1>1, QueueRange DEF Typed, FramesOf
<1>3. m.type \in {"Hello", "RegisterResource", "PublishState", "AssignAck", "Running", "Completion"}
  BY <1>2 DEF AgentFrame, ResourceFrame, AuthorityFrame, CompletionFrame
<1>4. OfResource(m) => Unheard(a, m.resource)
  BY <1>1 DEF Registration
<1>5. CASE m.type = "Hello"
  BY <1>5, HelloServed DEF HandleAgentFrame
<1>6. CASE m.type = "RegisterResource"
  BY <1>4, <1>6, RegistrationServed DEF OfResource
<1>7. CASE m.type = "PublishState"
  BY <1>4, <1>7, PublicationServed DEF OfResource
<1>8. CASE m.type \in {"AssignAck", "Running", "Completion"}
  BY <1>1, <1>2, <1>8, AuthorityServed DEF Assignments
<1> QED BY <1>3, <1>5, <1>6, <1>7, <1>8

(* What a thread owes after the handler of a frame of an agent. *)
LEMMA OwedQueues ==
    ASSUME NEW f \in AckFrame
    PROVE  /\ <<Reply(f)>> \in Seq(Duty) /\ <<Announce, Reply(f)>> \in Seq(Duty)
           /\ Range(<<Reply(f)>>) = {Reply(f)}
           /\ Range(<<Announce, Reply(f)>>) = {Announce, Reply(f)}
           /\ Head(<<Announce, Reply(f)>>) = Announce /\ Head(<<Reply(f)>>) = Reply(f)
           /\ Tail(<<Announce, Reply(f)>>) = <<Reply(f)>> /\ Tail(<<Reply(f)>>) = << >>
           /\ Announce # Reply(f) /\ f \in ServerFrame
           /\ <<Reply(f)>> # << >> /\ <<Announce, Reply(f)>> # << >>
           /\ \A p : Push(p) \notin {Announce, Reply(f)}
           /\ RequestShutdown \notin {Announce, Reply(f)}
<1>1. f \in ServerFrame
  BY DEF AckFrame, ServerFrame
<1>2. Reply(f) \in Duty /\ Announce \in Duty
  BY <1>1 DEF Duty, Reply, Announce
<1>3. /\ \A p : Push(p) \notin {Announce, Reply(f)}
      /\ Announce # Reply(f) /\ RequestShutdown \notin {Announce, Reply(f)}
  <2>1. Announce.do = "announce" /\ Reply(f).do = "reply" /\ RequestShutdown.do = "requestShutdown"
        /\ \A p : Push(p).do = "push"
    BY DEF Reply, Announce, Push, RequestShutdown
  <2> QED BY <2>1
<1>4. \A x, y \in Duty : /\ <<x>> \in Seq(Duty) /\ <<x, y>> \in Seq(Duty)
                         /\ Head(<<x, y>>) = x /\ Head(<<x>>) = x /\ Tail(<<x, y>>) = <<y>>
                         /\ Tail(<<x>>) = << >> /\ <<x>> # << >> /\ <<x, y>> # << >>
                         /\ Range(<<x>>) = {x} /\ Range(<<x, y>>) = {x, y}
  BY DEF Range
<1> QED BY <1>1, <1>2, <1>3, <1>4

(* What an agent and its thread have while a frame is handled, and after it. *)
LEMMA AgentFrameStep ==
    ASSUME ClusterInv, NEW a \in Agent, HandleFrame(a)
    PROVE  ClusterInv'
<1> DEFINE m == Head(toServer[a])
           rest == Tail(toServer[a])
<1>1. /\ a \in Client /\ Tables /\ Local(a) /\ Typed(a) /\ Down(a) /\ Duties(a) /\ Fenced(a)
      /\ Introduction(a) /\ Registration(a) /\ Assignments(a)
      /\ thread[a] = "serving" /\ owed[a] = << >> /\ toServer[a] # << >>
      /\ toServer' = [toServer EXCEPT ![a] = rest]
      /\ UNCHANGED <<client, link, thread, announced, peers, executions>> /\ UNCHANGED loopVars
      /\ HandleAgentFrame(a, m)
  BY DEF ClusterInv, Local, Client, HandleFrame
<1>2. /\ rest \in Seq(AgentFrame) /\ Range(toServer[a]) = {m} \cup Range(rest)
      /\ m \in Range(toServer[a])
  BY <1>1, TakenQueue DEF Typed, FramesOf
<1>3. \A e : toServer[a] = <<e>> => rest = << >> /\ m = e
  OBVIOUS
<1>4. Serves(a, m)
  BY <1>1, <1>2, AgentFrameServed
<1> HIDE DEF rest
<1>5. PICK f \in AckFrame :
          /\ m.type = "Hello" => owed' = [owed EXCEPT ![a] = <<Announce, Reply(f)>>]
          /\ m.type # "Hello" => owed' = [owed EXCEPT ![a] = <<Reply(f)>>]
          /\ m.type = "RegisterResource" /\ ~ f.ok => UNCHANGED state
  BY <1>4 DEF Serves
<1>6. /\ EngineMoves /\ FinishesProven /\ UNCHANGED toClient
      /\ \/ m.type # "Hello" /\ UNCHANGED state
         \/ m.type = "Hello" /\ TakesOver(state, state', a, {})
         \/ OfResource(m) /\ TakesOver(state, state', a, {m.resource})
         \/ m.type # "Hello" /\ Quiet(state, state')
  BY <1>4 DEF Serves
<1> HIDE DEF m
<1>7. /\ IsTable(toServer') /\ toServer'[a] = rest
      /\ \A d \in Client : d # a => toServer'[d] = toServer[d]
  BY <1>1 DEF Tables, IsTable
<1>8. /\ IsTable(owed') /\ \A d \in Client : d # a => owed'[d] = owed[d]
      /\ m.type = "Hello" => owed'[a] = <<Announce, Reply(f)>>
      /\ m.type # "Hello" => owed'[a] = <<Reply(f)>>
  <2>1. \A x : owed' = [owed EXCEPT ![a] = x] =>
                  IsTable(owed') /\ owed'[a] = x /\ \A d \in Client : d # a => owed'[d] = owed[d]
    BY <1>1 DEF Tables, IsTable
  <2> QED BY <1>5, <2>1
<1>9. /\ owed'[a] \in Seq(Duty) /\ owed'[a] # << >>
      /\ Range(owed'[a]) \subseteq {Announce, Reply(f)}
      /\ m.type = "Hello" => Announcing(a)'
  BY <1>8, OwedQueues DEF Announcing
<1>10. /\ \A d \in Client : d # a => SameProcess(d) /\ SameThread(d)
       /\ client'[a] = client[a] /\ link'[a] = link[a] /\ toClient'[a] = toClient[a]
       /\ thread'[a] = thread[a] /\ announced'[a] = announced[a]
  BY <1>1, <1>6, <1>7, <1>8 DEF SameProcess, SameThread
<1>11. \A d \in Agent : \/ d = a
                        \/ Spares(state, state', d)
  BY <1>6, SameSpares, QuietSpares, TakesOverSpares
<1>12. \/ Spares(state, state', a) /\ m.type # "Hello"
       \/ Recorded(state', a) /\ (m.type = "Hello" \/ OfResource(m))
  <2>1. \A R : TakesOver(state, state', a, R) => Recorded(state', a)
    BY DEF TakesOver, Recorded
  <2> QED BY <1>6, <2>1, SameSpares, QuietSpares
<1>13. m.type = "Hello" \/ announced[a]
  BY <1>1, <1>2 DEF Introduction, Introduced
<1>14. Typed(a)'
  BY <1>1, <1>2, <1>7, <1>9, <1>10 DEF Typed, FramesOf
<1>15. Down(a)'
  BY <1>1, <1>10 DEF Down
<1>16. Duties(a)'
  BY <1>1, <1>5, <1>8, <1>10, ClusterAssumption DEF Duties
<1>17. Fenced(a)'
  <2>1. Recorded(state', a) \/ HoldsNothing(state', a)
    BY <1>1, <1>12 DEF Spares, Fenced
  <2>2. announced'[a] \/ Announcing(a)'
    BY <1>9, <1>10, <1>13
  <2> QED BY <1>1, <1>10, <2>1, <2>2 DEF Fenced
<1>18. Introduction(a)'
  <2>1. Introduced(a) => Introduced(a)'
    BY <1>1, <1>10 DEF Introduced
  <2>2. Announcing(a)' \/ Introduced(a)'
    BY <1>9, <1>10, <1>13 DEF Introduced
  <2> QED BY <1>1, <1>2, <1>7, <1>10, <2>1, <2>2 DEF Introduction
<1>19. Assignments(a)'
  <2>1. \A p : Bound(p, a) => Bound(p, a)'
    BY <1>6, BoundKept
  <2>2. \A q \in Range(toServer'[a]) : q \in Range(toServer[a])
    BY <1>2, <1>7
  <2> QED BY <1>1, <1>10, <2>1, <2>2 DEF Assignments
<1>20. Registration(a)'
  <2>1. client[a].pc \in Starting => /\ rest = << >> /\ m = Question(a)
                                     /\ NoneIn(toClient[a], AckFrame)
    BY <1>1, <1>3 DEF Registration, OneAtATime
  <2>2. OneAtATime(a)'
    BY <1>1, <1>7, <1>10, <2>1 DEF Registration, OneAtATime, Owned
  <2>3. ASSUME NEW r, Unheard(a, r), OfResource(m) => r # m.resource
        PROVE  Unheard(a, r)'
    <3>1. r \in Resource /\ r \in Owned(a) /\ state.resources[r].boot # BootOf(a)
      BY <2>3 DEF Unheard, Owned
    <3>2. CASE Spares(state, state', a)
      BY <3>1, <3>2 DEF Spares, Unheard, Owned
    <3>3. CASE m.type = "Hello" /\ TakesOver(state, state', a, {})
      BY <3>1, <3>3 DEF TakesOver, Unheard, Owned
    <3>4. CASE OfResource(m) /\ TakesOver(state, state', a, {m.resource})
      BY <2>3, <3>1, <3>4 DEF TakesOver, Unheard, Owned
    <3> QED BY <1>6, <3>2, <3>3, <3>4, SameSpares, QuietSpares
  <2>4. ASSUME NEW r \in Unsent(a) PROVE Unheard(a, r) /\ (OfResource(m) => r # m.resource)
    <3>1. client[a].pc # "down"
      BY <1>1 DEF Down
    <3>2. client[a].pc \in Starting
      BY <2>4, <3>1 DEF Unsent, Starting
    <3>3. m = Question(a)
      BY <2>1, <3>2
    <3> QED BY <1>1, <2>4, <3>1, <3>2, <3>3
            DEF Unsent, Starting, Question, OfResource, Registration
  <2>5. Unsent(a)' = Unsent(a) /\ Chosen(a)' = Chosen(a)
    BY <1>10 DEF Unsent, Chosen, Owned
  <2>6. \A q \in Range(toServer'[a]) : ~ OfResource(q)
    BY <1>1, <1>2, <1>3, <1>7, EmptyQueue DEF Registration
  <2>7. ASSUME client[a].pc = "register"
        PROVE  \/ Unheard(a, Chosen(a))'
               \/ /\ NoneIn(toClient'[a], Refusal)
                  /\ NoneIn(owed'[a], {Reply(g) : g \in Refusal})
    <3>1. /\ m = [type |-> "RegisterResource", resource |-> Chosen(a)]
          /\ NoneIn(toClient[a], AckFrame)
      BY <2>1, <2>7 DEF Starting, Question
    <3>2. m.type = "RegisterResource" /\ OfResource(m) /\ m.resource = Chosen(a)
      BY <3>1 DEF OfResource
    <3>3. NoneIn(toClient'[a], Refusal)
      BY <1>10, <3>1 DEF NoneIn, Refusal
    <3>4. CASE f.ok
      <4>1. \A g \in Refusal : Reply(f) # Reply(g)
        BY <3>4 DEF Reply, Refusal
      <4>2. Range(owed'[a]) = {Reply(f)}
        BY <1>8, <3>2, OwedQueues
      <4> QED BY <3>3, <4>1, <4>2 DEF NoneIn
    <3>5. CASE ~ f.ok
      <4>1. UNCHANGED state /\ Unheard(a, Chosen(a))
        BY <1>1, <1>2, <1>5, <3>2, <3>5 DEF Registration
      <4> QED BY <2>5, <4>1 DEF Unheard, Owned
    <3> QED BY <3>4, <3>5
  <2> QED BY <1>10, <2>2, <2>3, <2>4, <2>5, <2>6, <2>7 DEF Registration
<1>21. RunsKept
  BY <1>1 DEF RunsKept
<1>22. ASSUME NEW d \in Client PROVE Local(d)'
  <2>1. CASE d # a
    BY <1>6, <1>10, <1>11, <1>21, <2>1, LocalKept DEF ClusterInv
  <2>2. CASE d = a
    BY <1>14, <1>15, <1>16, <1>17, <1>18, <1>19, <1>20, <2>2 DEF Local
  <2> QED BY <2>1, <2>2
<1>23. Tables'
  BY <1>1, <1>6, <1>7, <1>8 DEF Tables, IsTable
<1>24. AtOnePlace'
  <2>1. \A d \in Client : \A p : Push(p) \in Range(owed'[d]) => Push(p) \in Range(owed[d])
    BY <1>8, <1>9, OwedQueues
  <2> QED BY <1>1, <1>6, <2>1, TokensStay DEF ClusterInv
<1>25. Results'
  BY <1>6, <1>21, ResultsKept DEF ClusterInv, FinishesProven
<1>26. Loop'
  BY <1>1, LoopKept DEF ClusterInv
<1> QED BY <1>6, <1>22, <1>23, <1>24, <1>25, <1>26 DEF ClusterInv, EngineMoves

-----------------------------------------------------------------------------
(***************************************************************************)
(* The handlers of the frames of controllers.                              *)
(***************************************************************************)
ControllerReplies(k, ok, next) ==
    /\ Deliver({k}, [type |-> "OtherAck", ok |-> ok])
    /\ owed' = [owed EXCEPT ![k] = next]

LEMMA ControllerAnswers ==
    ASSUME NEW k \in Controller, NEW ok, NEW next, Answers(k, "OtherAck", ok, next)
    PROVE  ControllerReplies(k, ok, next)
BY DEF Answers, ControllerReplies

(* A placement that is pushed is new. *)
Orders(k) ==
    /\ LogMoves({})
    /\ \E ok \in BOOLEAN :
          \/ ControllerReplies(k, ok, << >>)
          \/ ControllerReplies(k, ok, <<RequestShutdown>>)
          \/ \E p \in Placements(state') \ Placements(state) : ControllerReplies(k, ok, <<Push(p)>>)

LEMMA NothingMoves ==
    ASSUME ClusterInv, UNCHANGED state
    PROVE  LogMoves({})
<1>1. EngineMoves /\ FinishesOnly(state, state', {})
  BY EngineStays
<1> QED BY <1>1 DEF LogMoves, EngineMoves, Quiet

LEMMA ControllerAnswered ==
    ASSUME ClusterInv, NEW k \in Controller, NEW accepted, NEW operation,
           operation => LogMoves({}), Answered(k, accepted, operation, "OtherAck")
    PROVE  Orders(k)
BY ControllerAnswers, NothingMoves DEF Answered, Orders

LEMMA ControllerSchedules ==
    ASSUME ClusterInv, NEW k \in Controller, NEW accepted, NEW operation,
           operation => LogMoves({}), HandleScheduling(k, accepted, operation)
    PROVE  Orders(k)
<1> DEFINE p == CHOOSE o \in Pushes : TRUE
           next == IF Pushes = {} THEN << >> ELSE <<[do |-> "push", placement |-> p]>>
<1>1. CASE operation /\ Answers(k, "OtherAck", TRUE, next)
  <2>1. LogMoves({}) /\ ControllerReplies(k, TRUE, next)
    BY <1>1, ControllerAnswers
  <2>2. CASE Pushes = {}
    BY <2>1, <2>2 DEF Orders
  <2>3. CASE Pushes # {}
    <3>1. p \in Pushes
      BY <2>3
    <3> HIDE DEF p
    <3>2. next = <<Push(p)>>
      BY <2>3 DEF Push
    <3> HIDE DEF next
    <3>3. p \in Placements(state') \ Placements(state)
      <4>1. /\ p \in PlacementId
            /\ state.placements[p] = Absent /\ state'.placements[p] # Absent
        BY <3>1 DEF Pushes
      <4>2. state' \in SchedulerState
        BY <2>1 DEF LogMoves, Inv
      <4>3. p \in Placements(state')
        BY <4>1, <4>2, AbsentOrPlaced
      <4> QED BY <4>1, <4>3 DEF Placements, Absent
    <3> QED BY <2>1, <3>2, <3>3 DEF Orders
  <2> QED BY <2>2, <2>3
<1>2. CASE UNCHANGED state /\ Answers(k, "OtherAck", FALSE, << >>)
  BY <1>2, ControllerAnswers, NothingMoves DEF Orders
<1> QED BY <1>1, <1>2 DEF HandleScheduling

LEMMA ControllerFrameServed ==
    ASSUME ClusterInv, NEW k \in Controller, NEW m \in ControllerFrame, HandleControllerFrame(k, m)
    PROVE  Orders(k)
<1> DEFINE p == m.placement
           q == m.request
           r == m.resource
           c == ControllerCredential
<1>1. /\ m.type \in {"ScheduleRequest", "CancelRequest"} => q \in Request
      /\ m.type \in {"CancelPlacement", "Reassign", "Preempt"} => p \in PlacementId
      /\ m.type = "RetireResource" => r \in Resource
      /\ m.type = "DisconnectWorker" => m.agent \in Agent
  BY DEF ControllerFrame
<1>2. Inv(state) /\ NeverRegistered(state)
  BY DEF ClusterInv
<1>3. CASE m.type = "ScheduleRequest" /\ HandleScheduling(k, Submittable(q), SubmitRequest(q))
  <2>1. SubmitRequest(q) => LogMoves({})
    BY <1>1, <1>2, <1>3, SubmitRequestStep, SubmitRequestQuiet DEF Keeps, LogMoves
  <2> QED BY <1>3, <2>1, ControllerSchedules
<1>4. CASE /\ m.type = "CancelRequest"
           /\ Answered(k, state.requests[q].state # "Absent", CancelRequest(q), "OtherAck")
  <2>1. CancelRequest(q) => LogMoves({})
    BY <1>1, <1>2, <1>4, CancelRequestStep, CancelRequestQuiet DEF Keeps, LogMoves
  <2> QED BY <1>4, <2>1, ControllerAnswered
<1>5. CASE /\ m.type = "CancelPlacement"
           /\ Answered(k, EndableByController(p, c), CancelPlacement(p, c), "OtherAck")
  <2>1. CancelPlacement(p, c) => LogMoves({})
    BY <1>1, <1>2, <1>5, CancelPlacementStep, CancelPlacementQuiet DEF Keeps, LogMoves
  <2> QED BY <1>5, <2>1, ControllerAnswered
<1>6. CASE m.type = "Reassign" /\ HandleScheduling(k, Reassignable(p, c), ReassignPlacement(p, c))
  <2>1. ReassignPlacement(p, c) => LogMoves({})
    BY <1>1, <1>2, <1>6, ReassignPlacementStep, ReassignPlacementQuiet DEF Keeps, LogMoves
  <2> QED BY <1>6, <2>1, ControllerSchedules
<1>7. CASE m.type = "Preempt" /\ HandleScheduling(k, EndableByController(p, c), PreemptPlacement(p, c))
  <2>1. PreemptPlacement(p, c) => LogMoves({})
    BY <1>1, <1>2, <1>7, PreemptPlacementStep, PreemptPlacementQuiet DEF Keeps, LogMoves
  <2> QED BY <1>7, <2>1, ControllerSchedules
<1>8. CASE /\ m.type = "RetireResource"
           /\ Answered(k, Retirable(r), RetireResource(r), "OtherAck")
  <2>1. RetireResource(r) => LogMoves({})
    BY <1>1, <1>2, <1>8, RetireResourceStep, RetireResourceQuiet DEF Keeps, LogMoves
  <2> QED BY <1>8, <2>1, ControllerAnswered
<1>9. CASE /\ m.type = "DisconnectWorker"
           /\ Answered(k, state.workers[WorkerOf(m.agent)].boot = BootOf(m.agent),
                       MarkWorkerLost(WorkerOf(m.agent), BootOf(m.agent)), "OtherAck")
  <2>1. MarkWorkerLost(WorkerOf(m.agent), BootOf(m.agent)) => LogMoves({})
    BY <1>1, <1>2, <1>9, AgentParts, MarkWorkerLostStep, MarkWorkerLostQuiet DEF Keeps, LogMoves
  <2> QED BY <1>9, <2>1, ControllerAnswered
<1>10. CASE UNCHANGED state /\ Answers(k, "OtherAck", TRUE, << >>)
  BY <1>10, ControllerAnswers, NothingMoves DEF Orders
<1>11. CASE UNCHANGED state /\ Answers(k, "OtherAck", TRUE, <<[do |-> "requestShutdown"]>>)
  BY <1>11, ControllerAnswers, NothingMoves DEF Orders, RequestShutdown
<1> QED BY <1>3, <1>4, <1>5, <1>6, <1>7, <1>8, <1>9, <1>10, <1>11
        DEF HandleControllerFrame, HandleShutdown

(* What a delivery adds to the frames on their way. *)
Delivered(C, f) ==
    /\ IsTable(toClient')
    /\ \A c \in Client :
          /\ toClient'[c] \in Seq(ServerFrame)
          /\ Range(toClient'[c]) \subseteq Range(toClient[c]) \cup {f}
          /\ c \notin C \/ link[c] # "open" => toClient'[c] = toClient[c]
          /\ \A E : AtMostOne(toClient[c], E) /\ (f \in E => NoneIn(toClient[c], E)) =>
                AtMostOne(toClient'[c], E)

LEMMA DeliversFrame ==
    ASSUME NEW C, NEW f \in ServerFrame, Deliver(C, f),
           \A c \in Client : toClient[c] \in Seq(ServerFrame)
    PROVE  Delivered(C, f)
<1>1. /\ IsTable(toClient')
      /\ \A c \in Client : toClient'[c] \in {toClient[c], Append(toClient[c], f)}
      /\ \A c \in Client : c \notin C \/ link[c] # "open" => toClient'[c] = toClient[c]
  BY DEF Deliver, IsTable
<1>2. ASSUME NEW c \in Client
      PROVE  /\ toClient'[c] \in Seq(ServerFrame)
             /\ Range(toClient'[c]) \subseteq Range(toClient[c]) \cup {f}
             /\ \A E : AtMostOne(toClient[c], E) /\ (f \in E => NoneIn(toClient[c], E)) =>
                   AtMostOne(toClient'[c], E)
  <2>1. CASE toClient'[c] = toClient[c]
    BY <2>1
  <2>2. CASE toClient'[c] = Append(toClient[c], f)
    BY <2>2, LongerQueue DEF NoneIn
  <2> QED BY <1>1, <2>1, <2>2
<1> QED BY <1>1, <1>2 DEF Delivered

(* Replies, announcements and assignments are not mistaken for one another. *)
LEMMA FramesDiffer ==
    ASSUME NEW p
    PROVE  /\ Assign(p) \notin AckFrame /\ [type |-> "Shutdown"] \notin AckFrame
           /\ [type |-> "Shutdown"] # Assign(p)
           /\ \A q : Assign(p) = Assign(q) => p = q
           /\ \A q : Push(p) = Push(q) => p = q
           /\ Push(p) # RequestShutdown
<1>1. /\ Assign(p).type = "Assign" /\ [type |-> "Shutdown"].type = "Shutdown"
      /\ \A q : Assign(q).placement = q /\ Push(q).placement = q
      /\ Push(p).do = "push" /\ RequestShutdown.do = "requestShutdown"
      /\ \A f \in AckFrame : f.type \notin {"Assign", "Shutdown"}
  BY DEF Assign, AckFrame, Push, RequestShutdown
<1> QED BY <1>1

LEMMA ControllerDuties ==
    ASSUME NEW p \in PlacementId
    PROVE  /\ << >> \in Seq(Duty) /\ <<RequestShutdown>> \in Seq(Duty) /\ <<Push(p)>> \in Seq(Duty)
           /\ Range(<< >>) = {} /\ Range(<<RequestShutdown>>) = {RequestShutdown}
           /\ Range(<<Push(p)>>) = {Push(p)}
<1>1. RequestShutdown \in Duty /\ Push(p) \in Duty
  BY DEF Duty, RequestShutdown, Push
<1> QED BY <1>1, EmptyQueue, SingleQueue

LEMMA ControllerFrameStep ==
    ASSUME ClusterInv, NEW k \in Controller, HandleFrame(k)
    PROVE  ClusterInv'
<1> DEFINE m == Head(toServer[k])
           rest == Tail(toServer[k])
<1>1. /\ k \in Client /\ k \notin Agent /\ Tables /\ Local(k) /\ Typed(k) /\ Down(k) /\ Duties(k)
      /\ thread[k] = "serving" /\ owed[k] = << >> /\ toServer[k] # << >>
      /\ toServer' = [toServer EXCEPT ![k] = rest]
      /\ UNCHANGED <<client, link, thread, announced, peers, executions>> /\ UNCHANGED loopVars
      /\ HandleControllerFrame(k, m)
  BY ClusterAssumption DEF ClusterInv, Local, Client, HandleFrame
<1>2. rest \in Seq(ControllerFrame) /\ m \in ControllerFrame
  BY <1>1, TakenQueue DEF Typed, FramesOf
<1>3. Orders(k)
  BY <1>1, <1>2, ControllerFrameServed
<1> HIDE DEF m, rest
<1>4. LogMoves({}) /\ EngineMoves /\ FinishesProven /\ RunsKept
  BY <1>1, <1>3, LogMoved DEF Orders, RunsKept
<1>5. PICK ok \in BOOLEAN :
          \E next : /\ ControllerReplies(k, ok, next)
                    /\ \/ next = << >>
                       \/ next = <<RequestShutdown>>
                       \/ \E p \in Placements(state') \ Placements(state) : next = <<Push(p)>>
  <2>1. PICK ok \in BOOLEAN :
          \/ ControllerReplies(k, ok, << >>)
          \/ ControllerReplies(k, ok, <<RequestShutdown>>)
          \/ \E p \in Placements(state') \ Placements(state) : ControllerReplies(k, ok, <<Push(p)>>)
    BY <1>3 DEF Orders
  <2> QED BY <2>1
<1>6. PICK next : /\ ControllerReplies(k, ok, next)
                  /\ \/ next = << >>
                     \/ next = <<RequestShutdown>>
                     \/ \E p \in Placements(state') \ Placements(state) : next = <<Push(p)>>
  BY <1>5
<1> DEFINE f == [type |-> "OtherAck", ok |-> ok]
<1>7. f \in AckFrame /\ f \in ServerFrame
  BY DEF AckFrame, ServerFrame
<1>8. Deliver({k}, f) /\ owed' = [owed EXCEPT ![k] = next]
  BY <1>6 DEF ControllerReplies
<1> HIDE DEF f
<1>9. /\ IsTable(toServer') /\ toServer'[k] = rest
      /\ \A d \in Client : d # k => toServer'[d] = toServer[d]
  BY <1>1 DEF Tables, IsTable
<1>10. /\ IsTable(owed') /\ owed'[k] = next
      /\ \A d \in Client : d # k => owed'[d] = owed[d]
  BY <1>1, <1>8 DEF Tables, IsTable
<1>11. \A c \in Client : toClient[c] \in Seq(ServerFrame)
  BY DEF ClusterInv, Local, Typed
<1>12. Delivered({k}, f)
  BY <1>7, <1>8, <1>11, DeliversFrame
<1>13. \A d \in Client : d # k => SameProcess(d) /\ SameThread(d)
  BY <1>1, <1>9, <1>10, <1>12 DEF SameProcess, SameThread, Delivered
<1>14. ASSUME NEW d \in Client PROVE Local(d)'
  <2>1. CASE d # k
    <3>1. d \in Agent => Spares(state, state', d)
      BY <1>4, QuietSpares DEF LogMoves
    <3> QED BY <1>4, <1>13, <2>1, <3>1, LocalKept DEF ClusterInv
  <2>2. CASE d = k
    <3>1. next \in Seq(Duty)
      <4>1. CASE next = << >>
        BY <4>1, EmptyQueue
      <4>2. CASE next = <<RequestShutdown>>
        <5>1. RequestShutdown \in Duty
          BY DEF Duty, RequestShutdown
        <5> QED BY <4>2, <5>1, SingleQueue
      <4>3. CASE \E p \in Placements(state') \ Placements(state) : next = <<Push(p)>>
        <5>1. PICK p \in PlacementId : next = <<Push(p)>>
          BY <4>3 DEF Placements
        <5> QED BY <5>1, ControllerDuties
      <4> QED BY <1>6, <4>1, <4>2, <4>3
    <3>2. Typed(k)'
      BY <1>1, <1>2, <1>9, <1>10, <1>12, <3>1 DEF Typed, FramesOf, Delivered
    <3>3. Down(k)'
      BY <1>1 DEF Down
    <3>4. Duties(k)'
      BY <1>1, <1>6, <1>10 DEF Duties
    <3> QED BY <1>1, <2>2, <3>2, <3>3, <3>4 DEF Local
  <2> QED BY <2>1, <2>2
<1>15. Tables'
  BY <1>1, <1>9, <1>10, <1>12 DEF Tables, IsTable, Delivered
<1>16. \A p \in PlacementId, c \in Client :
          /\ Assign(p) \in Range(toClient'[c]) => Assign(p) \in Range(toClient[c])
          /\ AtMostOne(toClient[c], {Assign(p)}) => AtMostOne(toClient'[c], {Assign(p)})
  <2>1. ASSUME NEW p, NEW c \in Client
        PROVE  /\ Assign(p) \in Range(toClient'[c]) => Assign(p) \in Range(toClient[c])
               /\ AtMostOne(toClient[c], {Assign(p)}) => AtMostOne(toClient'[c], {Assign(p)})
    <3>1. f # Assign(p)
      BY <1>7, FramesDiffer
    <3> QED BY <1>12, <3>1 DEF Delivered
  <2> QED BY <2>1
<1>17. AtOnePlace'
  <2>1. \A q \in PlacementId, x \in Stage, c \in Client :
           At(x, c, q)' => At(x, c, q) \/ (x = "pushed" /\ c = k /\ Push(q) \in Range(next))
    BY <1>1, <1>10, <1>16 DEF At
  <2>2. PICK P, y : TokensMove(P, y, k)
    <3>1. CASE next \in {<< >>, <<RequestShutdown>>}
      <4>1. \A q \in PlacementId : Push(q) \notin Range(next)
        BY <3>1, ControllerDuties, FramesDiffer
      <4>2. TokensMove({}, "pushed", k)
        BY <2>1, <4>1 DEF TokensMove
      <4> QED BY <4>2
    <3>2. CASE \E p \in Placements(state') \ Placements(state) : next = <<Push(p)>>
      <4>1. PICK p \in Placements(state') \ Placements(state) : next = <<Push(p)>>
        BY <3>2
      <4>2. p \in PlacementId
        BY DEF Placements
      <4>3. \A q \in PlacementId : Push(q) \in Range(next) => q = p
        BY <4>1, <4>2, ControllerDuties, FramesDiffer
      <4>4. \A x \in Stage, c \in Client : ~ At(x, c, p)
        BY <4>1, <4>2 DEF ClusterInv, AtOnePlace
      <4>5. \A q \in PlacementId \ {p}, x \in Stage, c \in Client : At(x, c, q)' => At(x, c, q)
        BY <2>1, <4>3
      <4>6. \A x \in Stage, c \in Client : At(x, c, p)' => x = "pushed" /\ c = k
        BY <2>1, <4>2, <4>4
      <4>7. TokensMove({p}, "pushed", k)
        BY <4>1, <4>5, <4>6 DEF TokensMove
      <4> QED BY <4>7
    <3> QED BY <1>6, <3>1, <3>2
  <2>3. /\ executions' = [p \in PlacementId |-> executions'[p]]
        /\ \A p \in PlacementId : executions'[p] \in Seq(Agent) /\ Len(executions'[p]) <= 1
        /\ \A p \in PlacementId, c \in Client : AtMostOne(toClient'[c], {Assign(p)})
    BY <1>1, <1>16 DEF ClusterInv, AtOnePlace
  <2> QED BY <1>4, <2>2, <2>3, TokenMoves DEF ClusterInv
<1>18. Results'
  BY <1>4, ResultsKept DEF ClusterInv, FinishesProven
<1>19. Loop'
  BY <1>1, LoopKept DEF ClusterInv
<1> QED BY <1>4, <1>14, <1>15, <1>17, <1>18, <1>19 DEF ClusterInv, EngineMoves

-----------------------------------------------------------------------------
(***************************************************************************)
(* What threads and the accept loop do between the frames.                 *)
(***************************************************************************)
LEMMA ThreadActs ==
    ASSUME ClusterInv, UNCHANGED <<state, executions>>, Tables', AtOnePlace', Loop',
           \A d \in Client : Local(d)' \/ (SameThread(d) /\ SameProcess(d))
    PROVE  ClusterInv'
<1>1. /\ EngineMoves /\ FinishesOnly(state, state', {})
      /\ \A a : Spares(state, state', a)
  BY EngineStays
<1>2. RunsKept
  BY DEF RunsKept
<1>3. ASSUME NEW d \in Client PROVE Local(d)'
  <2>1. CASE SameThread(d) /\ SameProcess(d)
    BY <1>1, <1>2, <2>1, LocalKept DEF ClusterInv
  <2> QED BY <2>1
<1>4. Results'
  BY <1>1, <1>2, ResultsKept DEF ClusterInv
<1> QED BY <1>1, <1>3, <1>4 DEF ClusterInv, EngineMoves

(* The thread of an agent fills in the peer. *)
LEMMA AnnouncesStep ==
    ASSUME ClusterInv, NEW a \in Agent, NEW f \in AckFrame, owed[a] = <<Announce, Reply(f)>>,
           owed' = [owed EXCEPT ![a] = <<Reply(f)>>],
           announced' = [announced EXCEPT ![a] = TRUE],
           UNCHANGED <<state, client, link, toServer, toClient, thread, peers, executions>>,
           UNCHANGED loopVars
    PROVE  ClusterInv'
<1> DEFINE s == <<Reply(f)>>
<1>1. /\ a \in Client /\ Tables /\ Local(a) /\ Typed(a) /\ Down(a) /\ Duties(a) /\ Fenced(a)
      /\ Introduction(a) /\ Registration(a) /\ Assignments(a)
  BY DEF ClusterInv, Local, Client
<1>2. /\ s \in Seq(Duty) /\ s # << >> /\ Range(s) = {Reply(f)} /\ owed[a] # << >>
      /\ Range(owed[a]) = {Announce, Reply(f)} /\ owed' = [owed EXCEPT ![a] = s]
      /\ thread[a] = "serving"
  BY <1>1, OwedQueues DEF Duties
<1>3. s = <<Reply(f)>>
  OBVIOUS
<1> HIDE DEF s
<1>4. /\ IsTable(owed') /\ owed'[a] = s
      /\ \A d \in Client : d # a => owed'[d] = owed[d]
  BY <1>1, <1>2 DEF Tables, IsTable
<1>5. /\ IsTable(announced') /\ announced'[a] = TRUE
      /\ \A d \in Client : d # a => announced'[d] = announced[d]
  BY <1>1 DEF Tables, IsTable
<1>6. \A d \in Client : SameProcess(d) /\ (d # a => SameThread(d))
  BY <1>4, <1>5 DEF SameProcess, SameThread
<1>7. Typed(a)' /\ Down(a)'
  BY <1>1, <1>2, <1>4, <1>5 DEF Typed, Down, FramesOf
<1>8. Duties(a)'
  BY <1>1, <1>2, <1>3, <1>4, ClusterAssumption DEF Duties
<1>9. Fenced(a)'
  BY <1>1, <1>5 DEF Fenced
<1>10. Introduction(a)'
  BY <1>5 DEF Introduction, Introduced
<1>11. Assignments(a)'
  BY <1>1 DEF Assignments, Bound
<1>12. Registration(a)'
  <2>1. OneAtATime(a)'
    BY <1>1, <1>2, <1>4 DEF Registration, OneAtATime, Question, Chosen, Owned
  <2>2. \A r : Unheard(a, r)' <=> Unheard(a, r)
    BY DEF Unheard, Owned
  <2>3. Unsent(a)' = Unsent(a) /\ Chosen(a)' = Chosen(a)
    BY DEF Unsent, Chosen, Owned
  <2>4. \A q \in Range(toServer[a]) : ~ OfResource(q)
    BY <1>1, <1>2 DEF Registration
  <2> QED BY <1>1, <1>2, <1>4, <2>1, <2>2, <2>3, <2>4 DEF Registration, NoneIn
<1>13. \A d \in Client : Local(d)' \/ (SameThread(d) /\ SameProcess(d))
  BY <1>6, <1>7, <1>8, <1>9, <1>10, <1>11, <1>12 DEF Local
<1>14. Tables'
  BY <1>1, <1>4, <1>5 DEF Tables, IsTable
<1>15. AtOnePlace'
  <2>1. \A d \in Client : \A p : Push(p) \in Range(owed'[d]) => Push(p) \in Range(owed[d])
    BY <1>2, <1>4
  <2> QED BY <2>1, EngineStays, TokensStay DEF ClusterInv
<1>16. Loop'
  BY LoopKept DEF ClusterInv
<1> QED BY <1>13, <1>14, <1>15, <1>16, ThreadActs

(* The reply of a handler to an agent. *)
LEMMA RepliesStep ==
    ASSUME ClusterInv, NEW a \in Agent, NEW f \in AckFrame, owed[a] = <<Reply(f)>>,
           owed' = [owed EXCEPT ![a] = << >>], Deliver({a}, f),
           UNCHANGED <<state, client, link, toServer, thread, announced, peers, executions>>,
           UNCHANGED loopVars
    PROVE  ClusterInv'
<1>1. /\ a \in Client /\ Tables /\ Local(a) /\ Typed(a) /\ Down(a) /\ Duties(a) /\ Fenced(a)
      /\ Introduction(a) /\ Registration(a) /\ Assignments(a)
  BY DEF ClusterInv, Local, Client
<1>2. /\ owed[a] # << >> /\ Head(owed[a]) = Reply(f) /\ Reply(f) # Announce
      /\ Range(owed[a]) = {Reply(f)} /\ thread[a] = "serving" /\ f \in ServerFrame
  BY <1>1, OwedQueues DEF Duties
<1>3. /\ IsTable(owed') /\ owed'[a] = << >>
      /\ \A d \in Client : d # a => owed'[d] = owed[d]
  BY <1>1 DEF Tables, IsTable
<1>4. Delivered({a}, f)
  <2>1. \A c \in Client : toClient[c] \in Seq(ServerFrame)
    BY DEF ClusterInv, Local, Typed
  <2> QED BY <1>2, <2>1, DeliversFrame
<1>5. \A d \in Client : d # a => SameProcess(d) /\ SameThread(d)
  BY <1>3, <1>4 DEF SameProcess, SameThread, Delivered
<1>6. /\ Range(toClient'[a]) \subseteq Range(toClient[a]) \cup {f}
      /\ toClient'[a] \in Seq(ServerFrame)
      /\ link[a] # "open" => toClient'[a] = toClient[a]
      /\ NoneIn(toClient[a], AckFrame) => AtMostOne(toClient'[a], AckFrame)
      /\ \A E : AtMostOne(toClient[a], E) /\ (f \in E => NoneIn(toClient[a], E)) =>
             AtMostOne(toClient'[a], E)
  <2>1. \A E : NoneIn(toClient[a], E) => AtMostOne(toClient[a], E)
    BY DEF NoneIn, AtMostOne, Range
  <2> QED BY <1>1, <1>4, <2>1 DEF Delivered
<1>7. Typed(a)'
  BY <1>1, <1>3, <1>6, EmptyQueue DEF Typed, FramesOf
<1>8. Down(a)'
  BY <1>1, <1>6 DEF Down
<1>9. Duties(a)'
  BY <1>1, <1>3, ClusterAssumption DEF Duties
<1>10. Introduced(a)
  BY <1>1, <1>2 DEF Introduction, Announcing
<1>11. Fenced(a)'
  BY <1>1, <1>2, <1>10 DEF Fenced, Introduced
<1>12. Introduction(a)'
  BY <1>10 DEF Introduction, Introduced
<1>13. Assignments(a)'
  <2>1. f.type # "Assign"
    BY DEF AckFrame
  <2> QED BY <1>1, <1>6, <2>1 DEF Assignments, Bound
<1>14. Registration(a)'
  <2>1. client[a].pc \in Starting => /\ toServer[a] = << >> /\ NoneIn(toClient[a], AckFrame)
    BY <1>1, <1>2 DEF Registration, OneAtATime
  <2>2. OneAtATime(a)'
    BY <1>1, <1>3, <1>6, <2>1 DEF Registration, OneAtATime, Owned
  <2>3. \A r : Unheard(a, r)' <=> Unheard(a, r)
    BY DEF Unheard, Owned
  <2>4. Unsent(a)' = Unsent(a) /\ Chosen(a)' = Chosen(a)
    BY DEF Unsent, Chosen, Owned
  <2>5. \A q \in Range(toServer[a]) : ~ OfResource(q)
    BY <1>1, <1>2 DEF Registration
  <2>6. NoneIn(owed[a], {Reply(g) : g \in Refusal}) => f \notin Refusal
    BY <1>2 DEF NoneIn
  <2>7. NoneIn(owed'[a], {Reply(g) : g \in Refusal})
    BY <1>3, EmptyQueue DEF NoneIn
  <2>8. client[a].pc = "register" =>
           Unheard(a, Chosen(a)) \/ NoneIn(toClient'[a], Refusal)
    BY <1>1, <1>6, <2>6 DEF Registration, NoneIn
  <2> QED BY <1>1, <2>2, <2>3, <2>4, <2>5, <2>7, <2>8 DEF Registration
<1>15. \A d \in Client : Local(d)' \/ (SameThread(d) /\ SameProcess(d))
  BY <1>5, <1>7, <1>8, <1>9, <1>11, <1>12, <1>13, <1>14 DEF Local
<1>16. Tables'
  BY <1>1, <1>3, <1>4 DEF Tables, IsTable, Delivered
<1>17. AtOnePlace'
  <2>1. \A d \in Client : \A p : Push(p) \in Range(owed'[d]) => Push(p) \in Range(owed[d])
    BY <1>3, EmptyQueue
  <2>2. \A p : f # Assign(p)
    BY FramesDiffer
  <2>3. ASSUME NEW d \in Client, NEW p
        PROVE  /\ Assign(p) \in Range(toClient'[d]) => Assign(p) \in Range(toClient[d])
               /\ AtMostOne(toClient[d], {Assign(p)}) => AtMostOne(toClient'[d], {Assign(p)})
    BY <1>4, <2>2 DEF Delivered
  <2> QED BY <2>1, <2>3, EngineStays, TokensStay DEF ClusterInv
<1>18. Loop'
  BY LoopKept DEF ClusterInv
<1> QED BY <1>15, <1>16, <1>17, <1>18, ThreadActs

(* Only agents on connections with a peer get orders. *)
LEMMA WorkerPeersAreAgents ==
    ASSUME ClusterInv, NEW d \in WorkerPeers
    PROVE  d \in Client /\ d \in Agent /\ announced[d]
BY DEF ClusterInv, Loop, Serving, WorkerPeers, Local, Duties

(* An agent gets an order: an assignment, or to shut down. *)
LEMMA OrderReceived ==
    ASSUME ClusterInv, UNCHANGED <<state, client, link, toServer, executions>>,
           NEW f \in ServerFrame, f \notin AckFrame, NEW C, Delivered(C, f),
           NEW d \in Agent, announced[d], SameThread(d),
           f.type = "Assign" => Bound(f.placement, d)
    PROVE  Local(d)'
<1>1. /\ d \in Client /\ Local(d) /\ Typed(d) /\ Down(d) /\ Duties(d) /\ Fenced(d)
      /\ Introduction(d) /\ Registration(d) /\ Assignments(d)
  BY DEF ClusterInv, Local, Client
<1>2. /\ Range(toClient'[d]) \subseteq Range(toClient[d]) \cup {f}
      /\ toClient'[d] \in Seq(ServerFrame)
      /\ link[d] # "open" => toClient'[d] = toClient[d]
      /\ AtMostOne(toClient[d], AckFrame) => AtMostOne(toClient'[d], AckFrame)
  BY <1>1 DEF Delivered
<1>3. /\ thread'[d] = thread[d] /\ announced'[d] = announced[d] /\ owed'[d] = owed[d]
      /\ EngineMoves /\ Spares(state, state', d)
  BY EngineStays DEF SameThread
<1>4. Typed(d)' /\ Down(d)'
  BY <1>1, <1>2, <1>3 DEF Typed, FramesOf, Down
<1>5. Duties(d)' /\ Fenced(d)'
  BY <1>1, <1>3, DutiesKept, FencedKept
<1>6. Introduction(d)'
  BY <1>3 DEF Introduction, Introduced
<1>7. Assignments(d)'
  BY <1>1, <1>2 DEF Assignments, Bound
<1>8. Registration(d)'
  <2>1. \A E : E \subseteq AckFrame /\ NoneIn(toClient[d], E) => NoneIn(toClient'[d], E)
    BY <1>2 DEF NoneIn
  <2>2. Refusal \subseteq AckFrame
    BY DEF Refusal
  <2>3. OneAtATime(d)'
    BY <1>1, <1>2, <1>3, <2>1 DEF Registration, OneAtATime, Question, Chosen, Owned
  <2>4. \A r : Unheard(d, r)' <=> Unheard(d, r)
    BY DEF Unheard, Owned
  <2>5. Unsent(d)' = Unsent(d) /\ Chosen(d)' = Chosen(d)
    BY DEF Unsent, Chosen, Owned
  <2> QED BY <1>1, <1>3, <2>1, <2>2, <2>3, <2>4, <2>5 DEF Registration
<1> QED BY <1>4, <1>5, <1>6, <1>7, <1>8 DEF Local

(* The thread of a controller has done what it owed. *)
LEMMA ControllerDone ==
    ASSUME NEW k \in Controller, Local(k), SameProcess(k), owed'[k] = << >>,
           thread'[k] = thread[k], announced'[k] = announced[k]
    PROVE  Local(k)'
<1>1. k \notin Agent /\ Typed(k) /\ Down(k) /\ Duties(k)
  BY ClusterAssumption DEF Local
<1>2. Typed(k)' /\ Down(k)' /\ Duties(k)'
  BY <1>1, EmptyQueue DEF Typed, Down, Duties, SameProcess, FramesOf
<1> QED BY <1>1, <1>2 DEF Local

(* find_worker_peer finds at most one connection. *)
LEMMA OnePeer ==
    ASSUME ClusterInv, NEW w
    PROVE  /\ \A d \in FindWorkerPeer(w) : d \in WorkerPeers /\ WorkerOf(d) = w
           /\ \A d, e \in FindWorkerPeer(w) : d = e
<1> DEFINE of == {i \in DOMAIN peers : peers[i] \in WorkerPeers /\ WorkerOf(peers[i]) = w}
           first == {j \in of : \A k \in of : j <= k}
<1>1. \A i \in of : i \in Nat
  BY LenProperties DEF ClusterInv, Loop
<1>2. \A i, j \in first : i = j
  BY <1>1
<1>3. FindWorkerPeer(w) = {peers[i] : i \in first}
  BY DEF FindWorkerPeer
<1> QED BY <1>2, <1>3

(* The push of an assignment. *)
LEMMA PushStep ==
    ASSUME ClusterInv, NEW k \in Controller, NEW p \in Placements(state),
           owed[k] = <<Push(p)>>, owed' = [owed EXCEPT ![k] = << >>],
           Deliver(FindWorkerPeer(state.placements[p].worker), Assign(p)),
           UNCHANGED <<state, client, link, toServer, thread, announced, peers, executions>>,
           UNCHANGED loopVars
    PROVE  ClusterInv'
<1> DEFINE F == FindWorkerPeer(state.placements[p].worker)
           f == Assign(p)
<1>1. /\ k \in Client /\ k \notin Agent /\ Tables /\ Local(k) /\ p \in PlacementId
  BY ClusterAssumption DEF ClusterInv, Client, Placements
<1>2. /\ \A d \in F : /\ d \in Client /\ d \in Agent /\ announced[d]
                      /\ WorkerOf(d) = state.placements[p].worker
      /\ \A d, e \in F : d = e
  BY OnePeer, WorkerPeersAreAgents
<1>3. f \in ServerFrame /\ f \notin AckFrame /\ f.type = "Assign" /\ f.placement = p
  BY <1>1, FramesDiffer DEF ServerFrame, Assign
<1>4. /\ IsTable(owed') /\ owed'[k] = << >>
      /\ \A d \in Client : d # k => owed'[d] = owed[d]
  BY <1>1 DEF Tables, IsTable
<1>5. Deliver(F, f) /\ f = Assign(p)
  OBVIOUS
<1> HIDE DEF F, f
<1>6. Delivered(F, f)
  <2>1. \A c \in Client : toClient[c] \in Seq(ServerFrame)
    BY DEF ClusterInv, Local, Typed
  <2> QED BY <1>3, <1>5, <2>1, DeliversFrame
<1>7. /\ \A d \in Client : d # k => SameThread(d)
      /\ \A d \in Client : d \notin F => SameProcess(d)
  BY <1>4, <1>6 DEF SameProcess, SameThread, Delivered
<1>8. ASSUME NEW d \in Client PROVE Local(d)' \/ (SameThread(d) /\ SameProcess(d))
  <2>1. CASE d = k
    BY <1>1, <1>2, <1>4, <1>7, <2>1, ControllerDone
  <2>2. CASE d \in F
    <3>1. Bound(f.placement, d) /\ d # k /\ announced[d] /\ d \in Agent
      BY <1>1, <1>2, <1>3, <2>2 DEF Bound
    <3> QED BY <1>3, <1>6, <1>7, <3>1, OrderReceived
  <2> QED BY <1>7, <2>1, <2>2
<1>9. Tables'
  BY <1>1, <1>4, <1>6 DEF Tables, IsTable, Delivered
<1>10. AtOnePlace'
  <2>1. PICK d \in Client : \A e \in F : e = d
    <3>1. CASE F = {}
      BY <1>1, <3>1
    <3>2. CASE F # {}
      BY <1>2, <3>2
    <3> QED BY <3>1, <3>2
  <2>2. At("pushed", k, p)
    <3>1. Push(p) \in Range(owed[k])
      BY <1>1, ControllerDuties
    <3> QED BY <3>1 DEF At
  <2>3. \A x \in Stage, c \in Client : At(x, c, p) => x = "pushed" /\ c = k
    <3>1. "pushed" \in Stage
      BY DEF Stage
    <3> QED BY <1>1, <2>2, <3>1 DEF ClusterInv, AtOnePlace
  <2>4. \A c \in Client : \A q :
           /\ Push(q) \in Range(owed'[c]) => Push(q) \in Range(owed[c]) /\ c # k
           /\ Assign(q) \in Range(toClient'[c]) =>
                 Assign(q) \in Range(toClient[c]) \/ (q = p /\ c \in F)
    <3>1. \A q : Assign(q) = f => q = p
      BY <1>5, FramesDiffer
    <3> QED BY <1>4, <1>6, <3>1, EmptyQueue DEF Delivered
  <2>5. \A q \in PlacementId \ {p}, x \in Stage, c \in Client : At(x, c, q)' => At(x, c, q)
    BY <2>4 DEF At, Stage
  <2>6. \A x \in Stage, c \in Client : At(x, c, p)' => x = "sent" /\ c = d
    BY <2>1, <2>3, <2>4 DEF At, Stage
  <2>7. TokensMove({p}, "sent", d)
    BY <2>5, <2>6 DEF TokensMove
  <2>8. ASSUME NEW q \in PlacementId, NEW c \in Client
        PROVE  AtMostOne(toClient'[c], {Assign(q)})
    <3>1. f \in {Assign(q)} => NoneIn(toClient[c], {Assign(q)})
      <4>1. f \in {Assign(q)} => q = p
        BY <1>5, FramesDiffer
      <4>2. Assign(p) \notin Range(toClient[c])
        BY <2>3 DEF At, Stage
      <4> QED BY <4>1, <4>2 DEF NoneIn
    <3>2. AtMostOne(toClient[c], {Assign(q)})
      BY DEF ClusterInv, AtOnePlace
    <3> QED BY <1>6, <3>1, <3>2 DEF Delivered
  <2>9. /\ executions' = [q \in PlacementId |-> executions'[q]]
        /\ \A q \in PlacementId : executions'[q] \in Seq(Agent) /\ Len(executions'[q]) <= 1
    BY DEF ClusterInv, AtOnePlace
  <2> QED BY <2>7, <2>8, <2>9, EngineStays, TokenMoves DEF ClusterInv
<1>11. Loop'
  BY LoopKept DEF ClusterInv
<1> QED BY <1>8, <1>9, <1>10, <1>11, ThreadActs

(* The request to shut down goes to every worker, and wakes accept(). *)
LEMMA RequestShutdownStep ==
    ASSUME ClusterInv, NEW k \in Controller,
           owed[k] = <<RequestShutdown>>, owed' = [owed EXCEPT ![k] = << >>],
           Deliver(WorkerPeers, [type |-> "Shutdown"]), WakeUp, stopping' = TRUE,
           UNCHANGED <<state, client, link, toServer, thread, announced, peers, executions>>,
           UNCHANGED <<loop, overlooked>>
    PROVE  ClusterInv'
<1> DEFINE f == [type |-> "Shutdown"]
<1>1. /\ k \in Client /\ k \notin Agent /\ Tables /\ Local(k) /\ Loop
  BY ClusterAssumption DEF ClusterInv, Client
<1>2. \A d \in WorkerPeers : d \in Client /\ d \in Agent /\ announced[d]
  BY WorkerPeersAreAgents
<1>3. f \in ServerFrame /\ f \notin AckFrame /\ f.type # "Assign" /\ \A q : Assign(q) # f
  <2>1. f \in ServerFrame /\ f.type = "Shutdown" /\ \A q : Assign(q).type = "Assign"
    BY DEF ServerFrame, Assign
  <2>2. f \notin AckFrame
    BY FramesDiffer
  <2> QED BY <2>1, <2>2
<1>4. /\ IsTable(owed') /\ owed'[k] = << >>
      /\ \A d \in Client : d # k => owed'[d] = owed[d]
  BY <1>1 DEF Tables, IsTable
<1>5. Deliver(WorkerPeers, f)
  OBVIOUS
<1> HIDE DEF f
<1>6. Delivered(WorkerPeers, f)
  <2>1. \A c \in Client : toClient[c] \in Seq(ServerFrame)
    BY DEF ClusterInv, Local, Typed
  <2> QED BY <1>3, <1>5, <2>1, DeliversFrame
<1>7. /\ \A d \in Client : d # k => SameThread(d)
      /\ \A d \in Client : d \notin WorkerPeers => SameProcess(d)
  BY <1>4, <1>6 DEF SameProcess, SameThread, Delivered
<1>8. ASSUME NEW d \in Client PROVE Local(d)' \/ (SameThread(d) /\ SameProcess(d))
  <2>1. CASE d = k
    BY <1>1, <1>2, <1>4, <1>7, <2>1, ControllerDone
  <2>2. CASE d \in WorkerPeers
    <3>1. d # k /\ announced[d] /\ d \in Agent
      BY <1>1, <1>2, <2>2
    <3> QED BY <1>3, <1>6, <1>7, <3>1, OrderReceived
  <2> QED BY <1>7, <2>1, <2>2
<1>9. Tables'
  BY <1>1, <1>4, <1>6 DEF Tables, IsTable, Delivered
<1>10. AtOnePlace'
  <2>1. \A d \in Client : \A p : Push(p) \in Range(owed'[d]) => Push(p) \in Range(owed[d])
    BY <1>4, EmptyQueue
  <2>2. \A d \in Client : \A p :
           /\ Assign(p) \in Range(toClient'[d]) => Assign(p) \in Range(toClient[d])
           /\ AtMostOne(toClient[d], {Assign(p)}) => AtMostOne(toClient'[d], {Assign(p)})
    BY <1>3, <1>6 DEF Delivered
  <2> QED BY <2>1, <2>2, EngineStays, TokensStay DEF ClusterInv
<1>11. Loop'
  <2>1. backlog \in Seq(Client \cup {Wake}) /\ IsInjective(backlog)
    BY <1>1 DEF Loop
  <2>2. /\ backlog' \in Seq(Client \cup {Wake}) /\ IsInjective(backlog')
        /\ Range(backlog') \subseteq Range(backlog) \cup {Wake}
    <3>1. CASE backlog' = backlog
      BY <2>1, <3>1
    <3>2. CASE backlog' = Append(backlog, Wake) /\ ~ stopping
      <4>1. Wake \notin Range(backlog)
        BY <1>1, <3>2 DEF Loop
      <4> QED BY <2>1, <3>2, <4>1, LongerQueue
    <3> QED BY <3>1, <3>2 DEF WakeUp
  <2>3. Serving' = Serving
    BY DEF Serving
  <2> QED BY <1>1, <2>2, <2>3 DEF Loop
<1> QED BY <1>8, <1>9, <1>10, <1>11, ThreadActs

LEMMA DutyStep ==
    ASSUME ClusterInv, NEW c \in Client, DischargeDuty(c)
    PROVE  ClusterInv'
<1>1. Duties(c) /\ owed[c] # << >> /\ UNCHANGED <<state, client, link, toServer, thread, peers,
                                                  loop, executions, overlooked>>
  BY DEF ClusterInv, Local, DischargeDuty
<1>2. CASE \E f \in AckFrame : owed[c] = <<Reply(f)>> /\ c \in Agent
  <2>1. PICK f \in AckFrame : owed[c] = <<Reply(f)>> /\ c \in Agent
    BY <1>2
  <2>2. Head(owed[c]) = Reply(f) /\ Tail(owed[c]) = << >>
    BY <2>1, OwedQueues
  <2>3. Reply(f).do = "reply" /\ Reply(f).frame = f
    BY DEF Reply
  <2>4. /\ owed' = [owed EXCEPT ![c] = << >>] /\ Deliver({c}, f)
        /\ UNCHANGED <<announced, backlog, stopping>>
    BY <2>2, <2>3 DEF DischargeDuty
  <2> QED BY <1>1, <2>1, <2>4, RepliesStep DEF loopVars
<1>3. CASE \E f \in AckFrame : owed[c] = <<Announce, Reply(f)>> /\ c \in Agent
  <2>1. PICK f \in AckFrame : owed[c] = <<Announce, Reply(f)>> /\ c \in Agent
    BY <1>3
  <2>2. Head(owed[c]) = Announce /\ Tail(owed[c]) = <<Reply(f)>>
    BY <2>1, OwedQueues
  <2>3. Announce.do = "announce"
    BY DEF Announce
  <2>4. /\ owed' = [owed EXCEPT ![c] = <<Reply(f)>>] /\ announced' = [announced EXCEPT ![c] = TRUE]
        /\ UNCHANGED <<toClient, backlog, stopping>>
    BY <2>2, <2>3 DEF DischargeDuty
  <2> QED BY <1>1, <2>1, <2>4, AnnouncesStep DEF loopVars
<1>4. CASE \E p \in Placements(state) : owed[c] = <<Push(p)>> /\ c \in Controller
  <2>1. PICK p \in Placements(state) : owed[c] = <<Push(p)>> /\ c \in Controller
    BY <1>4
  <2>2. Head(owed[c]) = Push(p) /\ Tail(owed[c]) = << >>
    BY <2>1
  <2>3. Push(p).do = "push" /\ Push(p).placement = p
    BY DEF Push
  <2>4. /\ owed' = [owed EXCEPT ![c] = << >>]
        /\ Deliver(FindWorkerPeer(state.placements[p].worker), Assign(p))
        /\ UNCHANGED <<announced, backlog, stopping>>
    BY <2>2, <2>3 DEF DischargeDuty, Assign
  <2> QED BY <1>1, <2>1, <2>4, PushStep DEF loopVars
<1>5. CASE owed[c] = <<RequestShutdown>> /\ c \in Controller
  <2>1. Head(owed[c]) = RequestShutdown /\ Tail(owed[c]) = << >>
    BY <1>5
  <2>2. RequestShutdown.do = "requestShutdown"
    BY DEF RequestShutdown
  <2>3. /\ owed' = [owed EXCEPT ![c] = << >>]
        /\ Deliver(WorkerPeers, [type |-> "Shutdown"]) /\ WakeUp /\ stopping' = TRUE
        /\ UNCHANGED announced
    BY <2>1, <2>2 DEF DischargeDuty
  <2> QED BY <1>1, <1>5, <2>3, RequestShutdownStep
<1> QED BY <1>1, <1>2, <1>3, <1>4, <1>5 DEF Duties, Client

(* The thread of a connection is about to return, or has. *)
LEMMA ThreadLocal ==
    ASSUME EngineMoves, RunsKept, NEW c \in Client, Local(c), SameProcess(c),
           owed[c] = << >>, owed'[c] = << >>,
           \/ thread'[c] = "ending" /\ announced'[c] /\ c \in Agent /\ client[c].pc # "down"
           \/ thread'[c] = "ended" /\ announced'[c] = FALSE /\ client[c].pc # "down",
           announced'[c] \in BOOLEAN,
           c \in Agent => Spares(state, state', c) /\ HoldsNothing(state', c)
    PROVE  Local(c)'
<1>1. Typed(c)'
  BY EmptyQueue DEF Local, Typed, SameProcess, FramesOf
<1>2. Down(c)'
  BY DEF Down, SameProcess
<1>3. Duties(c)'
  BY DEF Local, Duties
<1>4. ASSUME c \in Agent PROVE Fenced(c)' /\ Introduction(c)' /\ Registration(c)' /\ Assignments(c)'
  <2>1. Fenced(c)'
    BY <1>4 DEF Fenced
  <2>2. Introduction(c)'
    BY DEF Introduction, Introduced
  <2>3. Registration(c)' /\ Assignments(c)'
    BY <1>4, RegistrationKept, AssignmentsKept DEF Local
  <2> QED BY <2>1, <2>2, <2>3
<1> QED BY <1>1, <1>2, <1>3, <1>4 DEF Local

(* A thread that returns takes its peer with it. *)
LEMMA PeerLeaves ==
    ASSUME Tables, Loop, NEW c \in Client, Returns(c), UNCHANGED client, UNCHANGED loopVars
    PROVE  /\ Loop' /\ c \in Serving /\ IsTable(thread') /\ thread'[c] = "ended"
           /\ \A d \in Client : d # c => thread'[d] = thread[d]
<1>1. /\ IsTable(thread') /\ thread'[c] = "ended"
      /\ \A d \in Client : d # c => thread'[d] = thread[d]
  BY DEF Returns, Tables, IsTable
<1>2. PICK i \in DOMAIN peers :
         peers[i] = c /\ peers' = SubSeq(peers, 1, i - 1) \o SubSeq(peers, i + 1, Len(peers))
  BY DEF Returns
<1>3. peers \in Seq(Client) /\ IsInjective(peers) /\ Range(peers) = Serving
  BY DEF Loop
<1>4. peers' \in Seq(Client) /\ IsInjective(peers') /\ Range(peers') = Range(peers) \ {c}
  BY <1>2, <1>3, RemovedQueue
<1>5. c \in Serving
  BY <1>2, <1>3 DEF Range
<1>6. Serving' = Serving \ {c}
  BY <1>1 DEF Serving
<1>7. \A d \in Range(backlog) \ {Wake} : d \in Client /\ d # c
  BY <1>5, QueueRange DEF Loop, Serving
<1>8. Loop'
  BY <1>1, <1>3, <1>4, <1>6, <1>7 DEF Loop, loopVars
<1> QED BY <1>1, <1>5, <1>8

(* What the end of a connection is to the engine. *)
LEMMA LossHandled ==
    ASSUME ClusterInv, NEW c \in Client, EndConnection(c)
    PROVE  /\ EngineMoves /\ FinishesOnly(state, state', {}) /\ Quiet(state, state')
           /\ c \in Agent => HoldsNothing(state', c)
<1>1. /\ Duties(c) /\ thread[c] = "serving" /\ owed[c] = << >>
      /\ c \in Agent => Fenced(c)
      /\ Inv(state) /\ NeverRegistered(state)
  BY DEF ClusterInv, Local, EndConnection
<1>2. announced[c] => c \in Agent
  BY <1>1 DEF Duties
<1>3. CASE announced[c] /\ MarkWorkerLost(WorkerOf(c), BootOf(c))
  <2>1. /\ Quiet(state, state') /\ FinishesOnly(state, state', {}) /\ HoldsNothing(state', c)
    BY <1>1, <1>2, <1>3, MarkWorkerLostQuiet
  <2>2. Inv(state') /\ LogKept(state, state')
    BY <1>1, <1>2, <1>3, AgentParts, MarkWorkerLostStep DEF Keeps
  <2> QED BY <1>1, <2>1, <2>2 DEF EngineMoves, Quiet
<1>4. CASE /\ announced[c] => state.workers[WorkerOf(c)].boot # BootOf(c)
           /\ UNCHANGED state
  <2>1. EngineMoves /\ FinishesOnly(state, state', {})
    BY <1>4, EngineStays
  <2>2. Quiet(state, state')
    BY <1>4 DEF Quiet
  <2>3. c \in Agent => ~ Recorded(state, c)
    BY <1>1, <1>4 DEF Fenced, Announcing, Recorded
  <2> QED BY <1>1, <1>4, <2>1, <2>2, <2>3 DEF Fenced
<1> QED BY <1>3, <1>4 DEF EndConnection

(* A connection ends, and with it what its worker holds. *)
LEMMA EndConnectionStep ==
    ASSUME ClusterInv, NEW c \in Client, EndConnection(c)
    PROVE  ClusterInv'
<1>1. /\ Tables /\ Local(c) /\ Loop /\ Duties(c) /\ Down(c)
      /\ thread[c] = "serving" /\ owed[c] = << >>
      /\ UNCHANGED <<client, link, toServer, toClient, announced, owed, executions>>
      /\ UNCHANGED loopVars
  BY DEF ClusterInv, Local, EndConnection
<1>2. /\ EngineMoves /\ FinishesOnly(state, state', {}) /\ Quiet(state, state')
      /\ c \in Agent => HoldsNothing(state', c)
  BY LossHandled
<1>3. /\ Loop' /\ IsTable(thread')
      /\ thread'[c] = IF announced[c] THEN "ending" ELSE "ended"
      /\ \A d \in Client : d # c => thread'[d] = thread[d]
  <2>1. CASE announced[c]
    <3>1. /\ thread' = [thread EXCEPT ![c] = "ending"] /\ UNCHANGED peers
      BY <2>1 DEF EndConnection
    <3>2. /\ IsTable(thread') /\ thread'[c] = "ending"
          /\ \A d \in Client : d # c => thread'[d] = thread[d]
      BY <1>1, <3>1 DEF Tables, IsTable
    <3>3. Serving' = Serving
      BY <1>1, <3>2 DEF Serving
    <3>4. \A d \in Range(backlog) \ {Wake} : d \in Client /\ d # c
      BY <1>1, QueueRange DEF Loop
    <3>5. Loop'
      BY <1>1, <3>1, <3>2, <3>3, <3>4 DEF Loop, loopVars
    <3> QED BY <2>1, <3>2, <3>5
  <2>2. CASE ~ announced[c]
    BY <1>1, <2>2, PeerLeaves DEF EndConnection
  <2> QED BY <2>1, <2>2
<1>4. RunsKept
  BY <1>1 DEF RunsKept
<1>5. ASSUME NEW d \in Client PROVE Local(d)'
  <2>1. d \in Agent => Spares(state, state', d)
    BY <1>2, QuietSpares
  <2>2. SameProcess(d)
    BY <1>1 DEF SameProcess
  <2>3. CASE d # c
    <3>1. SameThread(d)
      BY <1>1, <1>3, <2>3 DEF SameThread
    <3> QED BY <1>2, <1>4, <2>1, <2>2, <3>1, LocalKept DEF ClusterInv
  <2>4. CASE d = c
    <3>1. /\ announced'[c] = announced[c] /\ announced[c] \in BOOLEAN /\ client[c].pc # "down"
          /\ announced[c] => c \in Agent
      BY <1>1 DEF Local, Typed, Down, Duties
    <3> QED BY <1>1, <1>2, <1>3, <1>4, <2>1, <2>2, <2>4, <3>1, ThreadLocal
  <2> QED BY <2>3, <2>4
<1>6. Tables'
  BY <1>1, <1>3 DEF Tables, IsTable
<1>7. AtOnePlace'
  BY <1>1, <1>2, TokensStay DEF ClusterInv
<1>8. Results'
  BY <1>2, <1>4, ResultsKept DEF ClusterInv
<1> QED BY <1>2, <1>3, <1>5, <1>6, <1>7, <1>8 DEF ClusterInv, EngineMoves

LEMMA ReturnThreadStep ==
    ASSUME ClusterInv, NEW c \in Client, ReturnThread(c)
    PROVE  ClusterInv'
<1>1. /\ Tables /\ Local(c) /\ Loop /\ Duties(c) /\ Down(c) /\ (c \in Agent => Fenced(c))
      /\ thread[c] = "ending" /\ Returns(c)
      /\ announced' = [announced EXCEPT ![c] = FALSE]
      /\ UNCHANGED <<state, client, link, toServer, toClient, owed, executions>>
      /\ UNCHANGED loopVars
  BY DEF ClusterInv, Local, ReturnThread
<1>2. /\ Loop' /\ IsTable(thread') /\ thread'[c] = "ended"
      /\ \A d \in Client : d # c => thread'[d] = thread[d]
  BY <1>1, PeerLeaves
<1>3. /\ IsTable(announced') /\ announced'[c] = FALSE
      /\ \A d \in Client : d # c => announced'[d] = announced[d]
  BY <1>1 DEF Tables, IsTable
<1>4. EngineMoves /\ RunsKept /\ \A a : Spares(state, state', a)
  BY <1>1, EngineStays DEF RunsKept
<1>5. ASSUME NEW d \in Client PROVE Local(d)' \/ (SameThread(d) /\ SameProcess(d))
  <2>1. SameProcess(d) /\ owed'[d] = owed[d]
    BY <1>1 DEF SameProcess
  <2>2. CASE d # c
    BY <1>2, <1>3, <2>1, <2>2 DEF SameThread
  <2>3. CASE d = c
    <3>1. owed[c] = << >> /\ client[c].pc # "down"
      BY <1>1 DEF Duties, Down
    <3>2. c \in Agent => HoldsNothing(state', c)
      BY <1>1 DEF Fenced
    <3> QED BY <1>1, <1>2, <1>3, <1>4, <2>1, <2>3, <3>1, <3>2, ThreadLocal
  <2> QED BY <2>2, <2>3
<1>6. Tables'
  BY <1>1, <1>2, <1>3 DEF Tables, IsTable
<1>7. AtOnePlace'
  BY <1>1, <1>4, TokensStay DEF ClusterInv
<1> QED BY <1>1, <1>2, <1>5, <1>6, <1>7, ThreadActs

(* A connection gets its thread and its peer. *)
LEMMA AcceptConnectionStep ==
    ASSUME ClusterInv, AcceptConnection
    PROVE  ClusterInv'
<1>1. PICK c : c = Head(backlog)
  OBVIOUS
<1>2. /\ Tables /\ Loop /\ backlog # << >> /\ backlog' = Tail(backlog)
      /\ UNCHANGED <<state, client, link, toServer, toClient, announced, owed, stopping,
                     executions, overlooked>>
      /\ loop' \in {"accepting", "closing"}
      /\ \/ c = Wake /\ UNCHANGED <<thread, peers>>
         \/ c # Wake /\ thread' = [thread EXCEPT ![c] = "serving"] /\ peers' = Append(peers, c)
  BY <1>1 DEF ClusterInv, AcceptConnection
<1>3. /\ c \in Client \cup {Wake} /\ c \in Range(backlog)
      /\ backlog' \in Seq(Client \cup {Wake}) /\ IsInjective(backlog')
      /\ Range(backlog') \subseteq Range(backlog) /\ c \notin Range(backlog')
  BY <1>1, <1>2, TakenQueue DEF Loop
<1>4. EngineMoves /\ RunsKept /\ \A a : Spares(state, state', a)
  BY <1>2, EngineStays DEF RunsKept
<1>5. AtOnePlace'
  BY <1>2, <1>4, TokensStay DEF ClusterInv
<1>6. \A d \in Client : SameProcess(d) /\ announced'[d] = announced[d] /\ owed'[d] = owed[d]
  BY <1>2 DEF SameProcess
<1>7. CASE c = Wake /\ UNCHANGED <<thread, peers>>
  <2>1. \A d \in Client : SameThread(d)
    BY <1>6, <1>7 DEF SameThread
  <2>2. Tables'
    BY <1>2, <1>7 DEF Tables, IsTable
  <2>3. Serving' = Serving
    BY <1>7 DEF Serving
  <2>4. Loop'
    BY <1>2, <1>3, <1>7, <2>3 DEF Loop
  <2> QED BY <1>2, <1>5, <1>6, <2>1, <2>2, <2>4, ThreadActs
<1>8. CASE c # Wake /\ thread' = [thread EXCEPT ![c] = "serving"] /\ peers' = Append(peers, c)
  <2>1. /\ c \in Client /\ thread[c] = "none" /\ client[c].pc # "down"
        /\ Local(c)
    BY <1>2, <1>3, <1>8 DEF Loop, ClusterInv
  <2>2. /\ IsTable(thread') /\ thread'[c] = "serving"
        /\ \A d \in Client : d # c => thread'[d] = thread[d]
    BY <1>2, <1>8, <2>1 DEF Tables, IsTable
  <2>3. \A d \in Client : d # c => SameThread(d)
    BY <1>6, <2>2 DEF SameThread
  <2>4. owed[c] = << >> /\ announced[c] = FALSE
    BY <2>1 DEF Local, Typed, Duties
  <2>5. Typed(c)' /\ Down(c)' /\ Duties(c)'
    BY <1>2, <2>1, <2>2, <2>4 DEF Local, Typed, FramesOf, Down, Duties
  <2>6. ASSUME c \in Agent
        PROVE  Fenced(c)' /\ Introduction(c)' /\ Registration(c)' /\ Assignments(c)'
    <3>1. Fenced(c)'
      BY <1>2, <2>1, <2>2, <2>4, <2>6 DEF Local, Fenced, Announcing
    <3>2. Introduction(c)'
      BY <1>2, <2>1, <2>2, <2>6 DEF Local, Introduction, Introduced, Announcing
    <3>3. Registration(c)' /\ Assignments(c)'
      BY <1>4, <1>6, <2>1, <2>6, RegistrationKept, AssignmentsKept DEF Local
    <3> QED BY <3>1, <3>2, <3>3
  <2>7. \A d \in Client : Local(d)' \/ (SameThread(d) /\ SameProcess(d))
    BY <1>6, <2>3, <2>5, <2>6 DEF Local
  <2>8. Tables'
    BY <1>2, <2>2 DEF Tables, IsTable
  <2>9. Loop'
    <3>1. c \notin Serving /\ Serving' = Serving \cup {c}
      BY <2>1, <2>2 DEF Serving
    <3>2. peers' \in Seq(Client) /\ IsInjective(peers') /\ Range(peers') = Range(peers) \cup {c}
      BY <1>2, <1>8, <2>1, <3>1, LongerQueue DEF Loop
    <3>3. \A d \in Range(backlog') \ {Wake} : d \in Client /\ d # c
      BY <1>3, QueueRange
    <3> QED BY <1>2, <1>3, <2>2, <3>1, <3>2, <3>3 DEF Loop
  <2> QED BY <1>2, <1>5, <2>7, <2>8, <2>9, ThreadActs
<1> QED BY <1>2, <1>7, <1>8

(* The connections that the coordinator closes. *)
LEMMA CloseConnectionsStep ==
    ASSUME ClusterInv, CloseConnections
    PROVE  ClusterInv'
<1> DEFINE closed == {c \in Range(backlog) \cup WorkerPeers : c \in Client /\ link[c] = "open"}
<1>1. /\ Tables /\ Loop /\ backlog' = << >> /\ loop' = "joining"
      /\ UNCHANGED <<state, client, toClient, thread, announced, owed, peers, stopping,
                     executions>>
      /\ link' = [c \in Client |-> IF c \in closed THEN "shut" ELSE link[c]]
      /\ toServer' = [c \in Client |-> IF c \in closed THEN << >> ELSE toServer[c]]
      /\ overlooked' \subseteq Agent
  BY DEF ClusterInv, CloseConnections
<1>2. \A c \in closed : c \in Client /\ link[c] = "open"
  OBVIOUS
<1> HIDE DEF closed
<1>3. EngineMoves /\ RunsKept /\ \A a : Spares(state, state', a)
  BY <1>1, EngineStays DEF RunsKept
<1>4. Tables'
  BY <1>1 DEF Tables, IsTable
<1>5. ASSUME NEW c \in Client PROVE Local(c)' \/ (SameThread(c) /\ SameProcess(c))
  <2>1. Local(c) /\ Typed(c) /\ Down(c) /\ SameThread(c)
    BY <1>1 DEF ClusterInv, Local, SameThread
  <2>2. CASE c \notin closed
    BY <1>1, <2>1, <2>2 DEF SameProcess
  <2>3. CASE c \in closed
    <3>1. link'[c] = "shut" /\ toServer'[c] = << >> /\ client[c].pc # "down"
      BY <1>1, <1>2, <2>1, <2>3 DEF Down
    <3>2. Typed(c)' /\ Down(c)'
      BY <1>1, <2>1, <3>1, EmptyQueue DEF Typed, FramesOf, Down
    <3>3. Duties(c)' /\ (c \in Agent => Fenced(c)')
      BY <1>3, <2>1, DutiesKept, FencedKept DEF Local
    <3>4. ASSUME c \in Agent PROVE Introduction(c)' /\ Registration(c)' /\ Assignments(c)'
      <4>1. Introduction(c) /\ Registration(c) /\ Assignments(c)
        BY <2>1, <3>4 DEF Local
      <4>2. Introduction(c)'
        BY <1>1, <3>1, <4>1, EmptyQueue DEF Introduction, Introduced, Announcing
      <4>3. Assignments(c)'
        BY <1>1, <3>1, <4>1, EmptyQueue DEF Assignments, Bound
      <4>4. OneAtATime(c)'
        BY <1>1, <3>1, <4>1 DEF Registration, OneAtATime, Owned
      <4>5. \A r : Unheard(c, r)' <=> Unheard(c, r)
        BY <1>1 DEF Unheard, Owned
      <4>6. Unsent(c)' = Unsent(c) /\ Chosen(c)' = Chosen(c)
        BY <1>1 DEF Unsent, Chosen, Owned
      <4>7. Range(toServer'[c]) = {}
        BY <3>1, EmptyQueue
      <4> QED BY <1>1, <4>1, <4>2, <4>3, <4>4, <4>5, <4>6, <4>7 DEF Registration
    <3> QED BY <3>2, <3>3, <3>4 DEF Local
  <2> QED BY <2>2, <2>3
<1>6. AtOnePlace'
  BY <1>1, <1>3, TokensStay DEF ClusterInv
<1>7. Loop'
  <2>1. Serving' = Serving
    BY <1>1 DEF Serving
  <2> QED BY <1>1, <2>1, EmptyQueue DEF Loop
<1> QED BY <1>1, <1>4, <1>5, <1>6, <1>7, ThreadActs

(* Only loop changes, or nothing does. *)
LEMMA WaitsStep ==
    ASSUME ClusterInv, JoinThreads \/ UNCHANGED clusterVars
    PROVE  ClusterInv'
<1>1. /\ UNCHANGED <<state, client, link, toServer, toClient, thread, announced, owed, peers,
                     backlog, stopping, executions, overlooked>>
      /\ loop' \in {loop, "stopped"}
  BY DEF JoinThreads, clusterVars
<1>2. \A d \in Client : SameThread(d) /\ SameProcess(d)
  BY <1>1 DEF SameThread, SameProcess
<1>3. Tables'
  BY <1>1 DEF Tables, ClusterInv, IsTable
<1>4. AtOnePlace'
  BY <1>1, EngineStays, TokensStay DEF ClusterInv
<1>5. Loop'
  <2>1. Serving' = Serving
    BY <1>1 DEF Serving
  <2> QED BY <1>1, <2>1 DEF Loop, ClusterInv
<1> QED BY <1>1, <1>2, <1>3, <1>4, <1>5, ThreadActs

-----------------------------------------------------------------------------
(***************************************************************************)
(* The invariant and what follows from it.                                 *)
(***************************************************************************)
LEMMA ClusterInitInv ==
    ASSUME ClusterInit PROVE ClusterInv
<1>1. Inv(state) /\ state = EmptyState
  BY InitInv DEF ClusterInit, Init
<1>2. /\ \A w \in Worker : state.workers[w].boot = NoBoot
      /\ \A r \in Resource : /\ state.resources[r].boot = NoBoot
                             /\ state.resources[r].lifecycle = "Absent"
      /\ \A p \in PlacementId : state.placements[p] = Absent
  BY <1>1 DEF EmptyState, UnknownWorker, UnregisteredResource
<1>3. Placements(state) = {} /\ Live(state) = {}
  BY <1>2 DEF Placements, Live, LiveStates, Absent
<1>4. NeverRegistered(state) /\ Results
  BY <1>2, <1>3 DEF NeverRegistered, Results
<1>5. \A a \in Agent : /\ WorkerOf(a) \in Worker /\ BootOf(a) \in Boot /\ BootOf(a) # NoBoot
                       /\ HoldsNothing(state, a) /\ ~ Recorded(state, a)
                       /\ \A r \in Owned(a) : Unheard(a, r)
  <2>1. \A a \in Agent : WorkerOf(a) \in Worker /\ BootOf(a) \in Boot /\ BootOf(a) # NoBoot
    BY AgentParts, ConstantsAssumption DEF Boot, NoBoot
  <2> QED BY <1>2, <1>3, <2>1 DEF HoldsNothing, Recorded, Unheard, Owned
<1> DEFINE down == [pc |-> "down", todo |-> {}, job |-> NoPlacement, calls |-> 0]
<1>6. down \in ClientProcess /\ down.pc = "down" /\ down.calls = 0
  <2>1. Len(Session) \in Nat
    BY ClusterAssumption, LenProperties
  <2> QED BY <2>1 DEF ClientProcess
<1>7. client = [c \in Client |-> down]
  BY DEF ClusterInit
<1> HIDE DEF down
<1>8. Tables
  BY <1>7 DEF ClusterInit, Tables, IsTable
<1>9. ASSUME NEW c \in Client
      PROVE  /\ client[c] = down /\ link[c] = "unused" /\ toServer[c] = << >>
             /\ toClient[c] = << >> /\ thread[c] = "none" /\ announced[c] = FALSE
             /\ owed[c] = << >>
  BY <1>7 DEF ClusterInit
<1>10. ASSUME NEW c \in Client PROVE Local(c)
  <2>1. Typed(c) /\ Down(c) /\ Duties(c)
    BY <1>6, <1>9, EmptyQueue DEF Typed, Down, Duties
  <2>2. ASSUME c \in Agent PROVE Fenced(c) /\ Introduction(c) /\ Registration(c) /\ Assignments(c)
    <3>1. Fenced(c)
      BY <1>5, <2>2 DEF Fenced
    <3>2. Introduction(c) /\ Assignments(c)
      BY <1>6, <1>9, EmptyQueue DEF Introduction, Assignments
    <3>3. Unsent(c) = Owned(c)
      BY <1>6, <1>9 DEF Unsent
    <3>4. Registration(c)
      BY <1>5, <1>6, <1>9, <2>2, <3>3, EmptyQueue DEF Registration, OneAtATime, Starting
    <3> QED BY <3>1, <3>2, <3>4
  <2> QED BY <2>1, <2>2 DEF Local
<1>11. AtOnePlace
  <2>1. \A p \in PlacementId : executions[p] = << >>
    BY DEF ClusterInit
  <2>2. \A p \in PlacementId, x \in Stage, c \in Client : ~ At(x, c, p)
    BY <1>6, <1>9, <2>1, EmptyQueue DEF At
  <2>3. executions = [p \in PlacementId |-> executions[p]]
    BY DEF ClusterInit
  <2>4. \A p \in PlacementId : executions[p] \in Seq(Agent) /\ Len(executions[p]) <= 1
    <3>1. << >> \in Seq(Agent) /\ Len(<< >>) = 0
      OBVIOUS
    <3>2. \A e : e = << >> => e \in Seq(Agent) /\ Len(e) <= 1
      BY <3>1
    <3> QED BY <2>1, <3>2
  <2> QED BY <1>9, <2>2, <2>3, <2>4, EmptyQueue DEF AtOnePlace
<1>12. Loop
  <2>1. Serving = {}
    BY <1>9 DEF Serving
  <2> QED BY <2>1, EmptyQueue DEF ClusterInit, Loop
<1> QED BY <1>1, <1>4, <1>8, <1>10, <1>11, <1>12 DEF ClusterInv

LEMMA ClusterStep ==
    ASSUME ClusterInv, [ClusterNext]_clusterVars
    PROVE  ClusterInv'
<1>1. CASE RunStep
  BY <1>1, AcceptConnectionStep, CloseConnectionsStep, WaitsStep DEF RunStep
<1>2. CASE \E a \in Agent : AgentStep(a)
  <2>1. PICK a \in Agent : AgentStep(a)
    BY <1>2
  <2>2. CASE AgentDisconnected(a)
    BY <2>2, LeavesInOrderStep DEF AgentDisconnected, Client
  <2> QED BY <2>1, <2>2, AgentStartsStep, AgentServesStep, AgentHandlesAssignmentStep
          DEF AgentStep
<1>3. CASE \E k \in Controller : ControllerLeaves(k)
  <2>1. PICK k \in Controller : ControllerLeaves(k)
    BY <1>3
  <2> QED BY <2>1, LeavesInOrderStep DEF ControllerLeaves, Client
<1>4. CASE \E c \in Client : ServerStep(c)
  <2>1. PICK c \in Client : ServerStep(c)
    BY <1>4
  <2>2. CASE HandleFrame(c)
    BY <2>2, AgentFrameStep, ControllerFrameStep DEF Client
  <2> QED BY <2>1, <2>2, DutyStep, ReturnThreadStep, EndConnectionStep DEF ServerStep
<1>5. CASE Environment
  BY <1>5, AgentConnectsStep, AgentKilledStep, ControllerConnectsStep, ControllerCallsStep
     DEF Environment
<1>6. CASE UNCHANGED clusterVars
  BY <1>6, WaitsStep
<1> QED BY <1>1, <1>2, <1>3, <1>4, <1>5, <1>6 DEF ClusterNext, Progress

(* The inductive invariant of the cluster holds in every reachable state. *)
THEOREM ClusterInvariant == ClusterSpec => []ClusterInv
<1>1. ClusterInit => ClusterInv
  BY ClusterInitInv
<1>2. ClusterInv /\ [ClusterNext]_clusterVars => ClusterInv'
  BY ClusterStep
<1> QED BY <1>1, <1>2, PTL DEF ClusterSpec

(* Every frame, duty, connection and history has its type, and the peers   *)
(* are at any time exactly the connections whose threads have not returned. *)
THEOREM ClusterTypeCorrect == ClusterSpec => []ClusterTypeOK
<1>1. ASSUME ClusterInv PROVE ClusterTypeOK
  <2>1. Tables /\ (\A c \in Client : Typed(c)) /\ Loop /\ AtOnePlace /\ TypeOK
    BY <1>1 DEF ClusterInv, Local, Inv, TypeOK
  <2>2. \A k \in Controller : k \in Client /\ k \notin Agent
    BY ClusterAssumption DEF Client
  <2>3. \A a \in Agent : a \in Client
    BY DEF Client
  <2>4. /\ \A a \in Agent : toServer[a] \in Seq(AgentFrame)
        /\ \A k \in Controller : toServer[k] \in Seq(ControllerFrame)
    BY <2>1, <2>2, <2>3 DEF Typed, FramesOf
  <2>5. /\ client \in [Client -> ClientProcess]
        /\ link \in [Client -> {"unused", "open", "left", "shut"}]
        /\ thread \in [Client -> {"none", "serving", "ending", "ended"}]
        /\ announced \in [Client -> BOOLEAN]
    BY <2>1 DEF Tables, IsTable, Typed
  <2>6. /\ \A c \in Client : toClient[c] \in Seq(ServerFrame) /\ owed[c] \in Seq(Duty)
        /\ \A p \in PlacementId : executions[p] \in Seq(Agent)
    BY <2>1 DEF Typed, AtOnePlace
  <2> QED BY <2>1, <2>4, <2>5, <2>6 DEF ClusterTypeOK, Loop, Serving
<1> QED BY <1>1, ClusterInvariant, PTL

(* When the thread of a worker's connection has ended, no live placement   *)
(* is bound to that incarnation and none of its resources is               *)
(* authoritative, whatever other threads, incarnations and controllers do. *)
THEOREM EndedConnectionsHoldNothing == ClusterSpec => []EndedConnectionHoldsNothing
<1>1. ASSUME ClusterInv PROVE EndedConnectionHoldsNothing
  <2>1. \A a \in Agent : thread[a] = "ended" => HoldsNothing(state, a)
    BY <1>1 DEF ClusterInv, Local, Fenced, Client
  <2> QED BY <2>1 DEF EndedConnectionHoldsNothing, HoldsNothing
<1> QED BY <1>1, ClusterInvariant, PTL

(* Every result that the engine accepted is that of a run by the very      *)
(* incarnation the placement is bound to.                                  *)
THEOREM ResultsAreOfTheBoundWorker == ClusterSpec => []ResultsComeFromTheBoundWorker
<1>1. ASSUME ClusterInv PROVE ResultsComeFromTheBoundWorker
  BY <1>1 DEF ClusterInv, Results, Finished, Proven, ResultsComeFromTheBoundWorker
<1> QED BY <1>1, ClusterInvariant, PTL

(* No placement is executed twice, for any number of workers, incarnations *)
(* and controllers, and whatever is lost when processes are killed.        *)
THEOREM NothingIsExecutedTwice == ClusterSpec => []ExecutedAtMostOnce
<1>1. ASSUME ClusterInv PROVE ExecutedAtMostOnce
  BY <1>1 DEF ClusterInv, AtOnePlace, ExecutedAtMostOnce
<1> QED BY <1>1, ClusterInvariant, PTL
-----------------------------------------------------------------------------
(***************************************************************************)
(* The engine of the cluster does what SchedulerEngine says: every step of *)
(* the cluster is one operation of it, or leaves its state alone.  So what *)
(* is proved of the engine holds in the cluster, its action properties and *)
(* the leases it implements included.                                      *)
(***************************************************************************)
EngineOperation ==
    \/ ResourceOperation
    \/ WorkerOperation
    \/ \E q \in Request : SubmitRequest(q) \/ CancelRequest(q)
    \/ PlacementOperation

(* The coordinator serves under an epoch, and successors come later in the log. *)
EngineServes == ClusterInv /\ Sound(state) /\ state.epoch \in 1 .. MaxEpoch

(* With late traffic, every boot of an agent may be heard at any time. *)
LEMMA EveryBootIsHeard ==
    ASSUME ~ OrderedWorkers, NEW a \in Agent
    PROVE  /\ WorkerOf(a) \in Worker /\ BootOf(a) \in Deliverable(state, WorkerOf(a))
           /\ \A r \in Owned(a) : BootOf(a) \in BootsOf(state, r)
<1>1. WorkerOf(a) \in Worker /\ BootOf(a) \in Boot
  BY AgentParts
<1>2. WorkerOf(a) # NoWorker
  BY <1>1, ConstantsAssumption
<1> QED BY <1>1, <1>2 DEF Deliverable, BootsOf, Owned

(* The envelope of a placement, and what a controller presents, are credentials. *)
LEMMA CredentialsPresented ==
    ASSUME EngineServes
    PROVE  /\ ControllerCredential \in Credential
           /\ \A p \in PlacementId : Known(p, EnvelopeCredential(p)) =>
                 /\ EnvelopeCredential(p) \in Credential
                 /\ state.placements[p].boot \in Boot \cup {NoBoot}
<1>1. MaxPlacements \in Nat
  BY ConstantsAssumption
<1>2. ControllerCredential \in Credential
  BY <1>1 DEF ControllerCredential, Credential, EngineServes, AnyGeneration
<1>3. ASSUME NEW p \in PlacementId, Known(p, EnvelopeCredential(p))
      PROVE  /\ EnvelopeCredential(p) \in Credential
             /\ state.placements[p].boot \in Boot \cup {NoBoot}
  <2>1. p \in Placements(state) /\ state.placements[p].epoch = state.epoch
    BY <1>3 DEF Known, EnvelopeCredential
  <2>2. state.placements[p] \in PlacementRecord
    BY <2>1, Parts DEF EngineServes, ClusterInv, Inv
  <2>3. state.placements[p].generation \in Nat /\ state.placements[p].generation <= p
    BY <2>1, <2>2 DEF PlacementRecord, EngineServes, Sound, Founded
  <2>4. state.placements[p].generation \in 0 .. MaxPlacements
    BY <1>1, <2>3 DEF PlacementId
  <2> QED BY <2>1, <2>2, <2>4 DEF EngineServes, EnvelopeCredential, Credential, PlacementRecord
<1> QED BY <1>2, <1>3

(* The handlers of the frames of agents. *)
LEMMA AgentFrameOperates ==
    ASSUME ~ OrderedWorkers, EngineServes, NEW a \in Agent, NEW m \in Range(toServer[a]),
           HandleAgentFrame(a, m)
    PROVE  EngineOperation \/ UNCHANGED state
<1>1. Typed(a) /\ Registration(a)
  BY DEF EngineServes, ClusterInv, Local, Client
<1>2. m \in AgentFrame
  BY <1>1, QueueRange DEF Typed, FramesOf
<1>3. m.type \in {"Hello", "RegisterResource", "PublishState", "AssignAck", "Running", "Completion"}
  BY <1>2 DEF AgentFrame, ResourceFrame, AuthorityFrame, CompletionFrame
<1>4. OfResource(m) => m.resource \in Resource /\ BootOf(a) \in BootsOf(state, m.resource)
  BY <1>1, EveryBootIsHeard DEF Registration, Unheard, Owned
<1>5. CASE m.type = "Hello"
  BY <1>5, EveryBootIsHeard DEF HandleAgentFrame, HandleHello, EngineOperation, WorkerOperation
<1>6. CASE m.type = "RegisterResource"
  <2>1. \/ UNCHANGED state
        \/ \E ad \in Advertised[m.resource] : RegisterResource(m.resource, BootOf(a), ad)
    BY <1>6 DEF HandleAgentFrame, Answered
  <2> QED BY <1>4, <1>6, <2>1 DEF OfResource, EngineOperation, ResourceOperation
<1>7. CASE m.type = "PublishState"
  <2>1. \/ UNCHANGED state
        \/ \E ad \in Advertised[m.resource] : PublishResourceState(m.resource, BootOf(a), ad)
    BY <1>7 DEF HandleAgentFrame, HandlePublish
  <2> QED BY <1>4, <1>7, <2>1 DEF OfResource, EngineOperation, ResourceOperation
<1>8. CASE m.type \in {"AssignAck", "Running", "Completion"}
  <2> DEFINE p == m.placement
             e == EnvelopeCredential(p)
             bound == state.placements[p].boot
  <2>1. p \in PlacementId
    BY <1>2, <1>8 DEF AgentFrame, ResourceFrame, AuthorityFrame, CompletionFrame
  <2>2. m.type = "Completion" => m.boot \in Boot /\ m.target \in {"Completed", "Failed"}
    BY <1>2 DEF AgentFrame, ResourceFrame, AuthorityFrame, CompletionFrame
  <2>3. \/ UNCHANGED state
        \/ Assignable(p, e, bound) /\ MarkAssigned(p, e, bound)
        \/ Startable(p, e, bound) /\ MarkRunning(p, e, bound)
        \/ /\ m.type = "Completion"
           /\ Completable(p, e, m.boot, TRUE) /\ ReportCompletion(p, e, m.boot, TRUE, m.target)
    BY <1>8 DEF HandleAgentFrame, Answered
  <2>4. ASSUME Known(p, e) PROVE e \in Credential /\ bound \in Boot \cup {NoBoot}
    BY <2>1, <2>4, CredentialsPresented
  <2> HIDE DEF p, e, bound
  <2>5. CASE MarkAssigned(p, e, bound) \/ MarkRunning(p, e, bound)
    <3>1. Known(p, e)
      BY <2>5 DEF MarkAssigned, MarkRunning, Assignable, Startable, Authorised
    <3> QED BY <2>1, <2>4, <2>5, <3>1 DEF EngineOperation, PlacementOperation
  <2>6. CASE m.type = "Completion" /\ ReportCompletion(p, e, m.boot, TRUE, m.target)
    <3>1. Known(p, e)
      BY <2>6 DEF ReportCompletion, Completable, Authorised
    <3> QED BY <2>1, <2>2, <2>4, <2>6, <3>1 DEF EngineOperation, PlacementOperation
  <2> QED BY <2>3, <2>5, <2>6
<1> QED BY <1>3, <1>5, <1>6, <1>7, <1>8

(* The handlers of the frames of controllers. *)
LEMMA ControllerFrameOperates ==
    ASSUME EngineServes, NEW k \in Controller, NEW m \in ControllerFrame,
           HandleControllerFrame(k, m)
    PROVE  EngineOperation \/ UNCHANGED state
<1> DEFINE any == ControllerCredential
<1>1. any \in Credential
  BY CredentialsPresented
<1> HIDE DEF any
<1>2. CASE m.type \in {"ScheduleRequest", "CancelRequest"}
  <2>1. m.request \in Request
    BY <1>2 DEF ControllerFrame
  <2>2. UNCHANGED state \/ SubmitRequest(m.request) \/ CancelRequest(m.request)
    BY <1>2 DEF HandleControllerFrame, HandleScheduling, Answered
  <2> QED BY <2>1, <2>2 DEF EngineOperation
<1>3. CASE m.type \in {"CancelPlacement", "Reassign", "Preempt"}
  <2>1. m.placement \in PlacementId
    BY <1>3 DEF ControllerFrame
  <2>2. \/ UNCHANGED state
        \/ CancelPlacement(m.placement, any)
        \/ ReassignPlacement(m.placement, any)
        \/ PreemptPlacement(m.placement, any)
    BY <1>3 DEF HandleControllerFrame, HandleScheduling, Answered, any
  <2> QED BY <1>1, <2>1, <2>2 DEF EngineOperation, PlacementOperation
<1>4. CASE m.type = "RetireResource"
  <2>1. m.resource \in Resource
    BY <1>4 DEF ControllerFrame
  <2>2. UNCHANGED state \/ RetireResource(m.resource)
    BY <1>4 DEF HandleControllerFrame, Answered
  <2> QED BY <2>1, <2>2 DEF EngineOperation, ResourceOperation
<1>5. CASE m.type = "DisconnectWorker"
  <2>1. WorkerOf(m.agent) \in Worker /\ BootOf(m.agent) \in Boot
    <3>1. m.agent \in Agent
      BY <1>5 DEF ControllerFrame
    <3> QED BY <3>1, AgentParts
  <2>2. UNCHANGED state \/ MarkWorkerLost(WorkerOf(m.agent), BootOf(m.agent))
    BY <1>5 DEF HandleControllerFrame, Answered
  <2> QED BY <2>1, <2>2 DEF EngineOperation, WorkerOperation
<1>6. CASE m.type \in {"Inspect", "Shutdown"}
  BY <1>6 DEF HandleControllerFrame, HandleShutdown
<1>7. m.type \in {"ScheduleRequest", "CancelRequest", "CancelPlacement", "Reassign", "Preempt",
                  "RetireResource", "DisconnectWorker", "Inspect", "Shutdown"}
  BY DEF ControllerFrame
<1> QED BY <1>2, <1>3, <1>4, <1>5, <1>6, <1>7

(* Every step of the cluster is an operation of the engine, or none. *)
LEMMA ClusterStepOperates ==
    ASSUME ~ OrderedWorkers, EngineServes, [ClusterNext]_clusterVars
    PROVE  EngineOperation \/ UNCHANGED state
<1>1. CASE \E c \in Client : ServerStep(c)
  <2>1. PICK c \in Client : ServerStep(c)
    BY <1>1
  <2>2. Local(c) /\ Typed(c) /\ Duties(c)
    BY DEF EngineServes, ClusterInv, Local
  <2>3. CASE DischargeDuty(c) \/ ReturnThread(c)
    BY <2>3 DEF DischargeDuty, ReturnThread
  <2>4. CASE EndConnection(c)
    <3>1. UNCHANGED state \/ (announced[c] /\ MarkWorkerLost(WorkerOf(c), BootOf(c)))
      BY <2>4 DEF EndConnection
    <3>2. announced[c] => WorkerOf(c) \in Worker /\ BootOf(c) \in Boot
      BY <2>2, AgentParts DEF Duties
    <3> QED BY <3>1, <3>2 DEF EngineOperation, WorkerOperation
  <2>5. CASE HandleFrame(c)
    <3> DEFINE m == Head(toServer[c])
    <3>1. toServer[c] # << >> /\ toServer[c] \in Seq(FramesOf(c))
      BY <2>2, <2>5 DEF HandleFrame, Typed
    <3>2. m \in FramesOf(c) /\ m \in Range(toServer[c])
      BY <3>1, TakenQueue
    <3>3. CASE c \in Agent
      <4>1. HandleAgentFrame(c, m)
        BY <2>5, <3>3 DEF HandleFrame
      <4> HIDE DEF m
      <4> QED BY <3>2, <3>3, <4>1, AgentFrameOperates
    <3>4. CASE c \notin Agent
      <4>1. HandleControllerFrame(c, m) /\ c \in Controller
        BY <2>5, <3>4 DEF HandleFrame, Client
      <4>2. m \in ControllerFrame
        BY <3>2, <3>4 DEF FramesOf
      <4> HIDE DEF m
      <4> QED BY <4>1, <4>2, ControllerFrameOperates
    <3> QED BY <3>3, <3>4
  <2> QED BY <2>1, <2>3, <2>4, <2>5 DEF ServerStep
<1>2. CASE RunStep
  BY <1>2 DEF RunStep, AcceptConnection, CloseConnections, JoinThreads
<1>3. CASE \E a \in Agent : AgentStep(a)
  BY <1>3 DEF AgentStep, AgentStarts, AgentServes, AgentHandlesAssignment, AgentDisconnected,
              serverVars
<1>4. CASE \E k \in Controller : ControllerLeaves(k)
  BY <1>4 DEF ControllerLeaves, serverVars
<1>5. CASE Environment
  BY <1>5 DEF Environment, AgentConnects, AgentKilled, ControllerConnects, ControllerCalls,
              serverVars
<1>6. CASE UNCHANGED clusterVars
  BY <1>6 DEF clusterVars
<1> QED BY <1>1, <1>2, <1>3, <1>4, <1>5, <1>6 DEF ClusterNext, Progress

(* An operation of the engine keeps its log sound and its epoch. *)
LEMMA EngineServesOn ==
    ASSUME EngineServes, ClusterInv', EngineOperation \/ UNCHANGED state
    PROVE  EngineServes'
<1>1. CASE EngineOperation
  BY <1>1, OperationContinues DEF EngineOperation, EngineServes, ClusterInv, Moves, Continues
<1>2. CASE UNCHANGED state
  BY <1>2 DEF EngineServes
<1> QED BY <1>1, <1>2

(***************************************************************************)
(* The cluster implements the engine: whatever its threads, agents and     *)
(* controllers do and in whatever order, the state behind the mutex takes  *)
(* only steps of SchedulerEngine.  (Hellos of superseded boots do arrive   *)
(* in the cluster, so the engine is the one that accepts them.)            *)
(***************************************************************************)
THEOREM ClusterImplementsEngine == ~ OrderedWorkers /\ MaxEpoch > 0 => (ClusterSpec => Spec)
<1> SUFFICES ASSUME ~ OrderedWorkers, MaxEpoch > 0 PROVE ClusterSpec => Spec
  OBVIOUS
<1>1. ClusterInit => Init /\ EngineServes
  <2> SUFFICES ASSUME ClusterInit PROVE Init /\ EngineServes
    OBVIOUS
  <2>1. state = EmptyState /\ ClusterInv
    BY ClusterInitInv DEF ClusterInit, Init
  <2>2. state.epoch = 1
    BY <2>1 DEF EmptyState
  <2>3. 1 \in 1 .. MaxEpoch
    BY ConstantsAssumption
  <2> QED BY <2>1, <2>2, <2>3, EmptySound DEF EngineServes, Init
<1>2. EngineServes /\ [ClusterNext]_clusterVars => [Next]_state /\ EngineServes'
  <2> SUFFICES ASSUME EngineServes, [ClusterNext]_clusterVars PROVE [Next]_state /\ EngineServes'
    OBVIOUS
  <2>1. EngineOperation \/ UNCHANGED state
    BY ClusterStepOperates
  <2>2. EngineServes'
    BY <2>1, ClusterStep, EngineServesOn DEF EngineServes
  <2> QED BY <2>1, <2>2 DEF EngineOperation, Next
<1> QED BY <1>1, <1>2, PTL DEF ClusterSpec, Spec
=============================================================================
