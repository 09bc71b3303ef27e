# Lab Scheduler: formal specification

TLA+ modules, TLC models and TLAPS proofs for the scheduler in this repository.
Paths below are relative to the repository root (`src/…` is the C++ library,
`include/lab_scheduler/…` its headers).

## 1. The system

Lab Scheduler decides where an experiment may run. Workers advertise resources
(GPUs, simulators, datasets, environments) to one **coordinator**; controllers
submit requests; the coordinator places a request on a set of resources,
reserves their capacity, and pushes the assignment to a worker. A placement is
an authority: it names the coordinator epoch, the worker's boot, the placement
generation and the generation of every resource it was decided on, and anything
that presents older values must be refused.

### Inventory

| Component | State it keeps | Operations | What makes it correct |
|---|---|---|---|
| Engine, state (`engine_state.cpp`, `engine_internal.hpp`) | epoch, shutdown flag, worker table (boot, connected), and the two primitives every end goes through: `release_reservation`, `terminate_placement` | `worker_connected`, `mark_worker_lost`, `adopt_worker_incarnation`, `invalidate_worker_incarnation`, `adopt_epoch`, `begin_shutdown` | capacity returns exactly once; a dead incarnation leaves neither authority nor live placement |
| Engine, resources (`engine_resources.cpp`) | resource records: lifecycle, boot, sharing, slots, occupancy, health, authority, generation, reserved slots | `register_resource`, `publish_resource_state`, `retire_resource` | no over-commitment; every change of evidence changes the generation |
| Engine, scheduling (`engine_scheduling.cpp`) | requests, placement log, reservation ledger, current placement of each unit | `submit_request`; `schedule_locked`: eligibility, candidate search, commit | commit is all or nothing; a unit has one current placement; the search misses no complete placement |
| Engine, lifecycle (`engine_lifecycle.cpp`) | placement and request states | `mark_assigned`, `mark_running`, `report_completion`, `cancel_placement`, `cancel_request`, `reassign_placement`, `preempt_placement` | what is over stays over; budgets bound replacement; stale credentials change nothing |
| Engine, accounting (`engine_accounting.cpp`) | none | `accounting_report`, `validate_invariants` | reads only; its named invariants are state invariants here |
| Recovery (`engine_recovery.cpp`, `durable.cpp`) | the snapshot | `export_state`, `validate_durable_state`, `import_state` | every snapshot can be loaded; nothing live survives a restart; epochs fence coordinators |
| Persistence (`persistence.cpp`, `record_codec.cpp`) | state file, temporary file | save, load | a crash leaves the old or the new file; a newer snapshot is never overwritten by an older one |
| Coordinator (`cluster.cpp`) | connection table, roles, queues of outgoing frames, persistence mutex | accept, dispatch, push assignment, save, stop | messages of the right incarnation reach the right worker; stop ends |
| Worker agent and client (`cluster.cpp`) | connection, boot, running assignments | hello, register, serve assignments, request and reply | every assignment is acknowledged and executed once |
| Frames and codecs (`protocol.cpp`, `codec.cpp`, `net.cpp`) | none | encode, decode, socket I/O | pure conversions |
| Data and validation (`resource.cpp`, `request.cpp`, `topology.cpp`, `capability.cpp`, `identity.cpp`) | none | field checks, identities | pure functions |
| Text, profiles, processes (`inspection.cpp`, `canonical.cpp`, `explanation_render.cpp`, `lab_profiles.cpp`, `process.cpp`, `apps/`) | none | rendering, sample inventories, spawning | no state of the scheduler |

### Interactions

Each connection of the coordinator has a thread; all of them, and the embedding
program, call the engine, whose one mutex is held from the first read to the
last write of each public operation. So an engine operation is atomic and the
engine's hard behaviours come from the *order* of operations: traffic of an old
boot after a new one connected, a completion after a cancellation, a
reassignment after a reassignment, a publication that shrinks a resource under
its reservations. Outside that mutex are the saves (the snapshot is exported
first and written later, and the caller has its answer before), the connection
table, and everything on the worker's side. The coordinator may stop at any
point, and a new one imports the last snapshot.

`PROJECT.json` lists the hazards found while reading, each at its line, with the
properties that would catch it, or the reason why none does.

## 2. Modules

| Module | Role |
|---|---|
| `SchedulerEngine` | the engine: every state-changing operation, its properties |
| `CapacityLeases` | the abstract specification the engine implements |
| `EngineRecovery` | the engine with snapshots, crashes and restarts (EXTENDS `SchedulerEngine`) |
| `Coordinator` | server threads, worker agents, controllers and shutdown around the engine (EXTENDS `SchedulerEngine`) |
| `CandidateSearch` | how the engine chooses resources |
| `RecordCodec`, `Containers` | the bytes of records; state files and frames around them (EXTENDS `RecordCodec`) |
| `StateFile` | the coordinator's saves, its state file, failing calls and process deaths |
| `MC…` | one module of small instances for each of the modules that runs check |
| `…Proofs` | theorems and proofs (section 4) |

### SchedulerEngine

One variable, `state`, is the `SchedulerState` behind the mutex. The code passes
one state by reference through its helpers; here a helper is an operator from a
state to a state (`ReleaseReservations`, `Terminate`, `Invalidate`, `Adopt`,
`Commit`), or to the set of states it may leave (`Schedule`), and an action
composes the helpers in the order of the calls. This is what makes partial
effects visible: `reassign_placement` ends the old placement before it looks at
the budget, `publish_resource_state` adopts a new boot before it refuses the
capacity, and both actions leave the state the code leaves. An operation that is
refused before it has written anything is a stuttering step.

| Code | Model |
|---|---|
| maps without a key | total functions with `"Absent"` in the entry |
| placement and reservation | created together by the commit, never re-bound: a reservation has its placement's identity |
| placement identity (a counter) | `NextPlacement`, the size of the log plus one |
| `resources[].reserved_slots` | `reserved`, a mirror of the ledger kept as the code keeps it |
| one `ResourceRequirement` | `matches` (the tests on what a resource is; one that a later advertisement fails is a loss of `healthy`), slots, exclusive, evidence, health, utilization percent |
| `report_completion` and friends | credentials are enumerated: epoch, placement generation, boot, and evidence sent or not |
| candidate search | any complete selection of eligible resources; no placement when the candidate sets, after interchangeable ones are collapsed, hold no complete one (`MayFindNone`) |
| limits | `MaxPlacements`, `MaxActive`, `MaxActiveRequests`, where the code tests them |

Two constants describe the environment, not the engine. With `OrderedWorkers`,
traffic of a superseded or lost boot never arrives (a worker's connection is
closed before the next boot connects). With `CarefulControllers`, a controller
asks to reassign only the newest placement of a request that is not over. The
engine demands neither, so both are `FALSE` wherever a property should hold
whatever callers do, and `TRUE` only for what the code leaves to its callers.

Left to `CandidateSearch`: affinity and topology, ranking factors and scores, the
bounds of the search and the reasons of a refusal. Left out as data no property
tells apart: explanations, the audit and decision logs, wall-clock stamps, `max_resources` and
`max_active_*` beyond those above, the `expected_generation` argument of
`retire_resource`, the refusal of a publication that changes the class of a
resource, and identities built by hashing.

### EngineRecovery

Adds `durable`, what the state file holds, and a history variable `fenced`, the
latest epoch in which a coordinator has saved since the file was last lost.
`SaveState` writes `Export(state)`; `RemoveOld` is the fallback of a save whose rename
fails: the file is removed, and until a second rename succeeds (a `SaveState`) there
is none. `Restart` drops the engine and imports the file into an empty
one, or begins anew without a file, at any moment. No save is forced around a mutation, because the coordinator
answers its caller before it saves. `Import` follows the phases of
`import_state`: the epoch advances, owned resources come back without authority
and with a new generation, live placements become `ReassignmentRequired`, active
reservations `Revoked`, the unit table empty. The worker table is not in the
snapshot; a worker gets the boot of the first of its resources, which may be any
of them (`RestoredBoots`). `adopt_epoch` and `begin_shutdown` are never called
by the coordinator and are no steps here.

### CapacityLeases

What a placement is to everybody else, in fifty lines: leases are numbered in the
order of their grants, a lease is granted whole, never changes while it is held,
ends once, and what is held always fits the capacity. The engine refines it under
`GrantsLeases`: a placement with its reservation is a lease, held while it is
active; the capacity of a resource is its slots without its outside occupancy. One
engine step may end several leases and grant one (a reassignment, a loss, an
adoption), which the abstract step allows.

### Coordinator

| Code (`cluster.cpp`) | Model |
|---|---|
| worker agent and controller processes | `client[c].pc`: connecting, waiting for one kind of reply, serving, gone; incarnations of one worker are different agents and may overlap |
| a TCP connection | `toServer`, `toClient` and `link`: frames in order, `left` when the client closed it (unread frames remain), `shut` when the coordinator did |
| connection thread | `thread`; `HandleFrame` is one handler, its engine operation one step |
| what a handler does after the engine has answered | `owed`: note the worker in the peer, reply, push an assignment, ask for shutdown, each a later step (`DischargeDuty`), so other threads run in between |
| `Impl::peers`, weak pointers in accept order | `peers`; `FindWorkerPeer` takes the first of that worker |
| accept loop, `request_shutdown`, join | `backlog`, `stopping`, `loop` |
| execution of a workload | `executions`, a history of which agent ran which placement |
| workers that the closing of connections missed | `overlooked`, a history for `ShutdownEnds` |

Engine operations are those of `SchedulerEngine`, called with what a frame
carries. A frame with an authority envelope names its placement, since an envelope
never changes after the commit; a completion also carries the boot of the agent
that claims it. The reply to a controller leaves in the step of the engine
because nothing else is ever sent on a controller's connection. Agents follow
`WorkerAgent::start`, `run` and `handle_assignment`, with `transact` taking
whatever frame comes next for its reply. An agent in `Mortal` may die at any
moment and take frames it had sent with it. `hold_assignments` is in the model
(`Holding`); the run leaves it empty, since such an agent never completes anything.

### CandidateSearch

One search of `schedule_locked`: requirements are filtered one after the other into
plans (eligible candidates, best first, one for each interchangeability key, capped),
combinations are walked depth first under the score bound and the evaluation limit,
valid ones are ranked, and the best is chosen. The recursion of the code is the
variable `path` with a `cursor`, so that every node is a state. Scores are fixed
point numbers in sixteenths, exact for the quarters and eighths of the code's
topology factor; factors that look only at a resource's own data are one value
(`suited`), and the tests that compare a resource's attributes with what a request
names are their verdicts: `misfit` for the tests of its class, `barred` for allowlist,
denylist, tenant, capabilities, unsupported readiness, required domain and memory. The
order, the limit and the counting of the reasons are the code's. A sort is the enumeration of a
set in its order: candidates of one requirement differ in their resource, so there is one.

### RecordCodec and Containers

The code has a writer and a reader for every record, each a list of calls. Both are
tables here, transcribed separately (`WriteResource`, `ReadResource`, ...), with
`Write` and `Read` to interpret them byte by byte: that the two sides agree, field
by field, is checked and not assumed. Readers have the limits and orders the code
tests; writers have none, as in the code. `Containers` puts the file header with
its length and checksum, and the frame header with type, epoch, correlation and
checksum, around them. A checksum is the data it covers: collisions are left out.

### StateFile

Here the engine is only the number of its durable state, which every accepted
operation advances, and which a refused one may advance too (a refused publication
leaves its adoption, a failed reassignment the end of the old placement). Each thread goes through `save_state`: export, lock, open the
`.part` file, write, rename; if the rename fails, remove the file and rename again.
Each is a step, each system call may fail (at most `MaxFaults` times), and the
process may die between any two (`Crash`, at most `MaxCrashes` times). `Start`
loads the file and continues from what the codec makes of it; without a file the
engine is new; with one that cannot be decoded the coordinator refuses to start.
`saved` and `fallback` are histories. What frames and files decode to are the
constants `Arrives` and `Loads`; `MCStateFile` computes them with `Containers`, so
the run composes the codec with the saves, and the proofs hold for any codec.

### Definitions marked "Slip"

Next to several definitions stands a variant with one plausible mistake (a
capacity that is not returned, a guard that is not tested, a mutex that is not
taken). Nothing uses them: they are there to substitute for the definition they
follow, to see that the property named for it in `PROJECT.json` fails. All
properties of the passing runs have been confirmed to fail in this way.

## 3. Model checking

| Run | Config | Instance | Result |
|---|---|---|---|
| open | `SchedulerEngine_open.cfg` | 1 worker, 1 resource that changes between 4 shared slots (two occupied outside) and 3 exclusive ones, 2 requests for 2 units, any caller | 491,000 states |
| ordered | `SchedulerEngine_ordered.cfg` | 2 workers, 2 resources, a request that spans both and a rival for its unit; ordered traffic, careful controllers | 403,000 states |
| recovery | `EngineRecovery.cfg` | 1 worker, its GPU and a static dataset, a compound request, saves and restarts over 3 epochs; the worker may be lost and come back, the file may be lost | 467,000 states |
| cluster | `Coordinator.cfg` | 1 worker in 2 incarnations (the first may be killed), 1 controller with 2 calls out of 9, 1 GPU, 1 request | 828,000 states, safety and liveness, 2 to 3 minutes |
| search | `CandidateSearch.cfg` | four families of problems with up to 4 resources and 2 requirements | 87,000 states, every problem searched to its end |
| storage | `StateFile.cfg` | 2 connection threads and the main thread, 4 durable states, 2 failing calls, 1 death | 154,000 states |

What they show:

* **open**, with no assumption on workers or controllers: the reserved slots of a
  resource are the sum of its active claims (`ReservedMatchesLedger`); occupancy
  and reservations stay within the slots (`CapacityNotExceeded`); a placement is
  live exactly while its reservation is active (`LiveIffReserved`); what units and
  requests call current is live (`CurrentIsLive`); a resource without authority
  holds no capacity (`StaleAuthorityHoldsNothing`, for requests that insist on
  evidence); an exclusive claim shares with nobody (`ExclusiveClaimIsAlone`); what
  is over stays over and envelopes never change (`EndedStaysEnded`); a generation
  identifies its evidence (`GenerationIdentifiesEvidence`); capacity returns
  exactly once (`ReleasedExactlyOnce`); all of it implements `CapacityLeases`
  (`GrantsLeases`).
* **ordered**: one live placement per unit, no live placement of a request that is
  over, the budget bounds the placements of a request, authority belongs to the
  connected incarnation, and no live placement depends on a dead one, also when
  it spans two workers and either dies.
* **recovery**: every snapshot can be loaded, nothing live crosses a restart, and
  the ledger, the unit table and the authority rule survive restarts, also when a
  failing rename has cost the file. As long as it has not, a coordinator that has
  saved is fenced by the epoch of every later one (`SavedCoordinatorsAreFenced`).
* **cluster**: the end of a worker's connection leaves nothing live or
  authoritative of that incarnation (`EndedConnectionHoldsNothing`); an accepted
  result comes from the incarnation the placement is bound to, although
  `find_worker_peer` ignores boots (`ResultsComeFromTheBoundWorker`); nothing is
  executed twice (`ExecutedAtMostOnce`). Every call gets a frame or sees its
  connection end (`CallsReturn`), placements of dead workers end
  (`DeadWorkersAreReleased`), and a requested shutdown ends (`ShutdownEnds`).
* **search**: a search that was not cut short returns the best valid combination of
  the candidates it kept, so the bound prunes nothing better, with negative weights
  too (`BestOfTheKept`); wherever a search stops, its bound on evaluations included,
  nothing that it has behind it is better than what it places, and it refuses only
  when none of that is valid (`BestOfTheSeen`); collapsing interchangeable candidates loses nothing under
  `Collapsible` (`CollapseKeepsTheBest`); a refusal names the most frequent reason,
  and of equals the one of highest priority (`FailureNamesTheClosestMiss`).
* **storage**: what is handled is what was sent, and no damaged frame becomes a
  message (`HandledAsSent`); the file is missing or whole, whoever saves
  (`FileIsWhole`); a start continues from exactly the saved state
  (`RestoredAsSaved`); a file disappears only by the fallback of a failed rename
  (`LostOnlyByFallback`); an orderly stop leaves the last state
  (`StoppedFileIsCurrent`).

### Bounds, and why they are enough

`MaxBoot = 2` gives one change of incarnation, with both boots' traffic
interleaved; more boots repeat it. Two placements (open, cluster) or three
(ordered) allow a placement, its successor and a rival. `MaxGeneration` bounds how
often evidence changes (a guard in `Become`); two or three is a first registration
and its later changes; in *cluster* it is out of reach. Three epochs are two
restarts, the second from a snapshot of a restarted coordinator. The recovery run
has one boot per worker, since changes of incarnation are the subject of the other
runs; its traffic is unordered, so the worker may be reported lost and the same boot
be heard of again, also after a restart.

In *cluster*, two overlapping agents of one worker are what makes the choice of a
peer, the late end of an old connection and an assignment in the wrong hands
possible. A controller has two calls because that is a placement and anything that
ends or replaces it; either call may be the shutdown, which
then meets starting agents or a placement under way. In *search*, each
family is built around one question: near or far datasets under rewarding,
punishing and mixed weights; constraints with tight limits on candidates,
evaluations and ranking; twins that differ only in their NUMA node; resources
refused for one reason or several. Constrained searches are also cut short after four
evaluations, of which up to three are valid, with room for one ranked selection. In *storage*, two savers and the main
thread are all that can meet at the mutex and the part file, two faults are a
failed rename with a failed remove or second rename, and four durable states are
an empty engine, one of each record, two of each, and one whose stored detail is
longer than a reader accepts. One message of each type is sent, intact, cut, with a
trailing byte, with a changed byte, and mixed up in type, epoch or flags.

Deadlock is not checked where the instance ends: a full log or generation counter
(engine), a stopped coordinator (cluster), a finished search, a coordinator that
refuses its file (storage). No run reports coverage holes: every action and every
disjunct of the next-state relations fires in some run.

### Fairness

*open*, *ordered*, *recovery*, *search* and *storage* state none: the engine has no thread
of its own and promises nothing about when callers call. `ClusterSpec` has weak
fairness of `Progress`, the disjunction of all that threads and processes do of
their own accord: the machine does not idle while something can go on. That is the
weakest assumption under which anything can be said; no fairness among the threads
is needed, because none of them can run for ever by itself. Connecting, calling and
dying are the environment's and unfair. A controller that has its answer and does
not call again exits, as the command line tools do (`ControllerLeaves` is in
`Progress`): shutdown joins the threads of controllers without closing their
connections, so one that stayed without calling would hold it up (`cluster.cpp:777`).
The liveness properties say that a good moment comes again and again (`[]<>`).

### Conditions worth knowing

The properties above carry conditions because the code needs them:

* `ShutdownEnds` excepts `overlooked` workers: the worker connections are collected
  once, and a worker whose Hello is handled after that is not closed, while its thread
  is joined.
* `Collapsible`: the comment at `engine_scheduling.cpp:457` says that exploring two
  resources with one key would not change the outcome. It may, when two requirements
  share a class, when a constraint looks at a scope outside the key (NUMA), and when
  datasets differ in local copies; dropping any of the three conditions makes the
  property fail. The run *collapse* shows the first.
* `RestoredAsSaved` and `HandledAsSent` except fields above the readers' limits:
  writers check none, so the engine can save a detail (`record_codec.cpp:1030`) that
  no coordinator will load.
* `LostOnlyByFallback`: writes do not always go through an atomic replace. When the
  rename over the state file fails, the code removes that file and renames again
  (`persistence.cpp:227`); a process that dies in between, or whose second rename
  fails, leaves none, and its successor starts from nothing. The property says
  that this is the only way to lose the file: a failure before the last save that
  succeeded does not excuse a loss after it.
* `SavedCoordinatorsAreFenced` counts the epochs saved since the file was last lost: a
  coordinator that finds no file begins in epoch 1, whatever epochs there were.
* `OnlyPlacedRequestsHoldPlacements` is for `CarefulControllers`: `cancel_request` leaves
  a placement in `ReassignmentRequired` as it is, and `reassign_placement` looks at the
  request no more than at the unit (the run *repeat*), so a controller that reassigns
  after a cancellation can have a cancelled request placed again.
* `ExclusiveClaimIsAlone` lets the sharing mode and the slots change, but a resource
  may not advertise, as shared, more free slots than an exclusive claim took: the code
  compares a publication with the reserved slots only (`engine_resources.cpp:129`), so
  the new slots would be given to others beside the exclusive claim.
* `StoppedFileIsCurrent` says nothing before the end: exports happen before the
  mutex, so a running coordinator's file can go back to an older state
  (`cluster.cpp:288`). The final save, after all threads have been joined, repairs it.

### Where the code departs from the documentation

Six runs each violate one property that a document or an assertion of the
repository states; `PROJECT.json` quotes the lines.

| Run | Promise | What happens |
|---|---|---|
| repeat | one current placement per unit | `reassign_placement` accepts a placement that already has a successor, and a unit gets two live placements |
| late | a fresh registration by a new boot is needed after a loss | a late publication of the lost boot matches the resource record and restores its authority |
| sharing | an exclusive resource has one claim | a publication may turn a resource with two claims exclusive |
| waived | stale authority holds no capacity (a runtime assertion) | after a restart, a requirement that waives evidence reserves a resource without authority |
| unsaved | pre-restart traffic is stale | a coordinator that stops before its first save is followed by one in the same epoch |
| collapse | exploring interchangeable resources cannot change the outcome | two requirements for one GPU each keep the same one of two identical GPUs, and the request is refused |

## 4. Proofs

Every safety property of *open*, *ordered*, *recovery* and *cluster*, the refinement,
 the file properties of *storage*, and those of *search* are theorems,
for every set of workers, resources, requests, units, controllers and threads, every
demand and every bound. So is that the cluster implements the engine.

| Module | Theorems | Under |
|---|---|---|
| `SchedulerEngineProofs` | `TypeCorrect`, `LedgerMirrored`, `NeverOverCommitted`, `LiveAndReservedTogether`, `CurrentPlacementsAreLive`, `EndsAreFinal`, `GenerationsIdentifyEvidence`, `CapacityComesBackOnce`, `EngineGrantsLeases` | nothing |
| `SoundLogProofs` | `StaleAuthorityIsFreed` | `EvidenceRequired` |
| | `ExclusiveIsAlone` | `FixedSlots` |
| `IncarnationProofs` | `AuthorityIsCurrent` | `OrderedWorkers` |
| | `LiveIsOnCurrent` | `OrderedWorkers`, `EvidenceRequired` |
| `CarefulProofs` | `OneIsLive`, `OnlyPlacedHold`, `BudgetIsKept` | `CarefulControllers` |
| `EngineRecoveryProofs` | `SnapshotsAreLoadable`, `LiveIsOfThisEpoch`, `SavedAreFenced`, `LedgerMirroredAcrossRestarts`, `CurrentAcrossRestarts` | nothing |
| | `StaleIsFreedAcrossRestarts` | `EvidenceRequired` |
| `CoordinatorProofs` | `ClusterTypeCorrect`, `EndedConnectionsHoldNothing`, `ResultsAreOfTheBoundWorker`, `NothingIsExecutedTwice` | nothing |
| | `ClusterImplementsEngine` | `~ OrderedWorkers`, `MaxEpoch > 0` |
| `StateFileProofs` | `StorageTypeHolds`, `TheFileIsWhole`, `TheFileIsKept`, `TheStoppedFileIsCurrent` | nothing |
| `CandidateSearchProofs` | `SearchTypesHold`, `SearchFindsTheBest`, `SearchFindsTheBestSeen`, `CollapsingCostsNothing`, `RefusalsNameTheClosestMiss` | nothing |

The assumptions on constants are `ConstantsAssumption` in `SchedulerEngine` (the
constants have their types, every request asks for something, an advertised
occupancy is at most the advertised slots, as `validate_advertisement` demands),
`NoSnapshotAssumption` in `EngineRecovery` (no file is not a snapshot),
`ClusterAssumption` in `Coordinator` (types; agents, controllers and the wake-up are
told apart; workloads end completed or failed), `StorageAssumption` in `StateFile`
(types, and markers that are not values) and `ProblemsAssumption` in `CandidateSearch`:
a request has what validation leaves it (at least one requirement, each of at least
one slot; weights within [-1000, 1000]; resources with slots), there is room for one
ranked selection, and no score reaches the value the best score starts from. The
code tests neither of the last two. With `max_candidates_ranked` at zero it would
replace the worst of an empty vector (`engine_scheduling.cpp:772`), but every
configuration in the repository has it positive; and a sum of twelve factors, within
sixteen requirements by default, is far above the smallest 64-bit integer. The
last column is a hypothesis of the theorem itself. `EvidenceRequired`: no request
waives current evidence. `FixedSlots`: a resource never advertises another number
of slots. `~ OrderedWorkers` and `MaxEpoch > 0` say that the engine of the cluster is
the one that accepts traffic of superseded boots, which in the cluster do arrive,
and that its first epoch is within the bound. `OrderedWorkers` and `CarefulControllers` are the assumptions on the
environment of section 2. Three of the runs that violate a documented promise show
that the hypotheses are needed: *waived*, *late* and *repeat*.

**The engine.** The four state properties are not inductive one by one. `Inv(s)`
adds to them what the helpers rely on: the log is dense (`Dense`), so that
`NextPlacement` is unused and a commit overwrites nothing; a placement and its
reservation exist together (`Paired`); a registered resource has slots and an
unknown one has the empty record (`Sized`), so that a claim is never zero, a lost
worker never touches an unknown resource, and registration starts from
generation zero. `Keeps(s, t)` says what no step may change (the log is
append-only but for the state of what is live; a resource changes only with its
generation). Both are operators of states, as the helpers are. One lemma per
helper shows that it preserves `Inv` and relates its states by `Keeps`; `Keeps`
is transitive; so the lemma of an action only composes those of the helpers it
calls, also where it leaves a partial effect. `NextStep` gathers them, `InvHolds`
is the invariant, and the theorems follow from it. `ReleasedExactlyOnce` follows
from the ledger before and after the step and the claims that `Keeps` preserves,
without looking at the step again.

`ClaimedSlots` is a sum over the log by a recursive function. `SchedulerEngineProofs`
shows that the function exists, that sums of claims add, agree and select, each by
induction over a set of naturals, restated from the well-foundedness of `<`
because the library's induction theorems take a predicate as a parameter.

**The leases.** `Keeps` already says that nothing held changes and nothing ended
comes back; what it does not say is that new placements come one after the other
and active, which the second pass over the helpers adds (births). The abstract sum
over held leases is the engine's sum over active reservations, so `Fits` is
`CapacityNotExceeded`.

**The sound log.** `Sound(s)` is what placements rest on: a resource that is
retired or (with `EvidenceRequired`) without authority has nothing reserved
(`Free`); registered resources have a generation (`Numbered`); every placement names
a request that exists and registered resources it has observed, and its generation
is at most its place in the log (`Founded`).
`Continues` chains it through the helpers as `Keeps` did. For exclusive claims,
`Whole` says that an exclusive claim takes all the slots of its resource; with the
mirror and the capacity bound nothing is left for another, which is the property.

**Recovery.** The state on the disk is not the engine's state and may not even be of
this coordinator, so the invariant says only that it is the export of *some* sound
state (`Exported`), and that it is of the latest epoch saved since there has been a file
(`FenceInv`): the epoch of the next coordinator is beyond it. The export of a sound state passes validation, and the import
of such an export is sound again with everything ended, so a restart re-establishes
`Inv` and `Sound` and the engine's lemmas carry every step in between.

**Incarnations.** `Heard`: a resource was last heard of from its worker's current
boot or an earlier one, and is authoritative only if that boot is the connected
one. `Housed`: a live placement's worker is connected with the boot the placement
names. An adoption breaks both between two of its helpers, and the lemma composes
them: invalidation first ends whatever was on the old boot.

**Careful controllers.** `Standing`: a live placement is what its unit and its
request call current. `Newest`: only the newest placement of a request may be live.
`Counted`: the reassignment numbers of a request's placements grow with the log and
stay within the budget. The numbers therefore map the placements of a request
injectively into `0 .. MaxReassignments`, which bounds their count.

**The cluster.** `ClusterInv` has a part per client, one for the placements and one
for the accept loop, and each lemma of a step says which clients it leaves alone.

* *What a connection knows of the engine.* `Fenced`: an incarnation that the engine
  does not record as its worker's current one, or whose thread has left the receive
  loop, holds nothing; a recorded one is announced or about to be. An operation is
  `Quiet` (who holds nothing still does) or `TakesOver` for one incarnation, and then
  whoever was on record before it holds nothing afterwards. `NeverRegistered`
  excludes the lifecycle that only an import leaves and that the loss of a worker
  leaves as it is.
* *What an agent has said.* A thread that had ended without an announcement could
  leave authority behind, if a frame other than Hello was handled before Hello.
  `Introduction` excludes that. A resource could be taken back from its successor, if
  an older agent published it a second time. `Registration`: while it starts, an
  agent has one question or one answer on the way, and speaks for each resource
  once; until the frame is handled, the resource is on record with another boot.
* *Where an assignment is.* `AtOnePlace`: a placement has one token, which is a duty to
  push it, a frame on its way, the job of an agent or its run, at one client; so
  two runs of a placement are impossible. `Assignments`: the token is only ever at
  a client of the worker the placement is bound to, and an agent reports under its
  own boot what it has run; the engine compares that boot with the bound one, which
  makes the run that of the bound incarnation (`Results`).
* *Threads.* `Loop`: the peers are the connections whose threads have not returned,
  the backlog has no duplicates, and what is in it has no thread yet.

`ClusterImplementsEngine` goes through the handlers once more. A frame carries what its
operation takes, and the credentials of an envelope are ones the engine knows:
that is where the bound on generations in `Founded` is needed, and the epoch, which no
operation of the cluster changes. So the properties of the engine that are not in the
invariant, the action properties and the leases among them, hold in the cluster too.

**The state file.** Only the thread that holds the mutex is inside a save, so the
part file is its own and whole from the write on (`InSave`); the file is only ever
replaced by that part file. The main thread saves when all others are idle, hence
exports the last version, and nothing changes the version afterwards (`FinalSave`).

**The search.** A *walk* takes one candidate of every plan, by its place, and the search
visits walks in lexicographic order; so `path` and `cursor` say which walks it has left
behind (`Behind`). `SettledInv`: for each of these that is valid, something ranked is at
least as good. The actions preserve it for three reasons.

* Entering a node and taking a candidate leave no walk behind (`OpenLeavesNothing`,
  `TakeLeavesNothing`); going back leaves exactly those along the path
  (`ReturnLeavesThePath`), which at a leaf is the one just ranked.
* What a loop did not try is pruned, and the bound is one (`BoundIsSound`): the sum of a
  walk splits at the path (`TotalSplit`), candidates are in descending order, so each
  later summand is at most the first of its plan, and the factors of a selection lie
  between 0 and 1 (`WeightedCrossBounds`). The best score so far belongs to a ranked
  selection (`HighestIn`), which therefore beats the pruned ones strictly.
* Replacing the worst of a full ranking by something better unsettles nothing
  (`KeptProperties`), because "not better than" is transitive on rankings
  (`NotBetterTransitive`: a lexicographic order of scores and sorted identities).

`SearchFindsTheBest` follows when nothing is left, `SearchFindsTheBestSeen` wherever the
search stops, since `path` and `cursor` stay where they were. For `CollapsingCostsNothing`, a
selection takes the first resource of every key instead of its own: the key decides
all that a score and a validity check look at (`KeyDecides`, `AlikeScore`, `AlikeValid`),
distinct classes keep the resources distinct, and replacing each by an earlier one
cannot make the sorted identities later (`SmallerKeyDoesNotFollow`, by the pigeonhole
principle). For `RefusalsNameTheClosestMiss`, the fold over the counts exists for all
sets of reasons and leads at every prefix (`FoldExists`, `AfterLeads`). Sums are again
recursive functions. `Ordered` and `CanonicalResourceKey` are the enumeration that is
strictly ordered; that there is one, and that it lists everything, are `ListExists` and
`InOrderListsAll`.

**Only model-checked**: the liveness properties of *cluster* (`CallsReturn`,
`DeadWorkersAreReleased`, `ShutdownEnds`), and the properties of the codec (`HandledAsSent`, `RestoredAsSaved`). The codec interprets tables by
recursion over data, and what such a definition computes for every input is out of
the prover's reach, as are liveness under fairness and `ENABLED`.

## 5. What is not modelled, and why

* Rendering of inspection replies and explanations (`inspection.cpp`,
  `canonical.cpp`, `explanation_render.cpp`), sample inventories
  (`lab_profiles.cpp`), the command line programs (`apps/`), and spawning processes
  (`process.cpp`): text, sample data and system calls without a state of the scheduler.
  The proof applications exercise the behaviours that *cluster* and *recovery* check.
* Read-only engine calls, the audit and decision logs: they decide nothing. Of
  accounting, the named invariants are properties here; the report totals are not.
* Power loss: `flush_to_disk` opens the file for reading and flushes that, which
  asks nothing of the disk (`persistence.cpp:217`), so what survives then is the file system's choice. Only
  deaths of the process are modelled.
* `SaveState` with a path of its own, and replies larger than the receiver's frame
  limit, which the sender does not check (`protocol.cpp:128`).
* Field-by-field validation of requests and advertisements beyond what gives the
  inputs of the model their types; socket calls, which are the channels of
  `Coordinator`; hashing, which is a parameter.
* A connection that registers resources and never says Hello: its end is not a loss
  to the coordinator. No agent of the repository does that.
* A handler that throws: its thread ends without reporting the loss of its worker
  (`cluster.cpp:758`). Only exhausted memory could make one throw, and memory is
  not modelled.

## 6. What is left to do

1. A cluster with two workers and a compound placement, which today is out of TLC's
   reach with liveness; safety alone would do.
2. The coordinator with several epochs: `Coordinator` over `EngineRecovery`, with
   agents that outlive the coordinator they registered with.
3. Power loss in `StateFile`, once the code decides when a save is durable.
4. The refinement between `CandidateSearch` and the engine's choice: that the selection
   it returns is one of those `Schedule` allows, and refusals by affinity or truncation,
   which the engine's `MayFindNone` leaves out, appear in the engine too.
