----------------------------- MODULE Coordinator -----------------------------
(***************************************************************************)
(* The coordinator process, its worker agents and its controllers: the     *)
(* accept loop, one server thread per connection, the frames in flight,    *)
(* and the shutdown of cluster.cpp, around the engine of SchedulerEngine.  *)
(*                                                                         *)
(* A server thread handles one frame at a time.  The engine operation of a *)
(* handler is one step; everything the handler does after it (fill in the  *)
(* peer, reply, push an assignment, tell the workers to stop) is owed and  *)
(* done in later steps, so other threads run in between.  Saves change no  *)
(* state of this module; StateFile has them.                               *)
(***************************************************************************)
EXTENDS SchedulerEngine

CONSTANTS
    Controller,         \* controller processes
    Wake,               \* the connection that only wakes accept()
    Mortal,             \* agents that may be killed
    Outcomes,           \* how a workload may end
    Holding,            \* agents configured with hold_assignments
    Session             \* what a controller may ask for in its first, second, ... call

Agent == Worker \X Boot                 \* a worker process: worker and boot
Client == Agent \cup Controller

WorkerOf(a) == a[1]
BootOf(a) == a[2]

VARIABLES
    client,     \* what each client process is doing
    link,       \* each client's connection: unused, open, left or shut
    toServer,   \* frames on their way to the coordinator, per client
    toClient,   \* frames on their way to each client
    thread,     \* the server thread of each connection
    announced,  \* Peer::is_worker of each connection
    owed,       \* what the handler of each thread has yet to do
    peers,      \* Impl::peers: connections in the order they were accepted
    backlog,    \* connections accept() has not returned yet
    stopping,   \* Impl::shutdown_requested
    loop,       \* where CoordinatorServer::run is
    executions, \* history: the agents that executed each placement
    overlooked  \* history: agents that were not announced when connections were closed

serverVars == <<state, thread, announced, owed, peers>>
loopVars == <<backlog, stopping, loop, overlooked>>
clusterVars == <<state, client, link, toServer, toClient, thread, announced, owed,
                 peers, backlog, stopping, loop, executions, overlooked>>

(***************************************************************************)
(* Frames.  An authority envelope never changes after the commit, so a     *)
(* frame that carries one names its placement.                             *)
(***************************************************************************)
ResourceFrame == [type: {"RegisterResource", "PublishState"}, resource: Resource]
AuthorityFrame == [type: {"AssignAck", "Running"}, placement: PlacementId]
CompletionFrame == [type: {"Completion"}, placement: PlacementId, boot: Boot,
                    target: {"Completed", "Failed"}]
AgentFrame == [type: {"Hello"}] \cup ResourceFrame \cup AuthorityFrame \cup CompletionFrame

ControllerFrame ==
    [type: {"ScheduleRequest", "CancelRequest"}, request: Request]
    \cup [type: {"CancelPlacement", "Reassign", "Preempt"}, placement: PlacementId]
    \cup [type: {"RetireResource"}, resource: Resource]
    \cup [type: {"DisconnectWorker"}, agent: Agent]
    \cup [type: {"Inspect", "Shutdown"}]

ServerFrame ==
    [type: {"HelloAck", "ResourceAck", "LifecycleAck", "CompletionAck", "OtherAck"},
     ok: BOOLEAN]
    \cup [type: {"Assign"}, placement: PlacementId]
    \cup [type: {"Shutdown"}]

ASSUME ClusterAssumption ==
    /\ Agent \cap Controller = {}
    /\ Wake \notin Client
    /\ Mortal \subseteq Agent /\ Holding \subseteq Agent
    /\ Outcomes \subseteq {"Completed", "Failed"}
    /\ Session \in Seq(SUBSET ControllerFrame)

Duty ==
    [do: {"announce", "requestShutdown"}]
    \cup [do: {"reply"}, frame: ServerFrame]
    \cup [do: {"push"}, placement: PlacementId]

Waiting == {"hello", "register", "publish", "assignAck", "running", "completion", "call"}

ClientProcess ==
    [pc: {"down", "serving", "gone"} \cup Waiting,
     todo: SUBSET Resource,                     \* resources still to register
     job: PlacementId \cup {NoPlacement},       \* the assignment being handled
     calls: 0 .. Len(Session)]                  \* calls a controller has made

ClusterInit ==
    /\ Init
    /\ client = [c \in Client |-> [pc |-> "down", todo |-> {}, job |-> NoPlacement, calls |-> 0]]
    /\ link = [c \in Client |-> "unused"]
    /\ toServer = [c \in Client |-> << >>]
    /\ toClient = [c \in Client |-> << >>]
    /\ thread = [c \in Client |-> "none"]
    /\ announced = [c \in Client |-> FALSE]
    /\ owed = [c \in Client |-> << >>]
    /\ peers = << >>
    /\ backlog = << >>
    /\ stopping = FALSE
    /\ loop = "accepting"
    /\ executions = [p \in PlacementId |-> << >>]
    /\ overlooked = {}

-----------------------------------------------------------------------------
(* Server threads: one handler per message type.                           *)

(***************************************************************************)
(* Peer::send.  A frame for a client that has left, or whose connection    *)
(* was shut, is lost, and the code does not look at the error.             *)
(***************************************************************************)
Deliver(C, frame) ==
    toClient' = [c \in Client |->
        IF c \in C /\ link[c] = "open" THEN Append(toClient[c], frame) ELSE toClient[c]]

(***************************************************************************)
(* The reply of a handler, and what it does next.  Only worker connections *)
(* get frames from other threads too: the reply to a controller leaves in  *)
(* the step of the engine, the reply to an agent is owed.                  *)
(***************************************************************************)
Answers(c, type, ok, next) ==
    LET frame == [type |-> type, ok |-> ok]
    IN  IF c \in Controller
        THEN /\ Deliver({c}, frame)
             /\ owed' = [owed EXCEPT ![c] = next]
        ELSE /\ owed' = [owed EXCEPT ![c] = Append(next, [do |-> "reply", frame |-> frame])]
             /\ UNCHANGED toClient

(* Slip: the handler returns from a refusal without a reply. *)
AnsweredIfAccepted(c, accepted, operation, type) ==
    \/ accepted /\ operation /\ Answers(c, type, TRUE, << >>)
    \/ ~ accepted /\ UNCHANGED <<state, owed, toClient>>

(***************************************************************************)
(* An engine operation and the reply to it: accepted if its guard holds,   *)
(* else refused with the state as it was.                                  *)
(***************************************************************************)
Answered(c, accepted, operation, type) ==
    \/ accepted /\ operation /\ Answers(c, type, TRUE, << >>)
    \/ ~ accepted /\ UNCHANGED state /\ Answers(c, type, FALSE, << >>)

HandleHello(c) ==
    /\ WorkerConnected(WorkerOf(c), BootOf(c))
    /\ Answers(c, "HelloAck", TRUE, <<[do |-> "announce"]>>)

(***************************************************************************)
(* A publication that is refused for lack of capacity may have adopted a   *)
(* boot; only an accepted one advances the generation with authority.      *)
(***************************************************************************)
HandlePublish(c, r) ==
    \/ /\ \E ad \in Advertised[r] : PublishResourceState(r, BootOf(c), ad)
       /\ LET before == state.resources[r]
              after == state'.resources[r]
          IN  Answers(c, "ResourceAck",
                      after.authoritative /\ after.generation # before.generation, << >>)
    \/ /\ state.resources[r].lifecycle \in {"Absent", "Retired"}
       /\ Answers(c, "ResourceAck", FALSE, << >>)
       /\ UNCHANGED state

EnvelopeCredential(p) ==
    [epoch |-> state.placements[p].epoch, generation |-> state.placements[p].generation]

(* Slip: the claim names the boot of the envelope. *)
ClaimedBootOfEnvelope(a, p) == state.placements[p].boot

ClaimedBoot(a, p) == BootOf(a)

(***************************************************************************)
(* Cancellations, reassignments and preemptions name no generation here;   *)
(* SchedulerEngine covers those that do.                                   *)
(***************************************************************************)
ControllerCredential == [epoch |-> state.epoch, generation |-> AnyGeneration]

(***************************************************************************)
(* What a scheduling handler pushes: the placement it has just committed,  *)
(* if that is assigned to a worker.                                        *)
(***************************************************************************)
Pushes ==
    LET committed == {p \in PlacementId : state.placements[p] = Absent
                                          /\ state'.placements[p] # Absent}
    IN  {p \in committed : state'.placements[p].worker # NoWorker}

HandleScheduling(c, accepted, operation) ==
    \/ /\ accepted /\ operation
       /\ Answers(c, "OtherAck", TRUE,
                  IF Pushes = {} THEN << >>
                  ELSE <<[do |-> "push", placement |-> CHOOSE p \in Pushes : TRUE]>>)
    \/ ~ accepted /\ UNCHANGED state /\ Answers(c, "OtherAck", FALSE, << >>)

HandleShutdown(c) ==
    /\ Answers(c, "OtherAck", TRUE, <<[do |-> "requestShutdown"]>>)
    /\ UNCHANGED state

HandleAgentFrame(c, m) ==
    LET p == m.placement
        bound == state.placements[p].boot
    IN  \/ m.type = "Hello" /\ HandleHello(c)
        \/ /\ m.type = "RegisterResource"
           /\ Answered(c, Registrable(m.resource),
                       \E ad \in Advertised[m.resource] :
                           RegisterResource(m.resource, BootOf(c), ad), "ResourceAck")
        \/ m.type = "PublishState" /\ HandlePublish(c, m.resource)
        \/ /\ m.type = "AssignAck"
           /\ Answered(c, Assignable(p, EnvelopeCredential(p), bound),
                       MarkAssigned(p, EnvelopeCredential(p), bound), "LifecycleAck")
        \/ /\ m.type = "Running"
           /\ Answered(c, Startable(p, EnvelopeCredential(p), bound),
                       MarkRunning(p, EnvelopeCredential(p), bound), "LifecycleAck")
        \/ /\ m.type = "Completion"
           /\ Answered(c, Completable(p, EnvelopeCredential(p), m.boot, TRUE),
                       ReportCompletion(p, EnvelopeCredential(p), m.boot, TRUE, m.target),
                       "CompletionAck")

HandleControllerFrame(c, m) ==
    LET p == m.placement
        any == ControllerCredential
    IN  \/ /\ m.type = "ScheduleRequest"
           /\ HandleScheduling(c, Submittable(m.request), SubmitRequest(m.request))
        \/ /\ m.type = "CancelRequest"
           /\ Answered(c, state.requests[m.request].state # "Absent", CancelRequest(m.request),
                       "OtherAck")
        \/ /\ m.type = "CancelPlacement"
           /\ Answered(c, EndableByController(p, any), CancelPlacement(p, any), "OtherAck")
        \/ /\ m.type = "Reassign"
           /\ HandleScheduling(c, Reassignable(p, any), ReassignPlacement(p, any))
        \/ /\ m.type = "Preempt"
           /\ HandleScheduling(c, EndableByController(p, any), PreemptPlacement(p, any))
        \/ /\ m.type = "RetireResource"
           /\ Answered(c, Retirable(m.resource), RetireResource(m.resource), "OtherAck")
        \/ /\ m.type = "DisconnectWorker"
           /\ LET lost == WorkerOf(m.agent)
                  boot == BootOf(m.agent)
              IN  Answered(c, state.workers[lost].boot = boot, MarkWorkerLost(lost, boot),
                           "OtherAck")
        \/ m.type = "Inspect" /\ UNCHANGED state /\ Answers(c, "OtherAck", TRUE, << >>)
        \/ m.type = "Shutdown" /\ HandleShutdown(c)

(***************************************************************************)
(* receive_frame and the switch over the message types.  Frames a client   *)
(* sent before it left are still read; after a shut nothing is.            *)
(***************************************************************************)
HandleFrame(c) ==
    /\ thread[c] = "serving" /\ owed[c] = << >>
    /\ link[c] # "shut" /\ toServer[c] # << >>
    /\ toServer' = [toServer EXCEPT ![c] = Tail(@)]
    /\ UNCHANGED <<client, link, thread, announced, peers, executions>>
    /\ UNCHANGED loopVars
    /\ IF c \in Agent THEN HandleAgentFrame(c, Head(toServer[c]))
                      ELSE HandleControllerFrame(c, Head(toServer[c]))

(* Slip: the thread does not see that its client has left. *)
ConnectionEndedOnlyWhenShut(c) == link[c] = "shut"

ConnectionEnded(c) ==
    \/ link[c] = "shut"
    \/ link[c] = "left" /\ toServer[c] = << >>

(* Slip: something else holds on to the peer. *)
ReturnsHeld(c) ==
    /\ thread' = [thread EXCEPT ![c] = "ended"]
    /\ UNCHANGED peers

(***************************************************************************)
(* A thread returns, and with it goes the last reference to its peer.      *)
(***************************************************************************)
Returns(c) ==
    /\ thread' = [thread EXCEPT ![c] = "ended"]
    /\ \E i \in DOMAIN peers :
          peers[i] = c /\ peers' = SubSeq(peers, 1, i - 1) \o SubSeq(peers, i + 1, Len(peers))

(* Slip: the end of a connection that the coordinator closed is not a loss. *)
EndConnectionQuietly(c) ==
    /\ thread[c] = "serving" /\ owed[c] = << >> /\ ConnectionEnded(c)
    /\ IF announced[c] THEN thread' = [thread EXCEPT ![c] = "ending"] /\ UNCHANGED peers
                       ELSE Returns(c)
    /\ UNCHANGED <<client, link, toServer, toClient, announced, owed, executions>>
    /\ UNCHANGED loopVars
    /\ \/ announced[c] /\ link[c] # "shut" /\ MarkWorkerLost(WorkerOf(c), BootOf(c))
       \/ /\ announced[c] /\ link[c] # "shut" => state.workers[WorkerOf(c)].boot # BootOf(c)
          /\ UNCHANGED state

(***************************************************************************)
(* The receive loop ends: an announced worker is lost, unless another      *)
(* incarnation has taken its place in the engine.                          *)
(***************************************************************************)
EndConnection(c) ==
    /\ thread[c] = "serving" /\ owed[c] = << >> /\ ConnectionEnded(c)
    /\ IF announced[c] THEN thread' = [thread EXCEPT ![c] = "ending"] /\ UNCHANGED peers
                       ELSE Returns(c)
    /\ UNCHANGED <<client, link, toServer, toClient, announced, owed, executions>>
    /\ UNCHANGED loopVars
    /\ \/ announced[c] /\ MarkWorkerLost(WorkerOf(c), BootOf(c))
       \/ /\ announced[c] => state.workers[WorkerOf(c)].boot # BootOf(c)
          /\ UNCHANGED state

(***************************************************************************)
(* Until the thread of a worker returns, assignments may be sent there.    *)
(***************************************************************************)
ReturnThread(c) ==
    /\ thread[c] = "ending"
    /\ Returns(c)
    /\ announced' = [announced EXCEPT ![c] = FALSE]
    /\ UNCHANGED <<state, client, link, toServer, toClient, owed, executions>>
    /\ UNCHANGED loopVars

-----------------------------------------------------------------------------
(* What a handler does after the engine has answered.                      *)

WorkerPeers == {c \in Range(peers) : announced[c]}

(* Slip: the assignment goes to every connection of the worker. *)
FindEveryWorkerPeer(w) == {c \in WorkerPeers : WorkerOf(c) = w}

(***************************************************************************)
(* find_worker_peer: the first connection of that worker, whatever its     *)
(* boot and whether or not its client is still there.                      *)
(***************************************************************************)
FindWorkerPeer(w) ==
    LET of == {i \in DOMAIN peers : peers[i] \in WorkerPeers /\ WorkerOf(peers[i]) = w}
    IN  {peers[i] : i \in {j \in of : \A k \in of : j <= k}}

(***************************************************************************)
(* request_shutdown: the first request wakes the accept loop.              *)
(***************************************************************************)
WakeUp ==
    backlog' = IF ~ stopping /\ loop = "accepting" THEN Append(backlog, Wake) ELSE backlog

DischargeDuty(c) ==
    LET duty == Head(owed[c])
    IN  /\ thread[c] = "serving" /\ owed[c] # << >>
        /\ owed' = [owed EXCEPT ![c] = Tail(@)]
        /\ UNCHANGED <<state, client, link, toServer, thread, peers, loop, executions,
                       overlooked>>
        /\ \/ /\ duty.do = "announce"
              /\ announced' = [announced EXCEPT ![c] = TRUE]
              /\ UNCHANGED <<toClient, backlog, stopping>>
           \/ /\ duty.do = "reply"
              /\ Deliver({c}, duty.frame)
              /\ UNCHANGED <<announced, backlog, stopping>>
           \/ /\ duty.do = "push"
              /\ Deliver(FindWorkerPeer(state.placements[duty.placement].worker),
                         [type |-> "Assign", placement |-> duty.placement])
              /\ UNCHANGED <<announced, backlog, stopping>>
           \/ /\ duty.do = "requestShutdown"
              /\ Deliver(WorkerPeers, [type |-> "Shutdown"])
              /\ WakeUp
              /\ stopping' = TRUE
              /\ UNCHANGED announced

-----------------------------------------------------------------------------
(* CoordinatorServer::run.                                                 *)

(***************************************************************************)
(* One round of the accept loop; it looks at shutdown_requested after it.  *)
(* register_peer drops the peers whose threads have ended.  The wake-up    *)
(* gets a thread too, which finds it closed and returns.  A request to     *)
(* stop between the accept and the look might as well come before both.    *)
(***************************************************************************)
AcceptConnection ==
    LET c == Head(backlog)
    IN  /\ loop = "accepting" /\ backlog # << >>
        /\ backlog' = Tail(backlog)
        /\ \/ /\ c = Wake
              /\ UNCHANGED <<thread, peers>>
           \/ /\ c # Wake
              /\ thread' = [thread EXCEPT ![c] = "serving"]
              /\ peers' = Append(peers, c)
        /\ loop' = IF stopping THEN "closing" ELSE "accepting"
        /\ UNCHANGED <<state, client, link, toServer, toClient, announced, owed, stopping,
                       executions, overlooked>>

(* Slip: the connections of the workers stay open. *)
CloseListenerOnly ==
    LET closed == {c \in Range(backlog) : c \in Client /\ link[c] = "open"}
    IN  /\ loop = "closing"
        /\ loop' = "joining"
        /\ link' = [c \in Client |-> IF c \in closed THEN "shut" ELSE link[c]]
        /\ toServer' = [c \in Client |-> IF c \in closed THEN << >> ELSE toServer[c]]
        /\ backlog' = << >>
        /\ overlooked' = {a \in Agent : thread[a] = "serving" /\ ~ announced[a]}
        /\ UNCHANGED <<state, client, toClient, thread, announced, owed, peers, stopping,
                       executions>>

(***************************************************************************)
(* The listener is closed, which resets what is in its backlog, and so are *)
(* the connections of the workers that have announced themselves by now.   *)
(***************************************************************************)
CloseConnections ==
    LET closed == {c \in Range(backlog) \cup WorkerPeers : c \in Client /\ link[c] = "open"}
    IN  /\ loop = "closing"
        /\ loop' = "joining"
        /\ link' = [c \in Client |-> IF c \in closed THEN "shut" ELSE link[c]]
        /\ toServer' = [c \in Client |-> IF c \in closed THEN << >> ELSE toServer[c]]
        /\ backlog' = << >>
        /\ overlooked' = {a \in Agent : thread[a] = "serving" /\ ~ announced[a]}
        /\ UNCHANGED <<state, client, toClient, thread, announced, owed, peers, stopping,
                       executions>>

JoinThreads ==
    /\ loop = "joining"
    /\ \A c \in Client : thread[c] \in {"none", "ended"}
    /\ loop' = "stopped"
    /\ UNCHANGED <<state, client, link, toServer, toClient, thread, announced, owed, peers,
                   backlog, stopping, executions, overlooked>>

-----------------------------------------------------------------------------
(* Clients.                                                                *)

Connects(c) ==
    /\ client[c].pc = "down" /\ loop \in {"accepting", "closing"}
    /\ link' = [link EXCEPT ![c] = "open"]
    /\ backlog' = Append(backlog, c)

(***************************************************************************)
(* A process that ends closes its connection.  If it is killed, frames it  *)
(* has sent may be lost with it.                                           *)
(***************************************************************************)
Leaves(c, kept) ==
    /\ client' = [client EXCEPT ![c] = [pc |-> "gone", todo |-> {}, job |-> NoPlacement,
                                        calls |-> 0]]
    /\ link' = [link EXCEPT ![c] = IF @ = "open" THEN "left" ELSE @]
    /\ toServer' = [toServer EXCEPT ![c] = SubSeq(@, 1, kept)]
    /\ toClient' = [toClient EXCEPT ![c] = << >>]

LeavesInOrder(c) == Leaves(c, Len(toServer[c]))

Sends(c, frames) ==
    toServer' = [toServer EXCEPT ![c] = IF link[c] = "open" THEN @ \o frames ELSE @]

Takes(c) == toClient' = [toClient EXCEPT ![c] = Tail(@)]

(***************************************************************************)
(* WorkerAgent::start: connect, say hello, then register each resource.    *)
(* Incarnations start in the order of their numbers, which to the          *)
(* coordinator are only names; the earlier ones need not be gone.          *)
(***************************************************************************)
AgentConnects(a) ==
    /\ Connects(a)
    /\ \A b \in 1 .. BootOf(a) - 1 : client[<<WorkerOf(a), b>>].pc # "down"
    /\ client' = [client EXCEPT ![a].pc = "hello",
                                ![a].todo = {r \in Resource : Owner[r] = WorkerOf(a)}]
    /\ toServer' = [toServer EXCEPT ![a] = <<[type |-> "Hello"]>>]
    /\ UNCHANGED <<toClient, stopping, loop, executions, overlooked>>
    /\ UNCHANGED serverVars

Expected == [hello |-> "HelloAck", register |-> "ResourceAck", publish |-> "ResourceAck",
             assignAck |-> "LifecycleAck", running |-> "LifecycleAck",
             completion |-> "CompletionAck"]

(***************************************************************************)
(* transact takes the next frame for its reply, whatever frame that is.    *)
(* The decoder of the reply fails on a frame with another layout.          *)
(***************************************************************************)
IsReply(a) == Head(toClient[a]).type = Expected[client[a].pc]
Succeeds(a) == IsReply(a) /\ Head(toClient[a]).ok

InRegistration(left) == CHOOSE r \in left : TRUE

(***************************************************************************)
(* The resources of the profile are registered one by one.                 *)
(***************************************************************************)
RegistersNext(a, left) ==
    /\ client' = [client EXCEPT ![a].pc = IF left = {} THEN "serving" ELSE "register",
                                ![a].todo = left]
    /\ Sends(a, IF left = {} THEN << >>
                ELSE <<[type |-> "RegisterResource", resource |-> InRegistration(left)]>>)

(***************************************************************************)
(* A refused registration (the resource is known) is followed by a         *)
(* publication.  On any other reply than the expected one the start fails, *)
(* and the process ends.                                                   *)
(***************************************************************************)
AgentStarts(a) ==
    LET todo == client[a].todo
        pc == client[a].pc
    IN  /\ pc \in {"hello", "register", "publish"} /\ toClient[a] # << >>
        /\ \/ /\ Succeeds(a)
              /\ RegistersNext(a, IF pc = "hello" THEN todo ELSE todo \ {InRegistration(todo)})
              /\ Takes(a) /\ UNCHANGED link
           \/ /\ pc = "register" /\ IsReply(a) /\ ~ Succeeds(a)
              /\ client' = [client EXCEPT ![a].pc = "publish"]
              /\ Sends(a, <<[type |-> "PublishState", resource |-> InRegistration(todo)]>>)
              /\ Takes(a) /\ UNCHANGED link
           \/ /\ ~ Succeeds(a) /\ (pc = "register" => ~ IsReply(a))
              /\ LeavesInOrder(a)
        /\ UNCHANGED executions
        /\ UNCHANGED serverVars /\ UNCHANGED loopVars

(***************************************************************************)
(* WorkerAgent::run.  Frames other than assignments and shutdowns, late    *)
(* replies among them, are dropped.                                        *)
(***************************************************************************)
AgentServes(a) ==
    /\ client[a].pc = "serving" /\ toClient[a] # << >>
    /\ LET frame == Head(toClient[a])
       IN  \/ /\ frame.type = "Assign"
              /\ client' = [client EXCEPT ![a].pc = "assignAck", ![a].job = frame.placement]
              /\ Sends(a, <<[type |-> "AssignAck", placement |-> frame.placement]>>)
              /\ Takes(a) /\ UNCHANGED link
           \/ /\ frame.type = "Shutdown"
              /\ LeavesInOrder(a)
           \/ /\ frame.type \notin {"Assign", "Shutdown"}
              /\ Takes(a)
              /\ UNCHANGED <<client, link, toServer>>
    /\ UNCHANGED executions
    /\ UNCHANGED serverVars /\ UNCHANGED loopVars

GivesUpAssignment(a) ==
    /\ client' = [client EXCEPT ![a].pc = "serving", ![a].job = NoPlacement]
    /\ UNCHANGED <<toServer, executions>>

Completion(a, target) ==
    [type |-> "Completion", placement |-> client[a].job,
     boot |-> ClaimedBoot(a, client[a].job), target |-> target]

(***************************************************************************)
(* handle_assignment.  A refused acknowledgement ends it; a refused start  *)
(* does not, because only the transport status of call_running is read.    *)
(***************************************************************************)
AgentHandlesAssignment(a) ==
    LET p == client[a].job
    IN  /\ client[a].pc \in {"assignAck", "running", "completion"} /\ toClient[a] # << >>
        /\ Takes(a)
        /\ \/ /\ client[a].pc = "assignAck" /\ Succeeds(a)
              /\ client' = [client EXCEPT ![a].pc = "running"]
              /\ Sends(a, <<[type |-> "Running", placement |-> p]>>)
              /\ UNCHANGED executions
           \/ /\ client[a].pc = "running" /\ IsReply(a) /\ a \notin Holding
              /\ client' = [client EXCEPT ![a].pc = "completion"]
              /\ executions' = [executions EXCEPT ![p] = Append(@, a)]
              /\ \E target \in Outcomes : Sends(a, <<Completion(a, target)>>)
           \/ /\ \/ client[a].pc = "assignAck" /\ ~ Succeeds(a)
                 \/ client[a].pc = "running" /\ (~ IsReply(a) \/ a \in Holding)
                 \/ client[a].pc = "completion"
              /\ GivesUpAssignment(a)
        /\ UNCHANGED link
        /\ UNCHANGED serverVars /\ UNCHANGED loopVars

(***************************************************************************)
(* A receive fails once the coordinator has shut the connection, at once   *)
(* or after the frames that are still there: run returns.                  *)
(***************************************************************************)
AgentDisconnected(a) ==
    /\ client[a].pc \notin {"down", "gone"} /\ link[a] = "shut"
    /\ LeavesInOrder(a)
    /\ UNCHANGED executions
    /\ UNCHANGED serverVars /\ UNCHANGED loopVars

(* A worker process may be killed at any point. *)
AgentKilled(a) ==
    /\ a \in Mortal /\ client[a].pc \notin {"down", "gone"} /\ link[a] = "open"
    /\ \E kept \in 0 .. Len(toServer[a]) : Leaves(a, kept)
    /\ UNCHANGED executions
    /\ UNCHANGED serverVars /\ UNCHANGED loopVars

CallsMade(k, frame) == IF frame.type = "Shutdown" THEN Len(Session) ELSE client[k].calls + 1

ControllerConnects(k) ==
    /\ Connects(k) /\ Session # << >>
    /\ \E frame \in Session[1] :
          /\ client' = [client EXCEPT ![k].pc = "call", ![k].calls = CallsMade(k, frame)]
          /\ toServer' = [toServer EXCEPT ![k] = <<frame>>]
    /\ UNCHANGED <<toClient, stopping, loop, executions, overlooked>>
    /\ UNCHANGED serverVars

(***************************************************************************)
(* A controller has its reply, takes it and calls again.                   *)
(***************************************************************************)
ControllerCalls(k) ==
    /\ client[k].pc = "call" /\ toClient[k] # << >> /\ client[k].calls < Len(Session)
    /\ \E frame \in Session[client[k].calls + 1] :
          /\ client' = [client EXCEPT ![k].calls = CallsMade(k, frame)]
          /\ Sends(k, <<frame>>)
    /\ Takes(k)
    /\ UNCHANGED <<link, executions>>
    /\ UNCHANGED serverVars /\ UNCHANGED loopVars

(***************************************************************************)
(* A controller ends after a reply, or when its connection is shut.        *)
(***************************************************************************)
ControllerLeaves(k) ==
    /\ client[k].pc = "call" /\ (toClient[k] # << >> \/ link[k] = "shut")
    /\ LeavesInOrder(k)
    /\ UNCHANGED executions
    /\ UNCHANGED serverVars /\ UNCHANGED loopVars

-----------------------------------------------------------------------------
ServerStep(c) == DischargeDuty(c) \/ ReturnThread(c) \/ EndConnection(c) \/ HandleFrame(c)

RunStep == AcceptConnection \/ CloseConnections \/ JoinThreads

AgentStep(a) ==
    AgentStarts(a) \/ AgentServes(a) \/ AgentHandlesAssignment(a) \/ AgentDisconnected(a)

(***************************************************************************)
(* What threads and processes do of their own accord, as opposed to what   *)
(* the environment may or may not do: start, call and kill.                *)
(***************************************************************************)
Progress ==
    \/ RunStep
    \/ \E a \in Agent : AgentStep(a)
    \/ \E k \in Controller : ControllerLeaves(k)
    \/ \E c \in Client : ServerStep(c)

Environment ==
    \/ \E a \in Agent : AgentConnects(a) \/ AgentKilled(a)
    \/ \E k \in Controller : ControllerConnects(k) \/ ControllerCalls(k)

ClusterNext == Progress \/ Environment

(***************************************************************************)
(* Fairness: the machine does not idle while a thread or process can go    *)
(* on.  Controllers are commands that call and exit, so they do.  Fairness *)
(* among the threads is not needed: none can run for ever by itself.       *)
(***************************************************************************)
ClusterSpec == ClusterInit /\ [][ClusterNext]_clusterVars /\ WF_clusterVars(Progress)

-----------------------------------------------------------------------------
ClusterTypeOK ==
    /\ TypeOK
    /\ client \in [Client -> ClientProcess]
    /\ link \in [Client -> {"unused", "open", "left", "shut"}]
    /\ \A a \in Agent : toServer[a] \in Seq(AgentFrame)
    /\ \A k \in Controller : toServer[k] \in Seq(ControllerFrame)
    /\ \A c \in Client : toClient[c] \in Seq(ServerFrame)
    /\ thread \in [Client -> {"none", "serving", "ending", "ended"}]
    /\ announced \in [Client -> BOOLEAN]
    /\ \A c \in Client : owed[c] \in Seq(Duty)
    /\ IsInjective(peers) /\ Range(peers) = {c \in Client : thread[c] \in {"serving", "ending"}}
    /\ backlog \in Seq(Client \cup {Wake}) /\ IsInjective(backlog)
    /\ stopping \in BOOLEAN
    /\ loop \in {"accepting", "closing", "joining", "stopped"}
    /\ overlooked \subseteq Agent
    /\ \A p \in PlacementId : executions[p] \in Seq(Agent)

(***************************************************************************)
(* Once the thread of a worker's connection has ended, no live placement   *)
(* is bound to that incarnation and none of its evidence is authoritative, *)
(* although frames of other incarnations, assignments and controllers ran  *)
(* in between and whichever side closed the connection first.              *)
(***************************************************************************)
EndedConnectionHoldsNothing ==
    \A a \in Agent : thread[a] = "ended" =>
        /\ \A p \in Live(state) :
              ~ (state.placements[p].worker = WorkerOf(a) /\ state.placements[p].boot = BootOf(a))
        /\ \A r \in Resource : Owner[r] = WorkerOf(a) /\ state.resources[r].boot = BootOf(a) =>
              ~ state.resources[r].authoritative

(***************************************************************************)
(* A result that the engine accepted is the result of a run by the very    *)
(* incarnation the placement is bound to, although assignments go to any   *)
(* connection of the worker and another incarnation may execute them too.  *)
(***************************************************************************)
ResultsComeFromTheBoundWorker ==
    \A p \in Placements(state) : state.placements[p].state \in {"Completed", "Failed"} =>
        <<state.placements[p].worker, state.placements[p].boot>> \in Range(executions[p])

(***************************************************************************)
(* No placement is executed twice: an assignment is pushed once, to one    *)
(* connection, and no lost or misread reply makes an agent start again.    *)
(***************************************************************************)
ExecutedAtMostOnce == \A p \in PlacementId : Len(executions[p]) <= 1

(***************************************************************************)
(* Again and again a moment comes when no client waits for an answer: each *)
(* got a frame or saw its connection end.  No handler forgets its reply    *)
(* and no two processes wait for each other.                               *)
(***************************************************************************)
CallsReturn == []<>(\A c \in Client : client[c].pc \notin Waiting)

BoundToDead(p) ==
    /\ p \in Live(state)
    /\ \E a \in Agent : client[a].pc = "gone"
          /\ state.placements[p].worker = WorkerOf(a) /\ state.placements[p].boot = BootOf(a)

(***************************************************************************)
(* When worker processes are gone, the placements bound to them end.       *)
(***************************************************************************)
DeadWorkersAreReleased == []<>(\A p \in PlacementId : ~ BoundToDead(p))

(***************************************************************************)
(* A requested shutdown ends, with every thread joined, once controllers   *)
(* have left, unless a worker whose Hello was unread when the connections  *)
(* of the workers were closed keeps its own.                               *)
(***************************************************************************)
ShutdownEnds ==
    []<>(stopping => loop = "stopped" \/ \E a \in overlooked : link[a] = "open")
=============================================================================
