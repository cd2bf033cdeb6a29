--------------------------------- MODULE Agent ---------------------------------
(***************************************************************************)
(* The agent as its clients see it: a bounded pool of HTTP threads         *)
(* (rest::Server, RestResourceRequestHandler) that stream the log and the  *)
(* probes (core::Resources, cavs::System) under one mutex per stream and   *)
(* that start and stop the services that feed the streams, and             *)
(* ~DebugAgent(), which takes all of it down while requests are served.    *)
(*                                                                         *)
(* A service is reduced to what its own module shows of it: which of its   *)
(* queues a start, a stop or a failure of one leaves open, and with what.  *)
(* That an inactive service has an open queue is not excluded: a reader    *)
(* then waits for a producer that nobody has started.  The log service is  *)
(* the one of Linux; the thread that produces the log of Windows opens and *)
(* closes its queue itself (WindowsLogger).                                *)
(***************************************************************************)
EXTENDS Naturals

CONSTANTS
  HttpThreads,  (* of the pool of the HTTP server                          *)
  Services,     (* what a parameter request starts and stops               *)
  LogService,   (* the one that Driver::stop() stops                       *)
  OutStreams,   (* the streams that a client GETs                          *)
  InStreams,    (* the streams that a client PUTs                          *)
  ServiceOf,    (* the service that a stream belongs to                    *)
  NoHolder      (* holds a mutex that is free                              *)

Streams == OutStreams \cup InStreams

ASSUME AgentAssumption ==
  /\ LogService \in Services /\ ServiceOf \in [Streams -> Services]
  /\ NoHolder \notin HttpThreads

Requests == [op : {"stream"}, on : Streams] \cup [op : {"set"}, on : Services]

NoRequest == [op |-> "none", on |-> NoHolder]

VARIABLES
  mainPhase,  (* of the main thread, from "serving" to "destroyed"         *)
  pc, req,    (* where each HTTP thread is, and what it was asked          *)
  connected,  (* has the client of each thread not left?                   *)
  holder,     (* who holds the mutex of each stream                        *)
  active,     (* is each service started?                                  *)
  opened,     (* is the queue or ring of each stream open?                 *)
  queue       (* blocks in the queue or ring of each stream: none or one   *)

threadVars == <<pc, req, connected>>
serviceVars == <<active, opened, queue>>
agentVars == <<mainPhase, threadVars, holder, serviceVars>>

AgentInit ==
  /\ mainPhase = "serving"
  /\ pc = [t \in HttpThreads |-> "free"]
  /\ req = [t \in HttpThreads |-> NoRequest]
  /\ connected = [t \in HttpThreads |-> TRUE]
  /\ holder = [s \in Streams |-> NoHolder]
  /\ active = [v \in Services |-> FALSE]
  /\ opened = [s \in Streams |-> FALSE] /\ queue = [s \in Streams |-> 0]

Goto(t, label) == pc' = [pc EXCEPT ![t] = label]

At(t, label, op) == pc[t] = label /\ req[t].op = op

Stream(t) == req[t].on

Streaming(t) == pc[t] \in {"header", "body", "receive", "enqueue"}

\* Fault: stopAll(false), which leaves open the connections in use.
ConnectedUntilServed(t) == connected[t]

\* Has the socket of a thread's client been closed by neither side?
Connected(t) == connected[t] /\ mainPhase \notin {"joining", "destroyed"}
-----------------------------------------------------------------------------
(* Connections, and requests that do not stream.                             *)

\* Only a thread that streams notices that its client has left.
Disconnect(t) ==
  /\ Streaming(t) /\ connected[t]
  /\ connected' = [connected EXCEPT ![t] = FALSE]
  /\ UNCHANGED <<mainPhase, pc, req, holder, serviceVars>>

\* A connection that is waiting gets a thread of the pool.
Take(t) ==
  /\ pc[t] = "free" /\ mainPhase \in {"serving", "stopping"}
  /\ Goto(t, "handle") /\ \E r \in Requests : req' = [req EXCEPT ![t] = r]
  /\ UNCHANGED <<mainPhase, connected, holder, serviceVars>>

\* Fault: the response outlives the request.
FinishKeepingTheLock(t) ==
  /\ Goto(t, "free") /\ req' = [req EXCEPT ![t] = NoRequest]
  /\ connected' = [connected EXCEPT ![t] = TRUE]
  /\ UNCHANGED <<mainPhase, holder>>

\* The answer is sent, or cannot be: the thread goes back to the pool and the
\* response, with the mutex of its stream, is destroyed.
Finish(t) ==
  /\ Goto(t, "free") /\ req' = [req EXCEPT ![t] = NoRequest]
  /\ connected' = [connected EXCEPT ![t] = TRUE]
  /\ holder' = [s \in Streams |-> IF holder[s] = t THEN NoHolder ELSE holder[s]]
  /\ UNCHANGED mainPhase

StreamsOf(v) == {s \in Streams : ServiceOf[s] = v}

\* What a call of service v leaves of its queues.  A start empties those that
\* are read, if it gets so far, and a stop those that are written.
Leave(v, streams) ==
  /\ opened' = [s \in Streams |-> IF ServiceOf[s] = v THEN s \in streams ELSE opened[s]]
  /\ queue' \in {queue, [s \in Streams |-> IF ServiceOf[s] = v THEN 0 ELSE queue[s]]}

\* A log start opens the queue once it has set the level, and a failure after
\* that leaves it open, with no producer or with some: then the service is
\* active.  A failing start of the probes closes what it has opened, unless the
\* exception is one that the service does not catch.
Start(v) ==
  /\ ~active[v]
  /\ \E started \in BOOLEAN, streams \in SUBSET StreamsOf(v) :
       /\ v = LogService => streams = StreamsOf(v)
       /\ active' = [active EXCEPT ![v] = started]
       /\ Leave(v, streams)

\* The log closes its queue.  The probes close those their maps know, which a
\* start of the started service, or one that left by an exception, has replaced.
Stop(v) ==
  /\ active[v]
  /\ \E streams \in SUBSET {s \in StreamsOf(v) : opened[s]} :
       /\ v = LogService => streams = {}
       /\ active' = [active EXCEPT ![v] = FALSE]
       /\ Leave(v, streams)

\* Setting the parameters of a service.  Nothing changes when a service is in
\* the state it is set to, a log whose queue a failed start has left open
\* included, when the call fails at once, or when the request is for no
\* resource, with no verb or with wrong content.
SetService(t) ==
  /\ At(t, "handle", "set")
  /\ LET v == req[t].on
     IN  Start(v) \/ Stop(v) \/ UNCHANGED serviceVars
  /\ Finish(t)
-----------------------------------------------------------------------------
(* Streams.                                                                  *)

\* Fault: the mutex is not tried.
AcquireAnyway(t) ==
  /\ At(t, "handle", "stream")
  /\ holder' = [holder EXCEPT ![Stream(t)] = t]
  /\ Goto(t, IF Stream(t) \in OutStreams THEN "header" ELSE "receive")
  /\ UNCHANGED <<mainPhase, req, connected, serviceVars>>

\* tryToAcquire...Resource(), which sends an error when the stream is used.
Acquire(t) ==
  /\ At(t, "handle", "stream") /\ holder[Stream(t)] = NoHolder
  /\ holder' = [holder EXCEPT ![Stream(t)] = t]
  /\ Goto(t, IF Stream(t) \in OutStreams THEN "header" ELSE "receive")
  /\ UNCHANGED <<mainPhase, req, connected, serviceVars>>

SendLocked(t) ==
  /\ At(t, "handle", "stream") /\ holder[Stream(t)] # NoHolder
  /\ Finish(t) /\ UNCHANGED serviceVars

\* Sending to a client that has left may fail, or not yet.
SendHeader(t) ==
  /\ pc[t] = "header"
  /\ \/ Goto(t, "body") /\ UNCHANGED <<mainPhase, req, connected, holder>>
     \/ ~Connected(t) /\ Finish(t)
  /\ UNCHANGED serviceVars

\* Fault: a failed write is not noticed.
WriteOn(t) ==
  /\ pc[t] = "body" /\ queue[Stream(t)] > 0
  /\ queue' = [queue EXCEPT ![Stream(t)] = @ - 1]
  /\ UNCHANGED <<mainPhase, threadVars, holder, active, opened>>

\* doWriting(): a block is written, and the stream of a client that has left
\* turns out to be bad, if only when the buffers of the socket are full.
WriteBlock(t) ==
  /\ pc[t] = "body" /\ queue[Stream(t)] > 0
  /\ queue' = [queue EXCEPT ![Stream(t)] = @ - 1]
  /\ \/ Connected(t) /\ UNCHANGED <<mainPhase, threadVars, holder>>
     \/ ~Connected(t) /\ Finish(t)
  /\ UNCHANGED <<active, opened>>

\* The queue returns null: the end of the stream, which closes the connection.
EndBody(t) ==
  /\ pc[t] = "body" /\ queue[Stream(t)] = 0 /\ ~opened[Stream(t)]
  /\ Finish(t) /\ UNCHANGED serviceVars

\* doReading(): more bytes come, or the end of the request, or an error.
Receive(t) ==
  /\ pc[t] = "receive"
  /\ \/ Connected(t) /\ Goto(t, "enqueue") /\ UNCHANGED <<mainPhase, req, connected, holder>>
     \/ Finish(t)
  /\ UNCHANGED serviceVars

\* enqueueInjectionBlock(), whose result is ignored, blocks while the ring is
\* full and open.
Enqueue(t) ==
  /\ pc[t] = "enqueue" /\ (opened[Stream(t)] => queue[Stream(t)] = 0)
  /\ queue' = IF opened[Stream(t)] THEN [queue EXCEPT ![Stream(t)] = 1] ELSE queue
  /\ Goto(t, "receive")
  /\ UNCHANGED <<mainPhase, req, connected, holder, active, opened>>

\* The threads of the services.  A log that is not active has none; of the
\* probes an abandoned start may have left some.
Fed(s) == opened[s] /\ (active[ServiceOf[s]] \/ ServiceOf[s] # LogService)

Produce(s) ==
  /\ s \in OutStreams /\ Fed(s) /\ queue[s] = 0
  /\ queue' = [queue EXCEPT ![s] = 1]
  /\ UNCHANGED <<mainPhase, threadVars, holder, active, opened>>

Inject(s) ==
  /\ s \in InStreams /\ Fed(s) /\ queue[s] = 1
  /\ queue' = [queue EXCEPT ![s] = 0]
  /\ UNCHANGED <<mainPhase, threadVars, holder, active, opened>>
-----------------------------------------------------------------------------
(* ~DebugAgent(), then ~Server() and the members before it.                  *)

\* mSystem.stop() is Driver::stop(), which calls Logger::stop(): without a
\* producer it does nothing.
StopSystem ==
  /\ mainPhase = "serving" /\ mainPhase' = "stopping"
  /\ Stop(LogService) \/ (~active[LogService] /\ UNCHANGED serviceVars)
  /\ UNCHANGED <<threadVars, holder>>

\* stopAll(true): no connection is taken any more and every socket is shut.
StopServer ==
  /\ mainPhase = "stopping" /\ mainPhase' = "joining"
  /\ UNCHANGED <<threadVars, holder, serviceVars>>

\* joinAll(); the driver, the last member, stops what is still active.
Join ==
  /\ mainPhase = "joining" /\ \A t \in HttpThreads : pc[t] = "free"
  /\ mainPhase' = "destroyed" /\ active' = [v \in Services |-> FALSE]
  /\ opened' = [s \in Streams |-> FALSE]
  /\ UNCHANGED <<threadVars, holder, queue>>
-----------------------------------------------------------------------------
HttpThreadStep(t) ==
  \/ SetService(t)
  \/ Acquire(t) \/ SendLocked(t) \/ SendHeader(t) \/ WriteBlock(t) \/ EndBody(t)
  \/ Receive(t) \/ Enqueue(t)

Environment ==
  \/ \E t \in HttpThreads : Take(t) \/ Disconnect(t)
  \/ \E s \in Streams : Produce(s) \/ Inject(s)

MainThread == StopSystem \/ StopServer \/ Join

AgentNext == (\E t \in HttpThreads : HttpThreadStep(t)) \/ Environment \/ MainThread

AgentSpec == AgentInit /\ [][AgentNext]_agentVars

\* Threads are scheduled and nobody need ask the agent to stop, but a stop
\* that began goes on; the socket of a client that is silent times out, which
\* is an end of Receive.  A service need not produce, nor take what is injected.
FairSpec ==
  /\ AgentSpec
  /\ \A t \in HttpThreads : WF_agentVars(HttpThreadStep(t))
  /\ WF_agentVars(StopServer) /\ WF_agentVars(Join)
-----------------------------------------------------------------------------
TypeOK ==
  /\ mainPhase \in {"serving", "stopping", "joining", "destroyed"}
  /\ pc \in [HttpThreads -> {"free", "handle", "header", "body", "receive", "enqueue"}]
  /\ req \in [HttpThreads -> Requests \cup {NoRequest}]
  /\ connected \in [HttpThreads -> BOOLEAN]
  /\ holder \in [Streams -> HttpThreads \cup {NoHolder}]
  /\ active \in [Services -> BOOLEAN] /\ opened \in [Streams -> BOOLEAN]
  /\ queue \in [Streams -> {0, 1}]

\* The mutexes of System: a stream is written or read by the thread that holds
\* its mutex and by no other, however the requests before it have ended, and
\* a thread that is back in the pool holds none.
Uses(t, s) == Streaming(t) /\ Stream(t) = s

StreamsAreExclusive ==
  \A s \in Streams, t \in HttpThreads : Uses(t, s) <=> holder[s] = t

\* The pool: streams block their threads for as long as a queue stays open,
\* but there are more threads than streams and a stream has one reader, so
\* that the request that stops the service gets a thread.
AThreadGetsFree == []<>(\E t \in HttpThreads : pc[t] = "free")

\* doWriting(): once the queue is closed for good, or stays open and is filled
\* again and again, a client that has left does not keep its stream from the
\* others.
DeadClientsAreDropped ==
  \A s \in OutStreams :
    (<>[]~opened[s] \/ (<>[]opened[s] /\ []<>(queue[s] > 0))) =>
      []<>(\A t \in HttpThreads : holder[s] = t => Connected(t))

\* A thread that waits in remove() or in writeBlocking().
Blocked(t) ==
  /\ Streaming(t) /\ opened[Stream(t)]
  /\ \/ pc[t] = "body" /\ queue[Stream(t)] = 0
     \/ pc[t] = "enqueue" /\ queue[Stream(t)] = 1

\* ~DebugAgent(): whatever clients and services do, the destructor of the
\* server joins every thread but one that waits for ever at a queue that
\* nobody closes: of a service still active, or that a failed start left open.
OnlyOpenQueuesKeepTheAgent ==
  (mainPhase # "serving") ~>
    (mainPhase = "destroyed" \/ [](\E t \in HttpThreads : Blocked(t)))

\* ~DebugAgent() says of mSystem.stop() that it unblocks all threads that
\* consume events, so that the destructor of the server can join them.
\* TLC refutes it: README, section 6.
ShutdownFinishes == (mainPhase # "serving") ~> (mainPhase = "destroyed")
=============================================================================
