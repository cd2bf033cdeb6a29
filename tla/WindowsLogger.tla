----------------------------- MODULE WindowsLogger -----------------------------
(***************************************************************************)
(* windows::Logger: the thread of one LogProducer collects the entries of  *)
(* a trace session of the system (RealTimeWppClient, WppController,        *)
(* WppConsumer) and adds them to the BlockingQueue that it opens and       *)
(* closes itself.  mLogActivationContextMutex serialises the clients; they *)
(* meet the producer in mStopRequestMutex (is it too late to start the     *)
(* session?) and mHandleMutex (who stops it?), each critical section of    *)
(* which is one step.                                                      *)
(***************************************************************************)
EXTENDS Naturals, Sequences

CONSTANTS
  Reader,          (* the HTTP thread that streams the log                 *)
  NullPtr,         (* the end of the log stream                            *)
  QueueMaxBlocks,  (* queueMaxMemoryBytes, in blocks                       *)
  Faults           (* may ioctls and trace functions fail?                 *)

Sessions == {0, 1}   \* a log block carries the parity of its log session

ASSUME WindowsLoggerAssumption ==
  /\ QueueMaxBlocks \in Nat /\ Faults \in BOOLEAN
  /\ NullPtr \notin Sessions

VARIABLES
  mOpen, mQueue, mCurrentSize, reader, result, added,   \* mLogEntryQueue
  step,            (* where the holder of the activation mutex is          *)
  call,            (* the last call that took the activation mutex         *)
  mLogProducer,    (* is there a producer?                                 *)
  thread,          (* where its thread is                                  *)
  mStopRequest,    (* of its client                                        *)
  mHandle,         (* has its controller the handle of a trace session?    *)
  tracing,         (* has the system a trace session of our name?          *)
  session,         (* parity of the current log session                    *)
  leaked           (* history: did a StopTrace fail, or an agent that      *)
                   (* crashed leave its session?                           *)

queueVars  == <<mOpen, mQueue, mCurrentSize, reader, result, added>>
activation == <<step, call, mLogProducer, session>>
trace == <<mHandle, tracing, leaked>>
vars == <<queueVars, activation, thread, mStopRequest, trace>>

Queue == INSTANCE BlockingQueue
  WITH Elements <- Sessions, ElementSize <- [s \in Sessions |-> 1],
       MaxByteSize <- QueueMaxBlocks, Consumers <- {Reader}, pc <- reader,
       SpuriousWakeups <- FALSE, Quiescent <- FALSE

Init ==
  /\ Queue!Init
  /\ step = "idle" /\ call = "none" /\ mLogProducer = FALSE /\ session = 0
  /\ thread = "none" /\ mStopRequest = FALSE
  /\ mHandle = FALSE /\ tracing \in BOOLEAN /\ leaked = tracing
-----------------------------------------------------------------------------
(* The clients: setParameters() and stop().                                  *)

\* The thread of the new producer runs before the ioctl is sent.
StartLog ==
  /\ step = "idle" /\ ~mLogProducer
  /\ step' = "startIoctl" /\ call' = "start" /\ mLogProducer' = TRUE /\ session' = 1 - session
  /\ thread' = "openQueue" /\ mStopRequest' = FALSE /\ mHandle' = FALSE
  /\ UNCHANGED <<queueVars, tracing, leaked>>

\* A start that the driver refuses destroys its producer.
SetStarted ==
  /\ step = "startIoctl"
  /\ step' = "idle" \/ (Faults /\ step' = "stopClient")
  /\ UNCHANGED <<call, mLogProducer, session, queueVars, thread, mStopRequest, trace>>

StopLog(by) ==
  /\ step = "idle" /\ by \in {"stop", "shutdown"}
  /\ call' = by
  /\ \/ mLogProducer /\ step' = "stopIoctl"
     \/ ~mLogProducer /\ by = "shutdown" /\ step' = "closeQueue"
  /\ UNCHANGED <<mLogProducer, session, queueVars, thread, mStopRequest, trace>>

\* Refused or not, ptrDeleter destroys the producer.
SetStopped ==
  /\ step = "stopIoctl"
  /\ step' = "stopClient"
  /\ UNCHANGED <<call, mLogProducer, session, queueVars, thread, mStopRequest, trace>>

\* WppController::stop(): when StopTrace fails the handle is forgotten.
StopController ==
  /\ mHandle' = FALSE
  /\ \/ ~mHandle /\ UNCHANGED <<tracing, leaked>>
     \/ mHandle /\ tracing' = FALSE /\ UNCHANGED leaked
     \/ mHandle /\ tracing /\ Faults /\ leaked' = TRUE /\ UNCHANGED tracing

\* ~LogProducer(): RealTimeWppClient::stop() ...
StopClient ==
  /\ step = "stopClient"
  /\ mStopRequest' = TRUE
  /\ IF mStopRequest THEN UNCHANGED trace ELSE StopController
  /\ step' = "join"
  /\ UNCHANGED <<call, mLogProducer, session, queueVars, thread>>

\* ... and the end of the thread.
JoinThread ==
  /\ step = "join" /\ thread = "done"
  /\ thread' = "none" /\ mLogProducer' = FALSE
  /\ step' = IF call = "shutdown" THEN "closeQueue" ELSE "idle"
  /\ UNCHANGED <<call, session, queueVars, mStopRequest, trace>>

CloseQueue ==
  /\ step = "closeQueue"
  /\ Queue!Close
  /\ step' = "idle"
  /\ UNCHANGED <<call, mLogProducer, session, thread, mStopRequest, trace>>
-----------------------------------------------------------------------------
(* The thread of the producer: produceEntries().                             *)

OpenQueue ==
  /\ thread = "openQueue"
  /\ Queue!Open
  /\ thread' = "start"
  /\ UNCHANGED <<activation, mStopRequest, trace>>

\* WppController::start(): it ends a session of our name that it finds, starts
\* one, and stops it again when the provider cannot be enabled.
StartController ==
  \/ mHandle' = TRUE /\ tracing' = TRUE /\ leaked' = FALSE /\ thread' = "openTrace"
  \/ /\ Faults /\ UNCHANGED mHandle /\ thread' = "closeQueue"
     /\ \/ UNCHANGED <<tracing, leaked>>            \* the old session stays
        \/ tracing' = FALSE /\ leaked' = FALSE      \* no new session, or a stopped one
        \/ tracing' = TRUE /\ leaked' = TRUE        \* a new one that does not stop

\* Fault: the request is tested, but not in the section that starts the session.
StartLate ==
  /\ thread = "start"
  /\ StartController
  /\ UNCHANGED <<activation, queueVars, mStopRequest>>

\* collectLogEntries() up to the end of its locked block.
StartSession ==
  /\ thread = "start"
  /\ IF mStopRequest THEN thread' = "closeQueue" /\ UNCHANGED trace ELSE StartController
  /\ UNCHANGED <<activation, queueVars, mStopRequest>>

\* A session that has been stopped meanwhile can perhaps not be opened.
OpenTrace ==
  /\ thread = "openTrace"
  /\ thread' = "process" \/ ((Faults \/ ~tracing) /\ thread' = "stopSession")
  /\ UNCHANGED <<activation, queueVars, mStopRequest, trace>>

\* The system calls ProcessWppEvent(), which ignores foreign and bad entries.
ProcessWppEvent ==
  /\ thread = "process" /\ tracing
  /\ Queue!Add(session)
  /\ UNCHANGED <<activation, thread, mStopRequest, trace>>

\* ProcessTrace returns when the session is over.
ProcessTraceReturns ==
  /\ thread = "process" /\ ~tracing
  /\ thread' = "stopSession"
  /\ UNCHANGED <<activation, queueVars, mStopRequest, trace>>

ProcessTraceFails ==
  /\ Faults
  /\ thread = "process" /\ tracing
  /\ thread' = "stopSession"
  /\ UNCHANGED <<activation, queueVars, mStopRequest, trace>>

\* Fault: a consumer that fails leaves the session to its owner.
LeaveSession ==
  /\ thread = "stopSession"
  /\ thread' = "closeQueue"
  /\ mHandle' = FALSE
  /\ UNCHANGED <<tracing, leaked, activation, queueVars, mStopRequest>>

\* mController.stop(), with an exception on its way or not.
StopSession ==
  /\ thread = "stopSession"
  /\ StopController
  /\ thread' = "closeQueue"
  /\ UNCHANGED <<activation, queueVars, mStopRequest>>

\* Fault: nothing closes the queue.
FinishWithoutClosing ==
  /\ thread = "closeQueue"
  /\ thread' = "done"
  /\ UNCHANGED <<activation, queueVars, mStopRequest, trace>>

\* ~AutoOpenClose(), however collectLogEntries() has ended.
Finish ==
  /\ thread = "closeQueue"
  /\ Queue!Close
  /\ thread' = "done"
  /\ UNCHANGED <<activation, mStopRequest, trace>>
-----------------------------------------------------------------------------
ReadLogBlock ==
  /\ Queue!Remove(Reader)
  /\ UNCHANGED <<activation, thread, mStopRequest, trace>>

ReadLogBlockResume ==
  /\ Queue!Resume(Reader)
  /\ UNCHANGED <<activation, thread, mStopRequest, trace>>
-----------------------------------------------------------------------------
Alive == Queue!Running

Controller == SetStarted \/ SetStopped \/ StopClient \/ JoinThread \/ CloseQueue

Produce ==
  OpenQueue \/ StartSession \/ OpenTrace \/ ProcessTraceReturns \/ StopSession \/ Finish

Step ==
  \/ StartLog \/ StopLog("stop") \/ StopLog("shutdown") \/ Controller
  \/ Produce \/ ProcessWppEvent \/ ProcessTraceFails
  \/ ReadLogBlock \/ ReadLogBlockResume

Next == Alive /\ Step

Spec == Init /\ [][Next]_vars

\* Threads that can run do; no client has to call, no event has to come, no
\* trace function has to fail.
FairSpec ==
  /\ Spec
  /\ WF_vars(Alive /\ Controller)
  /\ WF_vars(Alive /\ Produce)
  /\ WF_vars(Alive /\ ReadLogBlockResume)
-----------------------------------------------------------------------------
(* The values each variable takes.                                           *)
TypeOK ==
  /\ Queue!TypeOK
  /\ step \in {"idle", "startIoctl", "stopIoctl", "stopClient", "join", "closeQueue"}
  /\ call \in {"none", "start", "stop", "shutdown"}
  /\ thread \in {"none", "openQueue", "start", "openTrace", "process", "stopSession",
                 "closeQueue", "done"}
  /\ mLogProducer \in BOOLEAN /\ mStopRequest \in BOOLEAN
  /\ mHandle \in BOOLEAN /\ tracing \in BOOLEAN /\ leaked \in BOOLEAN
  /\ session \in Sessions

(* Trace sessions outlive the process: when no thread consumes a session,    *)
(* none is left in the system, whatever failed but StopTrace itself.         *)
NoOrphanSession ==
  tracing => leaked \/ thread \in {"openTrace", "process", "stopSession"}

(* A reader never waits for the entries of a producer that is gone, however  *)
(* its session ended.                                                        *)
ReadersGetAnEnd == reader[Reader] = "waiting" => thread \notin {"none", "openQueue", "done"}

(* stop() never loses the race against the start of the session: a call that *)
(* destroys the producer returns, whatever failed but StopTrace.             *)
StopReturns ==
  step \in {"stopIoctl", "stopClient", "join"} ~> (step = "idle" \/ leaked \/ ~Alive)

Client == INSTANCE WppClient
  WITH phase <- CASE thread = "none" -> "none"
                  [] thread \in {"openQueue", "start"} -> "created"
                  [] thread \in {"openTrace", "process", "stopSession"} -> "collecting"
                  [] OTHER -> "ended",
       stopped <- mStopRequest

(* The client is what the comment of WppClient::stop() says: a session that  *)
(* is stopped before it starts never starts, one that is being consumed      *)
(* ends.                                                                     *)
ImplementsWppClient == Client!Spec
=============================================================================
