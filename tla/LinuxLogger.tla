------------------------------ MODULE LinuxLogger ------------------------------
(***************************************************************************)
(* linux::Logger: one LogProducer per DSP core reads a compress device in  *)
(* a thread of its own and adds what it reads to one BlockingQueue; an     *)
(* HTTP thread streams the queue; other HTTP threads start and stop the    *)
(* log.  mLogActivationContextMutex serialises start and stop, so one      *)
(* activity ("step") stands for whoever holds it.  mLogDeviceMutex makes   *)
(* each critical section of a producer one step; what is not under it, the *)
(* poll of the device, is where the threads meet.                          *)
(***************************************************************************)
EXTENDS Naturals, Sequences, FiniteSets

CONSTANTS
  Cores,           (* the cores with a logger compress device              *)
  Reader,          (* the HTTP thread that streams the log (exclusive:     *)
                   (* System::tryToAcquireLogStreamResource)               *)
  NullPtr,         (* the end of the log stream                            *)
  QueueMaxBlocks,  (* queueMaxMemoryBytes, in blocks                       *)
  StartFaults,     (* may a step of starting the log fail?                 *)
  DeviceFaults,    (* may a device refuse to stop, or fail while polled?   *)
  SpuriousWakeups, (* may mCondVar.wait() in stopLogDevice() return early? *)
  MaxStuck         (* bound: the votes whose withdrawal fails              *)

Sessions == {0, 1}   \* a log block carries the parity of its log session

ASSUME LoggerAssumption ==
  /\ IsFiniteSet(Cores)
  /\ QueueMaxBlocks \in Nat
  /\ NullPtr \notin Sessions
  /\ StartFaults \in BOOLEAN /\ DeviceFaults \in BOOLEAN /\ SpuriousWakeups \in BOOLEAN
  /\ MaxStuck \in Nat

VARIABLES
  mOpen, mQueue, mCurrentSize, reader, result, added,   \* mLogEntryQueue
  step,            (* where the holder of the activation mutex is          *)
  call,            (* the last call that took the activation mutex         *)
  core,            (* the producer it is building or destroying            *)
  remaining,       (* the producers it has still to build or destroy       *)
  mLogProducers,   (* the cores of the producers in the list               *)
  device,          (* each compress device                                 *)
  thread,          (* each production thread (mLogResult)                  *)
  mProductionThreadBlocked,
  awake,           (* the driver's count of votes against core sleep       *)
  session,         (* parity of the current log session                    *)
  stuck,           (* history: the votes that were to be withdrawn and     *)
                   (* whose command failed or was never sent               *)
  faulty           (* history: has a step failed, or a wait returned early? *)

queueVars  == <<mOpen, mQueue, mCurrentSize, reader, result, added>>
activation == <<step, call, core, remaining, mLogProducers>>
production == <<device, thread, mProductionThreadBlocked>>
votes == <<awake, session, stuck>>
vars == <<queueVars, activation, production, votes, faulty>>

Queue == INSTANCE BlockingQueue
  WITH Elements <- Sessions, ElementSize <- [s \in Sessions |-> 1],
       MaxByteSize <- QueueMaxBlocks, Consumers <- {Reader}, pc <- reader,
       SpuriousWakeups <- FALSE, Quiescent <- FALSE

Init ==
  /\ Queue!Init
  /\ step = "idle" /\ call = "none" /\ remaining = {}
  /\ core = NullPtr
  /\ mLogProducers = {}
  /\ device = [p \in Cores |-> "closed"]
  /\ thread = [p \in Cores |-> "none"]
  /\ mProductionThreadBlocked = [p \in Cores |-> FALSE]
  /\ awake = 0
  /\ session = 0
  /\ stuck = 0
  /\ faulty = FALSE
-----------------------------------------------------------------------------
(* Starting: setParameters(started), the log being stopped.                  *)
GoesWrong == faulty' = TRUE

\* setLogLevel() comes first: when it throws nothing has changed.
StartLog ==
  /\ step = "idle" /\ mLogProducers = {}
  /\ call' = "start"
  /\ \/ step' = "clear" /\ UNCHANGED faulty
     \/ StartFaults /\ GoesWrong /\ step' = "idle"
  /\ UNCHANGED <<core, remaining, mLogProducers, queueVars, production, votes>>

\* Fault: the blocks of the previous session stay in the queue.
StartWithoutClear ==
  /\ step = "clear"
  /\ step' = "open"
  /\ session' = 1 - session
  /\ UNCHANGED <<queueVars, call, core, remaining, mLogProducers, production, awake, stuck, faulty>>

ClearQueue ==
  /\ step = "clear"
  /\ Queue!Clear
  /\ step' = "open"
  /\ session' = 1 - session
  /\ UNCHANGED <<call, core, remaining, mLogProducers, production, awake, stuck, faulty>>

OpenQueue ==
  /\ step = "open"
  /\ Queue!Open
  /\ step' = "list"
  /\ UNCHANGED <<call, core, remaining, mLogProducers, production, votes, faulty>>

\* constructProducers() up to its loop: it throws when the devices cannot be
\* listed and when there are none.
ListDevices ==
  /\ step = "list"
  /\ \/ step' = "construct" /\ remaining' = Cores /\ UNCHANGED faulty
     \/ StartFaults /\ GoesWrong /\ step' = "idle" /\ UNCHANGED remaining
  /\ UNCHANGED <<call, core, mLogProducers, queueVars, production, votes>>

\* Fault: a device that did not start keeps its vote, though no command failed.
AbandonKeepingVote(p) ==
  /\ step' = "idle" /\ remaining' = {} /\ awake' = awake + 1
  /\ UNCHANGED <<mLogProducers, production, stuck>>

\* A producer that could not be built: the exception leaves startLogLocked(),
\* the producers already in the list stay there.  Its vote was not cast or is
\* withdrawn, unless allowCoreToSleep() throws in its turn; when the thread
\* cannot be launched there is no destructor to stop the device.
Abandon(p) ==
  /\ step' = "idle" /\ remaining' = {}
  /\ \/ UNCHANGED <<production, awake, stuck>>
     \/ /\ stuck < MaxStuck
        /\ awake' = awake + 1 /\ stuck' = stuck + 1
        /\ device' \in {device, [device EXCEPT ![p] = "running"]}
        /\ UNCHANGED <<thread, mProductionThreadBlocked>>
  /\ UNCHANGED mLogProducers

ConstructProducer(p) ==
  /\ step = "construct" /\ p \in remaining
  /\ \/ /\ awake' = awake + 1
        /\ device' = [device EXCEPT ![p] = "running"]
        /\ thread' = [thread EXCEPT ![p] = "check"]
        /\ mProductionThreadBlocked' = [mProductionThreadBlocked EXCEPT ![p] = FALSE]
        /\ mLogProducers' = mLogProducers \cup {p}
        /\ remaining' = remaining \ {p}
        /\ step' = IF remaining' = {} THEN "idle" ELSE "construct"
        /\ UNCHANGED <<stuck, faulty>>
     \/ StartFaults /\ GoesWrong /\ Abandon(p)
  /\ UNCHANGED <<call, core, queueVars, session>>
-----------------------------------------------------------------------------
(* Stopping: setParameters(stopped) or Logger::stop(), the log being started. *)

StopLog(by) ==
  /\ step = "idle" /\ by \in {"stop", "shutdown"}
  /\ call' = by
  /\ \/ mLogProducers = {} /\ UNCHANGED <<step, core, remaining>>
     \/ /\ step' = "stopDevice"
        /\ core' \in mLogProducers
        /\ remaining' = mLogProducers \ {core'}
  /\ UNCHANGED <<mLogProducers, queueVars, production, votes, faulty>>

\* allowCoreToSleepNoExcept() swallows a Device::Exception; any other one (the
\* stream of the debugfs entry throws its own) ends the process: it is noexcept.
CloseDevice(p) ==
  /\ device' = [device EXCEPT ![p] = "closed"]
  /\ \/ awake' = awake - 1 /\ step' = "join" /\ UNCHANGED <<stuck, faulty>>
     \/ /\ stuck < MaxStuck
        /\ stuck' = stuck + 1 /\ step' = "join" /\ UNCHANGED <<awake, faulty>>
     \/ DeviceFaults /\ GoesWrong /\ step' = "aborted" /\ UNCHANGED <<awake, stuck>>

\* stopLogDevice() up to its return or to mCondVar.wait().  A stop that fails is logged.
StopDevice(p) ==
  /\ step = "stopDevice" /\ core = p
  /\ \/ ~mProductionThreadBlocked[p] /\ CloseDevice(p)
     \/ /\ mProductionThreadBlocked[p]
        /\ \/ device' = [device EXCEPT ![p] = "stopped"] /\ UNCHANGED faulty
           \/ DeviceFaults /\ GoesWrong /\ UNCHANGED device
        /\ step' = "waitBlocked"
        /\ UNCHANGED <<awake, stuck>>
  /\ UNCHANGED <<thread, mProductionThreadBlocked, call, core, remaining, mLogProducers,
                 queueVars, session>>

\* ... and from the return of mCondVar.wait(), with its ASSERT_ALWAYS.
StopDeviceResume(p) ==
  /\ step = "wokenBlocked" /\ core = p
  /\ IF mProductionThreadBlocked[p]
     THEN step' = "aborted" /\ UNCHANGED <<device, awake, stuck, faulty>>
     ELSE CloseDevice(p)
  /\ UNCHANGED <<thread, mProductionThreadBlocked, call, core, remaining, mLogProducers,
                 queueVars, session>>

WakeStopperSpuriously ==
  /\ SpuriousWakeups /\ GoesWrong
  /\ step = "waitBlocked"
  /\ step' = "wokenBlocked"
  /\ UNCHANGED <<call, core, remaining, mLogProducers, queueVars, production, votes>>

\* ~future() waits for the thread; then the next producer of the list.
JoinThread(p) ==
  /\ step = "join" /\ core = p
  /\ thread[p] = "done"
  /\ thread' = [thread EXCEPT ![p] = "none"]
  /\ \/ /\ remaining = {}
        /\ step' = "closeQueue"
        /\ UNCHANGED <<core, remaining>>
     \/ /\ step' = "stopDevice"
        /\ core' \in remaining
        /\ remaining' = remaining \ {core'}
  /\ UNCHANGED <<device, mProductionThreadBlocked, call, mLogProducers, queueVars, votes, faulty>>

\* Fault: the consumers are not told that the session is over.
CloseNothing ==
  /\ step = "closeQueue"
  /\ mLogProducers' = {} /\ core' = NullPtr
  /\ step' = "idle"
  /\ UNCHANGED <<call, remaining, queueVars, production, votes, faulty>>

\* The setLogLevel() that follows may throw: the log is stopped all the same.
CloseQueue ==
  /\ step = "closeQueue"
  /\ mLogProducers' = {} /\ core' = NullPtr
  /\ Queue!Close
  /\ step' = "idle"
  /\ UNCHANGED <<call, remaining, production, votes, faulty>>
-----------------------------------------------------------------------------
(* produceEntries(), the production thread of core p.                        *)

NotifyStopper(p) == step' = IF step = "waitBlocked" /\ core = p THEN "wokenBlocked" ELSE step

\* Fault: the thread polls without looking at the state of its device.
PollBlindly(p) ==
  /\ thread[p] = "check"
  /\ mProductionThreadBlocked' = [mProductionThreadBlocked EXCEPT ![p] = TRUE]
  /\ thread' = [thread EXCEPT ![p] = "poll"]
  /\ UNCHANGED <<device, activation, queueVars, votes, faulty>>

\* isRunning() reads the handle: of a closed (freed) one it may read anything.
CheckDevice(p) ==
  /\ thread[p] = "check"
  /\ \/ /\ device[p] \in {"running", "closed"}
        /\ mProductionThreadBlocked' = [mProductionThreadBlocked EXCEPT ![p] = TRUE]
        /\ thread' = [thread EXCEPT ![p] = "poll"]
     \/ /\ device[p] \in {"stopped", "closed"}
        /\ thread' = [thread EXCEPT ![p] = "exit"]
        /\ UNCHANGED mProductionThreadBlocked
  /\ UNCHANGED <<device, activation, queueVars, votes, faulty>>

PollData(p) ==
  /\ thread[p] = "poll" /\ device[p] = "running"
  /\ thread' = [thread EXCEPT ![p] = "fetch"]
  /\ UNCHANGED <<device, mProductionThreadBlocked, activation, queueVars, votes, faulty>>

\* The driver ends the poll of a device that is stopped: IoException.
PollStopped(p) ==
  /\ thread[p] = "poll" /\ device[p] # "running"
  /\ thread' = [thread EXCEPT ![p] = "exit"]
  /\ UNCHANGED <<device, mProductionThreadBlocked, activation, queueVars, votes, faulty>>

\* TinyCompressDevice::recover(), run by wait() on another error, without
\* mLogDeviceMutex: stop() ...
PollError(p) ==
  /\ DeviceFaults /\ GoesWrong
  /\ thread[p] = "poll" /\ device[p] = "running"
  /\ device' = [device EXCEPT ![p] = "stopped"]
  /\ thread' = [thread EXCEPT ![p] = "recover"]
  /\ UNCHANGED <<mProductionThreadBlocked, activation, queueVars, votes>>

\* ... and start(), which may fail in its turn.
RestartDevice(p) ==
  /\ thread[p] = "recover"
  /\ \/ /\ device' = [device EXCEPT ![p] = "running"]
        /\ thread' = [thread EXCEPT ![p] = "poll"]
     \/ /\ thread' = [thread EXCEPT ![p] = "exit"]
        /\ UNCHANGED device
  /\ UNCHANGED <<mProductionThreadBlocked, activation, queueVars, votes, faulty>>

\* The read gives a block for the queue (which may refuse it) or nothing.
FetchBlock(p) ==
  /\ thread[p] = "fetch"
  /\ mProductionThreadBlocked' = [mProductionThreadBlocked EXCEPT ![p] = FALSE]
  /\ NotifyStopper(p)
  /\ thread' = [thread EXCEPT ![p] = "check"]
  /\ Queue!Add(session) \/ UNCHANGED queueVars
  /\ UNCHANGED <<device, call, core, remaining, mLogProducers, votes, faulty>>

\* Fault: the end of the thread forgets to notify.
ExitSilently(p) ==
  /\ thread[p] = "exit"
  /\ mProductionThreadBlocked' = [mProductionThreadBlocked EXCEPT ![p] = FALSE]
  /\ thread' = [thread EXCEPT ![p] = "done"]
  /\ UNCHANGED <<device, activation, queueVars, votes, faulty>>

ExitThread(p) ==
  /\ thread[p] = "exit"
  /\ mProductionThreadBlocked' = [mProductionThreadBlocked EXCEPT ![p] = FALSE]
  /\ NotifyStopper(p)
  /\ thread' = [thread EXCEPT ![p] = "done"]
  /\ UNCHANGED <<device, call, core, remaining, mLogProducers, queueVars, votes, faulty>>
-----------------------------------------------------------------------------
(* readLogBlock(), called again until it returns nullptr.                    *)
ReadLogBlock ==
  /\ Queue!Remove(Reader)
  /\ UNCHANGED <<activation, production, votes, faulty>>

ReadLogBlockResume ==
  /\ Queue!Resume(Reader)
  /\ UNCHANGED <<activation, production, votes, faulty>>
-----------------------------------------------------------------------------
Alive == step # "aborted" /\ Queue!Running

Controller ==
  \/ ClearQueue \/ OpenQueue \/ ListDevices \/ CloseQueue
  \/ \E p \in Cores : ConstructProducer(p) \/ StopDevice(p) \/ StopDeviceResume(p) \/ JoinThread(p)

\* What a production thread does unless its device has nothing to give.
Produce(p) ==
  CheckDevice(p) \/ PollStopped(p) \/ RestartDevice(p) \/ FetchBlock(p) \/ ExitThread(p)

Step ==
  \/ StartLog \/ StopLog("stop") \/ StopLog("shutdown") \/ Controller
  \/ WakeStopperSpuriously
  \/ \E p \in Cores : Produce(p) \/ PollData(p) \/ PollError(p)
  \/ ReadLogBlock \/ ReadLogBlockResume

Next == Alive /\ Step

Spec == Init /\ [][Next]_vars

\* Threads that can run do run; no client has to start, stop or read the log
\* and no device has to produce.
FairSpec ==
  /\ Spec
  /\ WF_vars(Alive /\ Controller)
  /\ \A p \in Cores : WF_vars(Alive /\ Produce(p))
  /\ WF_vars(Alive /\ ReadLogBlockResume)
-----------------------------------------------------------------------------
(* The values each variable takes; no core has more than one vote, those    *)
(* that could not be withdrawn apart.                                       *)
TypeOK ==
  /\ Queue!TypeOK
  /\ step \in {"idle", "clear", "open", "list", "construct", "stopDevice", "waitBlocked",
               "wokenBlocked", "join", "closeQueue", "aborted"}
  /\ call \in {"none", "start", "stop", "shutdown"}
  /\ core \in Cores \cup {NullPtr}
  /\ remaining \in SUBSET Cores
  /\ mLogProducers \in SUBSET Cores
  /\ device \in [Cores -> {"closed", "stopped", "running"}]
  /\ thread \in [Cores -> {"none", "check", "poll", "recover", "fetch", "exit", "done"}]
  /\ mProductionThreadBlocked \in [Cores -> BOOLEAN]
  /\ awake \in 0 .. Cardinality(Cores) + MaxStuck
  /\ session \in Sessions
  /\ stuck \in 0 .. MaxStuck
  /\ faulty \in BOOLEAN

(* stopLogDevice()'s ASSERT_ALWAYS(not mProductionThreadBlocked): when the   *)
(* wait returns the production thread has left the poll and cannot be back,  *)
(* as long as no step has failed and no wait returned early.                 *)
StopNeverAsserts == ~faulty => step # "aborted"

(* "Ensure we can safely close the device" (stopLogDevice()): no production  *)
(* thread still looks at a device that is closed.                            *)
(* TLC refutes it: README, section 6.                                        *)
NoUseAfterClose ==
  \A p \in Cores : device[p] = "closed" => thread[p] \in {"none", "exit", "done"}

(* Between two calls each producer in the list holds a vote against core     *)
(* sleep, and so does each withdrawal that failed: allowCoreToSleep() is     *)
(* never tried again.  No other vote is lost or left behind, whatever step   *)
(* of starting or stopping the log has failed.                               *)
VotesBalanced == step = "idle" => awake = Cardinality(mLogProducers) + stuck

(* While a session is on, its readers get no block of the session before.    *)
NoStaleBlocks ==
  (mLogProducers # {} /\ step # "closeQueue") => \A i \in DOMAIN mQueue : mQueue[i] = session

(* A reader's wake-up never finds an open, empty queue (the comment and the  *)
(* assert of BlockingQueue::remove()), with one reader per queue.            *)
(* TLC refutes it: README, section 6.                                        *)
ReaderNeverAsserts == reader[Reader] # "aborted"

(* The log can always be stopped: no producer and no stopper wait for each   *)
(* other for ever, unless a step failed.                                     *)
StopReturns == step \in {"stopDevice", "waitBlocked", "wokenBlocked", "join"} ~>
                 (step = "idle" \/ ~Alive \/ faulty)

(* A reader that is inside readLogBlock() while the log is stopped gets out  *)
(* of it, unless the log is started again meanwhile.                         *)
ReaderReleased ==
  (step = "closeQueue" /\ reader[Reader] # "idle") ~>
    (reader[Reader] = "idle" \/ step = "clear" \/ ~Alive)
=============================================================================
