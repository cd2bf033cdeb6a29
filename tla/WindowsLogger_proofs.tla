-------------------------- MODULE WindowsLogger_proofs --------------------------
(***************************************************************************)
(* Proofs about WindowsLogger: who owns the trace session, that the client *)
(* of the producer keeps the promise of WppClient and the queue that of    *)
(* ElementQueue, that readers do not wait for a producer that is gone, nor *)
(* a stop for a session that nobody ends.                                  *)
(***************************************************************************)
EXTENDS WindowsLogger, FiniteSetTheorems, TLAPS

Consuming == {"openTrace", "process", "stopSession"}

\* There is a producer as long as there is a thread, and whoever waits for the
\* thread has asked it to stop.
ProducerInv ==
  /\ thread \in {"none", "openQueue", "start", "openTrace", "process", "stopSession",
                 "closeQueue", "done"}
  /\ step \in {"idle", "startIoctl", "stopIoctl", "stopClient", "join", "closeQueue"}
  /\ mLogProducer \in BOOLEAN /\ mStopRequest \in BOOLEAN
  /\ mLogProducer <=> thread # "none"
  /\ step \in {"startIoctl", "stopIoctl", "stopClient", "join"} => mLogProducer
  /\ step = "join" => mStopRequest

\* A handle is that of a session, and is held while a thread consumes it; a
\* session without a handle has leaked.
HandleInv ==
  /\ mHandle \in BOOLEAN /\ tracing \in BOOLEAN /\ leaked \in BOOLEAN
  /\ mHandle => tracing /\ thread \in Consuming
  /\ tracing /\ ~mHandle => leaked

SessionInv == ProducerInv /\ HandleInv

LEMMA SessionInit == Init => SessionInv
<1> SUFFICES ASSUME Init PROVE SessionInv
  OBVIOUS
<1>1. ProducerInv
  BY DEF Init, ProducerInv
<1>2. HandleInv
  BY Zenon DEF Init, HandleInv
<1>3. QED
  BY <1>1, <1>2 DEF SessionInv

\* The state of the session as its system sees it.
TraceType == mHandle \in BOOLEAN /\ tracing \in BOOLEAN /\ leaked \in BOOLEAN

(* WppController::stop() leaves no handle, and no session but a leaked one.  *)
LEMMA StopControllerEffect ==
  ASSUME HandleInv, StopController
  PROVE  TraceType' /\ ~mHandle' /\ (tracing' => leaked')
<1>1. mHandle' = FALSE /\ ~mHandle'
  BY DEF StopController
<1>2. CASE ~mHandle /\ UNCHANGED <<tracing, leaked>>
  BY <1>1, <1>2, Zenon DEF HandleInv, TraceType
<1>3. CASE tracing' = FALSE /\ UNCHANGED leaked
  <2>1. ~tracing'
    BY <1>3
  <2>2. QED
    BY <1>1, <1>3, <2>1, Zenon DEF HandleInv, TraceType
<1>4. CASE leaked' = TRUE /\ UNCHANGED tracing
  BY <1>1, <1>4, Zenon DEF HandleInv, TraceType
<1>5. QED
  BY <1>2, <1>3, <1>4, Zenon DEF StopController

(* WppController::start() leaves a handle to its session, or leaks it, or    *)
(* there is none.                                                            *)
LEMMA StartControllerEffect ==
  ASSUME HandleInv, thread = "start", StartController
  PROVE  /\ TraceType'
         /\ \/ mHandle' /\ tracing' /\ thread' = "openTrace"
            \/ ~mHandle' /\ (tracing' => leaked') /\ thread' = "closeQueue"
<1>1. CASE mHandle' = TRUE /\ tracing' = TRUE /\ leaked' = FALSE /\ thread' = "openTrace"
  BY <1>1, Zenon DEF TraceType
<1>2. CASE /\ UNCHANGED mHandle /\ thread' = "closeQueue"
           /\ \/ UNCHANGED <<tracing, leaked>>
              \/ tracing' = FALSE /\ leaked' = FALSE
              \/ tracing' = TRUE /\ leaked' = TRUE
  <2>1. ~mHandle
    BY DEF HandleInv, Consuming
  <2>2. TraceType' /\ ~mHandle'
    BY <1>2, <2>1, Zenon DEF HandleInv, TraceType
  <2>3. tracing' => leaked'
    <3>1. CASE UNCHANGED <<tracing, leaked>>
      BY <2>1, <3>1, Zenon DEF HandleInv
    <3>2. CASE tracing' = FALSE
      BY <3>2
    <3>3. CASE leaked' = TRUE
      BY <3>3, Zenon
    <3>4. QED
      BY <1>2, <3>1, <3>2, <3>3, Zenon
  <2>4. QED
    BY <1>2, <2>2, <2>3, Zenon
<1>3. QED
  BY <1>1, <1>2, Zenon DEF StartController

LEMMA SessionStep == SessionInv /\ [Next]_vars => SessionInv'
<1> SUFFICES ASSUME SessionInv, [Next]_vars PROVE SessionInv'
  OBVIOUS
<1> USE DEF SessionInv
<1>1. CASE StartLog
  <2>1. thread = "none" /\ ~mHandle
    BY <1>1 DEF StartLog, ProducerInv, HandleInv, Consuming
  <2>2. ProducerInv'
    BY <1>1 DEF StartLog, ProducerInv
  <2>3. HandleInv'
    BY <1>1, <2>1, Zenon DEF StartLog, HandleInv
  <2>4. QED
    BY <2>2, <2>3
<1>2. CASE SetStarted \/ SetStopped
  BY <1>2 DEF SetStarted, SetStopped, ProducerInv, HandleInv, trace
<1>3. ASSUME NEW by, StopLog(by) PROVE SessionInv'
  BY <1>3 DEF StopLog, ProducerInv, HandleInv, trace
<1>4. CASE StopClient
  <2>1. ProducerInv'
    BY <1>4 DEF StopClient, ProducerInv
  <2>2. CASE mStopRequest
    BY <1>4, <2>1, <2>2 DEF StopClient, HandleInv, trace
  <2>3. CASE ~mStopRequest
    <3>1. TraceType' /\ ~mHandle' /\ (tracing' => leaked')
      BY <1>4, <2>3, StopControllerEffect DEF StopClient
    <3>2. HandleInv'
      BY <3>1, Zenon DEF HandleInv, TraceType
    <3>3. QED
      BY <2>1, <3>2
  <2>4. QED
    BY <2>2, <2>3
<1>5. CASE JoinThread
  BY <1>5 DEF JoinThread, ProducerInv, HandleInv, Consuming, trace
<1>6. CASE CloseQueue
  BY <1>6 DEF CloseQueue, ProducerInv, HandleInv, trace
<1>7. CASE OpenQueue \/ OpenTrace \/ ProcessTraceReturns \/ ProcessTraceFails
  BY <1>7 DEF OpenQueue, OpenTrace, ProcessTraceReturns, ProcessTraceFails, ProducerInv, HandleInv,
              Consuming, activation, trace
<1>8. CASE StartSession
  <2>1. CASE mStopRequest
    BY <1>8, <2>1 DEF StartSession, ProducerInv, HandleInv, Consuming, activation, trace
  <2>2. CASE ~mStopRequest
    <3>1. thread = "start" /\ StartController /\ UNCHANGED <<activation, mStopRequest>>
      BY <1>8, <2>2 DEF StartSession
    <3>2. /\ TraceType'
          /\ \/ mHandle' /\ tracing' /\ thread' = "openTrace"
             \/ ~mHandle' /\ (tracing' => leaked') /\ thread' = "closeQueue"
      BY <3>1, StartControllerEffect
    <3>3. thread' \in {"openTrace", "closeQueue"} /\ (mHandle' => thread' = "openTrace")
      BY <3>2
    <3>4. ProducerInv'
      BY <3>1, <3>3 DEF ProducerInv, activation
    <3>5. HandleInv'
      <4>1. mHandle' => thread' \in Consuming
        BY <3>3 DEF Consuming
      <4>2. QED
        BY <3>2, <4>1, Zenon DEF HandleInv, TraceType
    <3>6. QED
      BY <3>4, <3>5
  <2>3. QED
    BY <2>1, <2>2
<1>9. CASE StopSession
  <2>1. TraceType' /\ ~mHandle' /\ (tracing' => leaked')
    BY <1>9, StopControllerEffect DEF StopSession
  <2>2. HandleInv'
    BY <2>1, Zenon DEF HandleInv, TraceType
  <2>3. ProducerInv'
    BY <1>9 DEF StopSession, ProducerInv, activation
  <2>4. QED
    BY <2>2, <2>3
<1>10. CASE Finish
  BY <1>10 DEF Finish, ProducerInv, HandleInv, Consuming, activation, trace
<1>11. CASE ProcessWppEvent \/ ReadLogBlock \/ ReadLogBlockResume \/ UNCHANGED vars
  BY <1>11 DEF ProcessWppEvent, ReadLogBlock, ReadLogBlockResume, ProducerInv, HandleInv,
               activation, trace, vars
<1>12. QED
  BY <1>1, <1>2, <1>3, <1>4, <1>5, <1>6, <1>7, <1>8, <1>9, <1>10, <1>11
     DEF Next, Step, Controller, Produce

(* However starting, opening or consuming the session fails, it is stopped   *)
(* before its thread ends, unless StopTrace refused.                         *)
THEOREM SessionHasAnOwner == Spec => []NoOrphanSession
<1>1. SessionInv => NoOrphanSession
  BY DEF SessionInv, HandleInv, NoOrphanSession, Consuming
<1>2. QED
  BY <1>1, SessionInit, SessionStep, PTL DEF Spec
-----------------------------------------------------------------------------
\* The client's phase, by the place of its thread.
Phase ==
  CASE thread = "none" -> "none"
    [] thread \in {"openQueue", "start"} -> "created"
    [] thread \in {"openTrace", "process", "stopSession"} -> "collecting"
    [] OTHER -> "ended"

LEMMA PhaseOf ==
  ASSUME ProducerInv
  PROVE  /\ thread = "none" <=> Phase = "none"
         /\ thread \in {"openQueue", "start"} <=> Phase = "created"
         /\ thread \in Consuming <=> Phase = "collecting"
         /\ thread \in {"closeQueue", "done"} <=> Phase = "ended"
BY DEF ProducerInv, Phase, Consuming

(* Each step of the log service is one of the client's, or none of its       *)
(* business.                                                                 *)
LEMMA ClientStep == SessionInv /\ SessionInv' /\ [Next]_vars => [Client!Next]_<<Phase, mStopRequest>>
<1> SUFFICES ASSUME SessionInv, SessionInv', [Next]_vars
             PROVE  [Client!Next]_<<Phase, mStopRequest>>
  OBVIOUS
<1> USE DEF SessionInv, ProducerInv
<1>1. CASE StartLog
  <2>1. Phase = "none" /\ Phase' = "created"
    BY <1>1 DEF StartLog, Phase
  <2>2. QED
    BY <1>1, <2>1 DEF StartLog, Client!Next, Client!Create, Phase
<1>2. CASE StopClient
  <2>1. Phase' = Phase /\ Phase # "none"
    BY <1>2 DEF StopClient, Phase
  <2>2. QED
    BY <1>2, <2>1 DEF StopClient, Client!Next, Client!Stop, Phase
<1>3. CASE JoinThread
  <2>1. Phase = "ended" /\ Phase' = "none"
    BY <1>3 DEF JoinThread, Phase
  <2>2. QED
    BY <1>3, <2>1 DEF JoinThread, Client!Next, Client!Destroy, Phase
<1>4. CASE StartSession
  <2>1. Phase = "created" /\ UNCHANGED mStopRequest
    BY <1>4 DEF StartSession, Phase
  <2>2. \/ ~mStopRequest /\ Phase' = "collecting"
        \/ Phase' = "ended"
    BY <1>4 DEF StartSession, StartController, Phase
  <2>3. QED
    BY <2>1, <2>2 DEF Client!Next, Client!Collect, Client!End, Phase
<1>5. CASE StopSession
  <2>1. Phase = "collecting" /\ Phase' = "ended" /\ UNCHANGED mStopRequest
    BY <1>5 DEF StopSession, Phase
  <2>2. QED
    BY <2>1 DEF Client!Next, Client!End, Phase
<1>6. CASE \/ SetStarted \/ SetStopped \/ CloseQueue \/ (\E by \in {"stop", "shutdown"} : StopLog(by))
           \/ ProcessWppEvent \/ ReadLogBlock \/ ReadLogBlockResume \/ UNCHANGED vars
  <2>1. UNCHANGED <<thread, mStopRequest>>
    BY <1>6 DEF SetStarted, SetStopped, CloseQueue, StopLog, ProcessWppEvent, ReadLogBlock,
                ReadLogBlockResume, vars
  <2>2. QED
    BY <2>1 DEF Phase
<1>7. CASE OpenQueue \/ OpenTrace \/ ProcessTraceReturns \/ ProcessTraceFails \/ Finish
  <2>1. Phase' = Phase /\ UNCHANGED mStopRequest
    BY <1>7 DEF OpenQueue, OpenTrace, ProcessTraceReturns, ProcessTraceFails, Finish, Phase
  <2>2. QED
    BY <2>1
<1>8. QED
  BY <1>1, <1>2, <1>3, <1>4, <1>5, <1>6, <1>7 DEF Next, Step, Controller, Produce

(* RealTimeWppClient is what the comment of WppClient::stop() says, however  *)
(* its steps interleave with stop() and whatever fails: in particular a      *)
(* client that was stopped before its thread ran starts no session.          *)
THEOREM ClientKeepsItsPromise == Spec => ImplementsWppClient
<1>1. Init => Client!Init
  BY DEF Init, Client!Init
<1>2. SessionInv /\ SessionInv' /\ [Next]_vars => [Client!Next]_<<Phase, mStopRequest>>
  BY ClientStep
<1>3. QED
  BY <1>1, <1>2, SessionInit, SessionStep, PTL DEF Spec, ImplementsWppClient, Client!Spec, Phase
-----------------------------------------------------------------------------
\* The log queue, with what is proved of it.
Log == INSTANCE BlockingQueue_proofs
  WITH Elements <- Sessions, ElementSize <- [s \in Sessions |-> 1],
       MaxByteSize <- QueueMaxBlocks, Consumers <- {Reader}, pc <- reader,
       SpuriousWakeups <- FALSE, Quiescent <- FALSE

(* The log queue is an instance that BlockingQueue_proofs is about.         *)
LEMMA LogAssumptions == Log!ElementsAssumption /\ Log!ConsumersAssumption
<1>1. IsFiniteSet({Reader})
  BY FS_Singleton
<1>2. [s \in Sessions |-> 1] \in [Sessions -> Nat]
  OBVIOUS
<1>3. Log!ElementsAssumption
  BY <1>2, WindowsLoggerAssumption DEF Log!ElementsAssumption, WindowsLoggerAssumption
<1>4. Log!ConsumersAssumption
  BY <1>1 DEF Log!ConsumersAssumption, Log!IsFiniteSet, IsFiniteSet
<1>5. QED
  BY <1>3, <1>4

\* What the thread of the producer adds to the queue.
BlockType == session \in Sessions

(* Whatever the threads of the logger do to the queue, they do by its       *)
(* methods.                                                                 *)
LEMMA LogStep == BlockType /\ [Next]_vars => [Log!Next]_(Log!vars)
<1> SUFFICES ASSUME BlockType, [Next]_vars PROVE [Log!Next]_(Log!vars)
  OBVIOUS
<1> USE DEF BlockType, Log!Next, Log!Step, Log!vars
<1>1. CASE UNCHANGED queueVars
  BY <1>1 DEF queueVars
<1>2. ASSUME Next PROVE Log!Running
  BY <1>2 DEF Next, Alive, Queue!Running, Log!Running
<1>3. CASE OpenQueue /\ Next
  BY <1>2, <1>3 DEF OpenQueue, Queue!Open, Queue!MayReset, Log!Open, Log!MayReset
<1>4. CASE (CloseQueue \/ Finish) /\ Next
  <2>1. Log!Close
    BY <1>4 DEF CloseQueue, Finish, Queue!Close, Queue!NotifyAll, Log!Close, Log!NotifyAll
  <2>2. QED
    BY <1>2, <1>4, <2>1
<1>5. CASE ProcessWppEvent /\ Next
  <2>1. Log!Add(session)
    BY <1>5 DEF ProcessWppEvent, Queue!Add, Queue!Fits, Queue!NotifyOne, Queue!Waiting,
                Log!Add, Log!Fits, Log!NotifyOne, Log!Waiting
  <2>2. QED
    BY <1>2, <1>5, <2>1
<1>6. CASE (ReadLogBlock \/ ReadLogBlockResume) /\ Next
  <2>1. Log!Remove(Reader) \/ Log!Resume(Reader)
    BY <1>6 DEF ReadLogBlock, ReadLogBlockResume, Queue!Remove, Queue!Resume, Queue!RemoveLocked,
                Queue!ReturnNull, Log!Remove, Log!Resume, Log!RemoveLocked, Log!ReturnNull
  <2>2. QED
    BY <1>2, <1>6, <2>1
<1>7. QED
  BY <1>1, <1>3, <1>4, <1>5, <1>6
     DEF Next, Step, Controller, Produce, vars, StartLog, SetStarted, StopLog, SetStopped,
         StopClient, JoinThread, StartSession, OpenTrace, ProcessTraceReturns, ProcessTraceFails,
         StopSession

LEMMA LogSpec == Spec => Log!Spec /\ []BlockType
<1>1. Init => Log!Init /\ BlockType
  BY DEF Init, Queue!Init, Log!Init, BlockType, Sessions
<1>2. BlockType /\ [Next]_vars => BlockType'
  BY DEF Next, Step, Controller, Produce, vars, activation, StartLog, SetStarted, StopLog,
         SetStopped, StopClient, JoinThread, CloseQueue, OpenQueue, StartSession, OpenTrace,
         ProcessWppEvent, ProcessTraceReturns, ProcessTraceFails, StopSession, Finish,
         ReadLogBlock, ReadLogBlockResume, BlockType, Sessions
<1>3. QED
  BY <1>1, <1>2, LogStep, PTL DEF Spec, Log!Spec

(* To the thread of the producer and to the reader the log queue is the     *)
(* bounded FIFO of ElementQueue, although nothing clears it between two     *)
(* sessions: its running size never drifts and it loses no wake-up.         *)
THEOREM LogQueueKeepsItsPromise ==
  Spec => /\ [](Log!TypeOK /\ Log!Accounting /\ Log!NoneBlockedWhenClosed /\ Log!NoLostWakeup)
          /\ Log!ImplementsElementQueue
<1>1. Log!Spec => [](Log!TypeOK /\ Log!Accounting)
  BY LogAssumptions, Log!SizeIsExact, PTL
<1>2. Log!Spec => [](Log!NoneBlockedWhenClosed /\ Log!NoLostWakeup)
  BY LogAssumptions, Log!WakeupsSuffice, PTL
<1>3. Log!Spec => Log!ImplementsElementQueue
  BY LogAssumptions, Log!QueueImplementsPromise, PTL
<1>4. QED
  BY <1>1, <1>2, <1>3, LogSpec, PTL

(* Every variable keeps to its type.                                        *)
THEOREM LoggerIsTyped == Spec => []TypeOK
<1> DEFINE CallType == call \in {"none", "start", "stop", "shutdown"}
<1>1. Init => CallType
  BY DEF Init
<1>2. CallType /\ [Next]_vars => CallType'
  BY DEF Next, Step, Controller, Produce, vars, activation, StartLog, SetStarted, StopLog,
         SetStopped, StopClient, JoinThread, CloseQueue, OpenQueue, StartSession, OpenTrace,
         ProcessWppEvent, ProcessTraceReturns, ProcessTraceFails, StopSession, Finish,
         ReadLogBlock, ReadLogBlockResume
<1>3. Log!TypeOK => Queue!TypeOK
  BY DEF Log!TypeOK, Queue!TypeOK
<1>4. Queue!TypeOK /\ SessionInv /\ BlockType /\ CallType => TypeOK
  BY DEF SessionInv, ProducerInv, HandleInv, TypeOK, BlockType
<1>5. QED
  BY <1>1, <1>2, <1>3, <1>4, LogSpec, LogQueueKeepsItsPromise, SessionInit, SessionStep, PTL DEF Spec
-----------------------------------------------------------------------------
\* The queue is open while the thread of a producer is between its opening and
\* its closing of it: nobody else opens it, and the other who closes it does so
\* when there is no thread.
Producing == {"start", "openTrace", "process", "stopSession", "closeQueue"}
OpenInv == mOpen => thread \in Producing

LEMMA OpenStep == SessionInv /\ OpenInv /\ [Next]_vars => OpenInv'
<1> SUFFICES ASSUME SessionInv, OpenInv, [Next]_vars PROVE OpenInv'
  OBVIOUS
<1> USE DEF SessionInv, ProducerInv, OpenInv, Producing
<1>1. CASE UNCHANGED <<mOpen, thread>>
  BY <1>1
<1>2. CASE StartLog \/ JoinThread
  BY <1>2 DEF StartLog, JoinThread, queueVars
<1>3. CASE CloseQueue \/ Finish
  BY <1>3 DEF CloseQueue, Finish, Queue!Close
<1>4. CASE OpenQueue \/ StartSession \/ OpenTrace \/ ProcessTraceReturns \/ ProcessTraceFails \/ StopSession
  BY <1>4 DEF OpenQueue, Queue!Open, StartSession, StartController, OpenTrace, ProcessTraceReturns,
              ProcessTraceFails, StopSession, queueVars
<1>5. QED
  BY <1>1, <1>2, <1>3, <1>4
     DEF Next, Step, Controller, Produce, vars, queueVars, SetStarted, StopLog, SetStopped, StopClient,
         ProcessWppEvent, ReadLogBlock, ReadLogBlockResume, Queue!Add, Queue!Remove, Queue!Resume

(* A reader never waits for the entries of a producer that is gone, however *)
(* its session ended: it waits only on an open queue, and only a running    *)
(* producer has it open.                                                    *)
THEOREM ReadersAlwaysGetAnEnd == Spec => []ReadersGetAnEnd
<1>1. Init => OpenInv
  BY DEF Init, Queue!Init, OpenInv
<1>2. Log!NoneBlockedWhenClosed /\ OpenInv => ReadersGetAnEnd
  BY DEF Log!NoneBlockedWhenClosed, Log!Waiting, OpenInv, Producing, ReadersGetAnEnd
<1>3. QED
  BY <1>1, <1>2, OpenStep, SessionInit, SessionStep, LogQueueKeepsItsPromise, PTL DEF Spec
-----------------------------------------------------------------------------
(* What StopReturns rests on: the stop wins the race for the handle.         *)

\* A client that was told to stop has no handle, and gets none.
StopTakesTheHandle == mStopRequest => ~mHandle

\* A producer that is joined has no session to wait for, unless StopTrace failed.
JoinedThreadEnds == step = "join" => thread # "none" /\ (tracing => leaked)

LEMMA StopKeepsTheHandle == HandleInv /\ StopTakesTheHandle /\ [Next]_vars => StopTakesTheHandle'
<1> SUFFICES ASSUME HandleInv, StopTakesTheHandle, [Next]_vars PROVE StopTakesTheHandle'
  OBVIOUS
<1>1. CASE StartLog
  BY <1>1 DEF StartLog, StopTakesTheHandle
<1>2. CASE StopClient
  <2>1. CASE mStopRequest
    BY <1>2, <2>1, Zenon DEF StopClient, StopTakesTheHandle, trace
  <2>2. CASE ~mStopRequest
    BY <1>2, <2>2, StopControllerEffect DEF StopClient, StopTakesTheHandle
  <2>3. QED
    BY <2>1, <2>2
<1>3. CASE StartSession
  <2>1. CASE mStopRequest
    BY <1>3, <2>1, Zenon DEF StartSession, StopTakesTheHandle, trace
  <2>2. CASE ~mStopRequest
    BY <1>3, <2>2, Zenon DEF StartSession, StopTakesTheHandle
  <2>3. QED
    BY <2>1, <2>2
<1>4. CASE StopSession
  BY <1>4, StopControllerEffect DEF StopSession, StopTakesTheHandle
<1>5. UNCHANGED <<mStopRequest, mHandle>> => StopTakesTheHandle'
  BY Zenon DEF StopTakesTheHandle
<1>6. CASE \/ SetStarted \/ SetStopped \/ JoinThread \/ CloseQueue \/ OpenQueue \/ OpenTrace
           \/ ProcessTraceReturns \/ ProcessTraceFails \/ Finish \/ ProcessWppEvent
           \/ ReadLogBlock \/ ReadLogBlockResume \/ StopLog("stop") \/ StopLog("shutdown")
           \/ UNCHANGED vars
  BY <1>5, <1>6 DEF SetStarted, SetStopped, JoinThread, CloseQueue, OpenQueue, OpenTrace,
     ProcessTraceReturns, ProcessTraceFails, Finish, ProcessWppEvent, ReadLogBlock,
     ReadLogBlockResume, StopLog, vars, trace
<1>7. QED
  BY <1>1, <1>2, <1>3, <1>4, <1>6 DEF Next, Step, Controller, Produce

(* RealTimeWppClient::stop() is never too early and never too late: the      *)
(* request is tested in the section that takes the handle, so that a thread  *)
(* that is joined either starts no session or finds its session ended.  Only *)
(* a StopTrace that failed leaves it in ProcessTrace().                      *)
THEOREM StopIsNeverLost == Spec => [](StopTakesTheHandle /\ JoinedThreadEnds)
<1>1. Init => StopTakesTheHandle
  BY DEF Init, StopTakesTheHandle
<1>2. SessionInv /\ StopTakesTheHandle => JoinedThreadEnds
  <2> SUFFICES ASSUME SessionInv, StopTakesTheHandle, step = "join"
               PROVE  thread # "none" /\ (tracing => leaked)
    BY DEF JoinedThreadEnds
  <2>1. thread # "none" /\ mStopRequest
    BY DEF SessionInv, ProducerInv
  <2>2. QED
    BY <2>1, Zenon DEF SessionInv, HandleInv, StopTakesTheHandle
<1>3. SessionInv => HandleInv
  BY DEF SessionInv
<1>4. QED
  BY <1>1, <1>2, <1>3, SessionInit, SessionStep, StopKeepsTheHandle, PTL DEF Spec
=============================================================================
