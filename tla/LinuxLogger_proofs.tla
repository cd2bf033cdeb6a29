--------------------------- MODULE LinuxLogger_proofs ---------------------------
(***************************************************************************)
(* Proofs about LinuxLogger: the votes against core sleep, the handshake   *)
(* between the thread that stops a device and the one that polls it (both  *)
(* independent of the log queue), the promise of the log queue and the     *)
(* separation of the sessions.                                             *)
(***************************************************************************)
EXTENDS LinuxLogger, FiniteSetTheorems, TLAPS

Stopping == {"stopDevice", "waitBlocked", "wokenBlocked", "aborted"}

\* The types of what the two arguments speak of.
ControlType ==
  /\ step \in {"idle", "clear", "open", "list", "construct", "stopDevice", "waitBlocked",
               "wokenBlocked", "join", "closeQueue", "aborted"}
  /\ core \in Cores \cup {NullPtr}
  /\ remaining \in SUBSET Cores
  /\ mLogProducers \in SUBSET Cores
  /\ device \in [Cores -> {"closed", "stopped", "running"}]
  /\ thread \in [Cores -> {"none", "check", "poll", "recover", "fetch", "exit", "done"}]
  /\ mProductionThreadBlocked \in [Cores -> BOOLEAN]
  /\ faulty \in BOOLEAN

\* What the lists of startLogLocked() and stopLogLocked() hold on the way.
ListInv ==
  /\ step \in {"clear", "open", "list"} => mLogProducers = {}
  /\ step = "construct" => remaining \cap mLogProducers = {}
  /\ step \in Stopping \cup {"join"} =>
       core \in mLogProducers \ remaining /\ remaining \subseteq mLogProducers

\* The producers whose device has not been closed yet.
Voting ==
  IF step \in Stopping THEN remaining \cup {core}
  ELSE IF step = "join" THEN remaining
  ELSE IF step = "closeQueue" THEN {}
  ELSE mLogProducers

\* Each of them has a vote, and each withdrawal that failed has left one.
VoteInv ==
  /\ ControlType /\ ListInv
  /\ stuck \in 0 .. MaxStuck
  /\ awake = Cardinality(Voting) + stuck

(* The log starts with no producer and no vote.                             *)
LEMMA VoteInit == Init => VoteInv
<1> SUFFICES ASSUME Init PROVE VoteInv
  OBVIOUS
<1>1. ControlType /\ ListInv
  BY DEF Init, ControlType, ListInv, Stopping
<1>2. Voting = {}
  BY DEF Init, Voting, Stopping
<1>3. stuck \in 0 .. MaxStuck /\ awake = Cardinality(Voting) + stuck
  BY <1>2, FS_EmptySet, LoggerAssumption DEF Init, LoggerAssumption
<1>4. QED
  BY <1>1, <1>3 DEF VoteInv

(* Sets of cores are finite; a core more or less is a vote more or less.    *)
LEMMA CoresCount ==
  ASSUME NEW S \in SUBSET Cores
  PROVE  /\ Cardinality(S) \in Nat
         /\ \A p \in Cores \ S : Cardinality(S \cup {p}) = Cardinality(S) + 1
<1>1. IsFiniteSet(S)
  BY LoggerAssumption, FS_Subset
<1>2. QED
  BY <1>1, FS_CardinalityType, FS_AddElement

(* No step changes the votes without the list, or the list without the votes, *)
(* except on the way, where Voting says who has voted.                      *)
LEMMA VoteStep == VoteInv /\ [Next]_vars => VoteInv'
<1> SUFFICES ASSUME VoteInv, [Next]_vars PROVE VoteInv'
  OBVIOUS
<1> USE DEF VoteInv
<1>1. CASE StartLog
  BY <1>1 DEF StartLog, ControlType, ListInv, Voting, Stopping, production, votes, GoesWrong
<1>2. CASE ClearQueue
  BY <1>2 DEF ClearQueue, ControlType, ListInv, Voting, Stopping, production
<1>3. CASE OpenQueue
  BY <1>3 DEF OpenQueue, ControlType, ListInv, Voting, Stopping, production, votes
<1>4. CASE ListDevices
  BY <1>4 DEF ListDevices, ControlType, ListInv, Voting, Stopping, production, votes, GoesWrong
<1>5. ASSUME NEW p \in Cores, ConstructProducer(p) PROVE VoteInv'
  <2>1. CASE Abandon(p) /\ GoesWrong
    <3>1. /\ ControlType' /\ ListInv'
          /\ Voting' = mLogProducers /\ Voting = mLogProducers
      BY <1>5, <2>1 DEF ConstructProducer, Abandon, ControlType, ListInv, Voting, Stopping, production,
                       GoesWrong
    <3>2. Cardinality(mLogProducers) \in Nat
      BY CoresCount DEF ControlType
    <3>3. \/ UNCHANGED <<awake, stuck>>
          \/ stuck < MaxStuck /\ awake' = awake + 1 /\ stuck' = stuck + 1
      BY <2>1 DEF Abandon
    <3>4. QED
      BY <3>1, <3>2, <3>3, LoggerAssumption DEF LoggerAssumption
  <2>2. CASE mLogProducers' = mLogProducers \cup {p} /\ awake' = awake + 1
             /\ remaining' = remaining \ {p}
             /\ step' = (IF remaining' = {} THEN "idle" ELSE "construct")
             /\ device' = [device EXCEPT ![p] = "running"]
             /\ thread' = [thread EXCEPT ![p] = "check"]
             /\ mProductionThreadBlocked' = [mProductionThreadBlocked EXCEPT ![p] = FALSE]
             /\ UNCHANGED <<stuck, faulty>>
    <3>1. p \notin mLogProducers /\ Voting = mLogProducers
      BY <1>5 DEF ConstructProducer, ControlType, ListInv, Voting, Stopping
    <3>2. Voting' = mLogProducers \cup {p}
      BY <2>2 DEF Voting, Stopping
    <3>3. Cardinality(Voting') = Cardinality(Voting) + 1
      BY <3>1, <3>2, CoresCount DEF ControlType
    <3>4. ControlType' /\ ListInv'
      BY <1>5, <2>2, <3>1 DEF ConstructProducer, ControlType, ListInv, Stopping
    <3>5. Cardinality(Voting) \in Nat
      BY <3>1, CoresCount DEF ControlType
    <3>6. QED
      BY <2>2, <3>3, <3>4, <3>5
  <2>3. QED
    BY <1>5, <2>1, <2>2 DEF ConstructProducer
<1>6. ASSUME NEW by, StopLog(by) PROVE VoteInv'
  <2>1. CASE mLogProducers = {} /\ UNCHANGED <<step, core, remaining>>
    BY <1>6, <2>1 DEF StopLog, ControlType, ListInv, Voting, Stopping, production, votes
  <2>2. CASE step' = "stopDevice" /\ core' \in mLogProducers /\ remaining' = mLogProducers \ {core'}
    <3>1. Voting' = mLogProducers /\ Voting = mLogProducers
      BY <1>6, <2>2 DEF StopLog, Voting, Stopping
    <3>2. QED
      BY <1>6, <2>2, <3>1 DEF StopLog, ControlType, ListInv, Stopping, production, votes
  <2>3. QED
    BY <1>6, <2>1, <2>2 DEF StopLog
<1>7. ASSUME NEW p \in Cores, CloseDevice(p), step \in Stopping, core = p,
             UNCHANGED <<thread, mProductionThreadBlocked, core, remaining, mLogProducers>>
      PROVE  VoteInv'
  <2>1. p \notin remaining /\ Voting = remaining \cup {p}
    BY <1>7 DEF ListInv, Voting, Stopping
  <2>2. /\ Cardinality(Voting) = Cardinality(remaining) + 1
        /\ Cardinality(remaining) \in Nat
    BY <2>1, CoresCount DEF ControlType
  <2>3. ControlType' /\ ListInv'
    BY <1>7 DEF CloseDevice, GoesWrong, ControlType, ListInv, Stopping
  <2>4. CASE step' = "join"
    <3>1. Voting' = remaining
      BY <1>7, <2>4 DEF Voting, Stopping
    <3>2. \/ awake' = awake - 1 /\ UNCHANGED stuck
          \/ stuck < MaxStuck /\ UNCHANGED awake /\ stuck' = stuck + 1
      BY <1>7, <2>4 DEF CloseDevice
    <3>3. QED
      BY <2>2, <2>3, <3>1, <3>2, LoggerAssumption DEF LoggerAssumption
  <2>5. CASE step' = "aborted" /\ UNCHANGED <<awake, stuck>>
    <3>1. Voting' = Voting
      BY <1>7, <2>5 DEF Voting, Stopping
    <3>2. QED
      BY <2>3, <2>5, <3>1
  <2>6. QED
    BY <1>7, <2>4, <2>5 DEF CloseDevice
<1>8. ASSUME NEW p \in Cores, StopDevice(p) PROVE VoteInv'
  <2>1. CASE CloseDevice(p)
    BY <1>7, <1>8, <2>1 DEF StopDevice, Stopping
  <2>2. CASE step' = "waitBlocked"
    BY <1>8, <2>2 DEF StopDevice, CloseDevice, ControlType, ListInv, Voting, Stopping, GoesWrong
  <2>3. QED
    BY <1>8, <2>1, <2>2 DEF StopDevice
<1>9. ASSUME NEW p \in Cores, StopDeviceResume(p) PROVE VoteInv'
  <2>1. CASE ~mProductionThreadBlocked[p]
    BY <1>7, <1>9, <2>1 DEF StopDeviceResume, Stopping
  <2>2. CASE mProductionThreadBlocked[p]
    BY <1>9, <2>2 DEF StopDeviceResume, ControlType, ListInv, Voting, Stopping
  <2>3. QED
    BY <2>1, <2>2
<1>10. CASE WakeStopperSpuriously
  BY <1>10 DEF WakeStopperSpuriously, ControlType, ListInv, Voting, Stopping, production, votes, GoesWrong
<1>11. ASSUME NEW p \in Cores, JoinThread(p) PROVE VoteInv'
  <2>1. CASE remaining = {} /\ step' = "closeQueue" /\ UNCHANGED <<core, remaining>>
    BY <1>11, <2>1 DEF JoinThread, ControlType, ListInv, Voting, Stopping, votes
  <2>2. CASE step' = "stopDevice" /\ core' \in remaining /\ remaining' = remaining \ {core'}
    <3>1. Voting' = remaining /\ Voting = remaining
      BY <1>11, <2>2 DEF JoinThread, Voting, Stopping
    <3>2. QED
      BY <1>11, <2>2, <3>1 DEF JoinThread, ControlType, ListInv, Stopping, votes
  <2>3. QED
    BY <1>11, <2>1, <2>2 DEF JoinThread
<1>12. CASE CloseQueue
  <2>1. Voting' = {} /\ Voting = {}
    BY <1>12 DEF CloseQueue, Voting, Stopping
  <2>2. QED
    BY <1>12, <2>1 DEF CloseQueue, ControlType, ListInv, Stopping, production, votes
<1>13. ASSUME NEW p \in Cores, Produce(p) \/ PollData(p) \/ PollError(p) PROVE VoteInv'
  <2>1. /\ step' = step \/ (step = "waitBlocked" /\ step' = "wokenBlocked")
        /\ UNCHANGED <<core, remaining, mLogProducers, awake, stuck>>
    BY <1>13 DEF Produce, PollData, PollError, CheckDevice, PollStopped, RestartDevice, FetchBlock,
                 ExitThread, NotifyStopper, activation, votes
  <2>2. Voting' = Voting /\ ListInv'
    BY <2>1 DEF Voting, ListInv, Stopping
  <2>3. ControlType'
    <3>1. CASE CheckDevice(p)
      BY <2>1, <3>1 DEF CheckDevice, ControlType
    <3>2. CASE PollStopped(p) \/ PollData(p)
      BY <2>1, <3>2 DEF PollStopped, PollData, ControlType
    <3>3. CASE RestartDevice(p)
      BY <2>1, <3>3 DEF RestartDevice, ControlType
    <3>4. CASE FetchBlock(p)
      BY <2>1, <3>4 DEF FetchBlock, ControlType, votes
    <3>5. CASE ExitThread(p)
      BY <2>1, <3>5 DEF ExitThread, ControlType, votes
    <3>6. CASE PollError(p)
      BY <2>1, <3>6 DEF PollError, ControlType, GoesWrong
    <3>7. QED
      BY <1>13, <3>1, <3>2, <3>3, <3>4, <3>5, <3>6 DEF Produce
  <2>4. QED
    BY <2>1, <2>2, <2>3
<1>14. CASE ReadLogBlock \/ ReadLogBlockResume
  BY <1>14 DEF ReadLogBlock, ReadLogBlockResume, ControlType, ListInv, Voting, Stopping, activation,
               production, votes
<1>15. CASE UNCHANGED vars
  BY <1>15 DEF vars, ControlType, ListInv, Voting, Stopping, activation, production, votes
<1>16. QED
  BY <1>1, <1>2, <1>3, <1>4, <1>5, <1>6, <1>8, <1>9, <1>10, <1>11, <1>12, <1>13, <1>14, <1>15
     DEF Next, Step, Controller

(* Between two calls there is one vote against core sleep for each producer  *)
(* in the list and one for each withdrawal that failed, for any finite set   *)
(* of cores and any sequence of starts and stops, those that fail included:  *)
(* what keeps a core awake for nothing is a failed allowCoreToSleep() and    *)
(* nothing else, and a stop withdraws no vote but its own.                   *)
THEOREM VotesStayBalanced == Spec => []VotesBalanced
<1>1. VoteInv => VotesBalanced
  BY DEF VoteInv, VotesBalanced, Voting, Stopping
<1>2. QED
  BY <1>1, VoteInit, VoteStep, PTL DEF Spec
-----------------------------------------------------------------------------
(* A stopper that waits, waits for a thread that is on its way: that thread  *)
(* is between the setting and the clearing of mProductionThreadBlocked, and  *)
(* its device is stopped, so that neither its poll nor its next check can    *)
(* hold it.                                                                  *)
WaitIsAnswered ==
  (step = "waitBlocked" /\ ~faulty) =>
    device[core] = "stopped" /\ thread[core] \in {"poll", "fetch", "exit"}

\* Needed for both: a thread that was woken, or is about to be, cannot enter
\* the poll again, for its device stays stopped until the stopper closes it.
HandshakeInv ==
  /\ ControlType
  /\ step \in Stopping => core \in Cores
  /\ \A p \in Cores : mProductionThreadBlocked[p] =>
                        thread[p] \in {"poll", "recover", "fetch", "exit"}
  /\ ~faulty =>
       /\ step # "aborted"
       /\ \A p \in Cores : thread[p] # "recover"
       /\ step \in {"waitBlocked", "wokenBlocked"} => device[core] = "stopped"
       /\ step = "waitBlocked" => mProductionThreadBlocked[core]
       /\ step = "wokenBlocked" => ~mProductionThreadBlocked[core]

LEMMA HandshakeInit == Init => HandshakeInv
BY DEF Init, HandshakeInv, ControlType, Stopping

(* No step of a client, a producer or a device breaks the handshake, unless  *)
(* it is a fault.                                                            *)
LEMMA HandshakeStep == VoteInv /\ VoteInv' /\ HandshakeInv /\ [Next]_vars => HandshakeInv'
<1> SUFFICES ASSUME VoteInv, VoteInv', HandshakeInv, [Next]_vars PROVE HandshakeInv'
  OBVIOUS
<1> USE DEF HandshakeInv
<1>0. ControlType /\ ControlType'
  BY DEF VoteInv
<1>1. (step \in Stopping => core \in Cores)'
  BY <1>0 DEF VoteInv, ListInv, ControlType
<1>2. CASE StartLog \/ ClearQueue \/ OpenQueue \/ ListDevices \/ CloseQueue
  BY <1>0, <1>1, <1>2 DEF StartLog, ClearQueue, OpenQueue, ListDevices, CloseQueue, production, votes,
                    GoesWrong
<1>3. ASSUME NEW p \in Cores, ConstructProducer(p) PROVE HandshakeInv'
  BY <1>0, <1>1, <1>3 DEF ConstructProducer, Abandon, production, GoesWrong, ControlType
<1>4. ASSUME NEW by, StopLog(by) PROVE HandshakeInv'
  BY <1>0, <1>1, <1>4 DEF StopLog, production, votes
<1>5. ASSUME NEW p \in Cores, StopDevice(p) PROVE HandshakeInv'
  BY <1>0, <1>1, <1>5 DEF StopDevice, CloseDevice, GoesWrong, ControlType
<1>6. ASSUME NEW p \in Cores, StopDeviceResume(p) PROVE HandshakeInv'
  BY <1>0, <1>1, <1>6 DEF StopDeviceResume, CloseDevice, GoesWrong, ControlType
<1>7. CASE WakeStopperSpuriously
  BY <1>0, <1>1, <1>7 DEF WakeStopperSpuriously, production, GoesWrong
<1>8. ASSUME NEW p \in Cores, JoinThread(p) PROVE HandshakeInv'
  BY <1>0, <1>1, <1>8 DEF JoinThread, votes, ControlType
<1>9. ASSUME NEW p \in Cores, CheckDevice(p) PROVE HandshakeInv'
  <2>1. UNCHANGED <<step, core, device, faulty>>
    BY <1>9 DEF CheckDevice, activation
  <2>2. CASE /\ device[p] \in {"running", "closed"}
             /\ mProductionThreadBlocked' = [mProductionThreadBlocked EXCEPT ![p] = TRUE]
             /\ thread' = [thread EXCEPT ![p] = "poll"]
    <3>1. (step \in {"waitBlocked", "wokenBlocked"} /\ ~faulty) => p # core
      BY <2>2
    <3>2. QED
      BY <1>0, <1>1, <2>1, <2>2, <3>1 DEF ControlType
  <2>3. CASE thread' = [thread EXCEPT ![p] = "exit"] /\ UNCHANGED mProductionThreadBlocked
    BY <1>0, <1>1, <2>1, <2>3 DEF ControlType
  <2>4. QED
    BY <1>9, <2>2, <2>3 DEF CheckDevice
<1>10. ASSUME NEW p \in Cores, PollData(p) \/ PollStopped(p) PROVE HandshakeInv'
  <2>1. /\ UNCHANGED <<step, core, device, mProductionThreadBlocked, faulty>>
        /\ thread' = [thread EXCEPT ![p] = thread'[p]]
        /\ thread'[p] \in {"fetch", "exit"}
    BY <1>0, <1>10 DEF PollData, PollStopped, activation, ControlType
  <2>2. QED
    BY <1>0, <1>1, <2>1 DEF ControlType
<1>11. ASSUME NEW p \in Cores, PollError(p) \/ RestartDevice(p) PROVE HandshakeInv'
  BY <1>0, <1>1, <1>11 DEF PollError, RestartDevice, activation, votes, GoesWrong, ControlType
<1>12. ASSUME NEW p \in Cores, FetchBlock(p) \/ ExitThread(p) PROVE HandshakeInv'
  <2>1. /\ UNCHANGED <<core, device, faulty>>
        /\ mProductionThreadBlocked' = [mProductionThreadBlocked EXCEPT ![p] = FALSE]
        /\ thread' = [thread EXCEPT ![p] = thread'[p]]
        /\ thread'[p] \in {"check", "done"}
    BY <1>0, <1>12 DEF FetchBlock, ExitThread, ControlType
  <2>2. NotifyStopper(p)
    BY <1>12 DEF FetchBlock, ExitThread
  <2>3. CASE step = "waitBlocked" /\ core = p
    <3>1. step' = "wokenBlocked"
      BY <2>2, <2>3 DEF NotifyStopper
    <3>2. QED
      BY <1>0, <1>1, <2>1, <2>3, <3>1 DEF ControlType
  <2>4. CASE ~(step = "waitBlocked" /\ core = p)
    <3>1. step' = step
      BY <2>2, <2>4 DEF NotifyStopper
    <3>2. QED
      BY <1>0, <1>1, <2>1, <2>4, <3>1 DEF ControlType
  <2>5. QED
    BY <2>3, <2>4
<1>13. CASE ReadLogBlock \/ ReadLogBlockResume \/ UNCHANGED vars
  BY <1>0, <1>1, <1>13 DEF ReadLogBlock, ReadLogBlockResume, vars, activation, production, votes
<1>14. QED
  BY <1>2, <1>3, <1>4, <1>5, <1>6, <1>7, <1>8, <1>9, <1>10, <1>11, <1>12, <1>13
     DEF Next, Step, Controller, Produce

(* stopLogDevice()'s single, loop-free wait is enough: until a step fails    *)
(* its assertion holds and it is never left waiting for a thread that is     *)
(* gone or asleep, for any finite set of cores and any queue.                *)
THEOREM HandshakeHolds == Spec => [](StopNeverAsserts /\ WaitIsAnswered)
<1>1. Init => VoteInv /\ HandshakeInv
  BY VoteInit, HandshakeInit
<1>2. (VoteInv /\ HandshakeInv) /\ [Next]_vars => (VoteInv /\ HandshakeInv)'
  BY VoteStep, HandshakeStep
<1>3. HandshakeInv => StopNeverAsserts /\ WaitIsAnswered
  BY DEF HandshakeInv, StopNeverAsserts, WaitIsAnswered, Stopping
<1>4. QED
  BY <1>1, <1>2, <1>3, PTL DEF Spec
-----------------------------------------------------------------------------
\* The log queue, with what is proved of it.
Log == INSTANCE BlockingQueue_proofs
  WITH Elements <- Sessions, ElementSize <- [s \in Sessions |-> 1],
       MaxByteSize <- QueueMaxBlocks, Consumers <- {Reader}, pc <- reader,
       SpuriousWakeups <- FALSE, Quiescent <- FALSE

(* The log queue is an instance that BlockingQueue_proofs is about.         *)
LEMMA LogAssumptions == Log!ElementsAssumption /\ Log!ConsumersAssumption
<1>1. IsFiniteSet({Reader})
  BY FS_Singleton
<1>2. [s \in Sessions |-> 1] \in [Sessions -> Nat]
  OBVIOUS
<1>3. Log!ElementsAssumption
  BY <1>2, LoggerAssumption DEF Log!ElementsAssumption, LoggerAssumption
<1>4. Log!ConsumersAssumption
  BY <1>1 DEF Log!ConsumersAssumption, Log!IsFiniteSet, IsFiniteSet
<1>5. QED
  BY <1>3, <1>4

\* What the producers add to it.
BlockType == session \in Sessions

(* Whatever the threads of the logger do to the queue, they do by its       *)
(* methods.                                                                 *)
LEMMA LogStep == BlockType /\ [Next]_vars => [Log!Next]_(Log!vars)
<1> SUFFICES ASSUME BlockType, [Next]_vars PROVE [Log!Next]_(Log!vars)
  OBVIOUS
<1> USE DEF BlockType, Log!Next, Log!Step, Log!vars
<1>1. CASE UNCHANGED queueVars
  BY <1>1 DEF queueVars
<1>2. ASSUME Next PROVE Log!Running
  BY <1>2 DEF Next, Alive, Queue!Running, Log!Running
<1>3. CASE ClearQueue /\ Next
  BY <1>2, <1>3 DEF ClearQueue, Queue!Clear, Queue!MayReset, Log!Clear, Log!MayReset
<1>4. CASE OpenQueue /\ Next
  BY <1>2, <1>4 DEF OpenQueue, Queue!Open, Queue!MayReset, Log!Open, Log!MayReset
<1>5. CASE CloseQueue /\ Next
  <2>1. Log!Close
    BY <1>5 DEF CloseQueue, Queue!Close, Queue!NotifyAll, Log!Close, Log!NotifyAll
  <2>2. QED
    BY <1>2, <1>5, <2>1
<1>6. ASSUME Next, Queue!Add(session) PROVE Log!Next
  <2>1. Log!Add(session)
    BY <1>6 DEF Queue!Add, Queue!Fits, Queue!NotifyOne, Queue!Waiting,
                Log!Add, Log!Fits, Log!NotifyOne, Log!Waiting
  <2>2. QED
    BY <1>2, <1>6, <2>1
<1>7. CASE (ReadLogBlock \/ ReadLogBlockResume) /\ Next
  <2>1. Log!Remove(Reader) \/ Log!Resume(Reader)
    BY <1>7 DEF ReadLogBlock, ReadLogBlockResume, Queue!Remove, Queue!Resume, Queue!RemoveLocked,
                Queue!ReturnNull, Log!Remove, Log!Resume, Log!RemoveLocked, Log!ReturnNull
  <2>2. QED
    BY <1>2, <1>7, <2>1
<1>8. QED
  BY <1>1, <1>3, <1>4, <1>5, <1>6, <1>7
     DEF Next, Step, Controller, Produce, vars, StartLog, StopLog, ListDevices, ConstructProducer,
         StopDevice, StopDeviceResume, JoinThread, WakeStopperSpuriously, CheckDevice, PollStopped,
         PollData, PollError, RestartDevice, FetchBlock, ExitThread

LEMMA LogSpec == Spec => Log!Spec /\ []BlockType
<1>1. Init => Log!Init /\ BlockType
  BY DEF Init, Queue!Init, Log!Init, BlockType, Sessions
<1>2. BlockType /\ [Next]_vars => BlockType'
  BY DEF Next, Step, Controller, Produce, vars, votes, StartLog, StopLog, ListDevices,
         ConstructProducer, StopDevice, StopDeviceResume, JoinThread, WakeStopperSpuriously,
         CheckDevice, PollStopped, PollData, PollError, RestartDevice, FetchBlock, ExitThread,
         ClearQueue, OpenQueue, CloseQueue, ReadLogBlock, ReadLogBlockResume, BlockType, Sessions
<1>3. QED
  BY <1>1, <1>2, LogStep, PTL DEF Spec, Log!Spec

(* To the threads of the logger and to its reader the log queue is the      *)
(* bounded FIFO of ElementQueue, its running size never drifts and it loses *)
(* no wake-up: what is proved of BlockingQueue carries over, because the    *)
(* logger touches the queue by nothing but its methods.                     *)
THEOREM LogQueueKeepsItsPromise ==
  Spec => /\ [](Log!TypeOK /\ Log!Accounting /\ Log!NoneBlockedWhenClosed /\ Log!NoLostWakeup)
          /\ Log!ImplementsElementQueue
<1>1. Log!Spec => [](Log!TypeOK /\ Log!Accounting)
  BY LogAssumptions, Log!SizeIsExact, PTL
<1>2. Log!Spec => [](Log!NoneBlockedWhenClosed /\ Log!NoLostWakeup)
  BY LogAssumptions, Log!WakeupsSuffice, PTL
<1>3. Log!Spec => Log!ImplementsElementQueue
  BY LogAssumptions, Log!QueueImplementsPromise, PTL
<1>4. QED
  BY <1>1, <1>2, <1>3, LogSpec, PTL
-----------------------------------------------------------------------------
LEMMA LogQueueType == Spec => []Queue!TypeOK
<1>1. Log!TypeOK => Queue!TypeOK
  BY DEF Log!TypeOK, Queue!TypeOK
<1>2. QED
  BY <1>1, LogQueueKeepsItsPromise, PTL

\* The cores whose production thread has not been joined yet.
Threaded ==
  IF step \in Stopping \cup {"join"} THEN remaining \cup {core}
  ELSE IF step = "closeQueue" THEN {}
  ELSE mLogProducers

(* Threads exist only on behalf of the producers of the current session, so *)
(* that what they fetch belongs to it.                                      *)
ThreadInv == \A p \in Cores : thread[p] # "none" => p \in Threaded

LEMMA ThreadStep == VoteInv /\ ThreadInv /\ [Next]_vars => ThreadInv'
<1> SUFFICES ASSUME VoteInv, ThreadInv, [Next]_vars PROVE ThreadInv'
  OBVIOUS
<1> USE DEF ThreadInv, VoteInv, ControlType, ListInv, Threaded, Stopping
<1>1. CASE StartLog \/ ClearQueue \/ OpenQueue \/ ListDevices \/ CloseQueue
  BY <1>1 DEF StartLog, ClearQueue, OpenQueue, ListDevices, CloseQueue, production
<1>2. ASSUME NEW p \in Cores, ConstructProducer(p) PROVE ThreadInv'
  BY <1>2 DEF ConstructProducer, Abandon, production
<1>3. ASSUME NEW by, StopLog(by) PROVE ThreadInv'
  BY <1>3 DEF StopLog, production
<1>4. ASSUME NEW p \in Cores, StopDevice(p) PROVE ThreadInv'
  BY <1>4 DEF StopDevice, CloseDevice
<1>5. ASSUME NEW p \in Cores, StopDeviceResume(p) PROVE ThreadInv'
  BY <1>5 DEF StopDeviceResume, CloseDevice
<1>6. CASE WakeStopperSpuriously
  BY <1>6 DEF WakeStopperSpuriously, production
<1>7. ASSUME NEW p \in Cores, JoinThread(p) PROVE ThreadInv'
  BY <1>7 DEF JoinThread
<1>8. ASSUME NEW p \in Cores, Produce(p) \/ PollData(p) \/ PollError(p) PROVE ThreadInv'
  <2>1. /\ thread[p] # "none"
        /\ thread' = [thread EXCEPT ![p] = thread'[p]]
        /\ step' = step \/ (step = "waitBlocked" /\ step' = "wokenBlocked")
        /\ UNCHANGED <<core, remaining, mLogProducers>>
    BY <1>8 DEF Produce, PollData, PollError, CheckDevice, PollStopped, RestartDevice, FetchBlock,
                ExitThread, NotifyStopper, activation
  <2>2. Threaded' = Threaded
    BY <2>1
  <2>3. QED
    BY <2>1, <2>2
<1>9. CASE ReadLogBlock \/ ReadLogBlockResume \/ UNCHANGED vars
  BY <1>9 DEF ReadLogBlock, ReadLogBlockResume, vars, activation, production
<1>10. QED
  BY <1>1, <1>2, <1>3, <1>4, <1>5, <1>6, <1>7, <1>8, <1>9 DEF Next, Step, Controller

(* Every block in the queue was fetched in the current session.             *)
BlocksInv == \A i \in DOMAIN mQueue : mQueue[i] = session

LEMMA BlocksStep == BlockType /\ Queue!TypeOK /\ BlocksInv /\ [Next]_vars => BlocksInv'
<1> SUFFICES ASSUME BlockType, Queue!TypeOK, BlocksInv, [Next]_vars PROVE BlocksInv'
  OBVIOUS
<1> USE DEF BlocksInv, BlockType
<1>0. mQueue \in Seq(Sessions)
  BY DEF Queue!TypeOK
<1>1. CASE UNCHANGED <<mQueue, session>>
  BY <1>1
<1>2. CASE ClearQueue
  BY <1>2 DEF ClearQueue, Queue!Clear, Sessions
<1>3. CASE UNCHANGED session /\ Queue!Add(session)
  BY <1>0, <1>3 DEF Queue!Add
<1>4. CASE UNCHANGED session /\ mQueue # <<>> /\ mQueue' = Tail(mQueue)
  BY <1>0, <1>4
<1>5. CASE ReadLogBlock \/ ReadLogBlockResume
  BY <1>1, <1>4, <1>5 DEF ReadLogBlock, ReadLogBlockResume, Queue!Remove, Queue!Resume,
                          Queue!RemoveLocked, Queue!ReturnNull, votes
<1>6. CASE OpenQueue \/ CloseQueue
  BY <1>1, <1>6 DEF OpenQueue, CloseQueue, Queue!Open, Queue!Close, votes
<1>7. QED
  BY <1>1, <1>2, <1>3, <1>5, <1>6
     DEF Next, Step, Controller, Produce, vars, queueVars, votes, StartLog, StopLog, ListDevices,
         ConstructProducer, StopDevice, StopDeviceResume, JoinThread, WakeStopperSpuriously,
         CheckDevice, PollStopped, PollData, PollError, RestartDevice, FetchBlock, ExitThread

(* No producer of an earlier session is left when the queue is cleared for  *)
(* the next one.                                                            *)
NoOldProducer == step \in {"clear", "open", "list"} => \A p \in Cores : thread[p] = "none"

(* A reader gets no block of the session before: the queue is cleared when  *)
(* the threads of that session have all been joined, for any number of      *)
(* cores and any queue, and whatever step of starting has failed.           *)
THEOREM SessionsDoNotMix == Spec => [](NoStaleBlocks /\ NoOldProducer)
<1>1. Init => ThreadInv /\ BlocksInv
  BY DEF Init, Queue!Init, ThreadInv, BlocksInv, Sessions
<1>2. VoteInv /\ ThreadInv => NoOldProducer
  BY DEF VoteInv, ControlType, ListInv, ThreadInv, NoOldProducer, Threaded, Stopping
<1>3. BlocksInv => NoStaleBlocks
  BY DEF BlocksInv, NoStaleBlocks
<1>4. QED
  BY <1>1, <1>2, <1>3, LogSpec, LogQueueType, VoteInit, VoteStep, ThreadStep, BlocksStep, PTL DEF Spec
-----------------------------------------------------------------------------
(* Every variable keeps to its type; in particular the count of votes       *)
(* against core sleep is never negative, and no core votes twice but for a  *)
(* vote that could not be withdrawn.                                        *)
THEOREM LoggerIsTyped == Spec => []TypeOK
<1> DEFINE CallType == call \in {"none", "start", "stop", "shutdown"}
<1>1. Init => CallType
  BY DEF Init
<1>2. CallType /\ [Next]_vars => CallType'
  BY DEF Next, Step, Controller, Produce, vars, activation, StartLog, StopLog, ListDevices,
         ConstructProducer, StopDevice, StopDeviceResume, JoinThread, WakeStopperSpuriously,
         CheckDevice, PollStopped, PollData, PollError, RestartDevice, FetchBlock, ExitThread,
         ClearQueue, OpenQueue, CloseQueue, ReadLogBlock, ReadLogBlockResume
<1>3. ASSUME VoteInv PROVE awake \in 0 .. Cardinality(Cores) + MaxStuck
  <2>1. Voting \in SUBSET Cores
    BY <1>3 DEF VoteInv, ControlType, ListInv, Voting, Stopping
  <2>2. /\ Cardinality(Voting) \in Nat /\ Cardinality(Cores) \in Nat
        /\ Cardinality(Voting) <= Cardinality(Cores)
    BY <2>1, LoggerAssumption, CoresCount, FS_Subset, FS_CardinalityType DEF LoggerAssumption
  <2>3. QED
    BY <1>3, <2>2, LoggerAssumption DEF VoteInv, LoggerAssumption
<1>4. Queue!TypeOK /\ VoteInv /\ BlockType /\ CallType => TypeOK
  BY <1>3 DEF VoteInv, ControlType, TypeOK, BlockType
<1>5. QED
  BY <1>1, <1>2, <1>4, LogSpec, LogQueueType, VoteInit, VoteStep, PTL DEF Spec
=============================================================================
