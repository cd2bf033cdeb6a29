------------------------- MODULE ProbeInjection_proofs -------------------------
(***************************************************************************)
(* Proofs about ProbeInjection: the input ring is a stream of bytes, only  *)
(* whole samples are taken out of it, and a stopped probe leaves nothing   *)
(* behind.                                                                 *)
(***************************************************************************)
EXTENDS ProbeInjection, TLAPS

\* The input ring, with what is proved of it.
Input == INSTANCE RingBuffer_proofs
  WITH Bytes <- {0}, Size <- QueueSize, Writers <- {Writer}, Readers <- {Injector},
       Requests <- 0 .. QueueSize

(* The input ring is an instance that RingBuffer_proofs is about, with one   *)
(* thread on each side.                                                      *)
LEMMA InputAssumptions == Input!RingAssumption /\ Input!OneOnEachSide
BY InjectionAssumption DEF Input!RingAssumption, InjectionAssumption, Input!OneOnEachSide

\* A count of bytes that makes whole samples.
Whole(bytes) == \E samples \in Nat : bytes = SampleByteSize * samples

\* What the injector is about to take: no more than the device has room for,
\* in whole samples.
CopyInv ==
  /\ sampleCount \in 0 .. BufferSize \div SampleByteSize
  /\ bytesToCopy \in 0 .. QueueSize
  /\ Whole(bytesToCopy)
  /\ thread \in {"read", "write"} => bytesToCopy <= sampleCount * SampleByteSize

(* Whatever happens to the input ring happens by its methods.                *)
LEMMA InputStep == CopyInv /\ [Next]_vars => [Input!Next]_(Input!vars)
<1> SUFFICES ASSUME CopyInv, [Next]_vars PROVE [Input!Next]_(Input!vars)
  OBVIOUS
<1> USE DEF Input!Next
<1>1. CASE UNCHANGED ringVars
  BY <1>1 DEF ringVars, Input!vars, Input!ring, Input!writing, Input!reading
<1>2. CASE StartStreaming
  <2>1. Input!Open
    BY <1>2 DEF StartStreaming, Ring!Open, Ring!ring, Ring!writing, Ring!reading,
                Input!Open, Input!ring, Input!writing, Input!reading
  <2>2. QED
    BY <2>1
<1>3. CASE CloseQueue
  <2>1. Input!Close
    BY <1>3 DEF CloseQueue, Ring!Close, Ring!ring, Input!Close, Input!ring
  <2>2. QED
    BY <2>1
<1>4. CASE ClearInput
  <2>1. Input!Clear
    BY <1>4 DEF ClearInput, Ring!Clear, Ring!writing, Ring!reading,
                Input!Clear, Input!writing, Input!reading
  <2>2. QED
    BY <2>1
<1>5. CASE ReadSamples
  <2>1. Input!readNonBlocking(Injector, bytesToCopy)
    BY <1>5 DEF ReadSamples, Ring!readNonBlocking, Ring!readLocked, Ring!Oldest, Ring!FirstPart,
                Ring!getAvailableConsumption, Ring!Least, Ring!NotifyWriter, Ring!WaitingWriters,
                Input!readNonBlocking, Input!readLocked, Input!Oldest, Input!FirstPart,
                Input!getAvailableConsumption, Input!Least, Input!NotifyWriter, Input!WaitingWriters
  <2>2. QED
    BY <2>1 DEF CopyInv
<1>6. ASSUME NEW bytes, NEW done, Ring!WriteOn(Writer, bytes, done)
      PROVE  Input!WriteOn(Writer, bytes, done)
  BY <1>6 DEF Ring!WriteOn, Ring!writeLocked, Ring!FirstPart, Ring!getAvailableProduction, Ring!Indexes,
              Ring!getAvailableConsumption, Ring!Least, Ring!NotifyReader, Ring!WaitingReaders, Ring!ring,
              Input!WriteOn, Input!writeLocked, Input!FirstPart, Input!getAvailableProduction, Input!Indexes,
              Input!getAvailableConsumption, Input!Least, Input!NotifyReader, Input!WaitingReaders, Input!ring
<1>7. CASE EnqueueInjectionBlock
  <2>1. PICK bytes \in Contents : Ring!writeBlocking(Writer, bytes)
    BY <1>7 DEF EnqueueInjectionBlock
  <2>2. Input!writeBlocking(Writer, bytes)
    BY <1>6, <2>1 DEF Ring!writeBlocking, Input!writeBlocking
  <2>3. QED
    BY <2>2
<1>8. CASE EnqueueResume
  <2>1. Input!ResumeWrite(Writer)
    BY <1>6, <1>8 DEF EnqueueResume, Ring!ResumeWrite, Input!ResumeWrite
  <2>2. QED
    BY <2>1
<1>9. QED
  BY <1>1, <1>2, <1>3, <1>4, <1>5, <1>7, <1>8
     DEF Next, Step, Controller, Inject, vars, StartFails, OpenStream, CloseStream, CloseStreamResume,
         JoinThread, EnterWait, LeaveWait, PollSucceeds, PollFails, GetAvailable, CountSamples, WriteSamples
-----------------------------------------------------------------------------
\* What the ring says of the bytes in it.
RingPositions ==
  /\ mConsumerPosition \in Nat /\ mProducerPosition \in Nat
  /\ Ring!getAvailableConsumption \in 0 .. QueueSize

LEMMA PositionsOf == Input!TypeOK => RingPositions
BY DEF Input!TypeOK, Input!getAvailableConsumption, RingPositions, Ring!getAvailableConsumption

(* Counting whole samples gives no more than there is, nor than the device   *)
(* has room for.                                                             *)
LEMMA WholeCount ==
  ASSUME NEW used \in Nat, NEW room \in Nat
  PROVE  LET samples == Least(used \div SampleByteSize, room)
         IN  /\ samples \in Nat /\ samples <= room
             /\ samples * SampleByteSize \in 0 .. used
             /\ samples * SampleByteSize <= room * SampleByteSize
             /\ Whole(samples * SampleByteSize)
<1> DEFINE d == used \div SampleByteSize
           samples == Least(d, room)
<1>1. SampleByteSize \in Nat /\ SampleByteSize > 0
  BY InjectionAssumption DEF InjectionAssumption
<1>2. d \in Nat /\ used % SampleByteSize \in Nat /\ used = SampleByteSize * d + (used % SampleByteSize)
  BY <1>1
<1> HIDE DEF d
<1>3. samples \in Nat /\ samples <= d /\ samples <= room
  BY <1>2 DEF Least
<1> HIDE DEF samples
<1>4. samples * SampleByteSize \in Nat /\ samples * SampleByteSize = SampleByteSize * samples
  BY <1>1, <1>3
<1>5. \A a, b \in Nat : a <= b => a * SampleByteSize <= b * SampleByteSize
  <2> SUFFICES ASSUME NEW a \in Nat, NEW b \in Nat, a <= b
               PROVE  a * SampleByteSize <= b * SampleByteSize
    OBVIOUS
  <2>1. PICK g \in Nat : b = a + g
    <3>1. b - a \in Nat /\ b = a + (b - a)
      OBVIOUS
    <3>2. QED
      BY <3>1
  <2>2. b * SampleByteSize = a * SampleByteSize + g * SampleByteSize
    BY <1>1, <2>1
  <2>3. g * SampleByteSize \in Nat /\ a * SampleByteSize \in Nat
    BY <1>1, <2>1
  <2>4. QED
    BY <2>2, <2>3
<1>6. samples * SampleByteSize <= d * SampleByteSize /\ samples * SampleByteSize <= room * SampleByteSize
  BY <1>2, <1>3, <1>5
<1>7. d * SampleByteSize <= used
  <2>1. d * SampleByteSize = SampleByteSize * d /\ SampleByteSize * d \in Nat
    BY <1>1, <1>2
  <2>2. QED
    BY <1>2, <2>1
<1>8. samples * SampleByteSize \in 0 .. used
  BY <1>1, <1>2, <1>4, <1>6, <1>7
<1>9. QED
  BY <1>3, <1>4, <1>6, <1>8 DEF Whole, d, samples

\* The places of the actors, which the other variables depend on.
PlaceType ==
  /\ step \in {"idle", "openStream", "prefill", "waitBlocked", "wokenBlocked", "streamAssert",
               "clear", "join", "closeQueue"}
  /\ device \in {"closed", "ready", "running"}
  /\ thread \in {"none", "check", "poll", "polled", "failed", "available", "count", "read",
                 "readAssert", "write", "done"}

LEMMA PlaceInit == Init => PlaceType
BY DEF Init, PlaceType

LEMMA PlaceStep == PlaceType /\ [Next]_vars => PlaceType'
<1> SUFFICES ASSUME PlaceType, [Next]_vars PROVE PlaceType'
  OBVIOUS
<1> USE DEF PlaceType
<1>1. CASE StartStreaming \/ CloseStream \/ Controller
  BY <1>1 DEF StartStreaming, CloseStream, Controller, StartFails, OpenStream, CloseStreamResume,
              ClearInput, JoinThread, CloseQueue, stream
<1>2. CASE EnterWait \/ LeaveWait \/ PollSucceeds \/ PollFails
  BY <1>2 DEF EnterWait, LeaveWait, PollSucceeds, PollFails, stream, service
<1>3. CASE GetAvailable \/ CountSamples \/ ReadSamples
  BY <1>3 DEF GetAvailable, CountSamples, ReadSamples, stream, service
<1>4. CASE WriteSamples
  BY <1>4 DEF WriteSamples, service
<1>5. CASE EnqueueInjectionBlock \/ EnqueueResume \/ UNCHANGED vars
  BY <1>5 DEF EnqueueInjectionBlock, EnqueueResume, vars, stream, service
<1>6. QED
  BY <1>1, <1>2, <1>3, <1>4, <1>5 DEF Next, Step, Inject

LEMMA CopyInit == Init => CopyInv
<1>1. 0 = SampleByteSize * 0 /\ BufferSize \div SampleByteSize \in Nat /\ QueueSize \in Nat
  BY InjectionAssumption DEF InjectionAssumption
<1>2. QED
  BY <1>1 DEF Init, CopyInv, Whole

(* The injector counts before it reads, and clears nothing that it counted.  *)
LEMMA CopyStep == RingPositions /\ PlaceType /\ CopyInv /\ [Next]_vars => CopyInv'
<1> SUFFICES ASSUME RingPositions, PlaceType, CopyInv, [Next]_vars PROVE CopyInv'
  OBVIOUS
<1>1. /\ SampleByteSize \in Nat /\ SampleByteSize > 0 /\ BufferSize \in Nat
      /\ BufferSize \div SampleByteSize \in Nat /\ QueueSize \in Nat
  BY InjectionAssumption DEF InjectionAssumption
<1>2. CASE UNCHANGED copying /\ (thread' \in {"read", "write"} => thread \in {"read", "write"})
  BY <1>2 DEF copying, CopyInv, Whole
<1>3. CASE OpenStream
  BY <1>1, <1>3 DEF OpenStream, CopyInv, Whole
<1>4. CASE GetAvailable
  <2>1. \A bytes \in 0 .. BufferSize : bytes \div SampleByteSize \in 0 .. BufferSize \div SampleByteSize
    BY <1>1
  <2>2. sampleCount' \in 0 .. BufferSize \div SampleByteSize
    BY <1>4, <2>1 DEF GetAvailable, CopyInv
  <2>3. thread' \notin {"read", "write"}
    BY <1>4 DEF GetAvailable
  <2>4. QED
    BY <1>4, <2>2, <2>3 DEF GetAvailable, CopyInv, Whole
<1>5. CASE CountSamples
  <2> DEFINE used == Ring!getAvailableConsumption
             samples == Least(used \div SampleByteSize, sampleCount)
  <2>1. used \in Nat /\ used <= QueueSize /\ sampleCount \in Nat
    BY <1>1 DEF RingPositions, CopyInv
  <2>2. bytesToCopy' = samples * SampleByteSize /\ sampleCount' = sampleCount
    BY <1>5 DEF CountSamples
  <2> HIDE DEF used
  <2>3. /\ samples * SampleByteSize \in 0 .. used
        /\ samples * SampleByteSize <= sampleCount * SampleByteSize
        /\ Whole(samples * SampleByteSize)
    BY <2>1, WholeCount
  <2> HIDE DEF samples
  <2>4. bytesToCopy' \in 0 .. QueueSize
    BY <1>1, <2>1, <2>2, <2>3
  <2>5. QED
    BY <2>2, <2>3, <2>4 DEF CopyInv, Whole
<1>6. CASE ReadSamples
  BY <1>2, <1>6 DEF ReadSamples
<1>7. CASE WriteSamples
  BY <1>2, <1>7 DEF WriteSamples
<1>8. QED
  BY <1>2, <1>3, <1>4, <1>5, <1>6, <1>7
     DEF Next, Step, Controller, Inject, vars, StartStreaming, StartFails, CloseStream, CloseStreamResume,
         ClearInput, JoinThread, CloseQueue, EnterWait, LeaveWait, PollSucceeds, PollFails,
         EnqueueInjectionBlock, EnqueueResume

\* The invariant of the ring and that of the copies hold each other up: a copy
\* asks for no more than the ring may hold, which makes it a request of the ring.
InjectionInv == Input!TypeInv /\ PlaceType /\ CopyInv

LEMMA InjectionInit == Init => InjectionInv
<1>1. Init => Input!Init
  BY DEF Init, Ring!Init, Ring!Indexes, Input!Init, Input!Indexes
<1>2. Input!Init => Input!TypeInv
  BY InputAssumptions, Input!InitTypeInv
<1>3. QED
  BY <1>1, <1>2, PlaceInit, CopyInit DEF InjectionInv

LEMMA InjectionStep == InjectionInv /\ [Next]_vars => InjectionInv'
<1> SUFFICES ASSUME InjectionInv, [Next]_vars PROVE InjectionInv'
  OBVIOUS
<1> USE DEF InjectionInv
<1>1. Input!TypeInv'
  <2>1. [Input!Next]_(Input!vars)
    BY InputStep
  <2>2. QED
    BY <2>1, InputAssumptions, Input!TypeStep
<1>2. RingPositions
  BY PositionsOf DEF Input!TypeInv
<1>3. QED
  BY <1>1, <1>2, PlaceStep, CopyStep

(* The injector and the HTTP thread see a bounded stream of bytes, and that  *)
(* thread never sleeps for nothing: what is proved of RingBuffer carries     *)
(* over, because the ring is touched by nothing but its methods.             *)
THEOREM InputIsABytePipe ==
  Spec => Input!ImplementsBytePipe /\ [](Input!TypeOK /\ Input!BlockedForAReason)
<1>1. Init => Input!Init
  BY DEF Init, Ring!Init, Ring!Indexes, Input!Init, Input!Indexes
<1>2. InjectionInv /\ [Next]_vars => [Input!Next]_(Input!vars)
  BY InputStep DEF InjectionInv
<1>3. Spec => Input!Spec
  BY <1>1, <1>2, InjectionInit, InjectionStep, PTL DEF Spec, Input!Spec
<1>4. Input!Spec => Input!ImplementsBytePipe
  BY InputAssumptions, Input!RingIsABytePipe, PTL
<1>5. Input!Spec => []Input!TypeOK
  BY InputAssumptions, Input!PositionsStayInStep, PTL
<1>6. Input!Spec => []Input!BlockedForAReason
  BY InputAssumptions, Input!NoLostNotification, PTL
<1>7. QED
  BY <1>3, <1>4, <1>5, <1>6, PTL

(* Every variable keeps to its type; the bytes the injector is about to take *)
(* fit in the ring, the samples it has counted fit in the device.            *)
THEOREM InjectionIsTyped == Spec => []TypeOK
<1> DEFINE FlagType == mIsActiveState \in BOOLEAN /\ mStreamBlocked \in BOOLEAN
<1>1. Init => FlagType
  BY DEF Init
<1>2. FlagType /\ [Next]_vars => FlagType'
  <2> SUFFICES ASSUME FlagType, [Next]_vars PROVE FlagType'
    OBVIOUS
  <2>1. mIsActiveState' \in {mIsActiveState, TRUE, FALSE} /\ mStreamBlocked' \in {mStreamBlocked, TRUE, FALSE}
    BY DEF Next, Step, Controller, Inject, vars, stream, service, StartStreaming, StartFails, OpenStream,
           CloseStream, CloseStreamResume, ClearInput, JoinThread, CloseQueue, EnterWait, LeaveWait,
           PollSucceeds, PollFails, GetAvailable, CountSamples, ReadSamples, WriteSamples,
           EnqueueInjectionBlock, EnqueueResume
  <2>2. QED
    BY <2>1, Zenon
<1>3. Input!TypeOK => Ring!TypeOK
  BY DEF Input!TypeOK, Input!Indexes, Input!getAvailableConsumption,
         Ring!TypeOK, Ring!Indexes, Ring!getAvailableConsumption
<1>4. InjectionInv /\ FlagType => TypeOK
  BY <1>3 DEF InjectionInv, Input!TypeInv, PlaceType, CopyInv, TypeOK
<1>5. QED
  BY <1>1, <1>2, <1>4, InjectionInit, InjectionStep, PTL DEF Spec
-----------------------------------------------------------------------------
\* Where the consumer of the ring is: at the beginning of a sample, until the
\* ring is found emptied and the agent aborts.
AlignedInv == thread # "readAssert" => Whole(mConsumerPosition)

LEMMA AlignedStep == InjectionInv /\ AlignedInv /\ [Next]_vars => AlignedInv'
<1> SUFFICES ASSUME InjectionInv, AlignedInv, [Next]_vars PROVE AlignedInv'
  OBVIOUS
<1> USE DEF AlignedInv
<1>1. CASE UNCHANGED <<mConsumerPosition, thread>>
  BY <1>1 DEF Whole
<1>2. CASE UNCHANGED mConsumerPosition /\ thread # "readAssert"
  BY <1>2 DEF Whole
<1>3. CASE ClearInput
  <2>1. mConsumerPosition' = 0 /\ 0 = SampleByteSize * 0
    BY <1>3, InjectionAssumption DEF ClearInput, Ring!Clear, InjectionAssumption
  <2>2. QED
    BY <2>1 DEF Whole
<1>4. CASE ReadSamples
  <2> DEFINE n == Ring!Least(Ring!getAvailableConsumption, bytesToCopy)
  <2>1. /\ thread = "read" /\ mConsumerPosition' = mConsumerPosition + n
        /\ wanted' = [wanted EXCEPT ![Injector] = bytesToCopy - n]
        /\ thread' = IF wanted'[Injector] = 0 THEN "write" ELSE "readAssert"
    BY <1>4 DEF ReadSamples, Ring!readNonBlocking, Ring!readLocked
  <2>2. /\ mConsumerPosition \in Nat /\ bytesToCopy \in Nat /\ wanted \in [{Injector} -> Nat]
        /\ Ring!getAvailableConsumption \in Nat
    BY PositionsOf, InjectionAssumption
       DEF InjectionInv, Input!TypeInv, Input!TypeOK, RingPositions, CopyInv, InjectionAssumption
  <2>3. n \in Nat
    BY <2>2 DEF Ring!Least
  <2> HIDE DEF n
  <2>4. CASE thread' = "readAssert"
    BY <2>4
  <2>5. CASE thread' # "readAssert"
    <3>1. n = bytesToCopy
      BY <2>1, <2>2, <2>3, <2>5
    <3>2. PICK a \in Nat : mConsumerPosition = SampleByteSize * a
      BY <2>1 DEF Whole
    <3>3. PICK b \in Nat : bytesToCopy = SampleByteSize * b
      BY DEF InjectionInv, CopyInv, Whole
    <3>4. mConsumerPosition' = SampleByteSize * (a + b) /\ a + b \in Nat
      BY <2>1, <3>1, <3>2, <3>3, InjectionAssumption DEF InjectionAssumption
    <3>5. QED
      BY <3>4 DEF Whole
  <2>6. QED
    BY <2>4, <2>5
<1>5. CASE EnqueueInjectionBlock \/ EnqueueResume
  BY <1>1, <1>5 DEF EnqueueInjectionBlock, EnqueueResume, Ring!writeBlocking, Ring!ResumeWrite, Ring!WriteOn,
                    Ring!writeLocked, Ring!ring
<1>6. QED
  BY <1>1, <1>2, <1>3, <1>4, <1>5
     DEF Next, Alive, Step, Controller, Inject, vars, ringVars, StartStreaming, StartFails, OpenStream, CloseStream,
         CloseStreamResume, JoinThread, CloseQueue, EnterWait, LeaveWait, PollSucceeds, PollFails,
         GetAvailable, CountSamples, WriteSamples, Ring!Open, Ring!Close, Ring!ring

(* "In order to not break the sample alignment" (ProbeInjector): only whole  *)
(* samples are taken out of the ring, never more than the device has room    *)
(* for, for every sample, ring and device size and every writes.             *)
THEOREM SamplesStayWhole == Spec => []WholeSamples
<1>1. Init => AlignedInv
  <2>1. 0 = SampleByteSize * 0
    BY InjectionAssumption DEF InjectionAssumption
  <2>2. QED
    BY <2>1 DEF Init, Ring!Init, AlignedInv, Whole
<1>2. \A a \in Nat : (SampleByteSize * a) % SampleByteSize = 0
  <2> SUFFICES ASSUME NEW a \in Nat PROVE (SampleByteSize * a) % SampleByteSize = 0
    OBVIOUS
  <2>1. SampleByteSize \in Nat /\ SampleByteSize > 0 /\ 0 \in 0 .. SampleByteSize - 1
    BY InjectionAssumption DEF InjectionAssumption
  <2>2. (SampleByteSize * a + 0) % SampleByteSize = 0
    BY <2>1, InputAssumptions, Input!RemainderIs
  <2>3. SampleByteSize * a + 0 = SampleByteSize * a
    BY <2>1
  <2>4. QED
    BY <2>2, <2>3
<1>3. InjectionInv /\ AlignedInv => WholeSamples
  BY <1>2 DEF InjectionInv, CopyInv, AlignedInv, Whole, WholeSamples, Alive
<1>4. QED
  BY <1>1, <1>3, InjectionInit, InjectionStep, AlignedStep, PTL DEF Spec
-----------------------------------------------------------------------------
\* What the holder of mServiceStateMutex has done so far.
StopInv ==
  /\ mIsActiveState \in BOOLEAN
  /\ step = "prefill" => thread \in {"count", "read", "readAssert", "write"}
  /\ step \in {"openStream", "closeQueue"} => thread = "none" /\ device = "closed"
  /\ step \in {"clear", "join"} => device = "closed"
  /\ (step = "idle" /\ ~mIsActiveState) => thread = "none" /\ device = "closed" /\ ~mOpen

LEMMA StopStep == PlaceType /\ StopInv /\ [Next]_vars => StopInv'
<1> SUFFICES ASSUME PlaceType, StopInv, [Next]_vars PROVE StopInv'
  OBVIOUS
<1> USE DEF PlaceType, StopInv
<1>1. CASE StartStreaming
  BY <1>1 DEF StartStreaming, stream
<1>2. CASE StartFails \/ OpenStream
  BY <1>2 DEF StartFails, OpenStream, stream
<1>3. CASE CloseStream \/ CloseStreamResume
  BY <1>3 DEF CloseStream, CloseStreamResume, stream
<1>4. CASE ClearInput \/ JoinThread
  BY <1>4 DEF ClearInput, JoinThread, stream
<1>5. CASE CloseQueue
  BY <1>5 DEF CloseQueue, Ring!Close, stream
<1>6. CASE EnterWait \/ PollSucceeds \/ PollFails \/ GetAvailable \/ CountSamples
  BY <1>6 DEF EnterWait, PollSucceeds, PollFails, GetAvailable, CountSamples, stream, service
<1>7. CASE LeaveWait
  BY <1>7 DEF LeaveWait
<1>8. CASE ReadSamples
  BY <1>8 DEF ReadSamples, stream, service
<1>9. CASE WriteSamples
  <2>1. thread = "write" /\ thread' = "check"
    BY <1>9 DEF WriteSamples
  <2>2. device = "closed" => device' = "closed"
    BY <1>9 DEF WriteSamples
  <2>3. CASE step = "prefill" /\ step' = "idle" /\ mIsActiveState' = TRUE
    <3>1. mIsActiveState' \in BOOLEAN /\ ~(step' = "idle" /\ ~mIsActiveState')
      BY <2>3, Zenon
    <3>2. QED
      BY <2>3, <3>1
  <2>4. CASE step' = step /\ mIsActiveState' = mIsActiveState
    <3>1. step \notin {"prefill", "openStream", "closeQueue"} \/ step = "prefill"
      BY <2>1
    <3>2. ~(step = "idle" /\ ~mIsActiveState)
      BY <2>1, Zenon
    <3>3. step # "prefill" /\ mIsActiveState' \in BOOLEAN
      BY <1>9, <2>4 DEF WriteSamples
    <3>4. ~(step' = "idle" /\ ~mIsActiveState')
      BY <2>4, <3>2, Zenon
    <3>5. QED
      BY <2>1, <2>2, <2>4, <3>3, <3>4
  <2>5. QED
    BY <1>9, <2>3, <2>4 DEF WriteSamples, service
<1>10. CASE EnqueueInjectionBlock \/ EnqueueResume
  BY <1>10 DEF EnqueueInjectionBlock, EnqueueResume, Ring!writeBlocking, Ring!ResumeWrite, Ring!WriteOn,
               stream, service
<1>11. CASE UNCHANGED vars
  BY <1>11 DEF vars, ringVars, stream, service
<1>12. QED
  BY <1>1, <1>2, <1>3, <1>4, <1>5, <1>6, <1>7, <1>8, <1>9, <1>10, <1>11 DEF Next, Step, Controller, Inject

(* A stopped probe has no thread, no open device and no writer asleep, at    *)
(* whatever point of its start or of its life it was stopped.                *)
THEOREM StopAlwaysLeavesNothing == Spec => []StopLeavesNothing
<1>1. Init => StopInv
  BY DEF Init, Ring!Init, StopInv
<1>2. Input!TypeOK /\ Input!BlockedForAReason /\ StopInv => StopLeavesNothing
  BY DEF Input!TypeOK, Input!BlockedForAReason, Input!WaitingWriters, StopInv, StopLeavesNothing
<1>3. QED
  BY <1>1, <1>2, PlaceInit, PlaceStep, StopStep, InputIsABytePipe, PTL DEF Spec
=============================================================================
