---------------------------- MODULE ProbeInjection ----------------------------
(***************************************************************************)
(* The injection of one probe on Linux, from the HTTP thread to the DSP:   *)
(* linux::Prober starts and stops it (mServiceStateMutex serialises the    *)
(* calls), a ProbeInjector moves whole samples from the input RingBuffer   *)
(* to the compress device in a thread of its own, InjectionOutputStream    *)
(* hands the device over between that thread and the one that stops it.    *)
(* A hold of mProbeDeviceMutex, or of the mutex of the ring, is one step.  *)
(***************************************************************************)
EXTENDS Naturals, Sequences, FiniteSets

CONSTANTS
  Writer,          (* the HTTP thread in enqueueInjectionBlock()           *)
  Injector,        (* whoever runs ProbeInjector::injectSamples()          *)
  QueueSize,       (* Prober::mQueueSize, in bytes                         *)
  BufferSize,      (* CompressDevice::getBufferSize()                      *)
  SampleByteSize,  (* mSampleByteSize                                      *)
  Contents,        (* the buffers that are injected                        *)
  MaxPosition      (* bound: bytes that enter the ring in a session        *)

ASSUME InjectionAssumption ==
  /\ QueueSize \in Nat \ {0} /\ SampleByteSize \in Nat \ {0}
  /\ BufferSize \in Nat /\ MaxPosition \in Nat
  /\ Contents \subseteq Seq({0})

VARIABLES
  mOpen, mBuffer, mProducerPosition, mConsumerPosition,
  writer, content, current, reader, target, wanted, full,   \* mInputRingBuffer
  step,            (* where the holder of mServiceStateMutex is            *)
  mIsActiveState,
  device,          (* the compress device                                  *)
  mStreamBlocked,
  thread,          (* where inject(), or the pre-filling of the            *)
                   (* constructor, is                                      *)
  sampleCount,     (* the argument of injectSamples()                      *)
  bytesToCopy

ringVars == <<mOpen, mBuffer, mProducerPosition, mConsumerPosition,
              writer, content, current, reader, target, wanted, full>>
service  == <<step, mIsActiveState>>
stream   == <<device, mStreamBlocked>>
copying  == <<sampleCount, bytesToCopy>>
vars     == <<ringVars, service, stream, thread, copying>>

Ring == INSTANCE RingBuffer
  WITH Bytes <- {0}, Size <- QueueSize, Writers <- {Writer}, Readers <- {Injector},
       Requests <- 0 .. QueueSize

Init ==
  /\ Ring!Init
  /\ step = "idle" /\ mIsActiveState = FALSE
  /\ device = "closed" /\ mStreamBlocked = FALSE
  /\ thread = "none"
  /\ sampleCount = 0 /\ bytesToCopy = 0
-----------------------------------------------------------------------------
(* setState(true): startStreaming().                                         *)
StartStreaming ==
  /\ step = "idle" /\ ~mIsActiveState
  /\ Ring!Open
  /\ step' = "openStream"
  /\ UNCHANGED <<mIsActiveState, stream, thread, copying>>

\* The sample size is unknown or the device cannot be opened: stopNoThrow().
StartFails ==
  /\ step = "openStream"
  /\ step' = "closeQueue"
  /\ UNCHANGED <<mIsActiveState, ringVars, stream, thread, copying>>

\* InjectionOutputStream::open(), then the pre-filling of the device.
OpenStream ==
  /\ step = "openStream"
  /\ device' = "ready" /\ mStreamBlocked' = FALSE
  /\ sampleCount' = BufferSize \div SampleByteSize
  /\ thread' = "count"
  /\ step' = "prefill"
  /\ UNCHANGED <<mIsActiveState, ringVars, bytesToCopy>>
-----------------------------------------------------------------------------
(* setState(false): stopStreaming(), with the destructor of ProbeInjector.   *)

\* InjectionOutputStream::close() up to its return or to mCondVar.wait().  (A
\* device that refuses to stop is modelled in LinuxLogger.)
CloseStream ==
  /\ step = "idle" /\ mIsActiveState
  /\ \/ ~mStreamBlocked /\ device' = "closed" /\ step' = "clear"
     \/ mStreamBlocked /\ device' = "ready" /\ step' = "waitBlocked"
  /\ UNCHANGED <<mIsActiveState, mStreamBlocked, ringVars, thread, copying>>

\* ... and from the return of mCondVar.wait(), with its ASSERT_ALWAYS.
CloseStreamResume ==
  /\ step = "wokenBlocked"
  /\ \/ mStreamBlocked /\ step' = "streamAssert" /\ UNCHANGED device
     \/ ~mStreamBlocked /\ device' = "closed" /\ step' = "clear"
  /\ UNCHANGED <<mIsActiveState, mStreamBlocked, ringVars, thread, copying>>

ClearInput ==
  /\ step = "clear"
  /\ Ring!Clear
  /\ step' = "join"
  /\ UNCHANGED <<mIsActiveState, stream, thread, copying>>

\* Fault: the injector is gone before its thread.
LeaveThread ==
  /\ step = "join"
  /\ step' = "closeQueue"
  /\ UNCHANGED <<mIsActiveState, ringVars, stream, thread, copying>>

\* ~future() waits for the thread.
JoinThread ==
  /\ step = "join" /\ thread = "done"
  /\ thread' = "none"
  /\ step' = "closeQueue"
  /\ UNCHANGED <<mIsActiveState, ringVars, stream, copying>>

\* Fault: the writer is not told that the session is over.
CloseNothing ==
  /\ step = "closeQueue"
  /\ step' = "idle" /\ mIsActiveState' = FALSE
  /\ UNCHANGED <<ringVars, stream, thread, copying>>

CloseQueue ==
  /\ step = "closeQueue"
  /\ Ring!Close
  /\ step' = "idle" /\ mIsActiveState' = FALSE
  /\ UNCHANGED <<stream, thread, copying>>
-----------------------------------------------------------------------------
(* InjectionOutputStream::wait().                                            *)

\* isRunning() reads the handle: of a closed (freed) one it may read anything.
EnterWait ==
  /\ thread = "check"
  /\ \/ /\ device \in {"running", "closed"}
        /\ mStreamBlocked' = TRUE /\ thread' = "poll"
     \/ /\ device \in {"ready", "closed"}
        /\ thread' = "done" /\ UNCHANGED mStreamBlocked
  /\ UNCHANGED <<device, service, ringVars, copying>>

PollSucceeds ==
  /\ thread = "poll" /\ device = "running"
  /\ thread' = "polled"
  /\ UNCHANGED <<stream, service, ringVars, copying>>

\* The device is stopped, or its error cannot be recovered from.
PollFails ==
  /\ thread = "poll"
  /\ thread' = "failed"
  /\ UNCHANGED <<stream, service, ringVars, copying>>

\* Fault: the thread that is no longer polling does not say so.
LeaveWaitSilently ==
  /\ mStreamBlocked' = FALSE
  /\ \/ thread = "polled" /\ thread' = "available"
     \/ thread = "failed" /\ thread' = "done"
  /\ UNCHANGED <<device, service, ringVars, copying>>

LeaveWait ==
  /\ mStreamBlocked' = FALSE
  /\ step' = IF step = "waitBlocked" THEN "wokenBlocked" ELSE step
  /\ \/ thread = "polled" /\ thread' = "available"
     \/ thread = "failed" /\ thread' = "done"
  /\ UNCHANGED <<device, mIsActiveState, ringVars, copying>>
-----------------------------------------------------------------------------
(* inject(), and injectSamples() with which it and the constructor end.      *)

\* getAvailable() of a closed device may also throw: the thread ends.
GetAvailable ==
  /\ thread = "available"
  /\ \/ \E bytes \in 0 .. BufferSize :
          /\ sampleCount' = bytes \div SampleByteSize
          /\ thread' = IF sampleCount' > 0 THEN "count" ELSE "check"
     \/ device = "closed" /\ thread' = "done" /\ UNCHANGED sampleCount
  /\ UNCHANGED <<stream, service, ringVars, bytesToCopy>>

Least(a, b) == IF a <= b THEN a ELSE b

\* Fault: the bytes of an incomplete sample are taken as well.
CountBytes ==
  /\ thread = "count"
  /\ bytesToCopy' = Least(Ring!getAvailableConsumption, sampleCount * SampleByteSize)
  /\ thread' = IF bytesToCopy' > 0 THEN "read" ELSE "write"
  /\ UNCHANGED <<stream, service, ringVars, sampleCount>>

CountSamples ==
  /\ thread = "count"
  /\ bytesToCopy' = Least(Ring!getAvailableConsumption \div SampleByteSize, sampleCount) * SampleByteSize
  /\ thread' = IF bytesToCopy' > 0 THEN "read" ELSE "write"
  /\ UNCHANGED <<stream, service, ringVars, sampleCount>>

\* With ASSERT_ALWAYS(read == bytesToCopy).
ReadSamples ==
  /\ thread = "read"
  /\ Ring!readNonBlocking(Injector, bytesToCopy)
  /\ thread' = IF wanted'[Injector] = 0 THEN "write" ELSE "readAssert"
  /\ UNCHANGED <<stream, service, copying>>

\* What is missing is silence.  The first write starts the device, as does any
\* later one that finds it stopped; starting may fail, which is only logged.
\* The thread starts when the constructor has written.
WriteSamples ==
  /\ thread = "write"
  /\ device' \in IF device = "ready" THEN {"ready", "running"} ELSE {device}
  /\ thread' = "check"
  /\ \/ step = "prefill" /\ step' = "idle" /\ mIsActiveState' = TRUE
     \/ step # "prefill" /\ UNCHANGED service
  /\ UNCHANGED <<mStreamBlocked, ringVars, copying>>
-----------------------------------------------------------------------------
(* The HTTP thread: enqueueInjectionBlock(), again and again (doReading()).  *)
EnqueueInjectionBlock ==
  /\ \E bytes \in Contents : Ring!writeBlocking(Writer, bytes)
  /\ UNCHANGED <<service, stream, thread, copying>>

EnqueueResume ==
  /\ Ring!ResumeWrite(Writer)
  /\ UNCHANGED <<service, stream, thread, copying>>
-----------------------------------------------------------------------------
\* A failed ASSERT_ALWAYS aborts the agent.
Alive == step # "streamAssert" /\ thread # "readAssert"

Controller ==
  \/ StartFails \/ OpenStream \/ CloseStreamResume \/ ClearInput \/ JoinThread \/ CloseQueue

Inject ==
  \/ EnterWait \/ LeaveWait \/ GetAvailable \/ CountSamples \/ ReadSamples \/ WriteSamples
  \/ device # "running" /\ PollFails

Step ==
  \/ StartStreaming \/ CloseStream \/ Controller
  \/ Inject \/ PollSucceeds \/ PollFails
  \/ EnqueueInjectionBlock \/ EnqueueResume

Next == Alive /\ Step

Spec == Init /\ [][Next]_vars

\* Threads that can run do run; nobody has to start, stop or feed the probe,
\* and a device that runs need not ask for samples.
FairSpec ==
  /\ Spec
  /\ WF_vars(Alive /\ Controller)
  /\ WF_vars(Alive /\ Inject)
  /\ WF_vars(Alive /\ EnqueueResume)
-----------------------------------------------------------------------------
(* The values each variable takes.                                          *)
TypeOK ==
  /\ Ring!TypeOK
  /\ step \in {"idle", "openStream", "prefill", "waitBlocked", "wokenBlocked", "streamAssert",
               "clear", "join", "closeQueue"}
  /\ mIsActiveState \in BOOLEAN
  /\ device \in {"closed", "ready", "running"}
  /\ mStreamBlocked \in BOOLEAN
  /\ thread \in {"none", "check", "poll", "polled", "failed", "available", "count", "read",
                 "readAssert", "write", "done"}
  /\ sampleCount \in 0 .. BufferSize \div SampleByteSize
  /\ bytesToCopy \in 0 .. QueueSize

(* "In order to not break the sample alignment" (ProbeInjector): whatever    *)
(* the sizes of the writes and the room in the device, only whole samples    *)
(* are taken out of the ring, and never more than the device has room for.   *)
WholeSamples ==
  Alive => /\ mConsumerPosition % SampleByteSize = 0
           /\ thread \in {"read", "write"} => bytesToCopy <= sampleCount * SampleByteSize

(* A stopped probe has no thread, no open device and no writer asleep.       *)
StopLeavesNothing ==
  (step = "idle" /\ ~mIsActiveState) =>
    /\ thread = "none" /\ device = "closed"
    /\ ~mOpen /\ writer[Writer] # "waiting"

(* InjectionOutputStream::close(), ASSERT_ALWAYS(not mStreamBlocked) under   *)
(* "Ensure we can safely close the device": a thread that has left the wait  *)
(* is not back in it before the device is closed.                            *)
(* TLC refutes it: README, section 6.                                        *)
CloseNeverAsserts == step # "streamAssert"

(* "Always true because available data size has been queried": the ring      *)
(* still holds what getUsedSize() counted.                                   *)
(* TLC refutes it: README, section 6.                                        *)
ReadsWhatItCounted == thread # "readAssert"

(* A stop terminates: the thread ends and the queue is closed.               *)
StopReturns == step \in {"waitBlocked", "clear", "join"} ~> (step = "idle" \/ ~Alive)

(* An HTTP thread that is blocked in an injection when the probe is stopped  *)
(* gets out of it, unless the probe is started again meanwhile.              *)
WriterReleased ==
  (step = "closeQueue" /\ writer[Writer] # "idle") ~>
    (writer[Writer] = "idle" \/ step = "openStream" \/ ~Alive)
=============================================================================
