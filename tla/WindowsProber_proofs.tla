-------------------------- MODULE WindowsProber_proofs --------------------------
(***************************************************************************)
(* A start of the Windows prober is all or nothing, and between two calls  *)
(* the streams of a session are there all together or not at all: for any  *)
(* probes and points, any sessions with at most one injection probe, and   *)
(* an ioctl that fails anywhere.  No stop of a thread is lost on the way.  *)
(***************************************************************************)
EXTENDS WindowsProber, TLAPS

(* The streams of a session, all stopped or all made.                        *)
Quiet == opened = {} /\ openedRings = {} /\ Live = {}

Complete ==
  /\ opened = ExtractionProbes(streamed) /\ openedRings = InjectionProbes(streamed)
  /\ Extraction \in Live <=> opened # {}
  /\ Live \ {Extraction} = openedRings

(* The types that the steps of the machine rely on.                          *)
MachineTypes ==
  /\ driverState \in States /\ oldState \in States /\ currentState \in States
  /\ mCachedProbeConfiguration \in Sessions /\ streamed \in Sessions
  /\ call \in {"none", "start", "cancel", "stop"} /\ (call = "none" => step = "idle")
  /\ thread \in [Handles -> {"none", "wait", "woken", "work", "done"}]

(* What the state machine knows of the driver: between two transitions the   *)
(* state it reached is that of the driver, and it never fails twice.         *)
MachineInv ==
  /\ step \in {"next", "configure"} => currentState = driverState
  /\ step = "configure" => driverState = "Owned"
  /\ call = "cancel" => failed
  /\ StartIsAllOrNothing

(* On the way to Active the driver is still Allocated, and a start does it.  *)
OnTheWay == currentState = "Active" /\ call = "start" /\ driverState = "Allocated"

(* Where in a call the streams are complete, where they are all stopped, and *)
(* where neither: while they are being made or stopped.                      *)
StreamsInv ==
  /\ step \in {"idle", "getState", "next"} =>
       \/ Quiet
       \/ Complete /\ driverState = "Active"
       \/ Complete /\ driverState = "Allocated" /\ call = "cancel" /\ step # "idle"
  /\ step = "configure" => Quiet
  /\ step \in {"getRingBuffers", "extractor"} => Quiet /\ OnTheWay
  /\ step = "injector" =>
       /\ OnTheWay /\ openedRings = {} /\ opened = ExtractionProbes(streamed)
       /\ Live = IF opened = {} THEN {} ELSE {Extraction}
  /\ step \in {"stopStreaming", "notify", "join"} => (currentState = "Active" => OnTheWay)
  /\ step = "setState" =>
       \/ Quiet /\ (currentState = "Active" => OnTheWay)
       \/ Complete /\ OnTheWay

IInv == MachineTypes /\ MachineInv /\ StreamsInv

(* Initially nothing is made and the driver is Idle.                         *)
LEMMA InitIsCorrect == Init => IInv
  <1> SUFFICES ASSUME Init PROVE IInv
    OBVIOUS
  <1>1. Disabled \in Sessions
    BY SessionAssumption DEF Disabled
  <1>2. MachineTypes
    BY <1>1 DEF Init, MachineTypes, States
  <1>3. MachineInv
    BY DEF Init, MachineInv, StartIsAllOrNothing
  <1>4. Live = {}
    BY DEF Init, Live
  <1>5. Quiet
    BY <1>4 DEF Init, Quiet
  <1>6. StreamsInv
    BY <1>5 DEF Init, StreamsInv
  <1> QED
    BY <1>2, <1>3, <1>6 DEF IInv

(* Quiet and Complete speak of the queues, the threads and their session.    *)
LEMMA StreamsStay ==
  ASSUME UNCHANGED <<opened, openedRings, streamed>>, Live' = Live
  PROVE  Quiet' = Quiet /\ Complete' = Complete
  BY DEF Quiet, Complete

LEMMA LiveStays == UNCHANGED thread => Live' = Live
  BY DEF Live

(* The table of transitions, for the states it is asked for.                 *)
LEMMA Transitions ==
  /\ call = "start" => /\ Transition("Idle") = "Owned" /\ Transition("Owned") = "Allocated"
                       /\ Transition("Allocated") = "Active"
  /\ call # "start" => /\ Transition("Owned") = "Idle" /\ Transition("Allocated") = "Owned"
                       /\ Transition("Active") = "Allocated"
  BY DEF Transition

(* A step of a stream, of the driver or of a reader moves no thread into     *)
(* existence or out of it, and leaves the machine alone.                     *)
LEMMA OtherStepsAreCorrect ==
  ASSUME IInv, UNCHANGED <<driverState, mCachedProbeConfiguration, machine, history,
                           opened, openedRings>>,
         thread' \in [Handles -> {"none", "wait", "woken", "work", "done"}], Live' = Live
  PROVE  IInv'
  <1>1. MachineTypes'
    BY DEF IInv, MachineTypes, machine, history
  <1>2. MachineInv'
    BY DEF IInv, MachineInv, StartIsAllOrNothing, machine
  <1>3. Quiet' = Quiet /\ Complete' = Complete
    BY StreamsStay DEF history
  <1>4. StreamsInv'
    BY <1>3 DEF IInv, StreamsInv, OnTheWay, machine, history
  <1> QED
    BY <1>1, <1>2, <1>4 DEF IInv

(* A call begins with whatever the call before it has left.                  *)
LEMMA BeginIsCorrect ==
  ASSUME IInv, NEW name \in {"start", "stop"}, Begin(name), mCachedProbeConfiguration' \in Sessions
  PROVE  IInv'
  <1>1. MachineTypes'
    BY DEF IInv, MachineTypes, Begin, driver, streams
  <1>2. MachineInv'
    BY DEF IInv, MachineInv, StartIsAllOrNothing, Begin, driver
  <1>3. Quiet' = Quiet /\ Complete' = Complete
    BY StreamsStay, LiveStays DEF Begin, queues, streams
  <1>4. StreamsInv'
    BY <1>3 DEF IInv, StreamsInv, Begin, driver
  <1> QED
    BY <1>1, <1>2, <1>4 DEF IInv

(* An ioctl fails: what is there stays there, and a start begins to go back, *)
(* from a driver that is Active or Allocated if the streams are complete.    *)
LEMMA ThrowIsCorrect ==
  ASSUME IInv, Throw,
         step \in {"getState", "setState", "configure", "getRingBuffers"},
         UNCHANGED <<driverState, mCachedProbeConfiguration, streamed, queues, streams>>
  PROVE  IInv'
  <1>1. call \in {"start", "stop"}
    <2>1. call # "cancel"
      BY Zenon DEF IInv, MachineInv, Throw
    <2>2. step # "idle"
      OBVIOUS
    <2> QED
      BY <2>1, <2>2 DEF IInv, MachineTypes
  <1>2. MachineTypes'
    BY <1>1 DEF IInv, MachineTypes, Throw, States, streams
  <1>3. MachineInv'
    BY <1>1 DEF IInv, MachineTypes, MachineInv, StartIsAllOrNothing, Throw
  <1>4. Quiet' = Quiet /\ Complete' = Complete
    BY StreamsStay, LiveStays DEF queues, streams
  <1>5. CASE call = "start"
    <2>1. Quiet \/ (Complete /\ driverState \in {"Active", "Allocated"})
      BY <1>5 DEF IInv, StreamsInv, OnTheWay
    <2>2. call' = "cancel" /\ step' = "getState"
      BY <1>5 DEF Throw
    <2>3. StreamsInv'
      BY <1>4, <2>1, <2>2 DEF StreamsInv
    <2> QED
      BY <1>2, <1>3, <2>3 DEF IInv
  <1>6. CASE call = "stop"
    <2>1. Quiet \/ (Complete /\ driverState = "Active")
      BY <1>6 DEF IInv, StreamsInv, OnTheWay
    <2>2. step' = "idle"
      BY <1>6 DEF Throw
    <2>3. StreamsInv'
      BY <1>4, <2>1, <2>2 DEF StreamsInv
    <2> QED
      BY <1>2, <1>3, <2>3 DEF IInv
  <1> QED
    BY <1>1, <1>5, <1>6

(* The steps of the state machine.                                           *)
LEMMA GetStateIsCorrect == IInv /\ GetState => IInv'
  <1> SUFFICES ASSUME IInv, GetState PROVE IInv'
    OBVIOUS
  <1>1. CASE Throw
    BY <1>1, ThrowIsCorrect DEF GetState, driver
  <1>2. CASE currentState' = driverState /\ step' = "next" /\ UNCHANGED <<call, failed, oldState>>
    <2>1. MachineTypes'
      BY <1>2 DEF IInv, MachineTypes, GetState, driver, streams
    <2>2. MachineInv'
      BY <1>2 DEF IInv, MachineInv, StartIsAllOrNothing, GetState, driver
    <2>3. Quiet' = Quiet /\ Complete' = Complete
      BY StreamsStay, LiveStays DEF GetState, queues, streams
    <2>4. StreamsInv'
      BY <1>2, <2>3 DEF IInv, StreamsInv, GetState, driver
    <2> QED
      BY <2>1, <2>2, <2>4 DEF IInv
  <1> QED
    BY <1>1, <1>2 DEF GetState

LEMMA GoToStateIsCorrect == IInv /\ GoToState => IInv'
  <1> SUFFICES ASSUME IInv, GoToState PROVE IInv'
    OBVIOUS
  <1>0. Quiet' = Quiet /\ Complete' = Complete
    BY StreamsStay, LiveStays DEF GoToState, queues, streams, history
  <1>1. CASE currentState = IF call = "start" THEN "Active" ELSE "Idle"
    <2>1. step' = "idle" /\ oldState' = "Idle" /\ currentState' = "Idle"
      BY <1>1 DEF GoToState
    <2>2. MachineTypes'
      BY <2>1 DEF IInv, MachineTypes, GoToState, driver, history, streams, States
    <2>3. MachineInv'
      BY <1>1, <2>1 DEF IInv, MachineInv, StartIsAllOrNothing, GoToState, driver
    <2>4. StreamsInv'
      BY <1>0, <1>1, <2>1 DEF IInv, MachineInv, StreamsInv, GoToState, driver
    <2> QED
      BY <2>2, <2>3, <2>4 DEF IInv
  <1>2. CASE currentState # IF call = "start" THEN "Active" ELSE "Idle"
    <2>1. /\ oldState' = currentState /\ currentState' = Transition(currentState)
          /\ step' = IF currentState' = "Active" THEN "getRingBuffers" ELSE "stopStreaming"
      BY <1>2 DEF GoToState
    <2>2. currentState \in States /\ currentState = driverState /\ step = "next"
      BY DEF IInv, MachineTypes, MachineInv, GoToState
    <2>3. /\ currentState' \in States
          /\ currentState' = "Active" => call = "start" /\ driverState = "Allocated"
      BY <1>2, <2>1, <2>2, Transitions DEF States
    <2>4. MachineTypes'
      BY <2>1, <2>2, <2>3 DEF IInv, MachineTypes, GoToState, driver, history, streams
    <2>5. MachineInv'
      BY <2>1 DEF IInv, MachineInv, StartIsAllOrNothing, GoToState, driver
    <2>6. currentState' = "Active" => OnTheWay'
      BY <2>3 DEF OnTheWay, GoToState, driver
    <2>7. currentState' = "Active" => Quiet
      BY <2>2, <2>3 DEF IInv, StreamsInv
    <2>8. StreamsInv'
      BY <1>0, <2>1, <2>6, <2>7 DEF StreamsInv
    <2> QED
      BY <2>4, <2>5, <2>8 DEF IInv
  <1> QED
    BY <1>1, <1>2

LEMMA SetStateIsCorrect == IInv /\ SetState => IInv'
  <1> SUFFICES ASSUME IInv, SetState PROVE IInv'
    OBVIOUS
  <1>1. CASE Throw /\ UNCHANGED driverState
    BY <1>1, ThrowIsCorrect DEF SetState, history
  <1>2. CASE /\ driverState' = currentState
             /\ step' = IF oldState = "Idle" /\ currentState = "Owned" THEN "configure" ELSE "next"
             /\ UNCHANGED <<call, failed, oldState, currentState>>
    <2>1. MachineTypes'
      BY <1>2 DEF IInv, MachineTypes, SetState, history, streams
    <2>2. MachineInv'
      BY <1>2 DEF IInv, MachineInv, StartIsAllOrNothing, SetState
    <2>3. Quiet' = Quiet /\ Complete' = Complete
      BY StreamsStay, LiveStays DEF SetState, queues, streams, history
    <2>4. StreamsInv'
      BY <1>2, <2>3 DEF IInv, StreamsInv, OnTheWay, SetState
    <2> QED
      BY <2>1, <2>2, <2>4 DEF IInv
  <1> QED
    BY <1>1, <1>2 DEF SetState

LEMMA SetSessionProbesIsCorrect == IInv /\ SetSessionProbes => IInv'
  <1> SUFFICES ASSUME IInv, SetSessionProbes PROVE IInv'
    OBVIOUS
  <1>1. CASE Throw
    BY <1>1, ThrowIsCorrect DEF SetSessionProbes, history
  <1>2. CASE step' = "next" /\ UNCHANGED <<call, failed, oldState, currentState>>
    <2>1. MachineTypes'
      BY <1>2 DEF IInv, MachineTypes, SetSessionProbes, history, streams
    <2>2. MachineInv'
      BY <1>2 DEF IInv, MachineInv, StartIsAllOrNothing, SetSessionProbes
    <2>3. Quiet' = Quiet
      BY StreamsStay, LiveStays DEF SetSessionProbes, queues, streams, history
    <2>4. StreamsInv'
      BY <1>2, <2>3 DEF IInv, StreamsInv, SetSessionProbes
    <2> QED
      BY <2>1, <2>2, <2>4 DEF IInv
  <1> QED
    BY <1>1, <1>2 DEF SetSessionProbes

(* The steps of startStreaming(), which only a start gets to, from Allocated. *)
LEMMA GetRingBuffersIsCorrect == IInv /\ GetRingBuffers => IInv'
  <1> SUFFICES ASSUME IInv, GetRingBuffers PROVE IInv'
    OBVIOUS
  <1>1. CASE Throw /\ UNCHANGED streamed
    BY <1>1, ThrowIsCorrect DEF GetRingBuffers, driver
  <1>2. CASE /\ streamed' = mCachedProbeConfiguration
             /\ step' = "extractor"
             /\ UNCHANGED <<call, failed, oldState, currentState>>
    <2>1. MachineTypes'
      BY <1>2 DEF IInv, MachineTypes, GetRingBuffers, driver, streams
    <2>2. MachineInv'
      BY <1>2 DEF IInv, MachineInv, StartIsAllOrNothing, GetRingBuffers, driver
    <2>3. Quiet /\ OnTheWay
      BY DEF IInv, StreamsInv, GetRingBuffers
    <2>4. Quiet' /\ OnTheWay'
      BY <1>2, <2>3, LiveStays DEF Quiet, OnTheWay, GetRingBuffers, queues, streams, driver
    <2>5. StreamsInv'
      BY <1>2, <2>4 DEF StreamsInv
    <2> QED
      BY <2>1, <2>2, <2>5 DEF IInv
  <1> QED
    BY <1>1, <1>2 DEF GetRingBuffers

(* A thread is made behind one handle, of a type and alive.                  *)
LEMMA StartThreadMakesOne ==
  ASSUME IInv, NEW h \in Handles, StartThread(h)
  PROVE  /\ thread' \in [Handles -> {"none", "wait", "woken", "work", "done"}]
         /\ Live' = Live \cup {h}
  BY DEF IInv, MachineTypes, StartThread, Live

LEMMA NewExtractorIsCorrect == IInv /\ NewExtractor => IInv'
  <1> SUFFICES ASSUME IInv, NewExtractor PROVE IInv'
    OBVIOUS
  <1> DEFINE extract == ExtractionProbes(streamed)
             Done    == /\ opened' = opened \cup extract /\ step' = "injector"
                        /\ IF extract = {} THEN UNCHANGED streams ELSE StartThread(Extraction)
             GivenUp == step' = "stopStreaming" /\ UNCHANGED streams
  <1>1. Done \/ GivenUp
    BY DEF NewExtractor, Cancel
  <1>2. /\ step = "extractor"
        /\ UNCHANGED <<driverState, driverConfig, mCachedProbeConfiguration, call, failed,
                       oldState, currentState, streamed, openedRings>>
    BY DEF NewExtractor, driver
  <1> HIDE DEF extract
  <1>3. Quiet /\ OnTheWay
    BY <1>2 DEF IInv, StreamsInv
  <1>4. OnTheWay'
    BY <1>2, <1>3 DEF OnTheWay
  <1>5. step' \in {"injector", "stopStreaming"}
    BY <1>1
  <1>6. MachineInv'
    BY <1>2, <1>5 DEF IInv, MachineInv, StartIsAllOrNothing
  <1>7. /\ thread' \in [Handles -> {"none", "wait", "woken", "work", "done"}]
        /\ Done => Live' = IF extract = {} THEN {} ELSE {Extraction}
    <2>1. CASE UNCHANGED streams
      <3>1. thread' \in [Handles -> {"none", "wait", "woken", "work", "done"}] /\ Live' = {}
        BY <2>1, <1>3, LiveStays DEF IInv, MachineTypes, streams, Quiet
      <3>2. CASE extract = {}
        BY <3>1, <3>2
      <3>3. CASE extract # {} /\ Done
        <4>1. StartThread(Extraction) /\ Extraction \in Handles
          BY <3>3 DEF Handles
        <4>2. Live' = Live \cup {Extraction}
          BY <4>1, StartThreadMakesOne
        <4> QED
          BY <3>1, <3>3, <4>2, <1>3 DEF Quiet
      <3> QED
        BY <3>1, <3>2, <3>3
    <2>2. CASE Done /\ extract # {}
      <3>1. StartThread(Extraction) /\ Extraction \in Handles
        BY <2>2 DEF Handles
      <3> QED
        BY <2>2, <3>1, <1>3, StartThreadMakesOne DEF Quiet
    <2> QED
      BY <1>1, <2>1, <2>2
  <1>8. MachineTypes'
    BY <1>2, <1>5, <1>7 DEF IInv, MachineTypes
  <1>9. StreamsInv'
    <2>1. CASE Done
      <3>1. opened' = extract /\ openedRings' = {}
        BY <2>1, <1>2, <1>3 DEF Quiet
      <3>2. extract = ExtractionProbes(streamed)'
        BY <1>2 DEF extract, ExtractionProbes
      <3>3. Live' = IF opened' = {} THEN {} ELSE {Extraction}
        BY <2>1, <1>7, <3>1
      <3> QED
        BY <2>1, <1>4, <3>1, <3>2, <3>3 DEF StreamsInv
    <2>2. CASE GivenUp
      BY <2>2, <1>4 DEF StreamsInv
    <2> QED
      BY <1>1, <2>1, <2>2
  <1> QED
    BY <1>6, <1>8, <1>9 DEF IInv

LEMMA NewInjectorIsCorrect == IInv /\ NewInjector => IInv'
  <1> SUFFICES ASSUME IInv, NewInjector PROVE IInv'
    OBVIOUS
  <1> DEFINE inject  == InjectionProbes(streamed)
             Done    == /\ step' = "setState"
                        /\ IF inject = {} THEN UNCHANGED streams
                           ELSE \E p \in inject : StartThread(p)
             GivenUp == step' = "stopStreaming" /\ UNCHANGED streams
  <1>1. Done \/ GivenUp
    BY DEF NewInjector, Cancel
  <1>2. /\ step = "injector" /\ openedRings' = openedRings \cup inject
        /\ UNCHANGED <<driverState, driverConfig, mCachedProbeConfiguration, call, failed,
                       oldState, currentState, streamed, opened>>
    BY DEF NewInjector, driver
  <1>3. \A p, q \in inject : p = q
    BY SessionAssumption DEF IInv, MachineTypes
  <1>4. inject \subseteq Handles /\ Extraction \notin inject
    BY SessionAssumption DEF Handles, Extraction, InjectionProbes
  <1> HIDE DEF inject
  <1>5. OnTheWay /\ openedRings = {} /\ opened = ExtractionProbes(streamed)
        /\ Live = IF opened = {} THEN {} ELSE {Extraction}
    BY <1>2 DEF IInv, StreamsInv
  <1>6. OnTheWay'
    BY <1>2, <1>5 DEF OnTheWay
  <1>7. step' \in {"setState", "stopStreaming"}
    BY <1>1
  <1>8. MachineInv'
    BY <1>2, <1>7 DEF IInv, MachineInv, StartIsAllOrNothing
  <1>9. /\ thread' \in [Handles -> {"none", "wait", "woken", "work", "done"}]
        /\ Done => Live' = Live \cup inject
    <2>1. CASE UNCHANGED streams /\ (GivenUp \/ inject = {})
      BY <2>1, LiveStays DEF IInv, MachineTypes, streams
    <2>2. CASE Done /\ inject # {}
      <3>1. PICK p \in inject : StartThread(p)
        BY <2>2
      <3>2. inject = {p}
        BY <3>1, <1>3
      <3> QED
        BY <3>1, <3>2, <1>4, StartThreadMakesOne
    <2> QED
      BY <1>1, <2>1, <2>2
  <1>10. MachineTypes'
    BY <1>2, <1>7, <1>9 DEF IInv, MachineTypes
  <1>11. StreamsInv'
    <2>1. CASE Done
      <3>1. opened' = ExtractionProbes(streamed)' /\ openedRings' = inject
        BY <1>2, <1>5 DEF ExtractionProbes
      <3>2. inject = InjectionProbes(streamed)'
        BY <1>2 DEF inject, InjectionProbes
      <3>3. (Extraction \in Live' <=> opened' # {}) /\ Live' \ {Extraction} = openedRings'
        BY <2>1, <1>2, <1>4, <1>5, <1>9, <3>1
      <3>4. Complete'
        BY <3>1, <3>2, <3>3 DEF Complete
      <3> QED
        BY <2>1, <1>6, <3>4 DEF StreamsInv
    <2>2. CASE GivenUp
      BY <2>2, <1>6 DEF StreamsInv
    <2> QED
      BY <1>1, <2>1, <2>2
  <1> QED
    BY <1>8, <1>10, <1>11 DEF IInv

(* The steps of stopStreaming(), after which nothing is left.                *)
LEMMA StopWaitIsCorrect == IInv /\ StopWait => IInv'
  <1> SUFFICES ASSUME IInv, StopWait PROVE IInv'
    OBVIOUS
  <1>1. /\ step \in {"stopStreaming", "notify", "join"} /\ step' \in {"stopStreaming", "notify", "join"}
        /\ UNCHANGED <<driverState, mCachedProbeConfiguration, call, failed, oldState, currentState,
                       streamed, thread>>
    BY DEF StopWait, driver, history
  <1>2. MachineTypes'
    BY <1>1 DEF IInv, MachineTypes
  <1>3. MachineInv'
    BY <1>1 DEF IInv, MachineInv, StartIsAllOrNothing
  <1>4. StreamsInv'
    BY <1>1 DEF IInv, StreamsInv, OnTheWay
  <1> QED
    BY <1>2, <1>3, <1>4 DEF IInv

LEMMA JoinIsCorrect == IInv /\ Join => IInv'
  <1> SUFFICES ASSUME IInv, Join PROVE IInv'
    OBVIOUS
  <1>1. /\ step = "join" /\ step' = "stopStreaming"
        /\ UNCHANGED <<driverState, mCachedProbeConfiguration, call, failed, oldState, currentState,
                       streamed>>
    BY DEF Join, driver, history
  <1>2. thread' \in [Handles -> {"none", "wait", "woken", "work", "done"}]
    BY DEF IInv, MachineTypes, Join
  <1>3. MachineTypes'
    BY <1>1, <1>2 DEF IInv, MachineTypes
  <1>4. MachineInv'
    BY <1>1 DEF IInv, MachineInv, StartIsAllOrNothing
  <1>5. StreamsInv'
    BY <1>1 DEF IInv, StreamsInv, OnTheWay
  <1> QED
    BY <1>3, <1>4, <1>5 DEF IInv

LEMMA CloseQueuesIsCorrect == IInv /\ CloseQueues => IInv'
  <1> SUFFICES ASSUME IInv, CloseQueues PROVE IInv'
    OBVIOUS
  <1>1. /\ step = "stopStreaming" /\ step' = "setState"
        /\ UNCHANGED <<driverState, mCachedProbeConfiguration, call, failed, oldState, currentState,
                       streamed, thread>>
    BY DEF CloseQueues, driver, history, streams
  <1>2. MachineTypes'
    BY <1>1 DEF IInv, MachineTypes
  <1>3. MachineInv'
    BY <1>1 DEF IInv, MachineInv, StartIsAllOrNothing
  <1>4. Quiet'
    BY <1>1, LiveStays DEF CloseQueues, Quiet
  <1>5. StreamsInv'
    BY <1>1, <1>4 DEF IInv, StreamsInv, OnTheWay
  <1> QED
    BY <1>2, <1>3, <1>5 DEF IInv

(* The threads, the driver and the readers.                                  *)
LEMMA StreamIsCorrect ==
  ASSUME IInv, NEW h \in Handles, Stream(h)
  PROVE  IInv'
  <1>1. UNCHANGED <<driverState, mCachedProbeConfiguration, machine, history, opened, openedRings>>
    BY DEF Stream, WakeUp, CheckStopped, Work, driver, queues
  <1>2. PICK where \in {"wait", "woken", "work", "done"} : thread' = [thread EXCEPT ![h] = where]
    <2>1. CASE WakeUp(h)
      BY <2>1 DEF WakeUp
    <2>2. CASE CheckStopped(h)
      <3>1. (IF mStopped[h] THEN "done" ELSE "work") \in {"wait", "woken", "work", "done"}
        OBVIOUS
      <3> QED
        BY <2>2, <3>1 DEF CheckStopped
    <2>3. CASE Work(h)
      BY <2>3 DEF Work
    <2> QED
      BY <2>1, <2>2, <2>3 DEF Stream
  <1>3. thread[h] # "none"
    BY DEF Stream, WakeUp, CheckStopped, Work
  <1>4. thread' \in [Handles -> {"none", "wait", "woken", "work", "done"}]
    BY <1>2 DEF IInv, MachineTypes
  <1>5. Live' = Live
    BY <1>2, <1>3 DEF IInv, MachineTypes, Live
  <1> QED
    BY <1>1, <1>4, <1>5, OtherStepsAreCorrect

(* Every step preserves the invariant.                                       *)
LEMMA NextIsCorrect == IInv /\ [Next]_vars => IInv'
  <1> SUFFICES ASSUME IInv, [Next]_vars PROVE IInv'
    OBVIOUS
  <1>types. thread \in [Handles -> {"none", "wait", "woken", "work", "done"}]
    BY DEF IInv, MachineTypes
  <1>1. CASE UNCHANGED vars
    BY <1>1, <1>types, LiveStays, OtherStepsAreCorrect DEF vars, driver, queues, streams
  <1>2. CASE SetStateActive
    BY <1>2, BeginIsCorrect DEF SetStateActive
  <1>3. CASE SetStateInactive
    BY <1>3, BeginIsCorrect DEF SetStateInactive, IInv, MachineTypes
  <1>4. CASE Machine
    BY <1>4, GetStateIsCorrect, GoToStateIsCorrect, SetStateIsCorrect, SetSessionProbesIsCorrect,
       GetRingBuffersIsCorrect, NewExtractorIsCorrect, NewInjectorIsCorrect,
       StopWaitIsCorrect, JoinIsCorrect, CloseQueuesIsCorrect
    DEF Machine
  <1>5. ASSUME NEW h \in Handles, DriverNotify(h)
        PROVE  IInv'
    BY <1>5, <1>types, LiveStays, OtherStepsAreCorrect DEF DriverNotify, driver, queues
  <1>6. ASSUME NEW h \in Handles, Stream(h)
        PROVE  IInv'
    BY <1>6, StreamIsCorrect
  <1>7. ASSUME NEW p \in Probes, EnterRemove(p) \/ Remove(p)
        PROVE  IInv'
    BY <1>7, <1>types, LiveStays, OtherStepsAreCorrect
    DEF EnterRemove, Remove, driver, queues, streams
  <1> QED
    BY <1>1, <1>2, <1>3, <1>4, <1>5, <1>6, <1>7 DEF Next

(* "Trying to stop if starting has failed to come back to a consistent       *)
(* state": whatever state the driver was in and whichever ioctl fails, a     *)
(* start returns with the driver Active or throws with the driver Idle.      *)
THEOREM StartIsAlwaysAllOrNothing == Spec => []StartIsAllOrNothing
  <1>1. IInv => StartIsAllOrNothing
    BY DEF IInv, MachineInv
  <1> QED
    BY InitIsCorrect, NextIsCorrect, <1>1, PTL DEF Spec

(* Between two calls the extractor, the injector, the queues and the rings   *)
(* of a session are there all together, and the driver Active, or not at all. *)
THEOREM StreamsAlwaysMatchDriver == Spec => []StreamsMatchDriver
  <1>1. IInv => StreamsMatchDriver
    BY DEF IInv, StreamsInv, StreamsMatchDriver, Quiet, Complete
  <1> QED
    BY InitIsCorrect, NextIsCorrect, <1>1, PTL DEF Spec
-----------------------------------------------------------------------------
(* What a session streams is what the driver was configured for.             *)

(* Where a start is between two states of the driver.                        *)
Upwards ==
  {<<"Idle", "Owned">>, <<"Owned", "Allocated">>, <<"Allocated", "Active">>}

(* The configuration goes to the driver between Owned and Allocated, to the  *)
(* streams between Allocated and Active, and no client changes it meanwhile. *)
SessionInv ==
  /\ (call = "start" /\ step \in {"getRingBuffers", "extractor", "injector", "stopStreaming",
                                  "notify", "join", "setState"}) =>
       oldState = driverState /\ <<oldState, currentState>> \in Upwards
  /\ (/\ call = "start" /\ fromIdle /\ step \notin {"idle", "getState", "configure"}
      /\ driverState \in {"Owned", "Allocated"}) => driverConfig = mCachedProbeConfiguration
  /\ (/\ call = "start" /\ currentState = "Active"
      /\ step \in {"extractor", "injector", "stopStreaming", "notify", "join", "setState"}) =>
       streamed = mCachedProbeConfiguration
  /\ (fromIdle /\ driverState = "Active") => driverConfig = streamed

(* Each step of the machine preserves it; no other step changes what it is   *)
(* about.                                                                    *)
LEMMA SessionStays ==
  ASSUME SessionInv, UNCHANGED <<driver, mCachedProbeConfiguration, machine, fromIdle, streamed>>
  PROVE  SessionInv'
  BY DEF SessionInv, driver, machine

LEMMA ThrowKeepsSession ==
  ASSUME IInv, SessionInv, Throw,
         step \in {"getState", "setState", "configure", "getRingBuffers"},
         UNCHANGED <<driver, mCachedProbeConfiguration, fromIdle, streamed>>
  PROVE  SessionInv'
  BY DEF SessionInv, Throw, driver

LEMMA SessionSteps == IInv /\ SessionInv /\ Machine => SessionInv'
  <1> SUFFICES ASSUME IInv, SessionInv, Machine PROVE SessionInv'
    OBVIOUS
  <1>1. CASE GetState
    <2>1. CASE Throw /\ UNCHANGED fromIdle
      BY <1>1, <2>1, ThrowKeepsSession DEF GetState
    <2>2. CASE /\ currentState' = driverState /\ step' = "next"
               /\ fromIdle' = (IF call = "start" THEN driverState = "Idle" ELSE fromIdle)
               /\ UNCHANGED <<call, failed, oldState>>
      <3>1. CASE call = "start"
        <4>1. fromIdle' => driverState = "Idle"
          BY <2>2, <3>1
        <4> QED
          BY <1>1, <2>2, <3>1, <4>1 DEF GetState, SessionInv, driver
      <3>2. CASE call # "start"
        <4>1. fromIdle' = fromIdle
          BY <2>2, <3>2
        <4> QED
          BY <1>1, <2>2, <3>2, <4>1 DEF GetState, SessionInv, driver
      <3> QED
        BY <3>1, <3>2
    <2> QED
      BY <1>1, <2>1, <2>2 DEF GetState
  <1>2. CASE GoToState
    <2>1. currentState \in States /\ currentState = driverState /\ step = "next"
      BY <1>2 DEF IInv, MachineTypes, MachineInv, GoToState
    <2>2. CASE step' = "idle"
      BY <1>2, <2>1, <2>2 DEF GoToState, SessionInv, driver, history
    <2>3. CASE step' # "idle"
      <3>1. /\ currentState # IF call = "start" THEN "Active" ELSE "Idle"
            /\ oldState' = currentState /\ currentState' = Transition(currentState)
            /\ step' = IF currentState' = "Active" THEN "getRingBuffers" ELSE "stopStreaming"
        BY <1>2, <2>3 DEF GoToState
      <3>2. call = "start" => <<oldState', currentState'>> \in Upwards
        BY <2>1, <3>1, Transitions DEF States, Upwards
      <3>3. step' \in {"getRingBuffers", "stopStreaming"}
            /\ (currentState' = "Active" => step' = "getRingBuffers")
        BY <3>1
      <3>4. UNCHANGED <<driver, mCachedProbeConfiguration, call, fromIdle, streamed>>
        BY <1>2 DEF GoToState, history
      <3> QED
        BY <2>1, <3>1, <3>2, <3>3, <3>4 DEF SessionInv, driver
    <2> QED
      BY <2>2, <2>3
  <1>3. CASE SetState
    <2>1. CASE Throw /\ UNCHANGED driverState
      BY <1>3, <2>1, ThrowKeepsSession DEF SetState, history, driver
    <2>2. CASE /\ driverState' = currentState
               /\ step' = IF oldState = "Idle" /\ currentState = "Owned" THEN "configure" ELSE "next"
               /\ UNCHANGED <<call, failed, oldState, currentState>>
      <3>1. currentState = "Active" => call = "start" /\ driverState = "Allocated"
        BY <1>3 DEF IInv, StreamsInv, OnTheWay, SetState
      <3>2. step = "setState" /\ UNCHANGED <<driverConfig, mCachedProbeConfiguration, fromIdle, streamed>>
        BY <1>3 DEF SetState, history
      <3>3. step' \in {"configure", "next"}
        BY <2>2
      <3>4. (call = "start" /\ currentState = "Owned") => step' = "configure"
        BY <2>2, <3>2 DEF SessionInv, Upwards
      <3>5. (call = "start" /\ currentState = "Allocated") => driverState = "Owned"
        BY <3>2 DEF SessionInv, Upwards
      <3> QED
        BY <2>2, <3>1, <3>2, <3>3, <3>4, <3>5 DEF SessionInv
    <2> QED
      BY <1>3, <2>1, <2>2 DEF SetState
  <1>4. CASE SetSessionProbes
    <2>1. CASE Throw /\ UNCHANGED driverConfig
      BY <1>4, <2>1, ThrowKeepsSession DEF SetSessionProbes, history, driver
    <2>2. CASE /\ driverConfig' = mCachedProbeConfiguration /\ step' = "next"
               /\ UNCHANGED <<call, failed, oldState, currentState>>
      <3>1. driverState = "Owned"
        BY <1>4 DEF IInv, MachineInv, SetSessionProbes
      <3> QED
        BY <1>4, <2>2, <3>1 DEF SetSessionProbes, SessionInv, history
    <2> QED
      BY <1>4, <2>1, <2>2 DEF SetSessionProbes
  <1>5. CASE GetRingBuffers
    <2>1. CASE Throw /\ UNCHANGED streamed
      BY <1>5, <2>1, ThrowKeepsSession DEF GetRingBuffers
    <2>2. CASE /\ streamed' = mCachedProbeConfiguration /\ step' = "extractor"
               /\ UNCHANGED <<call, failed, oldState, currentState>>
      <3>1. driverState = "Allocated"
        BY <1>5 DEF IInv, StreamsInv, OnTheWay, GetRingBuffers
      <3> QED
        BY <1>5, <2>2, <3>1 DEF GetRingBuffers, SessionInv, driver
    <2> QED
      BY <1>5, <2>1, <2>2 DEF GetRingBuffers
  <1>6. CASE NewExtractor \/ NewInjector \/ StopWait \/ Join \/ CloseQueues
    <2>1. /\ step \in {"extractor", "injector", "stopStreaming", "notify", "join"}
          /\ step' \in {"injector", "stopStreaming", "notify", "join", "setState"}
          /\ UNCHANGED <<driver, mCachedProbeConfiguration, call, oldState, currentState,
                         fromIdle, streamed>>
      BY <1>6 DEF NewExtractor, NewInjector, StopWait, Join, CloseQueues, Cancel, history
    <2> QED
      BY <2>1 DEF SessionInv, driver
  <1> QED
    BY <1>1, <1>2, <1>3, <1>4, <1>5, <1>6 DEF Machine

LEMMA SessionIsKept == IInv /\ SessionInv /\ [Next]_vars => SessionInv'
  <1> SUFFICES ASSUME IInv, SessionInv, [Next]_vars PROVE SessionInv'
    OBVIOUS
  <1>1. CASE UNCHANGED vars
    BY <1>1, SessionStays DEF vars, history
  <1>2. CASE SetStateActive \/ SetStateInactive
    BY <1>2 DEF SetStateActive, SetStateInactive, Begin, SessionInv, driver
  <1>3. CASE Machine
    BY <1>3, SessionSteps
  <1>4. ASSUME NEW h \in Handles, DriverNotify(h) \/ Stream(h)
        PROVE  SessionInv'
    BY <1>4, SessionStays DEF DriverNotify, Stream, WakeUp, CheckStopped, Work, history
  <1>5. ASSUME NEW p \in Probes, EnterRemove(p) \/ Remove(p)
        PROVE  SessionInv'
    BY <1>5, SessionStays DEF EnterRemove, Remove, history
  <1> QED
    BY <1>1, <1>2, <1>3, <1>4, <1>5 DEF Next

(* A session that began from Idle streams what the driver was configured     *)
(* for: setSessionProbes() and startStreaming() look at the configuration at *)
(* different times, but at the same one.                                     *)
THEOREM DriverAlwaysHasTheSession == Spec => []DriverHasTheSession
  <1>1. Init => SessionInv
    BY DEF Init, SessionInv
  <1>2. SessionInv => DriverHasTheSession
    BY DEF SessionInv, DriverHasTheSession
  <1> QED
    BY InitIsCorrect, NextIsCorrect, SessionIsKept, <1>1, <1>2, PTL DEF Spec
-----------------------------------------------------------------------------
(* The types that MachineTypes leaves out.                                   *)
CallTypes ==
  /\ driverConfig \in Sessions
  /\ step \in {"idle", "getState", "next", "getRingBuffers", "extractor", "injector",
               "stopStreaming", "notify", "join", "setState", "configure"}
  /\ failed \in BOOLEAN /\ fromIdle \in BOOLEAN /\ cancelled \in BOOLEAN

QueueTypes ==
  /\ opened \in SUBSET Probes /\ openedRings \in SUBSET Probes
  /\ packets \in [Probes -> 0 .. mQueueSize]
  /\ reader \in [Probes -> {"idle", "remove"}]

EventTypes == mStopped \in [Handles -> BOOLEAN] /\ signaled \in [Handles -> BOOLEAN]

LEMMA CallsStayTyped ==
  ASSUME MachineTypes, CallTypes, [Next]_vars
  PROVE  CallTypes'
  <1>1. driverConfig' \in {driverConfig, mCachedProbeConfiguration}
    BY DEF Next, SetStateActive, SetStateInactive, Begin, Machine, GetState, GoToState, SetState,
         SetSessionProbes, GetRingBuffers, NewExtractor, NewInjector, StopWait, Join, CloseQueues,
         DriverNotify, Stream, WakeUp, CheckStopped, Work, EnterRemove, Remove, driver, vars
  <1>2. step' \in {step, "idle", "getState", "next", "getRingBuffers", "extractor", "injector",
                   "stopStreaming", "notify", "join", "setState", "configure"}
    BY DEF Next, SetStateActive, SetStateInactive, Begin, Machine, GetState, GoToState, SetState,
         SetSessionProbes, GetRingBuffers, NewExtractor, NewInjector, StopWait, Join, CloseQueues,
         DriverNotify, Stream, WakeUp, CheckStopped, Work, EnterRemove, Remove, machine, vars,
         Throw, Cancel
  <1>3. failed' = failed \/ failed' = TRUE \/ failed' = FALSE
    BY DEF Next, SetStateActive, SetStateInactive, Begin, Machine, GetState, GoToState, SetState,
         SetSessionProbes, GetRingBuffers, NewExtractor, NewInjector, StopWait, Join, CloseQueues,
         DriverNotify, Stream, WakeUp, CheckStopped, Work, EnterRemove, Remove, machine, vars,
         Throw
  <1>4. fromIdle' = fromIdle \/ fromIdle' = (IF call = "start" THEN driverState = "Idle" ELSE fromIdle)
    BY DEF Next, SetStateActive, SetStateInactive, Begin, Machine, GetState, GoToState, SetState,
         SetSessionProbes, GetRingBuffers, NewExtractor, NewInjector, StopWait, Join, CloseQueues,
         DriverNotify, Stream, WakeUp, CheckStopped, Work, EnterRemove, Remove, history, vars
  <1>5. cancelled' = cancelled \/ cancelled' = TRUE \/ cancelled' = FALSE
    BY DEF Next, SetStateActive, SetStateInactive, Begin, Machine, GetState, GoToState, SetState,
         SetSessionProbes, GetRingBuffers, NewExtractor, NewInjector, StopWait, Join, CloseQueues,
         DriverNotify, Stream, WakeUp, CheckStopped, Work, EnterRemove, Remove, history, vars, Cancel
  <1>6. driverConfig' \in Sessions
    BY <1>1 DEF MachineTypes, CallTypes
  <1>7. failed' \in BOOLEAN /\ cancelled' \in BOOLEAN
    BY <1>3, <1>5, Zenon DEF CallTypes
  <1>8. fromIdle' \in BOOLEAN
    <2>1. CASE fromIdle' = fromIdle
      BY <2>1, Zenon DEF CallTypes
    <2>2. CASE fromIdle' = (IF call = "start" THEN driverState = "Idle" ELSE fromIdle)
      BY <2>2, Zenon DEF CallTypes
    <2> QED
      BY <1>4, <2>1, <2>2
  <1> QED
    BY <1>2, <1>6, <1>7, <1>8 DEF CallTypes

(* The threads take no more packets than a queue may have.                   *)
LEMMA QueuesStayTyped ==
  ASSUME QueueTypes, [Next]_vars
  PROVE  QueueTypes'
  <1> USE SessionAssumption
  <1>1. CASE UNCHANGED <<queues, reader>>
    BY <1>1 DEF QueueTypes, queues
  <1>2. CASE \/ SetStateActive \/ SetStateInactive \/ GetState \/ GoToState \/ SetState
             \/ SetSessionProbes \/ GetRingBuffers \/ StopWait \/ Join \/ UNCHANGED vars
             \/ \E h \in Handles : DriverNotify(h) \/ WakeUp(h) \/ CheckStopped(h)
    BY <1>1, <1>2 DEF SetStateActive, SetStateInactive, Begin, GetState, GoToState, SetState,
         SetSessionProbes, GetRingBuffers, StopWait, Join, DriverNotify, WakeUp, CheckStopped, vars
  <1>3. CASE NewExtractor
    <2>1. /\ opened' \subseteq opened \cup ExtractionProbes(streamed)
          /\ packets' = packets \/ packets' = [p \in Probes |-> 0]
          /\ UNCHANGED <<openedRings, reader>>
      BY <1>3 DEF NewExtractor
    <2>2. packets' \in [Probes -> 0 .. mQueueSize]
      <3>1. 0 \in 0 .. mQueueSize
        OBVIOUS
      <3> QED
        BY <2>1, <3>1 DEF QueueTypes
    <2>3. opened' \in SUBSET Probes
      BY <2>1 DEF QueueTypes, ExtractionProbes
    <2> QED
      BY <2>1, <2>2, <2>3 DEF QueueTypes
  <1>4. CASE NewInjector \/ CloseQueues
    <2>1. /\ opened' \subseteq opened /\ openedRings' \subseteq openedRings \cup InjectionProbes(streamed)
          /\ UNCHANGED <<packets, reader>>
      BY <1>4 DEF NewInjector, CloseQueues
    <2> QED
      BY <2>1 DEF QueueTypes, InjectionProbes
  <1>5. ASSUME NEW h \in Handles, Work(h) PROVE QueueTypes'
    <2>1. UNCHANGED <<opened, openedRings, reader>>
      BY <1>5 DEF Work
    <2>2. ASSUME NEW p \in Probes,
                 packets' = [packets EXCEPT ![p] = IF @ < mQueueSize THEN @ + 1 ELSE @]
          PROVE  packets' \in [Probes -> 0 .. mQueueSize]
      BY <2>2 DEF QueueTypes
    <2>3. packets' = packets => packets' \in [Probes -> 0 .. mQueueSize]
      BY DEF QueueTypes
    <2>4. packets' \in [Probes -> 0 .. mQueueSize]
      BY <1>5, <2>2, <2>3 DEF Work, QueueTypes
    <2> QED
      BY <2>1, <2>4 DEF QueueTypes
  <1>6. ASSUME NEW p \in Probes, EnterRemove(p) \/ Remove(p) PROVE QueueTypes'
    <2>1. /\ UNCHANGED <<opened, openedRings>>
          /\ \E where \in {"idle", "remove"} : reader' = [reader EXCEPT ![p] = where]
      BY <1>6 DEF EnterRemove, Remove, queues
    <2>2. \/ packets' = packets
          \/ packets[p] > 0 /\ packets' = [packets EXCEPT ![p] = packets[p] - 1]
      BY <1>6 DEF EnterRemove, Remove, queues
    <2>3. packets[p] > 0 => packets[p] - 1 \in 0 .. mQueueSize
      BY DEF QueueTypes
    <2>4. packets' \in [Probes -> 0 .. mQueueSize]
      BY <2>2, <2>3 DEF QueueTypes
    <2> QED
      BY <2>1, <2>4 DEF QueueTypes
  <1> QED
    BY <1>2, <1>3, <1>4, <1>5, <1>6 DEF Next, Machine, Stream

LEMMA EventsStayTyped ==
  ASSUME EventTypes, [Next]_vars
  PROVE  EventTypes'
  <1>1. CASE UNCHANGED <<mStopped, signaled>>
    BY <1>1 DEF EventTypes
  <1>2. ASSUME NEW h, NEW b \in BOOLEAN,
               \/ signaled' = [signaled EXCEPT ![h] = b] /\ UNCHANGED mStopped
               \/ mStopped' = [mStopped EXCEPT ![h] = b] /\ UNCHANGED signaled
        PROVE  EventTypes'
    BY <1>2 DEF EventTypes
  <1>3. CASE StopWait
    BY <1>2, <1>3 DEF StopWait
  <1>4. CASE Join
    <2> DEFINE b == signaled[First] \/ First # Extraction
    <2>1. b \in BOOLEAN
      OBVIOUS
    <2>2. mStopped' = [mStopped EXCEPT ![First] = FALSE] /\ signaled' = [signaled EXCEPT ![First] = b]
      BY <1>4 DEF Join
    <2> HIDE DEF b
    <2> QED
      BY <2>1, <2>2 DEF EventTypes
  <1>5. ASSUME NEW h \in Handles, DriverNotify(h) \/ WakeUp(h) PROVE EventTypes'
    BY <1>2, <1>5 DEF DriverNotify, WakeUp
  <1>6. CASE NewExtractor \/ NewInjector
    BY <1>1, <1>6 DEF NewExtractor, NewInjector, StartThread, streams
  <1>7. CASE \/ SetStateActive \/ SetStateInactive \/ GetState \/ GoToState \/ SetState
             \/ SetSessionProbes \/ GetRingBuffers \/ CloseQueues \/ UNCHANGED vars
             \/ \E h \in Handles : CheckStopped(h) \/ Work(h)
             \/ \E p \in Probes : EnterRemove(p) \/ Remove(p)
    BY <1>1, <1>7 DEF SetStateActive, SetStateInactive, Begin, GetState, GoToState, SetState,
         SetSessionProbes, GetRingBuffers, CloseQueues, CheckStopped, Work, EnterRemove, Remove,
         streams, vars
  <1> QED
    BY <1>3, <1>4, <1>5, <1>6, <1>7 DEF Next, Machine, Stream

(* The variables of the prober keep their types: a walk through the states   *)
(* never goes to one that the driver has not, and a queue never has more     *)
(* packets than mQueueSize, for any probes, sessions and failing ioctl.      *)
THEOREM ProberIsTyped == Spec => []TypeOK
  <1> DEFINE TypeInv == IInv /\ CallTypes /\ QueueTypes /\ EventTypes
  <1>1. Init => TypeInv
    <2> SUFFICES ASSUME Init PROVE TypeInv
      OBVIOUS
    <2>1. CallTypes
      BY SessionAssumption DEF Init, CallTypes, Disabled
    <2>2. QueueTypes
      BY SessionAssumption DEF Init, QueueTypes
    <2>3. EventTypes
      BY DEF Init, EventTypes
    <2> QED
      BY <2>1, <2>2, <2>3, InitIsCorrect
  <1>2. TypeInv /\ [Next]_vars => TypeInv'
    BY NextIsCorrect, CallsStayTyped, QueuesStayTyped, EventsStayTyped DEF IInv
  <1>3. TypeInv => TypeOK
    BY DEF IInv, MachineTypes, CallTypes, QueueTypes, EventTypes, TypeOK
  <1> QED
    BY <1>1, <1>2, <1>3, PTL DEF Spec
-----------------------------------------------------------------------------
(* What SetStateReturns rests on: EventHandle loses no stop.                 *)

\* The thread that the machine stops is told to (mStopped), no other is, and
\* once it is joined it has seen that or has a raised event to see it by.
StopIsSeen ==
  /\ \A h \in Handles : mStopped[h] <=> (step \in {"notify", "join"} /\ h = First)
  /\ step \in {"notify", "join"} => First \in Live
  /\ (step = "join" /\ thread[First] \in {"wait", "work"}) => signaled[First]

\* The thread that is stopped is the same until it has been joined.
LEMMA FirstStays == Live' = Live => First' = First
  BY DEF First

LEMMA FirstIsLive == MachineTypes /\ Live # {} => First \in Live /\ First \in Handles
  BY DEF First, Live

\* A call that stops no thread has told none to, whatever threads it makes.
LEMMA NoStopBegun ==
  ASSUME StopIsSeen, mStopped' = mStopped,
         step \notin {"notify", "join"}, step' \notin {"notify", "join"}
  PROVE  StopIsSeen'
  BY DEF StopIsSeen

\* While it stops one, a thread that moves stays alive and misses nothing.
LEMMA StopGoesOn ==
  ASSUME StopIsSeen, Live' = Live, UNCHANGED <<step, mStopped>>,
         step = "join" => (thread'[First] \in {"wait", "work"} => signaled'[First])
  PROVE  StopIsSeen'
  <1>1. First' = First
    BY FirstStays
  <1> QED
    BY <1>1 DEF StopIsSeen

LEMMA StopWaitIsSeen ==
  ASSUME MachineTypes, EventTypes, StopIsSeen, StopWait
  PROVE  StopIsSeen'
  <1>1. thread' = thread /\ Live # {}
    BY DEF StopWait
  <1>2. First' = First /\ Live' = Live /\ First \in Live /\ First \in Handles
    BY <1>1, LiveStays, FirstStays, FirstIsLive
  <1>3. CASE step = "stopStreaming"
    <2>1. step' = "notify" /\ mStopped' = [mStopped EXCEPT ![First] = TRUE]
      BY <1>3 DEF StopWait
    <2>2. \A h \in Handles : mStopped[h] = FALSE
      BY <1>3 DEF StopIsSeen, EventTypes
    <2>3. \A h \in Handles : mStopped'[h] <=> h = First
      BY <1>2, <2>1, <2>2 DEF EventTypes
    <2> QED
      BY <1>2, <2>1, <2>3 DEF StopIsSeen
  <1>4. CASE step = "notify"
    <2>1. step' = "join" /\ mStopped' = mStopped /\ signaled' = [signaled EXCEPT ![First] = TRUE]
      BY <1>4 DEF StopWait
    <2>2. signaled'[First] = TRUE
      BY <1>2, <2>1 DEF EventTypes
    <2> QED
      BY <1>2, <1>4, <2>1, <2>2 DEF StopIsSeen
  <1> QED
    BY <1>3, <1>4 DEF StopWait

LEMMA JoinIsSeen ==
  ASSUME MachineTypes, EventTypes, StopIsSeen, Join
  PROVE  StopIsSeen'
  <1>1. step = "join" /\ step' = "stopStreaming" /\ mStopped' = [mStopped EXCEPT ![First] = FALSE]
    BY DEF Join
  <1>2. \A h \in Handles : mStopped[h] <=> h = First
    BY <1>1 DEF StopIsSeen
  <1>3. \A h \in Handles : mStopped'[h] = FALSE
    BY <1>1, <1>2 DEF EventTypes
  <1> QED
    BY <1>1, <1>3 DEF StopIsSeen

\* The three steps of a thread, one of which is the one that sees mStopped.
LEMMA StreamSeesStop ==
  ASSUME MachineTypes, EventTypes, StopIsSeen, NEW h \in Handles, Stream(h)
  PROVE  StopIsSeen'
  <1>1. UNCHANGED <<step, mStopped>>
    BY DEF Stream, WakeUp, CheckStopped, Work, machine
  <1>2. Live' = Live
    BY DEF Stream, WakeUp, CheckStopped, Work, MachineTypes, Live
  <1>3. ASSUME step = "join" PROVE thread'[First] \in {"wait", "work"} => signaled'[First]
    <2>1. First \in Live /\ First \in Handles
      BY <1>3, FirstIsLive DEF StopIsSeen
    <2>2. mStopped[First] /\ (thread[First] \in {"wait", "work"} => signaled[First])
      BY <1>3, <2>1 DEF StopIsSeen
    <2>3. CASE h = First
      <3>1. CASE WakeUp(h)
        <4>1. thread'[First] = "woken"
          BY <2>1, <2>3, <3>1 DEF WakeUp, MachineTypes
        <4> QED
          BY <4>1
      <3>2. CASE CheckStopped(h)
        <4>1. thread'[First] = "done"
          BY <2>1, <2>2, <2>3, <3>2 DEF CheckStopped, MachineTypes
        <4> QED
          BY <4>1
      <3>3. CASE Work(h)
        <4>1. thread[First] = "work" /\ signaled' = signaled
          BY <2>3, <3>3 DEF Work
        <4> QED
          BY <2>2, <4>1
      <3> QED
        BY <3>1, <3>2, <3>3 DEF Stream
    <2>4. CASE h # First
      <3>1. thread'[First] = thread[First] /\ signaled'[First] = signaled[First]
        BY <2>1, <2>4 DEF Stream, WakeUp, CheckStopped, Work, MachineTypes, EventTypes
      <3> QED
        BY <2>2, <3>1
    <2> QED
      BY <2>3, <2>4
  <1> QED
    BY <1>1, <1>2, <1>3, StopGoesOn

LEMMA StopStaysSeen ==
  ASSUME IInv, EventTypes, StopIsSeen, [Next]_vars
  PROVE  StopIsSeen'
  <1>0. MachineTypes
    BY DEF IInv
  <1>1. CASE StopWait \/ Join
    BY <1>0, <1>1, StopWaitIsSeen, JoinIsSeen
  <1>2. CASE \/ SetStateActive \/ SetStateInactive \/ GetState \/ GoToState \/ SetState
             \/ SetSessionProbes \/ GetRingBuffers \/ NewExtractor \/ NewInjector \/ CloseQueues
    <2>1. /\ step \notin {"notify", "join"} /\ step' \notin {"notify", "join"}
          /\ mStopped' = mStopped
      BY <1>2 DEF SetStateActive, SetStateInactive, Begin, GetState, GoToState, SetState,
           SetSessionProbes, GetRingBuffers, NewExtractor, NewInjector, CloseQueues, StartThread,
           Throw, Cancel, streams
    <2> QED
      BY <2>1, NoStopBegun
  <1>3. ASSUME NEW h \in Handles, Stream(h) PROVE StopIsSeen'
    BY <1>0, <1>3, StreamSeesStop
  <1>4. ASSUME NEW h \in Handles, DriverNotify(h) PROVE StopIsSeen'
    <2>1. UNCHANGED <<step, mStopped, thread>> /\ signaled' = [signaled EXCEPT ![h] = TRUE]
      BY <1>4 DEF DriverNotify, machine
    <2>2. ASSUME step = "join", thread'[First] \in {"wait", "work"} PROVE signaled'[First]
      <3>1. First \in Handles /\ signaled[First]
        BY <1>0, <2>1, <2>2, FirstIsLive DEF StopIsSeen
      <3> QED
        BY <2>1, <3>1 DEF EventTypes
    <2> QED
      BY <2>1, <2>2, LiveStays, StopGoesOn
  <1>5. CASE UNCHANGED vars \/ \E p \in Probes : EnterRemove(p) \/ Remove(p)
    <2>1. UNCHANGED <<step, mStopped, thread, signaled>>
      BY <1>5 DEF EnterRemove, Remove, machine, streams, vars
    <2>2. step = "join" => (thread'[First] \in {"wait", "work"} => signaled'[First])
      BY <2>1 DEF StopIsSeen
    <2> QED
      BY <2>1, <2>2, LiveStays, StopGoesOn
  <1> QED
    BY <1>1, <1>2, <1>3, <1>4, <1>5 DEF Next, Machine

(* stopWait() sets mStopped before it raises the event, and the thread looks *)
(* at mStopped after the event that resets itself: also when the driver      *)
(* raises the event at the same time, or the thread is at work, a thread     *)
(* that is joined has not missed that it must stop, and no other is told to. *)
THEOREM StopIsNeverLost == Spec => []StopIsSeen
  <1>1. Init => EventTypes /\ StopIsSeen
    BY DEF Init, EventTypes, StopIsSeen
  <1>2. EventTypes /\ [Next]_vars => EventTypes'
    BY EventsStayTyped
  <1>3. IInv /\ EventTypes /\ StopIsSeen /\ [Next]_vars => StopIsSeen'
    BY StopStaysSeen
  <1> QED
    BY InitIsCorrect, NextIsCorrect, <1>1, <1>2, <1>3, PTL DEF Spec
================================================================================
