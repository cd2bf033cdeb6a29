---------------------------- MODULE WindowsProber ----------------------------
(***************************************************************************)
(* The probe service on Windows.  ProberStateMachine walks the driver      *)
(* through Idle, Owned, Allocated and Active, one ioctl for each step;     *)
(* ProberBackend starts and stops the streams on the way.  Each stream is  *)
(* a thread that waits for an event handle which outlives it: the driver   *)
(* raises it for data or room, and the thread that stops the stream raises *)
(* it after setting mStopped.                                              *)
(*                                                                         *)
(* One client calls setState(); the calls of several would be put in a     *)
(* sequence by mStateMutex.  At most one ioctl of a call fails: with two,  *)
(* a second extractor could be made beside the first.                      *)
(***************************************************************************)
EXTENDS Integers, FiniteSets

CONSTANTS
  Probes,             (* the probe ids                                       *)
  Points,             (* the probe points in the firmware                    *)
  Sessions,           (* the configurations of all probes that clients set   *)
  mQueueSize,         (* in packets                                          *)
  DriverMayFail

States     == {"Idle", "Owned", "Allocated", "Active"}
Purposes   == {"Inject", "Extract", "InjectReextract"}
AllConfigs == [enabled : BOOLEAN, purpose : Purposes, point : Points]
Extraction == -1    \* the handle of the extractor; an injector has that of its probe
Handles    == {Extraction} \cup Probes

\* getActiveSession().
ExtractionProbes(probes) ==
  {p \in Probes : probes[p].enabled /\ probes[p].purpose \in {"Extract", "InjectReextract"}}
InjectionProbes(probes) ==
  {p \in Probes : probes[p].enabled /\ probes[p].purpose \in {"Inject", "InjectReextract"}}

\* The injectors are in a vector, which moves them when it grows while their
\* threads run: sessions with more than one are out of scope.
ASSUME SessionAssumption ==
  /\ Probes \subseteq Nat /\ IsFiniteSet(Probes)
  /\ Sessions \subseteq [Probes -> AllConfigs] /\ Sessions # {}
  /\ \A s \in Sessions : \A p, q \in InjectionProbes(s) : p = q
  /\ \E s \in Sessions : \A p \in Probes : ~s[p].enabled
  /\ mQueueSize \in Nat
  /\ DriverMayFail \in BOOLEAN

VARIABLES
  driverState, driverConfig,   (* what the driver holds                      *)
  mCachedProbeConfiguration,
  call,           (* the call in the state machine, or the last one:         *)
                  (* start, cancel (stopNoThrow() after a failure) or stop   *)
  step,           (* where it is, "idle" when it has returned                *)
  failed,         (* has an ioctl of this call failed?                       *)
  oldState, currentState,      (* of goToState(), while it runs              *)
  fromIdle,       (* history: did the start find the driver Idle?            *)
  streamed,       (* history: the configuration that startStreaming() used   *)
  cancelled,      (* history: startStreaming() gave up in this call          *)
  opened,         (* the extraction queues that are open                     *)
  packets,        (* how many packets each of them has                       *)
  openedRings,    (* the injection rings that are open                       *)
  thread,         (* the thread behind each handle                           *)
  mStopped, signaled,
  reader          (* the HTTP thread that reads each probe                   *)

driver    == <<driverState, driverConfig>>
machine   == <<call, step, failed, oldState, currentState>>
history   == <<fromIdle, streamed, cancelled>>
queues    == <<opened, packets, openedRings>>
streams   == <<thread, mStopped, signaled>>
vars      == <<driver, mCachedProbeConfiguration, machine, history, queues, streams, reader>>

Disabled == CHOOSE s \in Sessions : \A p \in Probes : ~s[p].enabled

Init ==
  /\ driverState = "Idle" /\ driverConfig = Disabled
  /\ mCachedProbeConfiguration = Disabled
  /\ call = "none" /\ step = "idle" /\ failed = FALSE
  /\ oldState = "Idle" /\ currentState = "Idle"
  /\ fromIdle = FALSE /\ streamed = Disabled /\ cancelled = FALSE
  /\ opened = {} /\ packets = [p \in Probes |-> 0] /\ openedRings = {}
  /\ thread = [h \in Handles |-> "none"]
  /\ mStopped = [h \in Handles |-> FALSE] /\ signaled = [h \in Handles |-> FALSE]
  /\ reader = [p \in Probes |-> "idle"]
-----------------------------------------------------------------------------
(* ProbeService::setState(), and the walk through the driver states.         *)
Begin(name) ==
  /\ step = "idle"
  /\ call' = name /\ step' = "getState"
  /\ failed' = FALSE /\ cancelled' = FALSE
  /\ UNCHANGED <<driver, oldState, currentState, fromIdle, streamed, queues, streams, reader>>

SetStateActive ==
  /\ Begin("start")
  /\ mCachedProbeConfiguration' \in Sessions

SetStateInactive == Begin("stop") /\ UNCHANGED mCachedProbeConfiguration

\* Fault: a start that fails is not taken back.
ThrowOnly ==
  /\ DriverMayFail /\ ~failed
  /\ failed' = TRUE
  /\ step' = "idle"
  /\ oldState' = "Idle" /\ currentState' = "Idle"
  /\ UNCHANGED call

\* An ioctl fails: a start goes back by stopNoThrow(), the other calls end.
Throw ==
  /\ DriverMayFail /\ ~failed
  /\ failed' = TRUE
  /\ call' = IF call = "start" THEN "cancel" ELSE call
  /\ step' = IF call = "start" THEN "getState" ELSE "idle"
  /\ oldState' = "Idle" /\ currentState' = "Idle"

\* checkAndGetStateFromDriver().
GetState ==
  /\ step = "getState"
  /\ \/ Throw /\ UNCHANGED fromIdle
     \/ /\ currentState' = driverState /\ step' = "next"
        /\ fromIdle' = IF call = "start" THEN driverState = "Idle" ELSE fromIdle
        /\ UNCHANGED <<call, failed, oldState>>
  /\ UNCHANGED <<driver, mCachedProbeConfiguration, streamed, cancelled, queues, streams, reader>>

Transition(state) ==
  IF call = "start" THEN [Idle |-> "Owned", Owned |-> "Allocated", Allocated |-> "Active"][state]
  ELSE [Owned |-> "Idle", Allocated |-> "Owned", Active |-> "Allocated"][state]

\* One turn of the loop of goToState(), up to the switch of setStateTransition().
GoToState ==
  /\ step = "next"
  /\ IF currentState = IF call = "start" THEN "Active" ELSE "Idle"
     THEN step' = "idle" /\ oldState' = "Idle" /\ currentState' = "Idle"
     ELSE /\ oldState' = currentState
          /\ currentState' = Transition(currentState)
          /\ step' = IF currentState' = "Active" THEN "getRingBuffers" ELSE "stopStreaming"
  /\ UNCHANGED <<driver, mCachedProbeConfiguration, call, failed, history, queues, streams, reader>>

SetState ==
  /\ step = "setState"
  /\ \/ Throw /\ UNCHANGED driverState
     \/ /\ driverState' = currentState
        /\ step' = IF oldState = "Idle" /\ currentState = "Owned" THEN "configure" ELSE "next"
        /\ UNCHANGED <<call, failed, oldState, currentState>>
  /\ UNCHANGED <<driverConfig, mCachedProbeConfiguration, history, queues, streams, reader>>

SetSessionProbes ==
  /\ step = "configure"
  /\ \/ Throw /\ UNCHANGED driverConfig
     \/ /\ driverConfig' = mCachedProbeConfiguration
        /\ step' = "next"
        /\ UNCHANGED <<call, failed, oldState, currentState>>
  /\ UNCHANGED <<driverState, mCachedProbeConfiguration, history, queues, streams, reader>>
-----------------------------------------------------------------------------
(* startStreaming().                                                         *)
GetRingBuffers ==
  /\ step = "getRingBuffers"
  /\ \/ Throw /\ UNCHANGED streamed
     \/ /\ streamed' = mCachedProbeConfiguration
        /\ step' = "extractor"
        /\ UNCHANGED <<call, failed, oldState, currentState>>
  /\ UNCHANGED <<driver, mCachedProbeConfiguration, fromIdle, cancelled, queues, streams, reader>>

\* A thread begins: its Waiter is new, its event is not.
StartThread(h) == thread' = [thread EXCEPT ![h] = "wait"] /\ UNCHANGED <<mStopped, signaled>>

\* The exception is caught inside startStreaming(), which then returns normally.
Cancel == step' = "stopStreaming" /\ cancelled' = TRUE

\* Queues are opened in the order of the probes, up to one whose point
\* another probe extracts already.  A new extractor clears all queues.
NewExtractor ==
  LET extract == ExtractionProbes(streamed)
      twice   == {p \in extract : \E q \in extract : q < p /\ streamed[q].point = streamed[p].point}
  IN  /\ step = "extractor"
      /\ IF twice = {}
         THEN /\ opened' = opened \cup extract
              /\ IF extract = {} THEN UNCHANGED <<packets, streams>>
                 ELSE packets' = [p \in Probes |-> 0] /\ StartThread(Extraction)
              /\ step' = "injector" /\ UNCHANGED cancelled
         ELSE /\ opened' = opened \cup {p \in extract : \A q \in twice : p <= q}
              /\ Cancel
              /\ UNCHANGED <<packets, streams>>
      /\ UNCHANGED <<driver, mCachedProbeConfiguration, call, failed, oldState, currentState,
                     fromIdle, streamed, openedRings, reader>>

\* The ring of the injection probe, its sample size (which may be zero), its injector.
NewInjector ==
  LET inject == InjectionProbes(streamed)
  IN  /\ step = "injector"
      /\ openedRings' = openedRings \cup inject
      /\ \/ /\ IF inject = {} THEN UNCHANGED streams ELSE \E p \in inject : StartThread(p)
            /\ step' = "setState" /\ UNCHANGED cancelled
         \/ inject # {} /\ Cancel /\ UNCHANGED streams
      /\ UNCHANGED <<driver, mCachedProbeConfiguration, call, failed, oldState, currentState,
                     fromIdle, streamed, opened, packets, reader>>
-----------------------------------------------------------------------------
(* stopStreaming(): the extractor, the injector, then the queues.            *)
Live  == {h \in Handles : thread[h] # "none"}
First == IF Extraction \in Live THEN Extraction ELSE CHOOSE p \in Live : TRUE

\* Fault: the event is raised first.
StopWaitNotifiesFirst ==
  /\ Live # {}
  /\ \/ /\ step = "stopStreaming" /\ step' = "notify"
        /\ signaled' = [signaled EXCEPT ![First] = TRUE]
        /\ UNCHANGED mStopped
     \/ /\ step = "notify" /\ step' = "join"
        /\ mStopped' = [mStopped EXCEPT ![First] = TRUE]
        /\ UNCHANGED signaled
  /\ UNCHANGED <<driver, mCachedProbeConfiguration, call, failed, oldState, currentState, history,
                 queues, thread, reader>>

\* stopWait(): mStopped, then notify().
StopWait ==
  /\ Live # {}
  /\ \/ /\ step = "stopStreaming" /\ step' = "notify"
        /\ mStopped' = [mStopped EXCEPT ![First] = TRUE]
        /\ UNCHANGED signaled
     \/ /\ step = "notify" /\ step' = "join"
        /\ signaled' = [signaled EXCEPT ![First] = TRUE]
        /\ UNCHANGED mStopped
  /\ UNCHANGED <<driver, mCachedProbeConfiguration, call, failed, oldState, currentState, history,
                 queues, thread, reader>>

\* ~InjectionOutputStream() calls stopWait() again when the thread has ended:
\* the event stays raised for the next session.
Join ==
  /\ step = "join" /\ thread[First] = "done"
  /\ thread' = [thread EXCEPT ![First] = "none"]
  /\ mStopped' = [mStopped EXCEPT ![First] = FALSE]
  /\ signaled' = [signaled EXCEPT ![First] = @ \/ First # Extraction]
  /\ step' = "stopStreaming"
  /\ UNCHANGED <<driver, mCachedProbeConfiguration, call, failed, oldState, currentState, history,
                 queues, reader>>

\* Fault: only the injection rings are closed.
CloseRings ==
  /\ step = "stopStreaming" /\ Live = {}
  /\ openedRings' = {}
  /\ step' = "setState"
  /\ UNCHANGED <<driver, mCachedProbeConfiguration, call, failed, oldState, currentState, history,
                 opened, packets, streams, reader>>

CloseQueues ==
  /\ step = "stopStreaming" /\ Live = {}
  /\ opened' = {} /\ openedRings' = {}
  /\ step' = "setState"
  /\ UNCHANGED <<driver, mCachedProbeConfiguration, call, failed, oldState, currentState, history,
                 packets, streams, reader>>
-----------------------------------------------------------------------------
(* The threads of the streams, the driver and the readers.                   *)

\* The driver has data or room.
DriverNotify(h) ==
  /\ driverState = "Active"
  /\ h \in (IF ExtractionProbes(driverConfig) = {} THEN {} ELSE {Extraction})
           \cup InjectionProbes(driverConfig)
  /\ signaled' = [signaled EXCEPT ![h] = TRUE]
  /\ UNCHANGED <<driver, mCachedProbeConfiguration, machine, history, queues, thread, mStopped, reader>>

\* EventHandle::wait(): the event resets itself.
WakeUp(h) ==
  /\ thread[h] = "wait" /\ signaled[h]
  /\ signaled' = [signaled EXCEPT ![h] = FALSE]
  /\ thread' = [thread EXCEPT ![h] = "woken"]
  /\ UNCHANGED <<driver, mCachedProbeConfiguration, machine, history, queues, mStopped, reader>>

\* "return not mStopped"
CheckStopped(h) ==
  /\ thread[h] = "woken"
  /\ thread' = [thread EXCEPT ![h] = IF mStopped[h] THEN "done" ELSE "work"]
  /\ UNCHANGED <<driver, mCachedProbeConfiguration, machine, history, queues, mStopped, signaled, reader>>

\* What the thread does with a notification: the extractor may find a whole
\* packet, for which there may be no room; the injector fills the ring of the
\* driver.  An exception (an unknown probe point, positions that do not
\* agree, a failing ioctl) ends either of them.
Work(h) ==
  /\ thread[h] = "work"
  /\ \/ /\ h = Extraction
        /\ \E p \in ExtractionProbes(streamed) \cap opened :
             packets' = [packets EXCEPT ![p] = IF @ < mQueueSize THEN @ + 1 ELSE @]
        /\ thread' = [thread EXCEPT ![h] = "wait"]
     \/ thread' = [thread EXCEPT ![h] = "wait"] /\ UNCHANGED packets
     \/ thread' = [thread EXCEPT ![h] = "done"] /\ UNCHANGED packets
  /\ UNCHANGED <<driver, mCachedProbeConfiguration, machine, history, opened, openedRings, mStopped,
                 signaled, reader>>

\* dequeueExtractionBlock(): into remove(), and out of it.
EnterRemove(p) ==
  /\ reader[p] = "idle"
  /\ reader' = [reader EXCEPT ![p] = "remove"]
  /\ UNCHANGED <<driver, mCachedProbeConfiguration, machine, history, queues, streams>>

Remove(p) ==
  /\ reader[p] = "remove"
  /\ \/ packets[p] > 0 /\ packets' = [packets EXCEPT ![p] = @ - 1]
     \/ packets[p] = 0 /\ p \notin opened /\ UNCHANGED packets
  /\ reader' = [reader EXCEPT ![p] = "idle"]
  /\ UNCHANGED <<driver, mCachedProbeConfiguration, machine, history, opened, openedRings, streams>>
-----------------------------------------------------------------------------
Machine ==
  \/ GetState \/ GoToState \/ SetState \/ SetSessionProbes
  \/ GetRingBuffers \/ NewExtractor \/ NewInjector
  \/ StopWait \/ Join \/ CloseQueues

Stream(h) == WakeUp(h) \/ CheckStopped(h) \/ Work(h)

Next ==
  \/ SetStateActive \/ SetStateInactive \/ Machine
  \/ \E h \in Handles : DriverNotify(h) \/ Stream(h)
  \/ \E p \in Probes : EnterRemove(p) \/ Remove(p)

Spec == Init /\ [][Next]_vars

\* A call goes on, a thread whose event is raised runs, and so does a reader
\* that need not wait.
FairSpec ==
  /\ Spec
  /\ WF_vars(Machine)
  /\ \A h \in Handles : WF_vars(Stream(h))
  /\ \A p \in Probes : WF_vars(Remove(p))
-----------------------------------------------------------------------------
(* The values each variable takes.                                          *)
TypeOK ==
  /\ driverState \in States /\ driverConfig \in Sessions
  /\ mCachedProbeConfiguration \in Sessions
  /\ call \in {"none", "start", "cancel", "stop"}
  /\ step \in {"idle", "getState", "next", "getRingBuffers", "extractor", "injector",
               "stopStreaming", "notify", "join", "setState", "configure"}
  /\ failed \in BOOLEAN
  /\ oldState \in States /\ currentState \in States
  /\ fromIdle \in BOOLEAN /\ streamed \in Sessions /\ cancelled \in BOOLEAN
  /\ opened \in SUBSET Probes /\ openedRings \in SUBSET Probes
  /\ packets \in [Probes -> 0 .. mQueueSize]
  /\ thread \in [Handles -> {"none", "wait", "woken", "work", "done"}]
  /\ mStopped \in [Handles -> BOOLEAN] /\ signaled \in [Handles -> BOOLEAN]
  /\ reader \in [Probes -> {"idle", "remove"}]

(* "Trying to stop if starting has failed to come back to a consistent       *)
(* state" (setState()): whatever state a start found and whichever ioctl     *)
(* failed, it leaves the driver Active when it returns, Idle when it throws. *)
StartIsAllOrNothing ==
  /\ (step = "idle" /\ call = "start") => driverState = "Active"
  /\ (step = "idle" /\ call = "cancel") => driverState = "Idle"

(* Between calls the streams of a session exist all together or not at all,  *)
(* and only while the driver is Active: no queue is left open, on which a    *)
(* reader would wait for a thread that does not exist.                       *)
StreamsMatchDriver ==
  step = "idle" =>
    \/ opened = {} /\ openedRings = {} /\ Live = {}
    \/ /\ driverState = "Active"
       /\ opened = ExtractionProbes(streamed) /\ openedRings = InjectionProbes(streamed)
       /\ Extraction \in Live <=> opened # {}
       /\ Live \ {Extraction} = openedRings

(* A session that began from Idle streams what the driver was configured     *)
(* for, whatever clients have set since.                                     *)
DriverHasTheSession ==
  (step = "idle" /\ driverState = "Active" /\ fromIdle) => driverConfig = streamed

(* A call of setState() returns: every thread it joins is told to stop and   *)
(* woken, also by an event raised for another reason at the same time.       *)
SetStateReturns == step # "idle" ~> step = "idle"

(* "If service starting fails, it should come back to 'Idle' state"          *)
(* (CavsTest.cpp): a start whose streams could not be made is one.           *)
(* TLC refutes it: README, section 6.                                        *)
FailedStartReturnsToIdle == (step = "idle" /\ cancelled) => driverState = "Idle"
=============================================================================
