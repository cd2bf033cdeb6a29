----------------------------- MODULE LinuxProber -----------------------------
(***************************************************************************)
(* The probe service on Linux: ProbeService keeps the configuration that   *)
(* clients edit, linux::Prober turns it into a session: control ids,       *)
(* queues, one ProbeExtractor for all extraction probes and one            *)
(* ProbeInjector for each injection probe.  HTTP threads read the          *)
(* extraction queues, which are the FIFOs of ElementQueue here: a thread   *)
(* that has to wait in remove() is one whose next step is disabled.        *)
(***************************************************************************)
EXTENDS Integers, Sequences, FiniteSets, Functions

CONSTANTS
  Probes,                  (* the probe ids that clients use               *)
  Readers,                 (* those whose extraction a client streams      *)
  Points,                  (* the probe points in the firmware             *)
  Configs,                 (* the configurations clients set for a probe   *)
  NoConfig,                (* the one of a probe that was never set        *)
  mMaxExtractionProbes,
  mMaxInjectionProbes,
  QueueMaxPackets,         (* Prober::mQueueSize, in packets               *)
  ReconfigureWhileActive,  (* may a client start a started service?        *)
  MaxEscapes               (* bound: the starts that end by an exception   *)
                           (* setState() does not catch                    *)

Purposes   == {"Inject", "Extract", "InjectReextract"}
AllConfigs == [enabled : BOOLEAN, purpose : Purposes, point : Points]

ASSUME ProberAssumption ==
  /\ Probes \subseteq Nat /\ IsFiniteSet(Probes) /\ Readers \subseteq Probes
  /\ Configs \subseteq AllConfigs /\ NoConfig \in AllConfigs
  /\ ~NoConfig.enabled
  /\ mMaxExtractionProbes \in Nat /\ mMaxInjectionProbes \in Nat
  /\ QueueMaxPackets \in Nat
  /\ ReconfigureWhileActive \in BOOLEAN
  /\ MaxEscapes \in Nat

ExtractionControls == 0 .. mMaxExtractionProbes - 1
InjectionControls  == 0 .. mMaxInjectionProbes - 1
Sessions           == {0, 1}   \* a packet carries the parity of its session

VARIABLES
  mProbeConfigs,          (* of ProbeService                               *)
  mCachedProbeConfig,
  mExtractionProbeMap,    (* probe id -> control id, of the mapped probes  *)
  mInjectionProbeMap,
  mIsActiveState,
  step,                   (* where the client is in setState()             *)
  remaining,              (* the probes its loop has still to treat        *)
  probePointMap,          (* probe point -> control id, of startStreaming() *)
  mProbePointMap,         (* ... and of mProbeExtractor                    *)
  extractor,              (* the thread of mProbeExtractor                 *)
  replaced,               (* the map of a running extractor while the one  *)
                          (* that takes its place exists already           *)
  mProbeInjectors,        (* the control ids that have an injector         *)
  opened,                 (* the extraction queues that are open           *)
  packets,                (* what is in each of them                       *)
  openedRings,            (* the injection rings that are open             *)
  reader,                 (* the HTTP thread that reads each probe         *)
  control,                (* the control id it has found                   *)
  session,                (* parity of the last extraction session         *)
  escapes                 (* history: the exceptions that left a start     *)
                          (* without undoing it                            *)

config     == <<mCachedProbeConfig, mExtractionProbeMap, mInjectionProbeMap>>
extraction == <<probePointMap, mProbePointMap, extractor, replaced, session>>
queues     == <<opened, packets>>
injection  == <<mProbeInjectors, openedRings>>
reading    == <<reader, control>>
vars       == <<mProbeConfigs, config, mIsActiveState, step, remaining, extraction,
                queues, injection, reading, escapes>>

Init ==
  /\ mProbeConfigs = [p \in Probes |-> NoConfig]
  /\ mCachedProbeConfig = [p \in Probes |-> NoConfig]
  /\ mExtractionProbeMap = <<>> /\ mInjectionProbeMap = <<>>
  /\ mIsActiveState = FALSE
  /\ step = "idle" /\ remaining = {}
  /\ probePointMap = <<>> /\ mProbePointMap = <<>> /\ replaced = <<>>
  /\ extractor = "none" /\ session = 0 /\ escapes = 0
  /\ mProbeInjectors = {}
  /\ opened = {} /\ packets = [c \in ExtractionControls |-> <<>>]
  /\ openedRings = {}
  /\ reader = [p \in Probes |-> "idle"]
  /\ control = [p \in Probes |-> 0]

\* getActiveSession().
ExtractionProbes(probes) ==
  {p \in Probes : probes[p].enabled /\ probes[p].purpose \in {"Extract", "InjectReextract"}}
InjectionProbes(probes) ==
  {p \in Probes : probes[p].enabled /\ probes[p].purpose \in {"Inject", "InjectReextract"}}
-----------------------------------------------------------------------------
(* ProbeService::setConfiguration(), at any time but while setState(true)    *)
(* holds the mutex of the configuration.                                     *)
SetConfiguration ==
  /\ step # "map"
  /\ \E p \in Probes, c \in Configs : mProbeConfigs' = [mProbeConfigs EXCEPT ![p] = c]
  /\ UNCHANGED <<config, mIsActiveState, step, remaining, extraction, queues, injection, reading, escapes>>
-----------------------------------------------------------------------------
(* ProbeService::setState(true).                                             *)

\* Prober::setProbesConfig() up to its checks.  (When the sample size of an
\* injection probe cannot be computed, setState() throws before.)
SetProbesConfig ==
  /\ step = "idle"
  /\ mIsActiveState => ReconfigureWhileActive
  /\ mCachedProbeConfig' = mProbeConfigs
  /\ mExtractionProbeMap' = <<>> /\ mInjectionProbeMap' = <<>>
  /\ step' = IF /\ Cardinality(ExtractionProbes(mProbeConfigs)) <= mMaxExtractionProbes
                /\ Cardinality(InjectionProbes(mProbeConfigs)) <= mMaxInjectionProbes
             THEN "map" ELSE "idle"
  /\ UNCHANGED <<mProbeConfigs, mIsActiveState, remaining, extraction, queues, injection, reading, escapes>>

\* The control ids that a loop over the probes gives: 0, 1, ... in their order.
ControlIds(probes) == [p \in probes |-> Cardinality({q \in probes : q < p})]

\* Writing a mixer control may fail: only the probes before it are mapped.
UpTo(probes, n) == {p \in probes : Cardinality({q \in probes : q < p}) < n}

MapProbes ==
  LET extract == ExtractionProbes(mCachedProbeConfig)
      inject  == InjectionProbes(mCachedProbeConfig)
  IN  /\ step = "map"
      /\ \/ /\ mExtractionProbeMap' = ControlIds(extract)
            /\ mInjectionProbeMap' = ControlIds(inject)
            /\ step' = "setState"
         \/ \E n \in 0 .. Cardinality(extract) - 1 :
              /\ mExtractionProbeMap' = ControlIds(UpTo(extract, n))
              /\ mInjectionProbeMap' = <<>>
              /\ step' = "idle"
         \/ \E n \in 0 .. Cardinality(inject) - 1 :
              /\ mExtractionProbeMap' = ControlIds(extract)
              /\ mInjectionProbeMap' = ControlIds(UpTo(inject, n))
              /\ step' = "idle"
      /\ UNCHANGED <<mProbeConfigs, mCachedProbeConfig, mIsActiveState, remaining,
                     extraction, queues, injection, reading, escapes>>

\* Prober::setState(true).
SetStateActive ==
  /\ step = "setState"
  /\ \/ mIsActiveState /\ step' = "idle" /\ UNCHANGED <<remaining, probePointMap>>
     \/ /\ ~mIsActiveState
        /\ step' = "openQueue"
        /\ remaining' = ExtractionProbes(mCachedProbeConfig)
        /\ probePointMap' = <<>>
  /\ UNCHANGED <<mProbeConfigs, config, mIsActiveState, mProbePointMap, extractor, replaced,
                 session, queues, injection, reading, escapes>>

First(probes) == CHOOSE p \in probes : \A q \in probes : p <= q

\* A probe that is not in the map, or whose point another one extracts: startStreaming() throws.
OpenExtractionQueue ==
  /\ step = "openQueue" /\ remaining # {}
  /\ LET p     == First(remaining)
         point == mCachedProbeConfig[p].point
     IN  \/ /\ p \notin DOMAIN mExtractionProbeMap
            /\ step' = "abandon" /\ probePointMap' = <<>>
            /\ UNCHANGED <<remaining, opened>>
         \/ /\ p \in DOMAIN mExtractionProbeMap
            /\ opened' = opened \cup {mExtractionProbeMap[p]}
            /\ IF point \in DOMAIN probePointMap
               THEN step' = "abandon" /\ probePointMap' = <<>> /\ UNCHANGED remaining
               ELSE /\ probePointMap' = [x \in DOMAIN probePointMap \cup {point} |->
                                            IF x = point THEN mExtractionProbeMap[p]
                                                         ELSE probePointMap[x]]
                    /\ remaining' = remaining \ {p}
                    /\ UNCHANGED step
  /\ UNCHANGED <<mProbeConfigs, config, mIsActiveState, mProbePointMap, extractor, replaced,
                 session, packets, injection, reading, escapes>>

\* An exception that is no Prober::Exception leaves startStreaming() and passes
\* the catch of setState(): nothing is undone and mIsActiveState stays false.
Escape ==
  /\ escapes < MaxEscapes
  /\ escapes' = escapes + 1
  /\ step' = "idle" /\ remaining' = {}

\* Fault: the queues keep the packets of the previous session.
KeepPackets ==
  /\ step = "openQueue" /\ remaining = {}
  /\ extractor' = IF probePointMap = <<>> THEN extractor ELSE "running"
  /\ session' = IF probePointMap = <<>> THEN session ELSE 1 - session
  /\ mProbePointMap' = IF probePointMap = <<>> THEN mProbePointMap ELSE probePointMap
  /\ probePointMap' = <<>>
  /\ step' = "openRing"
  /\ remaining' = InjectionProbes(mCachedProbeConfig)
  /\ UNCHANGED <<mProbeConfigs, config, mIsActiveState, replaced, queues, injection, reading, escapes>>

\* The device is searched, opened and started, then ProbeExtractor constructed,
\* which clears the queues and launches its thread.  What the search throws
\* about the file system (linux::Exception) escapes, and so does a thread that
\* cannot be launched.  An extractor that an escape has left behind is
\* destroyed when the new one exists.
NewExtractor ==
  /\ step = "openQueue" /\ remaining = {}
  /\ probePointMap' = <<>>
  /\ \/ /\ probePointMap = <<>>
        /\ step' = "openRing"
        /\ remaining' = InjectionProbes(mCachedProbeConfig)
        /\ UNCHANGED <<mProbePointMap, extractor, replaced, session, packets, escapes>>
     \/ /\ probePointMap # <<>>
        /\ mProbePointMap' = probePointMap
        /\ extractor' = "running" /\ session' = 1 - session
        /\ packets' = [c \in ExtractionControls |-> <<>>]
        /\ replaced' = IF extractor = "running" THEN mProbePointMap ELSE <<>>
        /\ step' = IF extractor = "none" THEN "openRing" ELSE "replace"
        /\ remaining' = InjectionProbes(mCachedProbeConfig)
        /\ UNCHANGED escapes
     \/ /\ probePointMap # <<>>
        /\ step' = "abandon"
        /\ UNCHANGED <<remaining, mProbePointMap, extractor, replaced, session, packets, escapes>>
     \/ /\ probePointMap # <<>>
        /\ Escape
        /\ packets' \in {packets, [c \in ExtractionControls |-> <<>>]}
        /\ UNCHANGED <<mProbePointMap, extractor, replaced, session>>
  /\ UNCHANGED <<mProbeConfigs, config, mIsActiveState, opened, injection, reading>>

\* The assignment to mProbeExtractor ends: the thread of the old one is joined.
DestroyReplaced ==
  /\ step = "replace"
  /\ replaced' = <<>>
  /\ step' = "openRing"
  /\ UNCHANGED <<mProbeConfigs, config, mIsActiveState, remaining, probePointMap, mProbePointMap,
                 extractor, session, queues, injection, reading, escapes>>

\* The ring of an injection probe, then its sample size, its device, its
\* injector, all of which may fail; the device search, getBufferSize() and the
\* launch of the thread by an exception that escapes.
NewInjector ==
  /\ step = "openRing" /\ remaining # {}
  /\ LET p == First(remaining)
     IN  \/ /\ p \notin DOMAIN mInjectionProbeMap
            /\ step' = "abandon"
            /\ UNCHANGED <<remaining, injection, escapes>>
         \/ /\ p \in DOMAIN mInjectionProbeMap
            /\ openedRings' = openedRings \cup {mInjectionProbeMap[p]}
            /\ \/ /\ mProbeInjectors' = mProbeInjectors \cup {mInjectionProbeMap[p]}
                  /\ remaining' = remaining \ {p}
                  /\ UNCHANGED <<step, escapes>>
               \/ step' = "abandon" /\ UNCHANGED <<remaining, mProbeInjectors, escapes>>
               \/ Escape /\ UNCHANGED mProbeInjectors
  /\ UNCHANGED <<mProbeConfigs, config, mIsActiveState, extraction, queues, reading>>

Started ==
  /\ step = "openRing" /\ remaining = {}
  /\ mIsActiveState' = TRUE /\ step' = "idle"
  /\ UNCHANGED <<mProbeConfigs, config, remaining, extraction, queues, injection, reading, escapes>>
-----------------------------------------------------------------------------
(* Prober::setState(false), and stopNoThrow() when starting has failed.      *)
SetStateInactive ==
  /\ step = "idle"
  /\ step' = IF mIsActiveState THEN "stopThreads" ELSE "idle"
  /\ UNCHANGED <<mProbeConfigs, config, mIsActiveState, remaining, extraction, queues,
                 injection, reading, escapes>>

\* Fault: a failure that setState() has caught leaves behind what was opened.
AbandonOnly ==
  /\ step = "abandon"
  /\ step' = "idle" /\ remaining' = {}
  /\ UNCHANGED <<mProbeConfigs, config, mIsActiveState, extraction, queues, injection, reading, escapes>>

Abandon ==
  /\ step = "abandon"
  /\ step' = "stopThreads" /\ remaining' = {}
  /\ UNCHANGED <<mProbeConfigs, config, mIsActiveState, extraction, queues, injection, reading, escapes>>

\* mProbeExtractor.reset() and mProbeInjectors.clear() wait for the threads.
StopThreads ==
  /\ step = "stopThreads"
  /\ extractor' = "none" /\ mProbePointMap' = <<>>
  /\ mProbeInjectors' = {}
  /\ step' = "closeQueues"
  /\ UNCHANGED <<mProbeConfigs, config, mIsActiveState, remaining, probePointMap, replaced,
                 session, queues, openedRings, reading, escapes>>

\* Fault: only the injection side is closed.
CloseRings ==
  /\ step = "closeQueues"
  /\ openedRings' = openedRings \ Range(mInjectionProbeMap)
  /\ mIsActiveState' = FALSE /\ step' = "idle"
  /\ UNCHANGED <<mProbeConfigs, config, remaining, extraction, queues, mProbeInjectors, reading, escapes>>

CloseQueues ==
  /\ step = "closeQueues"
  /\ opened' = opened \ Range(mExtractionProbeMap)
  /\ openedRings' = openedRings \ Range(mInjectionProbeMap)
  /\ mIsActiveState' = FALSE /\ step' = "idle"
  /\ UNCHANGED <<mProbeConfigs, config, remaining, extraction, packets, mProbeInjectors, reading, escapes>>
-----------------------------------------------------------------------------
(* ProbeExtractor::extract().                                                *)

\* A packet goes to the queue of its probe point, which may refuse it.
Enqueue(pointMap, parity) ==
  \E point \in DOMAIN pointMap :
    LET c == pointMap[point]
    IN  packets' = [packets EXCEPT ![c] = IF c \in opened /\ Len(@) < QueueMaxPackets
                                          THEN Append(@, <<point, parity>>) ELSE @]

\* A packet of an unknown point ends the thread, and so does the end of the
\* input stream.
Extract ==
  /\ \/ extractor = "running" /\ Enqueue(mProbePointMap, session) /\ UNCHANGED extractor
     \/ extractor = "running" /\ extractor' = "done" /\ UNCHANGED packets
     \/ Enqueue(replaced, 1 - session) /\ UNCHANGED extractor
  /\ UNCHANGED <<mProbeConfigs, config, mIsActiveState, step, remaining, probePointMap,
                 mProbePointMap, replaced, session, opened, injection, reading, escapes>>
-----------------------------------------------------------------------------
(* Prober::dequeueExtractionBlock(): the control id, then remove().          *)
FindControl(p) ==
  /\ p \in Readers /\ reader[p] = "idle"
  /\ p \in DOMAIN mExtractionProbeMap
  /\ control' = [control EXCEPT ![p] = mExtractionProbeMap[p]]
  /\ reader' = [reader EXCEPT ![p] = "remove"]
  /\ UNCHANGED <<mProbeConfigs, config, mIsActiveState, step, remaining, extraction, queues, injection, escapes>>

Remove(p) ==
  LET c == control[p]
  IN  /\ reader[p] = "remove"
      /\ \/ packets[c] # <<>> /\ packets' = [packets EXCEPT ![c] = Tail(@)]
         \/ packets[c] = <<>> /\ c \notin opened /\ UNCHANGED packets
      /\ reader' = [reader EXCEPT ![p] = "idle"]
      /\ control' = [control EXCEPT ![p] = 0]
      /\ UNCHANGED <<mProbeConfigs, config, mIsActiveState, step, remaining, extraction, opened,
                     injection, escapes>>
-----------------------------------------------------------------------------
Client ==
  \/ MapProbes \/ SetStateActive \/ OpenExtractionQueue \/ NewExtractor \/ DestroyReplaced
  \/ NewInjector \/ Started \/ Abandon \/ StopThreads \/ CloseQueues

Next ==
  \/ SetConfiguration \/ SetProbesConfig \/ SetStateInactive \/ Client
  \/ Extract
  \/ \E p \in Probes : FindControl(p) \/ Remove(p)

Spec == Init /\ [][Next]_vars

\* A call of setState() that has begun goes on, and so does a thread in
\* remove() that need not wait.
FairSpec ==
  /\ Spec
  /\ WF_vars(Client)
  /\ \A p \in Probes : WF_vars(Remove(p))
-----------------------------------------------------------------------------
(* The values each variable takes.                                          *)
TypeOK ==
  /\ mProbeConfigs \in [Probes -> AllConfigs] /\ mCachedProbeConfig \in [Probes -> AllConfigs]
  /\ DOMAIN mExtractionProbeMap \subseteq Probes /\ DOMAIN mInjectionProbeMap \subseteq Probes
  /\ Range(mExtractionProbeMap) \subseteq ExtractionControls
  /\ Range(mInjectionProbeMap) \subseteq InjectionControls
  /\ mIsActiveState \in BOOLEAN
  /\ step \in {"idle", "map", "setState", "openQueue", "replace", "openRing", "abandon",
               "stopThreads", "closeQueues"}
  /\ remaining \in SUBSET Probes
  /\ \A map \in {probePointMap, mProbePointMap, replaced} :
       DOMAIN map \subseteq Points /\ Range(map) \subseteq ExtractionControls
  /\ extractor \in {"none", "running", "done"} /\ session \in Sessions
  /\ mProbeInjectors \in SUBSET InjectionControls
  /\ opened \in SUBSET ExtractionControls /\ openedRings \in SUBSET InjectionControls
  /\ \A c \in ExtractionControls :
       packets[c] \in Seq(Points \X Sessions) /\ Len(packets[c]) <= QueueMaxPackets
  /\ reader \in [Probes -> {"idle", "remove"}] /\ control \in [Probes -> Nat]
  /\ escapes \in 0 .. MaxEscapes

(* In an active service each extraction probe has the open queue that the    *)
(* extractor fills with the packets of its point, each injection probe an    *)
(* open ring and an injector, whatever clients have changed in the           *)
(* configuration since the start, and whatever is left of a start that an    *)
(* exception escaped from.  Without such a start nothing else is open, for   *)
(* setState() undoes every failure that it catches.                          *)
SessionIsWired ==
  (mIsActiveState /\ step = "idle") =>
    /\ \A p \in ExtractionProbes(mCachedProbeConfig) :
         /\ mCachedProbeConfig[p].point \in DOMAIN mProbePointMap
         /\ p \in DOMAIN mExtractionProbeMap
         /\ mProbePointMap[mCachedProbeConfig[p].point] = mExtractionProbeMap[p]
    /\ Range(mExtractionProbeMap) \subseteq opened
    /\ Range(mInjectionProbeMap) \subseteq openedRings \cap mProbeInjectors
    /\ Cardinality(Range(mInjectionProbeMap)) = Cardinality(InjectionProbes(mCachedProbeConfig))
    /\ escapes = 0 =>
         /\ opened = Range(mExtractionProbeMap) /\ opened = Range(mProbePointMap)
         /\ openedRings = Range(mInjectionProbeMap) /\ mProbeInjectors = openedRings

(* While an extractor exists a queue holds packets of this session only, and *)
(* only of the probe point it belongs to, as long as no start has escaped:   *)
(* the extractor that such a start leaves behind is destroyed after its      *)
(* successor has cleared the queues.                                         *)
NoForeignPackets ==
  (extractor # "none" /\ escapes = 0) =>
    \A c \in ExtractionControls : \A i \in DOMAIN packets[c] :
      /\ packets[c][i][2] = session
      /\ packets[c][i][1] \in DOMAIN mProbePointMap
      /\ mProbePointMap[packets[c][i][1]] = c

(* "Then closing the queues to make wakup listening threads"                 *)
(* (stopStreaming()): a service that is stopped, or whose start has failed   *)
(* by an exception that setState() catches, leaves no queue open on which a  *)
(* reader would wait, nor any thread.                                        *)
StopClosesQueues ==
  (step = "idle" /\ ~mIsActiveState /\ escapes = 0) =>
    /\ opened = {} /\ openedRings = {}
    /\ extractor = "none" /\ mProbeInjectors = {}

(* "This method blocks until data is available (or probe is stopped)"        *)
(* (dequeueExtractionBlock()): a reader that is inside it when the service   *)
(* stops gets out of it, unless the service is started again before.  Once a *)
(* start has escaped this is so for the queues of the maps only: those that  *)
(* it has left open are nobody's.                                            *)
ReaderReleased ==
  \A p \in Probes :
    (/\ step = "closeQueues" /\ reader[p] = "remove"
     /\ escapes = 0 \/ control[p] \in Range(mExtractionProbeMap)) ~>
      (reader[p] = "idle" \/ step = "openQueue")
=============================================================================
