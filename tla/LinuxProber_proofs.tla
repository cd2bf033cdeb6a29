-------------------------- MODULE LinuxProber_proofs --------------------------
(***************************************************************************)
(* The probe service on Linux, for any probes, probe points and numbers of *)
(* control ids: while nobody starts a started service a session is wired   *)
(* as configured, and as long as no exception escapes from a start its     *)
(* queues hold its own packets, and it leaves nothing open; in any case it *)
(* uses no control id or queue that does not exist.                        *)
(***************************************************************************)
EXTENDS LinuxProber, FiniteSetTheorems, WellFoundedInduction, TLAPS

Ext == ExtractionProbes(mCachedProbeConfig)
Inj == InjectionProbes(mCachedProbeConfig)

PointOf(p) == mCachedProbeConfig[p].point

Closed ==
  /\ opened = {} /\ openedRings = {}
  /\ extractor = "none" /\ mProbeInjectors = {} /\ DOMAIN mProbePointMap = {}

Steps == {"idle", "map", "setState", "openQueue", "replace", "openRing", "abandon", "stopThreads",
          "closeQueues"}
Starting == {"openQueue", "replace", "openRing"}

\* From the moment the mixer controls are written to the end of the session
\* every probe has its control id.
MapsInv ==
  /\ step \notin {"idle", "map"} \/ mIsActiveState =>
       /\ mExtractionProbeMap = ControlIds(Ext)
       /\ mInjectionProbeMap = ControlIds(Inj)
  /\ mIsActiveState => step \in {"idle", "stopThreads", "closeQueues"}
  /\ step \in Steps
  /\ mIsActiveState \in BOOLEAN

\* An extraction probe has its queue and, in a map, its probe point.
Served(map, p) ==
  /\ PointOf(p) \in DOMAIN map
  /\ map[PointOf(p)] = mExtractionProbeMap[p]
  /\ mExtractionProbeMap[p] \in opened

\* An injection probe has its ring and its injector.
Injected(p) == mInjectionProbeMap[p] \in openedRings \cap mProbeInjectors

\* Nothing is missing: the probes that a loop has treated have all they need,
\* whatever was open before.
WiredInv ==
  /\ step = "openQueue" =>
       remaining \subseteq Ext /\ \A p \in Ext \ remaining : Served(probePointMap, p)
  /\ step \in {"replace", "openRing"} =>
       remaining \subseteq Inj /\ \A p \in Inj \ remaining : Injected(p)
  /\ step \in {"replace", "openRing"} \/ (step = "idle" /\ mIsActiveState) =>
       \A p \in Ext : Served(mProbePointMap, p)
  /\ step = "idle" /\ mIsActiveState => \A p \in Inj : Injected(p)

\* What the maps know of the streams.
Known ==
  /\ opened \subseteq Range(mExtractionProbeMap)
  /\ Range(probePointMap) \subseteq Range(mExtractionProbeMap)
  /\ Range(mProbePointMap) \subseteq Range(mExtractionProbeMap)
  /\ openedRings \subseteq Range(mInjectionProbeMap)
  /\ mProbeInjectors \subseteq Range(mInjectionProbeMap)

\* Nothing is there without need, as long as no start has escaped: what is
\* open is known to the maps that the next stop goes through.
ExactInv ==
  escapes = 0 =>
    /\ step # "replace" /\ DOMAIN replaced = {}
    /\ step \in {"idle", "map", "setState"} /\ ~mIsActiveState => Closed
    /\ step \in Starting \cup {"abandon", "stopThreads", "closeQueues"} \/ mIsActiveState => Known
    /\ step = "openQueue" => extractor = "none"
    /\ step = "closeQueues" =>
         extractor = "none" /\ mProbeInjectors = {} /\ DOMAIN mProbePointMap = {}

\* What packets are made of.
TypesInv ==
  /\ mProbeConfigs \in [Probes -> AllConfigs] /\ mCachedProbeConfig \in [Probes -> AllConfigs]
  /\ DOMAIN probePointMap \subseteq Points /\ DOMAIN mProbePointMap \subseteq Points
  /\ DOMAIN replaced \subseteq Points
  /\ session \in Sessions
  /\ escapes \in Nat

PacketsInv ==
  /\ packets \in [ExtractionControls -> Seq(Points \X Sessions)]
  /\ NoForeignPackets

IInv == MapsInv /\ WiredInv /\ ExactInv /\ TypesInv /\ PacketsInv
-----------------------------------------------------------------------------
(* A loop over probes begins with one of them.                               *)
LEMMA FirstIsOneOfThem ==
  ASSUME NEW S \in SUBSET Probes, S # {}
  PROVE  First(S) \in S
  <1> DEFINE R == {ss \in Nat \X Nat : ss[1] < ss[2]}
  <1>1. R = OpToRel(<, Nat)
    BY DEF OpToRel
  <1>2. IsWellFoundedOn(R, Nat)
    BY ONLY <1>1, NatLessThanWellFounded, Zenon
  <1>3. S \subseteq Nat
    BY ProberAssumption
  <1>4. PICK n \in S : \A m \in S : ~(<<m, n>> \in R)
    <2> HIDE DEF R
    <2> QED BY <1>2, <1>3, WFMin
  <1>5. ASSUME NEW m \in S PROVE n <= m
    <2>1. <<m, n>> \notin R /\ m \in Nat /\ n \in Nat
      BY <1>3, <1>4
    <2>2. ~(m < n)
      BY <2>1
    <2> QED
      BY <2>1, <2>2
  <1> QED
    BY <1>5 DEF First

(* The ids given to the probes of S are below their number, and different.   *)
LEMMA ControlIdsAreBounded ==
  ASSUME NEW S \in SUBSET Probes, NEW p \in S
  PROVE  ControlIds(S)[p] \in 0 .. Cardinality(S) - 1
  <1> DEFINE B == {q \in S : q < p}
  <1>1. IsFiniteSet(S) /\ S \subseteq Nat
    BY ProberAssumption, FS_Subset
  <1>2. B \in SUBSET S /\ B # S
    BY <1>1
  <1> HIDE DEF B
  <1>3. IsFiniteSet(B) /\ Cardinality(B) <= Cardinality(S) /\ Cardinality(S) # Cardinality(B)
    BY <1>1, <1>2, FS_Subset
  <1>4. Cardinality(B) \in Nat /\ Cardinality(S) \in Nat
    BY <1>1, <1>3, FS_CardinalityType
  <1>5. Cardinality(B) \in 0 .. Cardinality(S) - 1
    BY <1>3, <1>4
  <1> QED
    BY <1>5 DEF B, ControlIds

LEMMA ControlIdsGrow ==
  ASSUME NEW S \in SUBSET Probes, NEW p \in S, NEW q \in S, p < q
  PROVE  ControlIds(S)[p] < ControlIds(S)[q]
  <1> DEFINE B == {r \in S : r < p}
             C == {r \in S : r < q}
  <1>1. S \subseteq Nat
    BY ProberAssumption
  <1>2. B \in SUBSET C /\ p \in C /\ p \notin B /\ C \in SUBSET Probes
    <2>1. p \in Int /\ q \in Int /\ ~(p < p) /\ \A r \in S : r \in Int
      BY <1>1
    <2>2. ASSUME NEW r \in S, r < p PROVE r < q
      BY <2>1, <2>2
    <2> QED
      BY <2>1, <2>2
  <1> HIDE DEF B, C
  <1>3. IsFiniteSet(C) /\ IsFiniteSet(B)
    BY <1>2, ProberAssumption, FS_Subset
  <1>4. Cardinality(B) <= Cardinality(C) /\ Cardinality(C) # Cardinality(B)
    BY <1>2, <1>3, FS_Subset
  <1>5. Cardinality(B) \in Nat /\ Cardinality(C) \in Nat
    BY <1>3, FS_CardinalityType
  <1>6. Cardinality(B) < Cardinality(C)
    BY <1>4, <1>5
  <1> QED
    BY <1>6 DEF B, C, ControlIds

(* So there are as many ids as probes.                                       *)
LEMMA ControlIdsAreAsMany ==
  ASSUME NEW S \in SUBSET Probes
  PROVE  Cardinality(Range(ControlIds(S))) = Cardinality(S)
  <1> DEFINE f == ControlIds(S)
             T == Range(f)
  <1>1. IsFiniteSet(S) /\ S \subseteq Nat
    BY ProberAssumption, FS_Subset
  <1>2. f \in [S -> T] /\ \A t \in T : \E p \in S : f[p] = t
    BY DEF ControlIds, Range
  <1>3. \A p \in S : f[p] \in Int
    BY ControlIdsAreBounded
  <1>4. ASSUME NEW p \in S, NEW q \in S, f[p] = f[q] PROVE p = q
    <2>1. ~(p < q)
      BY <1>3, <1>4, ControlIdsGrow
    <2>2. ~(q < p)
      BY <1>3, <1>4, ControlIdsGrow
    <2> QED
      BY <1>1, <2>1, <2>2
  <1> HIDE DEF f, T
  <1>5. f \in Bijection(S, T)
    BY <1>2, <1>4 DEF Bijection, Injection, Surjection, IsInjective
  <1>6. ExistsBijection(S, T)
    BY <1>5 DEF ExistsBijection
  <1>7. Cardinality(T) = Cardinality(S)
    BY <1>1, <1>6, FS_Bijection
  <1> QED
    BY <1>7 DEF f, T
-----------------------------------------------------------------------------
\* What the streams are as far as the invariant looks at them.
streams == <<opened, openedRings, mProbeInjectors, probePointMap, mProbePointMap, replaced>>

LEMMA InitIsCorrect == Init => IInv
  <1> SUFFICES ASSUME Init PROVE IInv
    OBVIOUS
  <1>1. MapsInv
    BY DEF Init, MapsInv, Steps
  <1>2. WiredInv /\ ExactInv
    BY DEF Init, WiredInv, ExactInv, Closed, Starting
  <1>3. PacketsInv
    BY DEF Init, PacketsInv, NoForeignPackets
  <1>4. TypesInv
    BY ProberAssumption DEF Init, TypesInv, Sessions
  <1> QED
    BY <1>1, <1>2, <1>3, <1>4 DEF IInv

(* The configuration of a start does not change while it runs.               *)
LEMMA SameProbes ==
  ASSUME UNCHANGED config
  PROVE  /\ Ext' = Ext /\ Inj' = Inj /\ \A p : PointOf(p)' = PointOf(p)
         /\ mExtractionProbeMap' = mExtractionProbeMap /\ mInjectionProbeMap' = mInjectionProbeMap
  BY DEF config, Ext, Inj, ExtractionProbes, InjectionProbes, PointOf

(* Giving the probes their control ids opens nothing.                        *)
LEMMA ConfiguringIsCorrect ==
  ASSUME ~ReconfigureWhileActive, MapsInv, WiredInv, ExactInv,
         SetProbesConfig \/ MapProbes \/ SetStateActive
  PROVE  MapsInv' /\ WiredInv' /\ ExactInv'
  <1>0. Range(<<>>) = {}
    BY DEF Range
  <1>1. CASE SetProbesConfig
    <2>1. ~mIsActiveState /\ ~mIsActiveState' /\ step' \in {"map", "idle"} /\ step = "idle"
      BY <1>1, Zenon DEF SetProbesConfig
    <2>2. UNCHANGED <<streams, extractor, escapes>>
      BY <1>1 DEF SetProbesConfig, extraction, queues, injection, streams
    <2>3. mIsActiveState' \in BOOLEAN
      BY <1>1, Zenon DEF SetProbesConfig, MapsInv
    <2>4. ExactInv'
      BY <2>1, <2>2 DEF ExactInv, Closed, Starting, streams
    <2> QED
      BY <2>1, <2>3, <2>4 DEF MapsInv, WiredInv, Steps
  <1>2. CASE MapProbes
    <2>1. ~mIsActiveState /\ mIsActiveState' = mIsActiveState /\ step = "map"
      BY <1>2 DEF MapProbes, MapsInv
    <2>2. UNCHANGED <<streams, extractor, escapes>> /\ step' \in {"setState", "idle"}
      BY <1>2 DEF MapProbes, extraction, queues, injection, streams
    <2>3. step' = "setState" =>
            mExtractionProbeMap' = ControlIds(Ext)' /\ mInjectionProbeMap' = ControlIds(Inj)'
      BY <1>2 DEF MapProbes, Ext, Inj
    <2>4. ExactInv'
      BY <2>1, <2>2 DEF ExactInv, Closed, Starting, streams
    <2> QED
      BY <2>1, <2>2, <2>3, <2>4 DEF MapsInv, WiredInv, Steps
  <1>3. CASE SetStateActive
    <2>1. ~mIsActiveState /\ mIsActiveState' = mIsActiveState /\ step = "setState"
      BY <1>3 DEF SetStateActive, MapsInv
    <2>2. step' = "openQueue" /\ probePointMap' = <<>> /\ remaining' = Ext
      BY <1>3, <2>1 DEF SetStateActive, Ext
    <2>3. UNCHANGED <<config, mProbePointMap, extractor, replaced, opened, openedRings,
                      mProbeInjectors, escapes>>
      BY <1>3 DEF SetStateActive, queues, injection
    <2>4. MapsInv'
      BY <2>1, <2>2, <2>3, SameProbes DEF MapsInv, Steps
    <2>5. WiredInv'
      BY <2>2, <2>3, SameProbes DEF WiredInv
    <2>6. ASSUME escapes = 0 PROVE Known' /\ extractor' = "none" /\ DOMAIN replaced' = {}
      <3>1. Closed /\ DOMAIN replaced = {}
        BY <2>1, <2>6 DEF ExactInv
      <3>2. Range(mProbePointMap) = {}
        BY <3>1 DEF Closed, Range
      <3> QED
        BY <1>0, <2>2, <2>3, <3>1, <3>2 DEF Known, Closed
    <2>7. ExactInv'
      BY <2>1, <2>2, <2>3, <2>6 DEF ExactInv
    <2> QED
      BY <2>4, <2>5, <2>7
  <1> QED
    BY <1>1, <1>2, <1>3

(* Stopping closes what the maps know.                                       *)
LEMMA StoppingIsCorrect ==
  ASSUME MapsInv, WiredInv, ExactInv,
         SetStateInactive \/ Abandon \/ StopThreads \/ CloseQueues
  PROVE  MapsInv' /\ WiredInv' /\ ExactInv'
  <1>0. Range(<<>>) = {} /\ DOMAIN <<>> = {}
    BY DEF Range
  <1>1. CASE SetStateInactive
    <2>1. UNCHANGED <<config, streams, extractor, mIsActiveState, escapes>> /\ step = "idle"
      BY <1>1 DEF SetStateInactive, streams, queues, injection, extraction
    <2>2. CASE ~mIsActiveState
      <3>1. step' = "idle"
        BY <1>1, <2>2 DEF SetStateInactive
      <3>2. ExactInv'
        BY <2>1, <2>2, <3>1 DEF ExactInv, Closed, Starting, streams
      <3> QED
        BY <2>1, <2>2, <3>1, <3>2 DEF MapsInv, WiredInv, Steps
    <2>3. CASE mIsActiveState
      <3>1. step' = "stopThreads"
        BY <1>1, <2>3 DEF SetStateInactive
      <3>2. MapsInv' /\ WiredInv'
        BY <2>1, <2>3, <3>1, SameProbes DEF MapsInv, WiredInv, Steps
      <3>3. Known => Known'
        BY <2>1 DEF Known, streams, config
      <3>4. ExactInv'
        BY <2>1, <2>3, <3>1, <3>3 DEF ExactInv, streams
      <3> QED
        BY <3>2, <3>4
    <2> QED
      BY <2>2, <2>3
  <1>2. CASE Abandon
    <2>1. /\ UNCHANGED <<config, streams, mIsActiveState, extractor, escapes>>
          /\ step = "abandon" /\ step' = "stopThreads"
      BY <1>2 DEF Abandon, streams, queues, injection, extraction
    <2>2. MapsInv' /\ WiredInv'
      BY <2>1, SameProbes DEF MapsInv, WiredInv, Steps
    <2>3. Known => Known'
      BY <2>1 DEF Known, streams, config
    <2>4. ~mIsActiveState
      BY <2>1 DEF MapsInv
    <2> QED
      BY <2>1, <2>2, <2>3, <2>4 DEF ExactInv, streams
  <1>3. CASE StopThreads
    <2>1. /\ UNCHANGED <<config, opened, openedRings, probePointMap, replaced, mIsActiveState, escapes>>
          /\ step = "stopThreads" /\ step' = "closeQueues"
          /\ extractor' = "none" /\ mProbeInjectors' = {} /\ mProbePointMap' = <<>>
      BY <1>3 DEF StopThreads, queues
    <2>2. MapsInv' /\ WiredInv'
      BY <2>1, SameProbes DEF MapsInv, WiredInv, Steps
    <2>3. Known => Known'
      BY <1>0, <2>1 DEF Known, config
    <2> QED
      BY <1>0, <2>1, <2>2, <2>3 DEF ExactInv
  <1>4. CASE CloseQueues
    <2>1. /\ step = "closeQueues" /\ step' = "idle" /\ mIsActiveState' = FALSE
          /\ UNCHANGED <<extractor, mProbeInjectors, mProbePointMap, replaced, escapes>>
          /\ opened' = opened \ Range(mExtractionProbeMap)
          /\ openedRings' = openedRings \ Range(mInjectionProbeMap)
      BY <1>4 DEF CloseQueues, extraction
    <2>2. ExactInv'
      BY <2>1 DEF ExactInv, Known, Closed, Starting
    <2> QED
      BY <2>1, <2>2 DEF MapsInv, WiredInv, Steps
  <1> QED
    BY <1>1, <1>2, <1>3, <1>4

(* Opening goes through the probes in their order, one after the other.      *)
LEMMA OpeningQueuesIsCorrect ==
  ASSUME MapsInv, WiredInv, ExactInv, OpenExtractionQueue
  PROVE  MapsInv' /\ WiredInv' /\ ExactInv'
  <1> DEFINE p == First(remaining)
  <1>0. Range(<<>>) = {}
    BY DEF Range
  <1>1. /\ step = "openQueue" /\ remaining # {} /\ remaining \subseteq Ext
        /\ \A q \in Ext \ remaining : Served(probePointMap, q)
    BY DEF OpenExtractionQueue, WiredInv
  <1>2. ~mIsActiveState /\ mExtractionProbeMap = ControlIds(Ext)
    BY <1>1 DEF MapsInv
  <1>3. p \in remaining /\ p \in Ext
    <2>1. Ext \in SUBSET Probes
      BY DEF Ext, ExtractionProbes
    <2> QED
      BY <1>1, <2>1, FirstIsOneOfThem
  <1>4. DOMAIN mExtractionProbeMap = Ext
    BY <1>2 DEF ControlIds
  <1>5. UNCHANGED <<config, mIsActiveState, mProbePointMap, replaced, extractor, openedRings,
                    mProbeInjectors, escapes>>
    BY DEF OpenExtractionQueue, injection
  <1> HIDE DEF p
  <1>6. /\ opened' = opened \cup {mExtractionProbeMap[p]}
        /\ \/ step' = "abandon" /\ probePointMap' = <<>>
           \/ /\ step' = "openQueue" /\ remaining' = remaining \ {p}
              /\ PointOf(p) \notin DOMAIN probePointMap
              /\ probePointMap' = [x \in DOMAIN probePointMap \cup {PointOf(p)} |->
                                     IF x = PointOf(p) THEN mExtractionProbeMap[p]
                                                       ELSE probePointMap[x]]
    BY <1>1, <1>3, <1>4 DEF OpenExtractionQueue, p, PointOf
  <1>7. MapsInv'
    BY <1>1, <1>2, <1>5, <1>6, SameProbes DEF MapsInv, Steps
  <1>8. mExtractionProbeMap[p] \in Range(mExtractionProbeMap)
    BY <1>3, <1>4 DEF Range
  <1>9. Range(probePointMap') \subseteq Range(probePointMap) \cup {mExtractionProbeMap[p]}
    BY <1>0, <1>6 DEF Range
  <1>10. Known => Known'
    BY <1>5, <1>6, <1>8, <1>9, SameProbes DEF Known
  <1>11. ExactInv'
    BY <1>1, <1>2, <1>5, <1>6, <1>10 DEF ExactInv, Starting
  <1>12. WiredInv'
    <2>1. CASE step' = "abandon"
      BY <2>1 DEF WiredInv
    <2>2. CASE step' = "openQueue"
      <3>1. /\ remaining' = remaining \ {p}
            /\ PointOf(p) \notin DOMAIN probePointMap
            /\ DOMAIN probePointMap' = DOMAIN probePointMap \cup {PointOf(p)}
            /\ probePointMap'[PointOf(p)] = mExtractionProbeMap[p]
            /\ \A x \in DOMAIN probePointMap : probePointMap'[x] = probePointMap[x]
        BY <1>6, <2>2
      <3>2. ASSUME NEW q \in Ext' \ remaining' PROVE Served(probePointMap, q)'
        <4>1. q = p \/ q \in Ext \ remaining
          BY <1>5, <3>1, <3>2, SameProbes
        <4>2. CASE q = p
          BY <1>5, <1>6, <3>1, <4>2, SameProbes DEF Served
        <4>3. CASE q \in Ext \ remaining
          BY <1>1, <1>5, <1>6, <3>1, <4>3, SameProbes DEF Served
        <4> QED
          BY <4>1, <4>2, <4>3
      <3>3. remaining' \subseteq Ext'
        BY <1>1, <1>5, <3>1, SameProbes
      <3> QED
        BY <2>2, <3>2, <3>3 DEF WiredInv
    <2> QED
      BY <1>6, <2>1, <2>2
  <1> QED
    BY <1>7, <1>11, <1>12

LEMMA OpeningRingsIsCorrect ==
  ASSUME MapsInv, WiredInv, ExactInv, TypesInv, NewInjector
  PROVE  MapsInv' /\ WiredInv' /\ ExactInv'
  <1> DEFINE p == First(remaining)
  <1>1. /\ step = "openRing" /\ remaining # {} /\ remaining \subseteq Inj
        /\ \A q \in Inj \ remaining : Injected(q)
        /\ \A q \in Ext : Served(mProbePointMap, q)
    BY DEF NewInjector, WiredInv
  <1>2. ~mIsActiveState /\ mInjectionProbeMap = ControlIds(Inj)
    BY <1>1 DEF MapsInv
  <1>3. p \in remaining /\ p \in Inj
    <2>1. Inj \in SUBSET Probes
      BY DEF Inj, InjectionProbes
    <2> QED
      BY <1>1, <2>1, FirstIsOneOfThem
  <1>4. DOMAIN mInjectionProbeMap = Inj
    BY <1>2 DEF ControlIds
  <1>5. UNCHANGED <<config, mIsActiveState, opened, probePointMap, mProbePointMap, replaced, extractor>>
    BY DEF NewInjector, extraction, queues
  <1> HIDE DEF p
  <1>6. /\ openedRings' = openedRings \cup {mInjectionProbeMap[p]}
        /\ \/ step' = "abandon" /\ UNCHANGED <<mProbeInjectors, escapes>>
           \/ step' = "idle" /\ escapes' = escapes + 1
           \/ /\ step' = "openRing" /\ remaining' = remaining \ {p} /\ UNCHANGED escapes
              /\ mProbeInjectors' = mProbeInjectors \cup {mInjectionProbeMap[p]}
    BY <1>1, <1>3, <1>4 DEF NewInjector, Escape, p
  <1>7. MapsInv'
    BY <1>1, <1>2, <1>5, <1>6, SameProbes DEF MapsInv, Steps
  <1>8. mInjectionProbeMap[p] \in Range(mInjectionProbeMap)
    BY <1>3, <1>4 DEF Range
  <1>9. CASE step' = "idle" /\ escapes' = escapes + 1
    <2>1. escapes' # 0
      BY <1>9 DEF TypesInv
    <2> QED
      BY <1>2, <1>5, <1>7, <1>9, <2>1 DEF ExactInv, WiredInv
  <1>10. ASSUME UNCHANGED escapes, step' \in {"abandon", "openRing"},
                mProbeInjectors' \subseteq mProbeInjectors \cup {mInjectionProbeMap[p]}
         PROVE  ExactInv'
    <2>1. Known => Known'
      BY <1>5, <1>6, <1>8, <1>10, SameProbes DEF Known
    <2> QED
      BY <1>1, <1>2, <1>5, <1>10, <2>1 DEF ExactInv, Starting
  <1>11. CASE step' = "abandon" /\ UNCHANGED <<mProbeInjectors, escapes>>
    BY <1>7, <1>10, <1>11 DEF WiredInv
  <1>12. CASE /\ step' = "openRing" /\ remaining' = remaining \ {p} /\ UNCHANGED escapes
              /\ mProbeInjectors' = mProbeInjectors \cup {mInjectionProbeMap[p]}
    <2>1. ASSUME NEW q \in Inj' \ remaining' PROVE Injected(q)'
      <3>1. q = p \/ q \in Inj \ remaining
        BY <1>5, <1>12, <2>1, SameProbes
      <3> QED
        BY <1>1, <1>5, <1>6, <1>12, <3>1, SameProbes DEF Injected
    <2>2. ASSUME NEW q \in Ext' PROVE Served(mProbePointMap, q)'
      BY <1>1, <1>5, <2>2, SameProbes DEF Served
    <2>3. remaining' \subseteq Inj'
      BY <1>1, <1>5, <1>12, SameProbes
    <2>4. WiredInv'
      BY <1>12, <2>1, <2>2, <2>3 DEF WiredInv
    <2> QED
      BY <1>7, <1>10, <1>12, <2>4
  <1> QED
    BY <1>6, <1>9, <1>11, <1>12

(* The new extractor takes its map over, the old one, if any, is destroyed.  *)
LEMMA NewExtractorIsCorrect ==
  ASSUME MapsInv, WiredInv, ExactInv, TypesInv, NewExtractor
  PROVE  MapsInv' /\ WiredInv' /\ ExactInv'
  <1>0. Range(<<>>) = {} /\ DOMAIN <<>> = {}
    BY DEF Range
  <1>1. /\ step = "openQueue" /\ remaining = {} /\ probePointMap' = <<>>
        /\ UNCHANGED <<config, mIsActiveState, opened, openedRings, mProbeInjectors>>
    BY DEF NewExtractor, injection
  <1>2. ~mIsActiveState
    BY <1>1 DEF MapsInv
  <1>3. \A p \in Ext : Served(probePointMap, p)
    BY <1>1 DEF WiredInv
  <1>4. step' \in {"openRing", "replace", "abandon", "idle"}
    BY DEF NewExtractor, Escape
  <1>5. MapsInv'
    BY <1>1, <1>2, <1>4, SameProbes DEF MapsInv, Steps
  <1>6. CASE Escape
    <2>1. escapes' # 0 /\ step' = "idle"
      BY <1>6 DEF Escape, TypesInv
    <2> QED
      BY <1>1, <1>2, <1>5, <2>1 DEF ExactInv, WiredInv
  <1>7. CASE step' = "abandon" /\ UNCHANGED <<mProbePointMap, extractor, replaced, escapes>>
    <2>1. Known => Known'
      BY <1>0, <1>1, <1>7, SameProbes DEF Known
    <2> QED
      BY <1>1, <1>2, <1>5, <1>7, <2>1 DEF ExactInv, WiredInv, Starting
  <1>8. ASSUME step' \in {"openRing", "replace"}, remaining' = InjectionProbes(mCachedProbeConfig),
               \A p \in Ext : Served(mProbePointMap', p)
        PROVE  WiredInv'
    <2>1. remaining' = Inj'
      BY <1>1, <1>8, SameProbes DEF Inj
    <2>2. ASSUME NEW p \in Ext' PROVE Served(mProbePointMap, p)'
      BY <1>1, <1>8, <2>2, SameProbes DEF Served
    <2> QED
      BY <1>8, <2>1, <2>2 DEF WiredInv
  <1>9. CASE /\ probePointMap = <<>> /\ step' = "openRing"
             /\ remaining' = InjectionProbes(mCachedProbeConfig)
             /\ UNCHANGED <<mProbePointMap, extractor, replaced, escapes>>
    <2>1. Ext = {}
      BY <1>0, <1>3, <1>9 DEF Served
    <2>2. Known => Known'
      BY <1>0, <1>1, <1>9, SameProbes DEF Known
    <2> QED
      BY <1>1, <1>2, <1>5, <1>8, <1>9, <2>1, <2>2 DEF ExactInv, Starting
  <1>10. CASE /\ mProbePointMap' = probePointMap
              /\ replaced' = (IF extractor = "running" THEN mProbePointMap ELSE <<>>)
              /\ step' = (IF extractor = "none" THEN "openRing" ELSE "replace")
              /\ remaining' = InjectionProbes(mCachedProbeConfig)
              /\ UNCHANGED escapes
    <2>1. Known => Known'
      BY <1>0, <1>1, <1>10, SameProbes DEF Known
    <2>2. ExactInv'
      BY <1>0, <1>1, <1>2, <1>10, <2>1 DEF ExactInv, Starting
    <2> QED
      BY <1>3, <1>5, <1>8, <1>10, <2>2
  <1> QED
    BY <1>6, <1>7, <1>9, <1>10 DEF NewExtractor

(* Between the queues and the rings, and after them, nothing changes hands.  *)
LEMMA HandingOverIsCorrect ==
  ASSUME MapsInv, WiredInv, ExactInv, DestroyReplaced \/ Started
  PROVE  MapsInv' /\ WiredInv' /\ ExactInv'
  <1>1. /\ UNCHANGED <<config, opened, openedRings, mProbeInjectors, probePointMap, mProbePointMap,
                       remaining, escapes>>
        /\ step \in {"replace", "openRing"} /\ step' \in {"openRing", "idle"}
    BY DEF DestroyReplaced, Started, extraction, queues, injection
  <1>2. ~mIsActiveState
    BY <1>1 DEF MapsInv
  <1>3. \A p : /\ Served(mProbePointMap, p)' <=> Served(mProbePointMap, p)
               /\ Injected(p)' <=> Injected(p)
    BY <1>1, SameProbes DEF Served, Injected
  <1>4. Known => Known'
    BY <1>1, SameProbes DEF Known
  <1>5. CASE DestroyReplaced
    <2>1. step = "replace" /\ step' = "openRing" /\ mIsActiveState' = mIsActiveState
      BY <1>5 DEF DestroyReplaced
    <2>2. escapes # 0
      BY <2>1 DEF ExactInv
    <2>3. MapsInv' /\ ExactInv'
      BY <1>1, <1>2, <2>1, <2>2, SameProbes DEF MapsInv, ExactInv, Steps
    <2>4. WiredInv'
      BY <1>1, <1>2, <1>3, <2>1, SameProbes DEF WiredInv
    <2> QED
      BY <2>3, <2>4
  <1>6. CASE Started
    <2>1. /\ step = "openRing" /\ remaining = {} /\ step' = "idle" /\ mIsActiveState' = TRUE
          /\ UNCHANGED <<extractor, replaced>>
      BY <1>6 DEF Started, extraction
    <2>2. MapsInv'
      BY <1>1, <2>1, SameProbes DEF MapsInv, Steps
    <2>3. ExactInv'
      BY <1>1, <1>4, <2>1 DEF ExactInv, Starting
    <2>4. WiredInv'
      BY <1>1, <1>3, <2>1, SameProbes DEF WiredInv
    <2> QED
      BY <2>2, <2>3, <2>4
  <1> QED
    BY <1>5, <1>6

(* The other threads neither open nor close anything.                        *)
LEMMA OthersAreCorrect ==
  ASSUME MapsInv, WiredInv, ExactInv,
         \/ SetConfiguration \/ Extract \/ UNCHANGED vars
         \/ \E p \in Probes : FindControl(p) \/ Remove(p)
  PROVE  MapsInv' /\ WiredInv' /\ ExactInv'
  <1>1. UNCHANGED <<config, streams, step, remaining, mIsActiveState, escapes>>
    BY DEF SetConfiguration, Extract, FindControl, Remove, vars, streams, extraction, queues, injection
  <1>2. MapsInv'
    BY <1>1, SameProbes DEF MapsInv
  <1>3. extractor' = extractor \/ (extractor = "running" /\ extractor' = "done")
    BY DEF SetConfiguration, Extract, FindControl, Remove, vars, extraction
  <1>4. \A p : /\ Served(mProbePointMap, p)' <=> Served(mProbePointMap, p)
               /\ Served(probePointMap, p)' <=> Served(probePointMap, p)
               /\ Injected(p)' <=> Injected(p)
    BY <1>1, SameProbes DEF Served, Injected, streams
  <1>5. (Known => Known') /\ (Closed => Closed')
    BY <1>1, <1>3, SameProbes DEF Known, Closed, streams
  <1>6. WiredInv'
    BY <1>1, <1>4, SameProbes DEF WiredInv
  <1>7. ExactInv'
    BY <1>1, <1>3, <1>5 DEF ExactInv, streams
  <1> QED
    BY <1>2, <1>6, <1>7
-----------------------------------------------------------------------------
(* No extractor exists while the next one is prepared.                       *)
LEMMA ExtractorSteps ==
  ASSUME MapsInv, ExactInv, escapes = 0
  PROVE  /\ step \in {"setState", "openQueue"} => extractor = "none"
         /\ DOMAIN replaced = {}
  BY DEF MapsInv, ExactInv, Closed

(* A packet is put at the end of a queue that exists, or dropped.            *)
LEMMA EnqueueAppends ==
  ASSUME packets \in [ExtractionControls -> Seq(Points \X Sessions)],
         NEW map, NEW parity, Enqueue(map, parity)
  PROVE  \/ packets' = packets
         \/ \E point \in DOMAIN map : \E c \in ExtractionControls :
              /\ c = map[point] /\ Len(packets[c]) < QueueMaxPackets
              /\ packets' = [packets EXCEPT ![c] = Append(packets[c], <<point, parity>>)]
  <1> PICK point \in DOMAIN map :
        LET c == map[point]
        IN  packets' = [packets EXCEPT ![c] = IF c \in opened /\ Len(@) < QueueMaxPackets
                                              THEN Append(@, <<point, parity>>) ELSE @]
    BY DEF Enqueue
  <1> DEFINE c == map[point]
  <1>1. CASE c \in opened /\ Len(packets[c]) < QueueMaxPackets
    <2>1. packets' = [packets EXCEPT ![c] = Append(packets[c], <<point, parity>>)]
      BY <1>1
    <2>2. c \notin ExtractionControls => packets' = packets
      BY <2>1
    <2> QED
      BY <1>1, <2>1, <2>2
  <1>2. CASE ~(c \in opened /\ Len(packets[c]) < QueueMaxPackets)
    <2>1. packets' = packets
      BY <1>2
    <2> QED
      BY <2>1
  <1> QED
    BY <1>1, <1>2

LEMMA TypesAreCorrect ==
  ASSUME WiredInv, TypesInv, [Next]_vars
  PROVE  TypesInv'
  <1>1. CASE SetConfiguration
    BY <1>1, ProberAssumption DEF SetConfiguration, TypesInv, extraction, config
  <1>2. CASE SetProbesConfig
    BY <1>2 DEF SetProbesConfig, TypesInv, extraction
  <1>3. CASE OpenExtractionQueue
    <2>1. UNCHANGED <<mProbeConfigs, mCachedProbeConfig, mProbePointMap, replaced, session, escapes>>
      BY <1>3 DEF OpenExtractionQueue, config
    <2>2. DOMAIN probePointMap' \subseteq
            DOMAIN probePointMap \cup {mCachedProbeConfig[First(remaining)].point}
      BY <1>3 DEF OpenExtractionQueue
    <2>3. First(remaining) \in Probes
      <3>1. remaining \in SUBSET Probes /\ remaining # {}
        BY <1>3 DEF OpenExtractionQueue, WiredInv, Ext, ExtractionProbes
      <3> QED
        BY <3>1, FirstIsOneOfThem
    <2> QED
      BY <2>1, <2>2, <2>3 DEF TypesInv, AllConfigs
  <1>4. CASE SetStateActive \/ StopThreads \/ DestroyReplaced
    BY <1>4 DEF SetStateActive, StopThreads, DestroyReplaced, TypesInv, config
  <1>5. CASE NewExtractor
    <2>1. /\ UNCHANGED <<mProbeConfigs, mCachedProbeConfig>> /\ probePointMap' = <<>>
          /\ mProbePointMap' \in {mProbePointMap, probePointMap}
          /\ replaced' \in {replaced, mProbePointMap, <<>>}
          /\ session' \in {session, 1 - session} /\ escapes' \in {escapes, escapes + 1}
      BY <1>5 DEF NewExtractor, Escape, config
    <2> QED
      BY <2>1 DEF TypesInv, Sessions
  <1>6. CASE NewInjector
    <2>1. /\ UNCHANGED <<mProbeConfigs, mCachedProbeConfig, extraction>>
          /\ escapes' \in {escapes, escapes + 1}
      BY <1>6 DEF NewInjector, Escape, injection, config
    <2> QED
      BY <2>1 DEF TypesInv, extraction
  <1>7. CASE \/ SetStateInactive \/ MapProbes \/ Started \/ Abandon \/ CloseQueues
             \/ Extract \/ UNCHANGED vars \/ \E p \in Probes : FindControl(p) \/ Remove(p)
    BY <1>7 DEF SetStateInactive, MapProbes, Started, Abandon, CloseQueues, Extract,
         FindControl, Remove, vars, extraction, config, TypesInv
  <1> QED
    BY <1>1, <1>2, <1>3, <1>4, <1>5, <1>6, <1>7 DEF Next, Client

LEMMA PacketsAreCorrect ==
  ASSUME MapsInv, ExactInv, TypesInv, PacketsInv, [Next]_vars
  PROVE  PacketsInv'
  <1>1. CASE UNCHANGED <<packets, mProbePointMap, extractor, session, escapes>>
    BY <1>1 DEF PacketsInv, NoForeignPackets
  <1>2. CASE \/ SetConfiguration \/ SetProbesConfig \/ SetStateInactive \/ MapProbes
             \/ SetStateActive \/ OpenExtractionQueue \/ DestroyReplaced
             \/ Started \/ Abandon \/ CloseQueues
             \/ UNCHANGED vars \/ \E p \in Probes : FindControl(p)
    BY <1>1, <1>2 DEF SetConfiguration, SetProbesConfig, SetStateInactive, MapProbes, SetStateActive,
       OpenExtractionQueue, DestroyReplaced, Started, Abandon, CloseQueues, FindControl, vars,
       extraction, queues
  <1>3. CASE StopThreads
    <2>1. extractor' = "none" /\ packets' = packets
      BY <1>3 DEF StopThreads, queues
    <2> QED
      BY <2>1 DEF PacketsInv, NoForeignPackets
  <1>4. ASSUME Escape, packets' \in {packets, [c \in ExtractionControls |-> <<>>]}
        PROVE  PacketsInv'
    <2>1. escapes' # 0
      BY <1>4 DEF Escape, TypesInv
    <2>2. NoForeignPackets'
      BY <2>1, Zenon DEF NoForeignPackets
    <2>3. <<>> \in Seq(Points \X Sessions)
      OBVIOUS
    <2>4. CASE packets' = packets
      BY <2>2, <2>4 DEF PacketsInv
    <2>5. CASE packets' = [c \in ExtractionControls |-> <<>>]
      BY <2>2, <2>3, <2>5 DEF PacketsInv
    <2> QED
      BY <1>4, <2>4, <2>5
  <1>5. CASE NewInjector
    <2>1. UNCHANGED <<packets, mProbePointMap, extractor, session>> /\ (Escape \/ UNCHANGED escapes)
      BY <1>5 DEF NewInjector, extraction, queues, injection
    <2> QED
      BY <1>1, <1>4, <2>1
  <1>6. CASE NewExtractor
    <2>1. CASE packets' = [c \in ExtractionControls |-> <<>>]
      BY <2>1 DEF PacketsInv, NoForeignPackets
    <2> QED
      BY <1>1, <1>4, <1>6, <2>1 DEF NewExtractor
  <1>7. CASE Extract
    <2>0. /\ UNCHANGED <<mProbePointMap, session, escapes>>
          /\ packets \in [ExtractionControls -> Seq(Points \X Sessions)]
      BY <1>7 DEF Extract, PacketsInv
    <2>1. CASE packets' = packets /\ extractor' = "done" /\ extractor = "running"
      BY <2>0, <2>1 DEF PacketsInv, NoForeignPackets
    <2>2. ASSUME NEW map, NEW parity \in Sessions, DOMAIN map \subseteq Points,
                 Enqueue(map, parity), UNCHANGED extractor,
                 escapes = 0 => map = mProbePointMap /\ parity = session
          PROVE  PacketsInv'
      <3>1. CASE packets' = packets
        BY <1>1, <2>0, <2>2, <3>1
      <3>2. ASSUME NEW point \in DOMAIN map, NEW c \in ExtractionControls, c = map[point],
                   packets' = [packets EXCEPT ![c] = Append(packets[c], <<point, parity>>)]
            PROVE  PacketsInv'
        <4> DEFINE packet == <<point, parity>>
                   q == packets[c]
                   r == Append(q, packet)
        <4>1. q \in Seq(Points \X Sessions) /\ r \in Seq(Points \X Sessions)
          BY <2>0, <2>2
        <4>2. \A i \in DOMAIN r : r[i] = packet \/ (i \in DOMAIN q /\ r[i] = q[i])
          BY <4>1
        <4>3. packets' \in [ExtractionControls -> Seq(Points \X Sessions)]
          BY <2>0, <3>2, <4>1
        <4>4. packets'[c] = r /\ \A d \in ExtractionControls : d # c => packets'[d] = packets[d]
          BY <2>0, <3>2
        <4> HIDE DEF r
        <4>5. ASSUME extractor # "none", escapes = 0, NEW i \in DOMAIN r
              PROVE  /\ r[i][2] = session /\ r[i][1] \in DOMAIN mProbePointMap
                     /\ mProbePointMap[r[i][1]] = c
          BY <2>2, <3>2, <4>2, <4>5 DEF PacketsInv, NoForeignPackets
        <4>6. ASSUME extractor # "none", escapes = 0, NEW d \in ExtractionControls, d # c
              PROVE  \A i \in DOMAIN packets'[d] :
                       /\ packets'[d][i][2] = session /\ packets'[d][i][1] \in DOMAIN mProbePointMap
                       /\ mProbePointMap[packets'[d][i][1]] = d
          BY <4>4, <4>6 DEF PacketsInv, NoForeignPackets
        <4>7. NoForeignPackets'
          BY <2>0, <2>2, <4>4, <4>5, <4>6 DEF NoForeignPackets
        <4> QED
          BY <4>3, <4>7 DEF PacketsInv
      <3>3. \/ packets' = packets
            \/ \E point \in DOMAIN map : \E c \in ExtractionControls :
                 /\ c = map[point]
                 /\ packets' = [packets EXCEPT ![c] = Append(packets[c], <<point, parity>>)]
        <4>1. packets \in [ExtractionControls -> Seq(Points \X Sessions)]
          BY <2>0
        <4>2. Enqueue(map, parity)
          BY <2>2
        <4>3. \/ packets' = packets
              \/ \E point \in DOMAIN map : \E c \in ExtractionControls :
                   /\ c = map[point] /\ Len(packets[c]) < QueueMaxPackets
                   /\ packets' = [packets EXCEPT ![c] = Append(packets[c], <<point, parity>>)]
          BY ONLY <4>1, <4>2, EnqueueAppends
        <4> QED
          BY ONLY <4>3
      <3> QED
        BY <3>1, <3>2, <3>3
    <2>3. CASE Enqueue(mProbePointMap, session) /\ UNCHANGED extractor
      BY <2>2, <2>3 DEF TypesInv
    <2>4. CASE Enqueue(replaced, 1 - session) /\ UNCHANGED extractor
      <3>1. escapes # 0
        BY <2>4, ExtractorSteps DEF Enqueue
      <3>2. 1 - session \in Sessions /\ DOMAIN replaced \subseteq Points
        BY DEF TypesInv, Sessions
      <3> QED
        BY <2>2, <2>4, <3>1, <3>2
    <2> QED
      BY <1>7, <2>1, <2>3, <2>4 DEF Extract
  <1>8. ASSUME NEW p \in Probes, Remove(p) PROVE PacketsInv'
    <2>1. UNCHANGED <<mProbePointMap, session, extractor, escapes>>
      BY <1>8 DEF Remove, extraction
    <2>2. CASE packets' = packets
      BY <1>1, <2>1, <2>2
    <2>3. ASSUME NEW c, packets[c] # <<>>, packets' = [packets EXCEPT ![c] = Tail(@)]
          PROVE  PacketsInv'
      <3>1. CASE c \notin ExtractionControls
        <4>1. packets' = packets
          BY <2>3, <3>1 DEF PacketsInv
        <4> QED
          BY <2>2, <4>1
      <3>2. CASE c \in ExtractionControls
        <4> DEFINE q == packets[c]
                   r == Tail(q)
        <4>1. q \in Seq(Points \X Sessions) /\ q # <<>>
          BY <2>3, <3>2 DEF PacketsInv
        <4>2. r \in Seq(Points \X Sessions)
          BY <4>1
        <4>3. \A i \in DOMAIN r : i + 1 \in DOMAIN q /\ r[i] = q[i + 1]
          BY <4>1
        <4>4. /\ packets' \in [ExtractionControls -> Seq(Points \X Sessions)]
              /\ packets'[c] = r /\ \A d \in ExtractionControls : d # c => packets'[d] = packets[d]
          BY <2>3, <3>2, <4>2 DEF PacketsInv
        <4> HIDE DEF r
        <4>5. ASSUME extractor # "none", escapes = 0, NEW i \in DOMAIN r
              PROVE  /\ r[i][2] = session /\ r[i][1] \in DOMAIN mProbePointMap
                     /\ mProbePointMap[r[i][1]] = c
          BY <3>2, <4>3, <4>5 DEF PacketsInv, NoForeignPackets
        <4> QED
          BY <2>1, <4>4, <4>5 DEF PacketsInv, NoForeignPackets
      <3> QED
        BY <3>1, <3>2
    <2> QED
      BY <1>8, <2>2, <2>3 DEF Remove
  <1> QED
    BY <1>2, <1>3, <1>5, <1>6, <1>7, <1>8 DEF Next, Client

LEMMA NextIsCorrect ==
  ASSUME ~ReconfigureWhileActive, IInv, [Next]_vars
  PROVE  IInv'
  <1>1. TypesInv' /\ PacketsInv'
    BY TypesAreCorrect, PacketsAreCorrect DEF IInv
  <1>2. MapsInv' /\ WiredInv' /\ ExactInv'
    BY ConfiguringIsCorrect, StoppingIsCorrect, OpeningQueuesIsCorrect, OpeningRingsIsCorrect,
       NewExtractorIsCorrect, HandingOverIsCorrect, OthersAreCorrect DEF IInv, Next, Client
  <1> QED
    BY <1>1, <1>2 DEF IInv

(* While nobody starts a started service: in an active service each probe    *)
(* has the open queue that is filled with the packets of its point, or its   *)
(* ring and its injector, whatever clients have changed in the configuration *)
(* since the start and whatever an escaped exception has left behind; and if *)
(* none has escaped nothing else is open, however many starts have failed.   *)
THEOREM SessionIsAlwaysWired == ~ReconfigureWhileActive => (Spec => []SessionIsWired)
  <1> SUFFICES ASSUME ~ReconfigureWhileActive PROVE Spec => []SessionIsWired
    OBVIOUS
  <1>1. ASSUME IInv, mIsActiveState, step = "idle"
        PROVE  /\ \A p \in Ext : /\ PointOf(p) \in DOMAIN mProbePointMap
                                 /\ p \in DOMAIN mExtractionProbeMap
                                 /\ mProbePointMap[PointOf(p)] = mExtractionProbeMap[p]
               /\ Range(mExtractionProbeMap) \subseteq opened
               /\ Range(mInjectionProbeMap) \subseteq openedRings \cap mProbeInjectors
               /\ Cardinality(Range(mInjectionProbeMap)) = Cardinality(Inj)
               /\ escapes = 0 =>
                    /\ opened = Range(mExtractionProbeMap) /\ opened = Range(mProbePointMap)
                    /\ openedRings = Range(mInjectionProbeMap) /\ mProbeInjectors = openedRings
    <2>1. /\ \A p \in Ext : Served(mProbePointMap, p)
          /\ \A p \in Inj : Injected(p)
      BY <1>1 DEF IInv, WiredInv
    <2>2. mExtractionProbeMap = ControlIds(Ext) /\ mInjectionProbeMap = ControlIds(Inj)
      BY <1>1 DEF IInv, MapsInv
    <2>3. DOMAIN mExtractionProbeMap = Ext /\ DOMAIN mInjectionProbeMap = Inj
      BY <2>2 DEF ControlIds
    <2>4. Range(mExtractionProbeMap) \subseteq opened \cap Range(mProbePointMap)
      BY <2>1, <2>3 DEF Served, Range
    <2>5. Range(mInjectionProbeMap) \subseteq openedRings \cap mProbeInjectors
      BY <2>1, <2>3 DEF Injected, Range
    <2>6. Inj \in SUBSET Probes
      BY DEF Inj, InjectionProbes
    <2>7. Cardinality(Range(mInjectionProbeMap)) = Cardinality(Inj)
      <3> HIDE DEF Inj
      <3> QED
        BY <2>2, <2>6, ControlIdsAreAsMany
    <2>8. escapes = 0 => Known
      BY <1>1 DEF IInv, ExactInv
    <2> QED
      BY <2>1, <2>3, <2>4, <2>5, <2>7, <2>8 DEF Served, Known
  <1>2. IInv => SessionIsWired
    BY <1>1 DEF SessionIsWired, Ext, Inj, PointOf
  <1> QED
    BY InitIsCorrect, NextIsCorrect, <1>2, PTL DEF Spec

(* While nobody starts a started service and no exception escapes from a     *)
(* start, a queue holds packets of the running session only, and only of the *)
(* probe point it belongs to.                                                *)
THEOREM PacketsAreNeverForeign == ~ReconfigureWhileActive => (Spec => []NoForeignPackets)
  <1> SUFFICES ASSUME ~ReconfigureWhileActive PROVE Spec => []NoForeignPackets
    OBVIOUS
  <1>1. IInv => NoForeignPackets
    BY DEF IInv, PacketsInv
  <1> QED
    BY InitIsCorrect, NextIsCorrect, <1>1, PTL DEF Spec

(* What a start of a started service breaks (StopClosesQueues) holds without *)
(* one: a service that is stopped, or whose starts have failed by exceptions *)
(* that setState() catches, leaves no queue open, nor any thread.            *)
THEOREM StopAlwaysClosesQueues == ~ReconfigureWhileActive => (Spec => []StopClosesQueues)
  <1> SUFFICES ASSUME ~ReconfigureWhileActive PROVE Spec => []StopClosesQueues
    OBVIOUS
  <1>1. IInv => StopClosesQueues
    BY DEF IInv, ExactInv, Closed, StopClosesQueues
  <1> QED
    BY InitIsCorrect, NextIsCorrect, <1>1, PTL DEF Spec
-----------------------------------------------------------------------------
(* The types, which hold however often a started service is started again.   *)

\* The maps give probes control ids that exist, as checked before they are made.
ConfigTyped ==
  /\ mProbeConfigs \in [Probes -> AllConfigs] /\ mCachedProbeConfig \in [Probes -> AllConfigs]
  /\ DOMAIN mExtractionProbeMap \subseteq Probes /\ DOMAIN mInjectionProbeMap \subseteq Probes
  /\ Range(mExtractionProbeMap) \subseteq ExtractionControls
  /\ Range(mInjectionProbeMap) \subseteq InjectionControls
  /\ step = "map" =>
       Cardinality(Ext) <= mMaxExtractionProbes /\ Cardinality(Inj) <= mMaxInjectionProbes

MapTyped(map) == DOMAIN map \subseteq Points /\ Range(map) \subseteq ExtractionControls

StreamsTyped ==
  /\ remaining \in SUBSET Probes
  /\ MapTyped(probePointMap) /\ MapTyped(mProbePointMap) /\ MapTyped(replaced)
  /\ mProbeInjectors \in SUBSET InjectionControls
  /\ opened \in SUBSET ExtractionControls /\ openedRings \in SUBSET InjectionControls

StepTyped ==
  /\ mIsActiveState \in BOOLEAN
  /\ step \in Steps /\ escapes \in 0 .. MaxEscapes
  /\ extractor \in {"none", "running", "done"} /\ session \in Sessions

PacketsTyped ==
  /\ packets \in [ExtractionControls -> Seq(Points \X Sessions)]
  /\ \A c \in ExtractionControls : Len(packets[c]) <= QueueMaxPackets

ReadersTyped ==
  /\ reader \in [Probes -> {"idle", "remove"}] /\ control \in [Probes -> Nat]
  /\ \A p \in Probes : reader[p] = "remove" => control[p] \in ExtractionControls

TypeInv == ConfigTyped /\ StreamsTyped /\ StepTyped /\ PacketsTyped /\ ReadersTyped

(* The ids of a loop over probes exist when there are enough of them: for    *)
(* all the probes, and for those before a control that cannot be written.    *)
LEMMA ControlIdsExist ==
  ASSUME NEW S \in SUBSET Probes, NEW max \in Nat, Cardinality(S) <= max, NEW T \in SUBSET S
  PROVE  DOMAIN ControlIds(T) \subseteq Probes /\ Range(ControlIds(T)) \subseteq 0 .. max - 1
  <1>1. IsFiniteSet(S) /\ IsFiniteSet(T) /\ T \in SUBSET Probes
    BY ProberAssumption, FS_Subset
  <1>2. Cardinality(T) <= Cardinality(S) /\ Cardinality(T) \in Nat /\ Cardinality(S) \in Nat
    BY <1>1, FS_Subset, FS_CardinalityType
  <1>3. \A p \in T : ControlIds(T)[p] \in 0 .. Cardinality(T) - 1
    BY <1>1, ControlIdsAreBounded
  <1>4. DOMAIN ControlIds(T) = T
    BY DEF ControlIds
  <1>5. \A p \in T : ControlIds(T)[p] \in 0 .. max - 1
    BY <1>2, <1>3
  <1> QED
    BY <1>1, <1>4, <1>5 DEF Range

LEMMA ConfigStaysTyped ==
  ASSUME ConfigTyped, [Next]_vars
  PROVE  ConfigTyped'
  <1>1. CASE SetConfiguration
    <2>1. UNCHANGED <<config, step>>
      BY <1>1 DEF SetConfiguration
    <2>2. mProbeConfigs' \in [Probes -> AllConfigs]
      BY <1>1, ProberAssumption DEF SetConfiguration, ConfigTyped
    <2> QED
      BY <2>1, <2>2 DEF ConfigTyped, config, Ext, Inj
  <1>2. CASE SetProbesConfig
    <2>1. /\ mProbeConfigs' = mProbeConfigs /\ mCachedProbeConfig' = mProbeConfigs
          /\ mExtractionProbeMap' = <<>> /\ mInjectionProbeMap' = <<>>
          /\ step' = "map" => /\ Cardinality(ExtractionProbes(mProbeConfigs)) <= mMaxExtractionProbes
                              /\ Cardinality(InjectionProbes(mProbeConfigs)) <= mMaxInjectionProbes
      BY <1>2 DEF SetProbesConfig
    <2>2. Range(<<>>) = {} /\ DOMAIN <<>> = {}
      BY DEF Range
    <2> QED
      BY <2>1, <2>2 DEF ConfigTyped, Ext, Inj
  <1>3. CASE MapProbes
    <2>1. UNCHANGED <<mProbeConfigs, mCachedProbeConfig>> /\ step = "map" /\ step' # "map"
      BY <1>3 DEF MapProbes
    <2>2. Cardinality(Ext) <= mMaxExtractionProbes /\ Cardinality(Inj) <= mMaxInjectionProbes
      BY <2>1 DEF ConfigTyped
    <2>3. Ext \in SUBSET Probes /\ Inj \in SUBSET Probes
      BY DEF Ext, Inj, ExtractionProbes, InjectionProbes
    <2>4. mMaxExtractionProbes \in Nat /\ mMaxInjectionProbes \in Nat
      BY ProberAssumption
    <2>5. \E S \in SUBSET Ext : mExtractionProbeMap' = ControlIds(S)
      <3>1. \A n : UpTo(Ext, n) \in SUBSET Ext
        BY DEF UpTo
      <3> QED
        BY <1>3, <3>1 DEF MapProbes, Ext
    <2>6. \/ mInjectionProbeMap' = <<>>
          \/ \E S \in SUBSET Inj : mInjectionProbeMap' = ControlIds(S)
      <3>1. \A n : UpTo(Inj, n) \in SUBSET Inj
        BY DEF UpTo
      <3> QED
        BY <1>3, <3>1 DEF MapProbes, Inj
    <2> HIDE DEF Ext, Inj
    <2>7. DOMAIN mExtractionProbeMap' \subseteq Probes /\ Range(mExtractionProbeMap') \subseteq ExtractionControls
      BY <2>2, <2>3, <2>4, <2>5, ControlIdsExist DEF ExtractionControls
    <2>8. DOMAIN mInjectionProbeMap' \subseteq Probes /\ Range(mInjectionProbeMap') \subseteq InjectionControls
      <3>1. Range(<<>>) = {} /\ DOMAIN <<>> = {}
        BY DEF Range
      <3> QED
        BY <2>2, <2>3, <2>4, <2>6, <3>1, ControlIdsExist DEF InjectionControls
    <2> QED
      BY <2>1, <2>7, <2>8 DEF ConfigTyped
  <1>4. CASE \/ SetStateInactive \/ SetStateActive \/ OpenExtractionQueue \/ NewExtractor
             \/ DestroyReplaced \/ NewInjector \/ Started \/ Abandon \/ StopThreads
             \/ CloseQueues \/ Extract \/ UNCHANGED vars \/ \E p \in Probes : FindControl(p) \/ Remove(p)
    <2>1. UNCHANGED <<mProbeConfigs, config>>
      BY <1>4 DEF SetStateInactive, SetStateActive, OpenExtractionQueue, NewExtractor, NewInjector,
           Escape, DestroyReplaced, Started, Abandon, StopThreads, CloseQueues, Extract, FindControl,
           Remove, vars
    <2>2. step' = "map" => step = "map"
      BY <1>4 DEF SetStateInactive, SetStateActive, OpenExtractionQueue, NewExtractor, NewInjector,
           Escape, DestroyReplaced, Started, Abandon, StopThreads, CloseQueues, Extract, FindControl,
           Remove, vars
    <2> QED
      BY <2>1, <2>2 DEF ConfigTyped, config, Ext, Inj
  <1> QED
    BY <1>1, <1>2, <1>3, <1>4 DEF Next, Client

(* What is opened has an id of the maps, and so it is one that exists.       *)
LEMMA StreamsStayTyped ==
  ASSUME ConfigTyped, StreamsTyped, [Next]_vars
  PROVE  StreamsTyped'
  <1>0. MapTyped(<<>>)
    BY DEF MapTyped, Range
  <1>1. CASE SetStateActive
    <2>1. remaining' \in SUBSET Probes /\ probePointMap' \in {probePointMap, <<>>}
      BY <1>1 DEF SetStateActive, StreamsTyped, ExtractionProbes
    <2>2. UNCHANGED <<mProbePointMap, replaced, opened, openedRings, mProbeInjectors>>
      BY <1>1 DEF SetStateActive, queues, injection
    <2>3. MapTyped(probePointMap')
      BY <1>0, <2>1 DEF StreamsTyped
    <2> QED
      BY <2>1, <2>2, <2>3 DEF StreamsTyped
  <1>2. CASE OpenExtractionQueue
    <2> DEFINE p == First(remaining)
               c == mExtractionProbeMap[p]
    <2>1. p \in Probes /\ remaining \in SUBSET Probes
      BY <1>2, FirstIsOneOfThem DEF OpenExtractionQueue, StreamsTyped
    <2>2. PointOf(p) \in Points
      BY <2>1 DEF ConfigTyped, AllConfigs, PointOf
    <2>3. p \in DOMAIN mExtractionProbeMap => c \in ExtractionControls
      BY DEF ConfigTyped, Range
    <2>4. UNCHANGED <<mProbePointMap, replaced, openedRings, mProbeInjectors>>
      BY <1>2 DEF OpenExtractionQueue, injection
    <2>5. \/ UNCHANGED <<remaining, opened>> /\ probePointMap' = <<>>
          \/ /\ p \in DOMAIN mExtractionProbeMap /\ opened' = opened \cup {c}
             /\ \/ probePointMap' = <<>> /\ UNCHANGED remaining
                \/ /\ probePointMap' = [x \in DOMAIN probePointMap \cup {PointOf(p)} |->
                                           IF x = PointOf(p) THEN c ELSE probePointMap[x]]
                   /\ remaining' = remaining \ {p}
      BY <1>2 DEF OpenExtractionQueue, PointOf
    <2> HIDE DEF p, c
    <2>6. opened' \in SUBSET ExtractionControls /\ remaining' \in SUBSET Probes
      BY <2>1, <2>3, <2>5 DEF StreamsTyped
    <2>7. MapTyped(probePointMap')
      <3>1. CASE probePointMap' = <<>>
        BY <1>0, <3>1
      <3>2. CASE /\ c \in ExtractionControls
                 /\ probePointMap' = [x \in DOMAIN probePointMap \cup {PointOf(p)} |->
                                         IF x = PointOf(p) THEN c ELSE probePointMap[x]]
        BY <2>2, <3>2 DEF StreamsTyped, MapTyped, Range
      <3> QED
        BY <2>3, <2>5, <3>1, <3>2
    <2> QED
      BY <2>4, <2>6, <2>7 DEF StreamsTyped
  <1>3. CASE NewExtractor
    <2>1. remaining' \in SUBSET Probes
      BY <1>3 DEF NewExtractor, Escape, StreamsTyped, InjectionProbes
    <2>2. UNCHANGED <<opened, openedRings, mProbeInjectors>>
      BY <1>3 DEF NewExtractor, injection
    <2>3. /\ probePointMap' = <<>> /\ mProbePointMap' \in {mProbePointMap, probePointMap}
          /\ replaced' \in {replaced, mProbePointMap, <<>>}
      BY <1>3 DEF NewExtractor
    <2>4. MapTyped(probePointMap') /\ MapTyped(mProbePointMap') /\ MapTyped(replaced')
      BY <1>0, <2>3 DEF StreamsTyped
    <2> QED
      BY <2>1, <2>2, <2>4 DEF StreamsTyped
  <1>4. CASE NewInjector
    <2> DEFINE p == First(remaining)
               c == mInjectionProbeMap[p]
    <2>1. /\ UNCHANGED <<opened, probePointMap, mProbePointMap, replaced>>
          /\ remaining' \subseteq remaining
      BY <1>4 DEF NewInjector, Escape, queues, extraction
    <2>2. \/ UNCHANGED <<openedRings, mProbeInjectors>>
          \/ /\ p \in DOMAIN mInjectionProbeMap /\ openedRings' = openedRings \cup {c}
             /\ mProbeInjectors' = mProbeInjectors \/ mProbeInjectors' = mProbeInjectors \cup {c}
      BY <1>4 DEF NewInjector, injection
    <2>3. p \in DOMAIN mInjectionProbeMap => c \in InjectionControls
      BY DEF ConfigTyped, Range
    <2> HIDE DEF p, c
    <2> QED
      BY <2>1, <2>2, <2>3 DEF StreamsTyped
  <1>5. CASE Abandon \/ StopThreads \/ CloseQueues \/ DestroyReplaced
    <2>1. remaining' = remaining \/ remaining' = {}
      BY <1>5 DEF Abandon, StopThreads, CloseQueues, DestroyReplaced
    <2>2. /\ opened' \subseteq opened /\ openedRings' \subseteq openedRings
          /\ mProbeInjectors' \subseteq mProbeInjectors
      BY <1>5 DEF Abandon, StopThreads, CloseQueues, DestroyReplaced, queues, injection
    <2>3. /\ probePointMap' = probePointMap /\ mProbePointMap' \in {mProbePointMap, <<>>}
          /\ replaced' \in {replaced, <<>>}
      BY <1>5 DEF Abandon, StopThreads, CloseQueues, DestroyReplaced, extraction
    <2>4. MapTyped(probePointMap') /\ MapTyped(mProbePointMap') /\ MapTyped(replaced')
      BY <1>0, <2>3 DEF StreamsTyped
    <2> QED
      BY <2>1, <2>2, <2>4 DEF StreamsTyped
  <1>6. CASE \/ SetConfiguration \/ SetProbesConfig \/ SetStateInactive \/ MapProbes \/ Started
             \/ Extract \/ UNCHANGED vars \/ \E p \in Probes : FindControl(p) \/ Remove(p)
    <2>1. UNCHANGED <<streams, remaining>>
      BY <1>6 DEF SetConfiguration, SetProbesConfig, SetStateInactive, MapProbes, Started, Extract,
           FindControl, Remove, vars, streams, extraction, queues, injection
    <2> QED
      BY <2>1 DEF StreamsTyped, streams
  <1> QED
    BY <1>1, <1>2, <1>3, <1>4, <1>5, <1>6 DEF Next, Client

LEMMA StepStaysTyped ==
  ASSUME StepTyped, [Next]_vars
  PROVE  StepTyped'
  <1>0. Escape => step' = "idle" /\ escapes' \in 0 .. MaxEscapes
    BY ProberAssumption DEF Escape, StepTyped
  <1>1. CASE SetStateInactive
    BY <1>1 DEF SetStateInactive, StepTyped, Steps, extraction
  <1>2. CASE SetProbesConfig
    BY <1>2 DEF SetProbesConfig, StepTyped, Steps, extraction
  <1>3. CASE MapProbes \/ SetStateActive \/ OpenExtractionQueue \/ DestroyReplaced
    <2>1. /\ step' \in {step, "idle", "setState", "openQueue", "abandon", "openRing"}
          /\ UNCHANGED <<mIsActiveState, extractor, session, escapes>>
      BY <1>3 DEF MapProbes, SetStateActive, OpenExtractionQueue, DestroyReplaced, extraction
    <2> QED
      BY <2>1 DEF StepTyped, Steps
  <1>4. CASE NewInjector
    <2>1. /\ \/ step' \in {step, "abandon"} /\ UNCHANGED escapes
             \/ Escape
          /\ UNCHANGED <<mIsActiveState, extractor, session>>
      BY <1>4 DEF NewInjector, extraction
    <2> QED
      BY <1>0, <2>1 DEF StepTyped, Steps
  <1>5. CASE NewExtractor
    <2>1. /\ \/ step' \in {"openRing", "replace", "abandon"} /\ UNCHANGED escapes
             \/ Escape
          /\ mIsActiveState' = mIsActiveState
          /\ extractor' \in {extractor, "running"} /\ session' \in {session, 1 - session}
      BY <1>5 DEF NewExtractor
    <2> QED
      BY <1>0, <2>1 DEF StepTyped, Steps, Sessions
  <1>6. CASE Started \/ Abandon \/ StopThreads \/ CloseQueues
    <2>1. /\ step' \in {"idle", "stopThreads", "closeQueues"} /\ session' = session
          /\ extractor' \in {extractor, "none"} /\ escapes' = escapes
      BY <1>6 DEF Started, Abandon, StopThreads, CloseQueues, extraction
    <2>2. mIsActiveState' \in BOOLEAN
      BY <1>6, Zenon DEF Started, Abandon, StopThreads, CloseQueues, StepTyped
    <2> QED
      BY <2>1, <2>2 DEF StepTyped, Steps
  <1>7. CASE \/ SetConfiguration \/ Extract \/ UNCHANGED vars
             \/ \E p \in Probes : FindControl(p) \/ Remove(p)
    <2>1. UNCHANGED <<step, mIsActiveState, session, escapes>> /\ extractor' \in {extractor, "done"}
      BY <1>7 DEF SetConfiguration, Extract, FindControl, Remove, vars, extraction
    <2> QED
      BY <2>1 DEF StepTyped
  <1> QED
    BY <1>1, <1>2, <1>3, <1>4, <1>5, <1>6, <1>7 DEF Next, Client

(* A queue takes a packet when it has room for it.                           *)
LEMMA PacketsStayTyped ==
  ASSUME StreamsTyped, StepTyped, PacketsTyped, [Next]_vars
  PROVE  PacketsTyped'
  <1>1. CASE packets' = packets
    BY <1>1 DEF PacketsTyped
  <1>2. CASE packets' = [c \in ExtractionControls |-> <<>>]
    BY <1>2, ProberAssumption DEF PacketsTyped
  <1>3. ASSUME NEW map, NEW parity \in Sessions, MapTyped(map), Enqueue(map, parity)
        PROVE  PacketsTyped'
    <2>1. packets \in [ExtractionControls -> Seq(Points \X Sessions)]
      BY DEF PacketsTyped
    <2>2. ASSUME NEW point \in DOMAIN map, NEW c \in ExtractionControls,
                 Len(packets[c]) < QueueMaxPackets,
                 packets' = [packets EXCEPT ![c] = Append(packets[c], <<point, parity>>)]
          PROVE  PacketsTyped'
      <3> DEFINE q == packets[c]
                 r == Append(q, <<point, parity>>)
      <3>1. <<point, parity>> \in Points \X Sessions
        BY <1>3, <2>2 DEF MapTyped
      <3>2. q \in Seq(Points \X Sessions) /\ Len(q) \in Nat /\ QueueMaxPackets \in Nat
        BY <2>1, ProberAssumption
      <3>3. r \in Seq(Points \X Sessions) /\ Len(r) = Len(q) + 1
        BY <3>1, <3>2
      <3>4. Len(r) <= QueueMaxPackets
        BY <2>2, <3>2, <3>3
      <3>5. packets' = [packets EXCEPT ![c] = r]
        BY <2>2
      <3> HIDE DEF r
      <3> QED
        BY <3>3, <3>4, <3>5 DEF PacketsTyped
    <2> QED
      BY <1>1, <1>3, <2>1, <2>2, EnqueueAppends
  <1>4. ASSUME NEW p \in Probes, Remove(p) PROVE PacketsTyped'
    <2> DEFINE c == control[p]
    <2>1. CASE packets[c] # <<>> /\ packets' = [packets EXCEPT ![c] = Tail(@)]
      <3>1. CASE c \in ExtractionControls
        <4> DEFINE q == packets[c]
                   r == Tail(q)
        <4>1. q \in Seq(Points \X Sessions) /\ q # <<>> /\ Len(q) <= QueueMaxPackets
          BY <2>1, <3>1 DEF PacketsTyped
        <4>2. r \in Seq(Points \X Sessions) /\ Len(r) = Len(q) - 1
          BY <4>1
        <4>3. Len(r) <= QueueMaxPackets
          BY <4>1, <4>2, ProberAssumption
        <4>4. packets' = [packets EXCEPT ![c] = r]
          BY <2>1
        <4> HIDE DEF c, r
        <4> QED
          BY <3>1, <4>2, <4>3, <4>4 DEF PacketsTyped
      <3>2. CASE c \notin ExtractionControls
        <4>1. packets' = packets
          BY <2>1, <3>2 DEF PacketsTyped
        <4> QED
          BY <1>1, <4>1
      <3> QED
        BY <3>1, <3>2
    <2> QED
      BY <1>1, <1>4, <2>1 DEF Remove
  <1>5. CASE \/ SetConfiguration \/ SetProbesConfig \/ SetStateInactive \/ MapProbes
             \/ SetStateActive \/ OpenExtractionQueue \/ DestroyReplaced \/ NewInjector \/ Started
             \/ Abandon \/ StopThreads \/ CloseQueues \/ UNCHANGED vars
             \/ \E p \in Probes : FindControl(p)
    <2>1. packets' = packets
      BY <1>5 DEF SetConfiguration, SetProbesConfig, SetStateInactive, MapProbes, SetStateActive,
           OpenExtractionQueue, DestroyReplaced, NewInjector, Started, Abandon, StopThreads, CloseQueues, FindControl,
           vars, queues
    <2> QED
      BY <1>1, <2>1
  <1>6. CASE NewExtractor
    BY <1>1, <1>2, <1>6 DEF NewExtractor
  <1>7. CASE Extract
    <2>1. MapTyped(mProbePointMap) /\ MapTyped(replaced)
      BY DEF StreamsTyped
    <2>2. session \in Sessions /\ 1 - session \in Sessions
      BY DEF StepTyped, Sessions
    <2> QED
      BY <1>1, <1>3, <1>7, <2>1, <2>2 DEF Extract
  <1> QED
    BY <1>4, <1>5, <1>6, <1>7 DEF Next, Client

(* A reader goes to a queue that exists, also when its probe has lost its id *)
(* since it asked for it.                                                    *)
LEMMA ReadersStayTyped ==
  ASSUME ConfigTyped, ReadersTyped, [Next]_vars
  PROVE  ReadersTyped'
  <1>1. ASSUME NEW p \in Probes, FindControl(p) PROVE ReadersTyped'
    <2>1. mExtractionProbeMap[p] \in ExtractionControls
      BY <1>1 DEF FindControl, ConfigTyped, Range
    <2>2. ExtractionControls \subseteq Nat
      BY ProberAssumption DEF ExtractionControls
    <2> QED
      BY <1>1, <2>1, <2>2 DEF FindControl, ReadersTyped
  <1>2. ASSUME NEW p \in Probes, Remove(p) PROVE ReadersTyped'
    BY <1>2 DEF Remove, ReadersTyped
  <1>3. CASE SetConfiguration \/ SetProbesConfig \/ SetStateInactive \/ Client \/ Extract \/ UNCHANGED vars
    <2>1. UNCHANGED reading
      BY <1>3 DEF SetConfiguration, SetProbesConfig, SetStateInactive, Client, MapProbes,
           SetStateActive, OpenExtractionQueue, NewExtractor, DestroyReplaced, NewInjector, Started,
           Abandon, StopThreads, CloseQueues, Extract, vars
    <2> QED
      BY <2>1 DEF ReadersTyped, reading
  <1> QED
    BY <1>1, <1>2, <1>3 DEF Next

(* However often clients start the service, also one that is started: no     *)
(* control id is past the number of the mixer controls and of the queues,    *)
(* which are vectors of that length, no reader holds one that is, and a      *)
(* queue never has more packets than mQueueSize allows.                      *)
THEOREM ProberIsTyped == Spec => []TypeOK
  <1>1. Init => TypeInv
    <2> SUFFICES ASSUME Init PROVE TypeInv
      OBVIOUS
    <2>1. Range(<<>>) = {} /\ DOMAIN <<>> = {}
      BY DEF Range
    <2>2. ConfigTyped
      BY <2>1, ProberAssumption DEF Init, ConfigTyped
    <2>3. StreamsTyped
      BY <2>1 DEF Init, StreamsTyped, MapTyped
    <2>4. StepTyped
      <3>1. escapes = 0 /\ 0 \in 0 .. MaxEscapes
        BY ProberAssumption DEF Init
      <3> QED
        BY <3>1 DEF Init, StepTyped, Steps, Sessions
    <2>5. PacketsTyped /\ ReadersTyped
      BY ProberAssumption DEF Init, PacketsTyped, ReadersTyped
    <2> QED
      BY <2>2, <2>3, <2>4, <2>5 DEF TypeInv
  <1>2. TypeInv /\ [Next]_vars => TypeInv'
    BY ConfigStaysTyped, StreamsStayTyped, StepStaysTyped, PacketsStayTyped, ReadersStayTyped DEF TypeInv
  <1>3. TypeInv => TypeOK
    BY DEF TypeInv, ConfigTyped, StreamsTyped, MapTyped, StepTyped, Steps, PacketsTyped,
       ReadersTyped, TypeOK
  <1> QED
    BY <1>1, <1>2, <1>3, PTL DEF Spec
=============================================================================
