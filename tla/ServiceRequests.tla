--------------------------- MODULE ServiceRequests --------------------------
(***************************************************************************)
(* What the agent does, one call of the driver after the other, for the    *)
(* requests to its log and probe services and for those about its model of *)
(* the system, besides the requests of Requests.  It goes on from what the *)
(* agent knows:                                                            *)
(*   agent = [handler, model, producers, probes, session, samples,         *)
(*            active, input, ring, produced, consumed, extracted, broken]  *)
(* `model' says whether there is an instance model, `producers' how many   *)
(* log producers there are, `active' whether there are probe streams.      *)
(*                                                                         *)
(* New calls: "mixerRead" and "mixerWrite" of the ALSA control `module'    *)
(* and number `instance'; "extractor" and "injector", an operation `param' *)
(* on a compress device; "tinyGet" and "tinySet", an ioctl on parameter    *)
(* `param' of feature `module'.                                            *)
(***************************************************************************)
EXTENDS Requests, SequencesExt, TLC

CONSTANT LoggerCores  (* Linux: the core of each log device, one at least *)

(* A probe's configuration.  The point is [module, instance, type, index]. *)
MaxProbeCount == 8
ProbeIds      == 0 .. MaxProbeCount - 1
Point(module, instance, type, index) ==
  [module |-> module, instance |-> instance, type |-> type, index |-> index]
Probe(enabled, point, purpose) ==
  [enabled |-> enabled, point |-> point, purpose |-> purpose]
DisabledProbe == Probe(FALSE, Point(0, 0, "Input", 0), "Inject")

NewAgent ==
  [handler |-> Nobody, model |-> FALSE, producers |-> 0,
   probes  |-> [p \in ProbeIds |-> DisabledProbe],
   session |-> [p \in ProbeIds |-> DisabledProbe],
   samples |-> << >>, active |-> FALSE, input |-> << >>,
   ring    |-> << >>, produced |-> 0, consumed |-> 0, extracted |-> << >>,
   broken  |-> FALSE]

(* Calls that do not depend on each other, up to the first that fails. *)
Chain(calls, got) ==
  CASE Failed(got)                              -> Answer("500")
    [] ~Failed(got) /\ Len(got) < Len(calls)    -> calls[Len(got) + 1]
    [] ~Failed(got) /\ ~(Len(got) < Len(calls)) -> Answer("200")
After(got, n) == SubSeq(got, n + 1, Len(got))

-----------------------------------------------------------------------------
(* The ring buffers the Windows agent shares with the driver (Util's       *)
(* RingBufferBase, RingBufferReader and RingBufferWriter): bytes, of which *)
(* one side writes and the other reads, each having a position that only   *)
(* grows.  The driver's position is what an ioctl returns.                 *)
NewRing(size, byte) == [i \in 1 .. size |-> byte]

(* A position that broke the invariant of the ring makes it throw. *)
IsOverflown(ring, consumer, producer) ==
  consumer > producer \/ producer - consumer > Len(ring)
AvailableConsumption(consumer, producer) == producer - consumer
AvailableProduction(ring, consumer, producer) ==
  Len(ring) - AvailableConsumption(consumer, producer)

\* Mutant: the read starts at the beginning of the ring.
ReadFromStart(ring, consumer, producer) ==
  SubSeq(ring, 1, AvailableConsumption(consumer, producer))
(* readAvailable(): all there is, in one or two parts. *)
ReadAvailable(ring, consumer, producer) ==
  [i \in 1 .. AvailableConsumption(consumer, producer) |->
     ring[((consumer + i - 1) % Len(ring)) + 1]]

(* unsafeWrite() does not look at the consumer.  What it is given is not   *)
(* longer than the ring, or it throws.                                     *)
IsWritable(ring, source) == Len(source) <= Len(ring)
UnsafeWrite(ring, producer, source) ==
  LET offset == producer % Len(ring)
      first  == Len(ring) - offset
  IN  IF Len(source) < first
        THEN SubSeq(ring, 1, offset) \o source
               \o SubSeq(ring, offset + Len(source) + 1, Len(ring))
        ELSE SubSeq(source, first + 1, Len(source))
               \o SubSeq(ring, Len(source) - first + 1, offset)
               \o SubSeq(source, 1, first)

-----------------------------------------------------------------------------
(* The log service. *)
LogPriority  == [Quiet |-> 0, Critical |-> 1, High |-> 2, Medium |-> 3,
                 Low |-> 4, Verbose |-> 5]
FW_LOG_LEVEL == LogPriority
FW_LOG_OUTPUT == [Sram |-> 0, Pti |-> 1]
LogState(started, level, output) ==
  [started |-> started, level |-> level, output |-> output]

logLevelMixer == "DSP Log Level"
FEATURE_FW_LOGS == 1
Mixer(op, control, index, bytes) ==
  [Call(op) EXCEPT !.module = control, !.instance = index, !.payload = bytes]
Tiny(op, feature, param, payload) ==
  [Call(op) EXCEPT !.module = feature, !.param = param, !.payload = payload]

LinuxSetLogLevel(level) ==
  Mixer("mixerWrite", logLevelMixer, 0, Bytes(4, LogPriority[level]))
LinuxGetLogLevel == Mixer("mixerRead", logLevelMixer, 0, << >>)

TranslateToDriver(state) ==
  Write(IoctlFwLogsState,
        [started |-> Bytes(4, IF state.started THEN 1 ELSE 0),
         level   |-> Bytes(4, FW_LOG_LEVEL[state.level]),
         output  |-> Bytes(4, FW_LOG_OUTPUT[state.output])])
WindowsSetLog(state) ==
  Tiny("tinySet", FEATURE_FW_LOGS, 0, TranslateToDriver(state))
WindowsGetLog ==
  Tiny("tinyGet", FEATURE_FW_LOGS, 0,
       Write(IoctlFwLogsState, Filled(IoctlFwLogsState, 255)))

(* A log producer keeps its core awake as long as it lives. *)
Vote(sleep, core) ==
  [CallOn("vote", IF sleep THEN 1 ELSE 0) EXCEPT !.instance = core]
ConstructProducers ==
  [i \in DOMAIN LoggerCores |-> Vote(FALSE, LoggerCores[i])]
DestroyProducers(count) == [i \in 1 .. count |-> Vote(TRUE, LoggerCores[i])]

(* Logger::setParameters() *)
StartLog(platform, state) ==
  IF platform = "linux"
    THEN << LinuxSetLogLevel(state.level) >> \o ConstructProducers
    ELSE << WindowsSetLog(state) >>
UpdateLog(platform, state) ==
  << IF platform = "linux" THEN LinuxSetLogLevel(state.level)
                           ELSE WindowsSetLog(state) >>
StopLog(platform, agent, state) ==
  (IF platform = "linux" THEN DestroyProducers(agent.producers) ELSE << >>)
    \o UpdateLog(platform, state)

Producing(agent) == agent.producers > 0
IsRefused(agent, state) == Producing(agent) /\ state.started
(* A producer that goes does not tell that its vote was not withdrawn: of  *)
(* a stop, only the last call counts.                                      *)
SetLogParameters(platform, agent, state, got) ==
  LET ending == IF Producing(agent) THEN StopLog(platform, agent, state)
                                    ELSE UpdateLog(platform, state)
  IN  CASE IsRefused(agent, state) -> Answer("500")
        [] state.started /\ ~Producing(agent) ->
             Chain(StartLog(platform, state), got)
        [] ~state.started ->
             IF Len(got) < Len(ending) THEN ending[Len(got) + 1]
             ELSE Answer(IF Failed(got) THEN "500" ELSE "200")

(* A refused request changes nothing, and a stop leaves no producer        *)
(* whatever fails in it.  A start that fails leaves none on Windows; on    *)
(* Linux those made before the one that failed stay and produce, although  *)
(* the answer is an error.                                                 *)
ProducersAfter(platform, agent, state, got) ==
  LET made == SelectSeq(IF platform = "linux" THEN Tail(got) ELSE got,
                        Succeeds)
  IN  CASE IsRefused(agent, state)               -> agent.producers
        [] state.started /\ ~Producing(agent)    -> Len(made)
        [] ~state.started                        -> 0

(* Logger::getParameters(): an answer that is no level is an error. *)
IsLevel(bytes) == \E level \in DOMAIN LogPriority \ {"Quiet"} :
                    Count(bytes) = LogPriority[level]
GetLogParameters(platform, got) ==
  CASE got = << >> -> IF platform = "linux" THEN LinuxGetLogLevel
                                            ELSE WindowsGetLog
    [] got # << >> ->
         Answer(IF ~Failed(got)
                     /\ IsLevel(IF platform = "linux"
                                  THEN got[1].value
                                  ELSE SubSeq(got[1].value, 5, 8))
                  THEN "200" ELSE "500")

(* Logger::stop(): what it throws is caught, and the rest is not done. *)
LastLogState == LogState(FALSE, "Verbose", "Sram")
StopLogger(platform, agent) ==
  IF Producing(agent) THEN StopLog(platform, agent, LastLogState)
                      ELSE << >>

-----------------------------------------------------------------------------
(* The probe service: the session, from the configuration of the probes.   *)
PurposeNumber == [Extract |-> 0, Inject |-> 1, InjectReextract |-> 2]
TypeNumber    == [Input |-> 0, Output |-> 1, Internal |-> 2]

Extracts(probe) == probe.enabled /\ probe.purpose # "Inject"
Injects(probe)  == probe.enabled /\ probe.purpose # "Extract"
(* getActiveSession(), each list in the order of the probes. *)
ProbesThat(Do(_), probes) ==
  SetToSortSeq({p \in ProbeIds : Do(probes[p])}, LAMBDA a, b : a < b)
ExtractionProbes(probes) == ProbesThat(Extracts, probes)
InjectionProbes(probes)  == ProbesThat(Injects, probes)

(* The word of bit fields a probe point is. *)
PointBytes(point) ==
  Bytes(2, point.module)
    \o << point.instance, TypeNumber[point.type] + 4 * point.index >>

(* getInjectionSampleByteSizes(): the pin of the probe gives the size. *)
PinsOf(point, props) ==
  IF point.type = "Input" THEN props.input_pins.pin_info
                          ELSE props.output_pins.pin_info
HasSampleSize(point, result) ==
  /\ Succeeds(result)
  /\ point.type \in {"Input", "Output"}
  /\ point.index < Len(PinsOf(point, result.value))
  /\ PinsOf(point, result.value)[point.index + 1]
       .format.valid_bit_depth[1] % 8 = 0
SampleByteSizeOf(format) ==
  (format.bit_depth[1] \div 8) * format.number_of_channels[1]
SampleByteSize(point, result) ==
  SampleByteSizeOf(PinsOf(point, result.value)[point.index + 1].format)

-----------------------------------------------------------------------------
(* Linux.  setProbesConfig(): extraction and injection controls, numbered  *)
(* from 0 on each side; then the streams, of one extraction device and of  *)
(* one device by injection probe, which is filled with silence.            *)
PROBE_POINTS == 1
ProbeControl(probe) ==
  << PROBE_POINTS >> \o Bytes(4, PurposeNumber[probe.purpose])
                     \o PointBytes(probe.point)
ControlsOf(control, ids, probes) ==
  [i \in DOMAIN ids |->
     Mixer("mixerWrite", control, i - 1, ProbeControl(probes[ids[i]]))]
LinuxProbesConfig(probes) ==
  ControlsOf("Extractor", ExtractionProbes(probes), probes)
    \o ControlsOf("Injector", InjectionProbes(probes), probes)

Compress(device, operation, data) ==
  [Call(device) EXCEPT !.param = operation, !.payload = data]
Operations(device, operations) ==
  [i \in DOMAIN operations |-> Compress(device, operations[i], << >>)]
Silence(n) == [i \in 1 .. n |-> 0]

StartExtractor(probes) ==
  IF ExtractionProbes(probes) = << >> THEN << >>
  ELSE Operations("extractor", << "open", "start" >>)
StopStreams(extracting, injectors) ==
  (IF extracting THEN Operations("extractor", << "stop" >>) ELSE << >>)
    \o [i \in 1 .. injectors |-> Compress("injector", "stop", << >>)]

Stops(stops, got, status) ==
  IF Len(got) < Len(stops) THEN stops[Len(got) + 1] ELSE Answer(status)

(* The injectors are created one after the other.  One that cannot be      *)
(* opened makes the start fail, and what was started stop.  The size of    *)
(* its buffer is had out of the reach of what catches that.  A write that  *)
(* fails is only reported, and leaves the device not started.              *)
RECURSIVE StartInjectors(_, _, _, _)
StartInjectors(extracting, sizes, started, got) ==
  LET undo == StopStreams(extracting, started)
      Next(n) == StartInjectors(extracting, Tail(sizes), started + 1,
                                After(got, n))
  IN  IF sizes = << >>            THEN Answer("200")
      ELSE IF Head(sizes) = 0     THEN Stops(undo, got, "500")
      ELSE IF got = << >>         THEN Compress("injector", "open", << >>)
      ELSE IF ~Succeeds(got[1])   THEN Stops(undo, Tail(got), "500")
      ELSE IF Len(got) = 1
        THEN Compress("injector", "getBufferSize", << >>)
      ELSE IF ~Succeeds(got[2])   THEN Answer("500")
      ELSE IF Len(got) = 2
        THEN Compress("injector", "write",
                      Silence(AsNumber(got[2].value)
                                - (AsNumber(got[2].value) % Head(sizes))))
      ELSE IF ~Succeeds(got[3])   THEN Next(3)
      ELSE IF Len(got) = 3        THEN Compress("injector", "start", << >>)
      ELSE Next(4)

LinuxStartStreams(probes, samples, got) ==
  LET opening == StartExtractor(probes)
      n       == Least(Len(opening), Len(got))
  IN  IF Failed(SubSeq(got, 1, n)) \/ Len(got) < Len(opening)
        THEN Chain(opening, got)
        ELSE StartInjectors(opening # << >>, samples, 0, After(got, n))

LinuxStartProber(agent, samples, got) ==
  LET controls == LinuxProbesConfig(agent.probes)
      n        == Len(controls)
  IN  IF Len(got) < n \/ Failed(SubSeq(got, 1, Least(n, Len(got))))
        THEN Chain(controls, got)
      ELSE IF agent.active THEN Answer("200")
      ELSE LinuxStartStreams(agent.probes, samples, After(got, n))

LinuxStopProber(agent, got) ==
  IF agent.active
    THEN Stops(StopStreams(ExtractionProbes(agent.session) # << >>,
                           Len(InjectionProbes(agent.session))), got, "200")
    ELSE Answer("200")

-----------------------------------------------------------------------------
(* Windows: the states of the driver, and the way from one to another.     *)
FEATURE_FW_PROBE == 3
ProbeFeatureParameter ==
  [STATE |-> 0, POINT_CONFIGURATION |-> 1, BUFFERS_DESCRIPTION |-> 2,
   EXTRACTION_BUFFER_STATUS |-> 3, INJECTION_BUFFER0_STATUS |-> 4]
Idle      == 0
Owned     == 1
Allocated == 2
Active    == 3

ProbeIoctl(op, name, payload) ==
  Tiny(op, FEATURE_FW_PROBE, ProbeFeatureParameter[name], payload)
GetProbeState == ProbeIoctl("tinyGet", "STATE", Unset)
SetProbeState(state) == ProbeIoctl("tinySet", "STATE", Bytes(4, state))
GetRingBuffers ==
  ProbeIoctl("tinyGet", "BUFFERS_DESCRIPTION",
             Write(RingBuffersDescription, Filled(RingBuffersDescription,
                                                  255)))
GetExtractionPosition ==
  ProbeIoctl("tinyGet", "EXTRACTION_BUFFER_STATUS", NewRing(8, 255))
GetInjectionPosition(id) ==
  [ProbeIoctl("tinyGet", "INJECTION_BUFFER0_STATUS", NewRing(8, 255))
     EXCEPT !.param = @ + id]

(* The handles of the events are the system's: all zeros here. *)
NoHandle == Bytes(8, 0)
ToWindows(probes) ==
  [extractionBufferCompletionEventHandle |-> NoHandle,
   probePointConnection |->
     [i \in 1 .. MaxProbeCount |->
        [enabled |-> Bytes(4, IF probes[i - 1].enabled THEN 1 ELSE 0),
         probePointId |-> [full |-> PointBytes(probes[i - 1].point)],
         purpose |-> Bytes(4, PurposeNumber[probes[i - 1].purpose]),
         injectionBufferCompletionEventHandle |-> NoHandle]]]
SetSessionProbes(probes) ==
  ProbeIoctl("tinySet", "POINT_CONFIGURATION",
             Write(ProbePointConfiguration, ToWindows(probes)))

(* Each way, with what the transition does besides setting the state. *)
StartPath(probes, from) ==
  After(<< SetProbeState(Owned), SetSessionProbes(probes),
           SetProbeState(Allocated), GetRingBuffers, SetProbeState(Active) >>,
        CASE from = Idle -> 0 [] from = Owned -> 2
          [] from = Allocated -> 3 [] from = Active -> 5)
StopPath(from) == [i \in 1 .. from |-> SetProbeState(from - i)]

(* goToState(): a state the agent does not know is an error as well. *)
IsState(result) ==
  Succeeds(result) /\ \E s \in Idle .. Active : result.value = Bytes(4, s)
GoAlong(Path(_), got) ==
  CASE got = << >> -> GetProbeState
    [] got # << >> ->
         IF IsState(got[1]) THEN Chain(Path(AsNumber(got[1].value)),
                                       Tail(got))
                            ELSE Answer("500")

WindowsStopProber(got) == GoAlong(StopPath, got)
FailedStart(got) ==
  {i \in DOMAIN got : ~Succeeds(got[i]) \/ (i = 1 /\ ~IsState(got[i]))}
(* A failed start tries to stop, with what that throws being caught. *)
UndoneAfter(got, failure) ==
  LET next == WindowsStopProber(After(got, failure))
  IN  IF IsAnswer(next) THEN Answer("500") ELSE next
WindowsStartProber(probes, got) ==
  IF FailedStart(got) # {}
    THEN UndoneAfter(got, CHOOSE i \in FailedStart(got) :
                            \A j \in FailedStart(got) : i <= j)
    ELSE GoAlong(LAMBDA from : StartPath(probes, from), got)

-----------------------------------------------------------------------------
(* ProbeService::setState() and isActive(). *)
SampleSizes(probes, results) ==
  [i \in DOMAIN results |->
     SampleByteSize(probes[InjectionProbes(probes)[i]].point, results[i])]
LacksSampleSize(probes, got) ==
  \E i \in 1 .. Least(Len(got), Len(InjectionProbes(probes))) :
    ~HasSampleSize(probes[InjectionProbes(probes)[i]].point, got[i])
StartProber(platform, agent, samples, got) ==
  IF platform = "linux" THEN LinuxStartProber(agent, samples, got)
                        ELSE WindowsStartProber(agent.probes, got)
StartService(platform, agent, got) ==
  LET injections == InjectionProbes(agent.probes)
      n          == Len(injections)
      point(i)   == agent.probes[injections[i]].point
  IN  IF LacksSampleSize(agent.probes, got) THEN Answer("500")
      ELSE IF Len(got) < n
        THEN CallOf("getModuleInstanceProps",
                    << point(Len(got) + 1).module,
                       point(Len(got) + 1).instance >>)
      ELSE StartProber(platform, agent,
                       SampleSizes(agent.probes, SubSeq(got, 1, n)),
                       After(got, n))
StopService(platform, agent, got) ==
  IF platform = "linux" THEN LinuxStopProber(agent, got)
                        ELSE WindowsStopProber(got)
GetService(platform, got) ==
  CASE platform = "linux" -> Answer("200")
    [] platform # "linux" /\ got = << >> -> GetProbeState
    [] platform # "linux" /\ got # << >> ->
         Answer(IF IsState(got[1])
                     /\ AsNumber(got[1].value) \in {Idle, Active}
                  THEN "200" ELSE "500")

-----------------------------------------------------------------------------
(* The threads of the streams, as requests of their own: "extract", which  *)
(* goes on until the device is stopped (Linux) or for as many blocks as    *)
(* the driver writes (`payloads': its ring after each of them), and        *)
(* "inject", likewise, for `state' reads of the driver.  There is one      *)
(* injection probe, and `ring' is what the agent shares with the driver    *)
(* for it.  "ring" is not a call: it is the driver looking at the ring.    *)
(* A thread that throws, as it does on a bad position, is `broken'.        *)
HasMore(got) == Succeeds(Last(got)) /\ Last(got).value = TRUE
LinuxExtract(call, got) ==
  IF got = << >>                THEN Compress("extractor", "wait", << >>)
  ELSE IF call.param = "wait"
    THEN IF HasMore(got) THEN Compress("extractor", "read", << >>)
                         ELSE Answer("200")
  ELSE IF Failed(got)           THEN Answer("200")
  ELSE Compress("extractor", "wait", << >>)

(* injectSamples(): whole samples, completed with silence. *)
Whole(bytes, sample) == bytes - (bytes % sample)
Taken(agent, available) ==
  Least(Whole(Len(agent.input), agent.samples[1]),
        Whole(available, agent.samples[1]))
\* Mutant: what is left of the input is sent, and no more.
InjectWithoutSilence(agent, available) ==
  SubSeq(agent.input, 1, Taken(agent, available))
InjectSamples(agent, available) ==
  SubSeq(agent.input, 1, Taken(agent, available))
    \o Silence(Whole(available, agent.samples[1]) - Taken(agent, available))

LinuxInject(agent, call, got) ==
  IF got = << >>                THEN Compress("injector", "wait", << >>)
  ELSE IF call.param = "wait"
    THEN IF HasMore(got) THEN Compress("injector", "getAvailable", << >>)
                         ELSE Answer("200")
  ELSE IF call.param = "getAvailable"
    THEN IF Failed(got) THEN Answer("200")
         ELSE IF AsNumber(Last(got).value) < agent.samples[1]
           THEN Compress("injector", "wait", << >>)
           ELSE Compress("injector", "write",
                         InjectSamples(agent, AsNumber(Last(got).value)))
  ELSE Compress("injector", "wait", << >>)

WindowsExtract(agent, request, got) ==
  IF agent.broken \/ Failed(got) \/ Len(got) = Len(request.payloads)
    THEN Answer("200") ELSE GetExtractionPosition
WindowsInject(agent, request, got) ==
  IF agent.broken \/ Failed(got) \/ Len(got) = 2 * request.state
    THEN Answer("200")
  ELSE IF Len(got) % 2 = 0
    THEN [Call("ring") EXCEPT !.payload = agent.ring]
  ELSE GetInjectionPosition(InjectionProbes(agent.session)[1])

-----------------------------------------------------------------------------
(* The destruction of the agent: logs, performance, then probes. *)
Shutdown(platform, agent, request, got) ==
  LET logs     == StopLogger(platform, agent)
      rest     == After(got, Len(logs))
      perf(n)  == NextCall(platform, agent.handler, request,
                           SubSeq(rest, 1, n))
      ends     == {n \in 0 .. Len(rest) : IsAnswer(perf(n))}
      last     == CHOOSE n \in ends : \A m \in ends : n <= m
      probes   == StopService(platform, agent, After(rest, last))
  IN  IF Len(got) < Len(logs)           THEN logs[Len(got) + 1]
      ELSE IF ends = {}                 THEN perf(Len(rest))
      ELSE IF Status(perf(last)) = "terminate" THEN perf(last)
      ELSE IF IsAnswer(probes)          THEN Answer("200") ELSE probes

NextCallOf(platform, agent, request, call, got) ==
  CASE request.name = "destroy" -> Shutdown(platform, agent, request, got)
    [] request.name = "putLog" ->
         SetLogParameters(platform, agent, request.payloads, got)
    [] request.name = "getLog" -> GetLogParameters(platform, got)
    [] request.name = "getProbes" -> GetService(platform, got)
    [] request.name = "startProbes" -> StartService(platform, agent, got)
    [] request.name = "stopProbes" -> StopService(platform, agent, got)
    [] request.name = "extract" ->
         IF platform = "linux" THEN LinuxExtract(call, got)
                               ELSE WindowsExtract(agent, request, got)
    [] request.name = "inject" ->
         IF platform = "linux" THEN LinuxInject(agent, call, got)
                               ELSE WindowsInject(agent, request, got)
    [] OTHER -> NextCall(platform, agent.handler, request, got)

-----------------------------------------------------------------------------
(* What the agent keeps of what a call returned ... *)
Prefilled(agent, got) ==
  LET sizes  == SampleSizes(agent.probes,
                            SubSeq(got, 1,
                                   Len(InjectionProbes(agent.probes))))
      source == Silence(Whole(Len(agent.ring), sizes[1]))
  IN  IF sizes = << >> THEN agent
      ELSE [agent EXCEPT !.ring = UnsafeWrite(@, 0, source),
                         !.produced = Len(source)]
Broken(agent) == [agent EXCEPT !.broken = TRUE]
Extracted(agent, ring, position) ==
  IF IsOverflown(ring, agent.consumed, position) THEN Broken(agent)
  ELSE [agent EXCEPT
          !.extracted = @ \o ReadAvailable(ring, agent.consumed, position),
          !.consumed  = position]
Injected(agent, available) ==
  LET source == InjectSamples(agent, available)
  IN  IF ~IsWritable(agent.ring, source) THEN Broken(agent)
      ELSE [agent EXCEPT !.ring = UnsafeWrite(@, agent.produced, source),
                         !.produced = @ + Len(source),
                         !.input = After(@, Taken(agent, available))]
InjectedUpTo(agent, position) ==
  IF IsOverflown(agent.ring, position, agent.produced) THEN Broken(agent)
  ELSE Injected(agent, AvailableProduction(agent.ring, position,
                                           agent.produced))

Kept(platform, agent, request, call, got, result) ==
  CASE ~Succeeds(result) -> agent
    [] call.name = "tinyGet" /\ call = GetRingBuffers /\ Succeeds(result) ->
         Prefilled(agent, got)
    [] request.name = "extract" /\ platform = "windows"
         /\ Succeeds(result) ->
         Extracted(agent, request.payloads[Len(got) + 1],
                   AsNumber(result.value))
    [] request.name = "inject" /\ call.name = "tinyGet"
         /\ Succeeds(result) ->
         InjectedUpTo(agent, AsNumber(result.value))
    [] call.name = "extractor" /\ call.param = "read" /\ Succeeds(result) ->
         [agent EXCEPT !.extracted = @ \o result.value]
    [] request.name = "inject" /\ call.name = "injector"
         /\ call.param = "write" /\ Succeeds(result) ->
         [agent EXCEPT !.input = After(@, Taken(agent, Len(call.payload)))]
    [] OTHER -> [agent EXCEPT
                   !.handler = Learnt(@, call, result.value)]

(* ... and of the answer it gave. *)
WithStreams(agent, got) ==
  IF agent.active THEN agent
  ELSE [agent EXCEPT
          !.active = TRUE, !.session = agent.probes,
          !.samples = SampleSizes(agent.probes,
                        SubSeq(got, 1, Len(InjectionProbes(agent.probes))))]
Settled(platform, agent, request, got, status) ==
  CASE request.name = "refresh" -> [agent EXCEPT !.model = status = "200"]
    [] request.name = "putLog" ->
         [agent EXCEPT !.producers =
            ProducersAfter(platform, agent, request.payloads, got)]
    [] request.name = "putEndPoint" ->
         [agent EXCEPT !.probes[request.id[2]] = request.payloads]
    [] request.name = "putStream" ->
         [agent EXCEPT !.input = @ \o request.payloads]
    [] request.name = "startProbes" /\ status = "200" ->
         WithStreams(agent, got)
    [] request.name = "stopProbes" /\ status = "200" ->
         [agent EXCEPT !.active = FALSE]
    [] OTHER -> agent
=============================================================================
