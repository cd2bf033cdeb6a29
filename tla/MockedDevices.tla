--------------------------- MODULE MockedDevices ----------------------------
(***************************************************************************)
(* The devices of the functional tests (cAVS TestFramework): a script of   *)
(* entries [to, in, ok, out], of which each says which command comes next, *)
(* with what (`in'), whether it succeeds, and what it gives (`out').  The  *)
(* operators below are those the tests write their scripts with.           *)
(***************************************************************************)
EXTENDS ServiceRequests

Entry(to, in, ok, out) == << [to |-> to, in |-> in, ok |-> ok, out |-> out] >>
Command(to, in) == [to |-> to, in |-> in]
(* The entry is for this command. *)
Expects(entry, command) ==
  IF entry.to = command.to THEN entry.in = command.in ELSE FALSE

-----------------------------------------------------------------------------
(* Linux: the debugfs files, ALSA controls and compress devices. *)
LinuxSetCorePower(coreId, allowedToSleep) ==
  Entry("corePower", CorePowerCommand(allowedToSleep, coreId), TRUE, << >>)

LinuxSetAccess(access) ==
  LinuxSetCorePower(0, FALSE)
    \o Entry("write", LinuxMessage(access), TRUE, << >>)
    \o LinuxSetCorePower(0, TRUE)
LinuxSetModuleParameter(module, instance, param, payload) ==
  LinuxSetAccess(ConfigSet(module, instance, param, payload))

(* The reply is what the parameter holds, after its header. *)
Replied(param, payload) ==
  (IF RequireTunneledAccess(param)
     THEN Write(TunneledHeader, [mParamId   |-> Bytes(4, param),
                                 mParamSize |-> Bytes(4, Len(payload))])
     ELSE << >>) \o payload
LinuxGetModuleParameter(module, instance, param, size, payload) ==
  LinuxSetCorePower(0, FALSE)
    \o Entry("read", LinuxMessage(ConfigGet(module, instance, param, size)),
             TRUE, Replied(param, payload))
    \o LinuxSetCorePower(0, TRUE)

LinuxGetBaseFw(param, size, payload) ==
  LinuxGetModuleParameter(0, 0, param, size, payload)
LinuxGetTlv(param, tlvList) == LinuxGetBaseFw(param, TlvBufferSize, tlvList)
LinuxGetHwConfig(tlvList) == LinuxGetTlv(HW_CONFIG_GET, tlvList)
LinuxGetFwConfig(tlvList) == LinuxGetTlv(FW_CONFIG, tlvList)
LinuxGetGlobalMemoryState(tlvList) ==
  LinuxGetTlv(MEMORY_STATE_INFO_GET, tlvList)
LinuxGetModuleEntries(count, entries) ==
  LinuxGetBaseFw(MODULES_INFO_GET, ModulesInfoSize(count),
                 Write(ModulesInfo, [module_info |-> entries]))
LinuxGetPipelineList(maxPplCount, ids) ==
  LinuxGetBaseFw(PIPELINE_LIST_INFO_GET, PipelinesListInfoSize(maxPplCount),
                 Write(PipelinesListInfo, [ppl_id |-> ids]))
LinuxGetPipelineProps(id, props) ==
  LinuxGetBaseFw(ExtendedParameterId(PIPELINE_PROPS_GET, id),
                 MaxParameterPayloadSize, Write(PplProps, props))
LinuxGetSchedulersInfo(coreId, info) ==
  LinuxGetBaseFw(ExtendedParameterId(SCHEDULERS_INFO_GET, coreId),
                 MaxParameterPayloadSize, Write(SchedulersInfo, info))
LinuxGetGateways(count, gateways) ==
  LinuxGetBaseFw(GATEWAYS_INFO_GET, GatewaysInfoSize(count),
                 Write(GatewaysInfo, [gateways |-> gateways]))
LinuxGetModuleInstanceProps(module, instance, props) ==
  LinuxGetModuleParameter(module, instance, MOD_INST_PROPS,
                          MaxParameterPayloadSize,
                          Write(ModuleInstanceProps, props))
LinuxGetGlobalPerfData(maxItemCount, items) ==
  LinuxGetBaseFw(GLOBAL_PERF_DATA, GlobalPerfDataSize(maxItemCount),
                 Write(GlobalPerfData, [items |-> items]))
LinuxSetPerfState(state) ==
  LinuxSetModuleParameter(0, 0, PERF_MEASUREMENTS_STATE, Bytes(4, state))
LinuxGetPerfState(state) ==
  LinuxGetBaseFw(PERF_MEASUREMENTS_STATE, 4, Bytes(4, state))

MixerSetLogLevel(level) ==
  Entry("mixerWrite", << logLevelMixer, 0, Bytes(4, LogPriority[level]) >>,
        TRUE, << >>)
MixerGetLogLevel(level) ==
  Entry("mixerRead", << logLevelMixer, 0, << >> >>, TRUE,
        Bytes(4, LogPriority[level]))
MixerSetExtractControl(index, probe) ==
  Entry("mixerWrite", << "Extractor", index, ProbeControl(probe) >>, TRUE,
        << >>)
MixerSetInjectControl(index, probe) ==
  Entry("mixerWrite", << "Injector", index, ProbeControl(probe) >>, TRUE,
        << >>)

CompressOperation(device, operation) ==
  Entry(device, << operation, << >> >>, TRUE, << >>)
FailedCompressOperation(device, operation) ==
  Entry(device, << operation, << >> >>, FALSE, << >>)
CompressRead(device, buffer) ==
  Entry(device, << "read", << >> >>, TRUE, buffer)
CompressWrite(device, buffer) ==
  Entry(device, << "write", buffer >>, TRUE, << >>)
CompressSize(device, operation, size) ==
  Entry(device, << operation, << >> >>, TRUE, Bytes(4, size))
CompressWait(device, reply) ==
  Entry(device, << "wait", << >> >>, TRUE, reply)

-----------------------------------------------------------------------------
(* Windows: ioctls.  What a get expects in its buffer is as many bytes, all *)
(* ones, as the answer may have; `outcome' says which of the system, the    *)
(* driver and the firmware fails, if any.                                   *)
Error == << 1, 0, 0, 192 >>
StatusOf(outcome, who) == IF outcome = who THEN Error ELSE Success

ReturnedBody(access, outcome, content) ==
  CASE outcome = "ioctl"  -> << >>
    [] outcome = "driver" -> Error
    [] outcome \in {"success", "firmware"} ->
         Success \o StatusOf(outcome, "firmware")
           \o Bytes(2, access.instance) \o Bytes(2, access.module)
           \o Bytes(4, access.param) \o Bytes(4, access.size)
           \o (IF outcome = "success" THEN content ELSE << >>)
ModuleParameterCommand(access, outcome, content) ==
  Entry(IF access.get THEN "BigGet" ELSE "BigSet", WindowsMessage(access),
        outcome # "ioctl", ReturnedBody(access, outcome, content))
WindowsGet(module, instance, param, size, outcome, payload) ==
  ModuleParameterCommand(ConfigGet(module, instance, param, size), outcome,
                         payload)
WindowsSetModuleParameter(module, instance, param, outcome, payload) ==
  ModuleParameterCommand(ConfigSet(module, instance, param, payload),
                         outcome, payload)
WindowsGetModuleParameter(module, instance, param, outcome, payload) ==
  WindowsGet(module, instance, param, MaxParameterPayloadSize, outcome,
             payload)

TinyReturned(feature, param, outcome, payload) ==
  ToHeaderBuffer(feature, param, 4 + Len(payload))
    \o StatusOf(outcome, "driver")
    \o (IF outcome = "success" THEN payload ELSE << >>)
TinyCommand(to, feature, param, outcome, input, output) ==
  Entry(to, ToTinyCmdBuffer(feature, param, input), outcome # "ioctl",
        IF outcome = "ioctl" THEN << >>
                             ELSE TinyReturned(feature, param, outcome, output))
TinyGetCommand(feature, param, outcome, returned) ==
  TinyCommand("TinyGet", feature, param, outcome,
              NewRing(Len(returned), 255), returned)
TinySetCommand(feature, param, outcome, expected) ==
  TinyCommand("TinySet", feature, param, outcome, expected, expected)

WindowsGetBaseFw(param, size, outcome, payload) ==
  WindowsGet(0, 0, param, size, outcome, payload)
WindowsGetTlv(param, tlvList) ==
  WindowsGetBaseFw(param, TlvBufferSize, "success", tlvList)
WindowsGetFwConfig(tlvList) == WindowsGetTlv(FW_CONFIG, tlvList)
WindowsGetHwConfig(tlvList) == WindowsGetTlv(HW_CONFIG_GET, tlvList)
WindowsGetGlobalMemoryState(tlvList) ==
  WindowsGetTlv(MEMORY_STATE_INFO_GET, tlvList)
WindowsGetModuleEntries(count, entries) ==
  WindowsGetBaseFw(MODULES_INFO_GET, ModulesInfoSize(count), "success",
                   Write(ModulesInfo, [module_info |-> entries]))
WindowsGetPerfItems(itemCount, items) ==
  WindowsGetBaseFw(GLOBAL_PERF_DATA, GlobalPerfDataSize(itemCount),
                   "success", Write(GlobalPerfData, [items |-> items]))
WindowsGetPipelineList(maxPplCount, ids) ==
  WindowsGetBaseFw(PIPELINE_LIST_INFO_GET, PipelinesListInfoSize(maxPplCount),
                   "success", Write(PipelinesListInfo, [ppl_id |-> ids]))
WindowsGetPipelineProps(id, props) ==
  WindowsGetBaseFw(ExtendedParameterId(PIPELINE_PROPS_GET, id),
                   MaxParameterPayloadSize, "success", Write(PplProps, props))
WindowsGetSchedulersInfo(coreId, info) ==
  WindowsGetBaseFw(ExtendedParameterId(SCHEDULERS_INFO_GET, coreId),
                   MaxParameterPayloadSize, "success",
                   Write(SchedulersInfo, info))
WindowsGetGateways(count, outcome, gateways) ==
  WindowsGetBaseFw(GATEWAYS_INFO_GET, GatewaysInfoSize(count), outcome,
                   Write(GatewaysInfo, [gateways |-> gateways]))
WindowsGetModuleInstanceProps(module, instance, props) ==
  WindowsGet(module, instance, MOD_INST_PROPS, MaxParameterPayloadSize,
             "success", Write(ModuleInstanceProps, props))

WindowsGetLogParameters(state) ==
  TinyGetCommand(FEATURE_FW_LOGS, 0, "success", TranslateToDriver(state))
WindowsSetLogParameters(state) ==
  TinySetCommand(FEATURE_FW_LOGS, 0, "success", TranslateToDriver(state))
WindowsGetProbeState(state) ==
  TinyGetCommand(FEATURE_FW_PROBE, ProbeFeatureParameter["STATE"],
                 "success", Bytes(4, state))
WindowsSetProbeState(outcome, state) ==
  TinySetCommand(FEATURE_FW_PROBE, ProbeFeatureParameter["STATE"],
                 outcome, Bytes(4, state))
WindowsSetProbeConfiguration(probes) ==
  TinySetCommand(FEATURE_FW_PROBE,
                 ProbeFeatureParameter["POINT_CONFIGURATION"], "success",
                 Write(ProbePointConfiguration, ToWindows(probes)))
WindowsGetRingBuffers(buffers) ==
  TinyGetCommand(FEATURE_FW_PROBE,
                 ProbeFeatureParameter["BUFFERS_DESCRIPTION"], "success",
                 Write(RingBuffersDescription, buffers))
WindowsGetExtractionPosition(position) ==
  TinyGetCommand(FEATURE_FW_PROBE,
                 ProbeFeatureParameter["EXTRACTION_BUFFER_STATUS"],
                 "success", Bytes(8, position))
WindowsGetInjectionPosition(probeIndex, position) ==
  TinyGetCommand(FEATURE_FW_PROBE,
                 ProbeFeatureParameter["INJECTION_BUFFER0_STATUS"]
                   + probeIndex, "success", Bytes(8, position))

FEATURE_PERFORMANCE_MEASUREMENT == 5
PERFORMANCE_MEASURE_PARAM == 0
WindowsGetPerfState(state) ==
  TinyGetCommand(FEATURE_PERFORMANCE_MEASUREMENT, PERFORMANCE_MEASURE_PARAM,
                 "success", Bytes(4, state))
WindowsSetPerfState(state) ==
  TinySetCommand(FEATURE_PERFORMANCE_MEASUREMENT, PERFORMANCE_MEASURE_PARAM,
                 "success", Bytes(4, state))
=============================================================================
