--------------------------- MODULE ModuleHandler ----------------------------
(***************************************************************************)
(* The API of the firmware's modules (cAVS ModuleHandler), as two pure     *)
(* functions of one of its methods, a call: the access to the driver that  *)
(* the method makes, and what it returns, or throws, for what the driver   *)
(* gave it.  What is between the two, and when, is ModuleAccess.           *)
(*                                                                         *)
(* A call is [name, module, instance, param, payload]: `param' is also the *)
(* pipeline, the core or the state of the methods that have one.           *)
(***************************************************************************)
EXTENDS Tlv, DriverMessages

CONSTANT TlvBufferSize  (* 2 KiB in the code *)

(* The numbers of the base firmware's parameters (private_fw headers).     *)
FW_CONFIG              == 7
HW_CONFIG_GET          == 8
MODULES_INFO_GET       == 9
PIPELINE_LIST_INFO_GET == 10
PIPELINE_PROPS_GET     == 11
SCHEDULERS_INFO_GET    == 12
GATEWAYS_INFO_GET      == 13
MEMORY_STATE_INFO_GET  == 14
PERF_MEASUREMENTS_STATE == 17
GLOBAL_PERF_DATA       == 18

Call(name) == [name |-> name, module |-> 0, instance |-> 0, param |-> 0,
               payload |-> << >>]
CallOn(name, param) == [Call(name) EXCEPT !.param = param]
CallOf(name, id) == [Call(name) EXCEPT !.module = id[1], !.instance = id[2]]

(* What the handler learns once and for all when it is created. *)
Nobody == [fwConfig |-> InvalidateAll(FwConfig),
           hwConfig |-> InvalidateAll(HwConfig), entries |-> << >>]
FwCount(handler, name) == Count(handler.fwConfig[name].value)
HwCount(handler, name) == Count(handler.hwConfig[name].value)
ItemCount(handler) == FwCount(handler, "maxModInstCount")
                        + HwCount(handler, "dspCoreCount")

(* The constructor refuses to go on without these six. *)
ConfigIsValid(handler) ==
  /\ \A name \in {"fwVersion", "modulesCount", "maxPplCount",
                  "maxModInstCount"} : handler.fwConfig[name].valid
  /\ \A name \in {"gatewayCount", "dspCoreCount"} :
       handler.hwConfig[name].valid

-----------------------------------------------------------------------------
(* The access a call makes. *)
ConfigGet(module, instance, param, size) ==
  [get |-> TRUE, module |-> module, instance |-> instance, param |-> param,
   size |-> size, payload |-> << >>]
ConfigSet(module, instance, param, payload) ==
  [get |-> FALSE, module |-> module, instance |-> instance, param |-> param,
   size |-> Len(payload), payload |-> payload]
BaseFwGet(param, size) == ConfigGet(0, 0, param, size)

(* A part of the base firmware is addressed in the parameter. *)
ExtendedParameterId(type, part) == type + 256 * part

AccessOf(handler, call) ==
  CASE call.name = "readFwConfig" -> BaseFwGet(FW_CONFIG, TlvBufferSize)
    [] call.name = "readHwConfig" -> BaseFwGet(HW_CONFIG_GET, TlvBufferSize)
    [] call.name = "cacheModuleEntries" ->
         BaseFwGet(MODULES_INFO_GET,
                   ModulesInfoSize(FwCount(handler, "modulesCount")))
    [] call.name = "getPipelineIdList" ->
         BaseFwGet(PIPELINE_LIST_INFO_GET,
                   PipelinesListInfoSize(FwCount(handler, "maxPplCount")))
    [] call.name = "getPipelineProps" ->
         BaseFwGet(ExtendedParameterId(PIPELINE_PROPS_GET, call.param),
                   MaxParameterPayloadSize)
    [] call.name = "getSchedulersInfo" ->
         BaseFwGet(ExtendedParameterId(SCHEDULERS_INFO_GET, call.param),
                   MaxParameterPayloadSize)
    [] call.name = "getGatewaysInfo" ->
         BaseFwGet(GATEWAYS_INFO_GET,
                   GatewaysInfoSize(HwCount(handler, "gatewayCount")))
    [] call.name = "setPerfState" ->
         ConfigSet(0, 0, PERF_MEASUREMENTS_STATE, Bytes(4, call.param))
    [] call.name = "getPerfState" -> BaseFwGet(PERF_MEASUREMENTS_STATE, 4)
    [] call.name = "getPerfItems" ->
         BaseFwGet(GLOBAL_PERF_DATA, GlobalPerfDataSize(ItemCount(handler)))
    [] call.name = "getGlobalMemoryState" ->
         BaseFwGet(MEMORY_STATE_INFO_GET, TlvBufferSize)
    [] call.name = "getModuleInstanceProps" ->
         ConfigGet(call.module, call.instance, MOD_INST_PROPS,
                   MaxParameterPayloadSize)
    [] call.name = "setModuleParameter" ->
         ConfigSet(call.module, call.instance, call.param, call.payload)
    [] call.name = "getModuleParameter" ->
         ConfigGet(call.module, call.instance, call.param,
                   MaxParameterPayloadSize)

-----------------------------------------------------------------------------
(* What a call returns, for the `reply' configGet() returned, or threw:    *)
(* what is thrown below is thrown on.                                      *)
\* Mutant: what could be read of a short reply is taken.
PartlyDecoded(read) == Returns(read.value)
Decoded(read) ==
  IF read.ok THEN Returns(read.value) ELSE Throws("ModuleHandler")
GetFwParameterValue(T, reply) ==
  IF Succeeds(reply) THEN Decoded(Read(T, reply.value)) ELSE reply

(* A list in a structure of its own, if its size is an accepted one. *)
Items(field, IsAccepted(_), result) ==
  CASE ~Succeeds(result) -> result
    [] Succeeds(result) /\ IsAccepted(Len(result.value[field])) ->
         Returns(result.value[field])
    [] Succeeds(result) /\ ~IsAccepted(Len(result.value[field])) ->
         Throws("ModuleHandler")
ListOf(T, field, IsAccepted(_), reply) ==
  Items(field, IsAccepted, GetFwParameterValue(T, reply))

(* What a TLV list lacks, or has wrong, is only told by its flags. *)
ReadTlvParameters(dictionary, reply) ==
  IF Succeeds(reply) THEN Returns(Unpack(dictionary, reply.value)) ELSE reply

ResultOf(handler, call, reply) ==
  CASE call.name = "readFwConfig" -> ReadTlvParameters(FwConfig, reply)
    [] call.name = "readHwConfig" -> ReadTlvParameters(HwConfig, reply)
    [] call.name = "getGlobalMemoryState" ->
         ReadTlvParameters(GlobalMemoryState, reply)
    [] call.name = "cacheModuleEntries" ->
         ListOf(ModulesInfo, "module_info",
                LAMBDA n : n = FwCount(handler, "modulesCount"), reply)
    [] call.name = "getPipelineIdList" ->
         ListOf(PipelinesListInfo, "ppl_id",
                LAMBDA n : n <= FwCount(handler, "maxPplCount"), reply)
    [] call.name = "getGatewaysInfo" ->
         ListOf(GatewaysInfo, "gateways",
                LAMBDA n : n <= HwCount(handler, "gatewayCount"), reply)
    [] call.name = "getPerfItems" ->
         ListOf(GlobalPerfData, "items",
                LAMBDA n : n <= ItemCount(handler), reply)
    [] call.name = "getPipelineProps" -> GetFwParameterValue(PplProps, reply)
    [] call.name = "getSchedulersInfo" ->
         GetFwParameterValue(SchedulersInfo, reply)
    [] call.name = "getPerfState" -> GetFwParameterValue(U32, reply)
    [] call.name = "getModuleInstanceProps" ->
         GetFwParameterValue(ModuleInstanceProps, reply)
    [] OTHER -> reply  (* nothing to decode *)

(* What the constructor keeps of what it reads, one item after the other.  *)
Learnt(handler, call, value) ==
  CASE call.name = "readFwConfig" -> [handler EXCEPT !.fwConfig = value]
    [] call.name = "readHwConfig" -> [handler EXCEPT !.hwConfig = value]
    [] call.name = "cacheModuleEntries" -> [handler EXCEPT !.entries = value]
    [] OTHER -> handler

(* findModuleEntry(): a set, which is empty for a module nobody knows.     *)
FindModuleEntry(handler, moduleId) ==
  {e \in ToSet(handler.entries) : Count(e.module_id) = moduleId}
=============================================================================
