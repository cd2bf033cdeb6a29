------------------------------ MODULE Resources -----------------------------
(***************************************************************************)
(* What the agent makes of an HTTP request: the resource its URI is routed *)
(* to (Rest's Dispatcher, core::DebugAgent), the parameter applier that    *)
(* its type is dispatched to, and the document it comes with, turned into  *)
(* a request of ServiceRequests or into an error; and, in the end, what is *)
(* shown to the client.                                                    *)
(*                                                                         *)
(* A URI is the sequence of its nodes.  A document is a function, from the *)
(* name of an element to its text; what is shown is a sequence of rows of  *)
(* texts.  The blocks of a module's parameters, and a stream, are what     *)
(* ServiceRequests takes.  Mutual exclusion on the streams is Agent's.     *)
(***************************************************************************)
EXTENDS ServiceRequests

CONSTANTS
  ModuleNames,  (* the id of each module of the firmware, by its name        *)
  TypeNames,    (* the types the type model knows                            *)
  Collections,  (* the ids of the instances the instance model has, by type  *)
  MaxNumber     (* no text stands for a number above it                      *)

Http(verb, uri, content) == [verb |-> verb, uri |-> uri, content |-> content]
IsHttp(request) == "uri" \in DOMAIN request

(* Response::ErrorStatus, and the ways to end without calling the driver. *)
ErrorStatus ==
  [NotFound |-> "404", BadRequest |-> "400", VerbNotAllowed |-> "405",
   InternalError |-> "500"]
HttpError(error) == [Request("error") EXCEPT !.kind = ErrorStatus[error]]
Page == Request("page")

-----------------------------------------------------------------------------
(* Texts. *)
Booleans == {"0", "1"}
BooleanText(value) == IF value THEN "1" ELSE "0"
Numbers(max) == {ToString(n) : n \in 0 .. Least(max, MaxNumber)}
NumberOf(text) == CHOOSE n \in 0 .. MaxNumber : ToString(n) = text
Cell(bytes) ==
  ToString(FoldRight(LAMBDA byte, n : byte + 256 * n, bytes, 0))
NameOf(value, table) == CHOOSE name \in DOMAIN table : table[name] = value

(* XmlHelper: an element that is there, with one of the texts expected. *)
HasValue(document, name, texts) ==
  /\ name \in DOMAIN document
  /\ document[name] \in texts

-----------------------------------------------------------------------------
(* The dispatcher: the first URI that matches, node by node.  The routes   *)
(* are those of DebugAgent, of which each has another resource.            *)
TypeNameNode   == "${type_name}"
InstanceIdNode == "${instance_id}"
IdentifierNodes == {TypeNameNode, InstanceIdNode}

Route(path, resource, kind) ==
  [path |-> path, resource |-> resource, kind |-> kind]
Served(path, resource) == Route(path, resource, "Control")
Routes ==
  << Served(<< "instance", "cavs.fwlogs", "0", "streaming" >>, "LogStream"),
     Served(<< "instance", "cavs.probe.endpoint", InstanceIdNode,
               "streaming" >>, "ProbeStream"),
     Served(<< "type" >>, "SystemType"),
     Served(<< "instance" >>, "SystemInstance"),
     Served(<< "type", TypeNameNode >>, "Type"),
     Served(<< "instance", TypeNameNode >>, "InstanceCollection"),
     Served(<< "instance", TypeNameNode, InstanceIdNode >>, "Instance"),
     Route(<< "type", TypeNameNode, "control_parameters" >>,
           "ParameterStructure", "Control"),
     Route(<< "instance", TypeNameNode, InstanceIdNode,
              "control_parameters" >>, "ParameterValue", "Control"),
     Route(<< "type", TypeNameNode, "info_parameters" >>,
           "ParameterStructure", "Info"),
     Route(<< "instance", TypeNameNode, InstanceIdNode,
              "info_parameters" >>, "ParameterValue", "Info"),
     Served(<< "instance", "cavs", "0", "refreshed" >>, "Refresh"),
     Served(<< "internal", "modules" >>, "ModuleList"),
     Served(<< "internal", "topology" >>, "Topology"),
     Served(<< "internal", "model" >>, "ModelDump"),
     Served(<< "about" >>, "About") >>

(* A path that has an identifier twice does not let the agent start. *)
Positions(path, node) == {i \in DOMAIN path : path[i] = node}
IsValidPath(path) ==
  \A node \in IdentifierNodes : Cardinality(Positions(path, node)) <= 1
ASSUME RoutesAssumption ==
  \A i \in DOMAIN Routes : IsValidPath(Routes[i].path)

MatchUri(path, uri) ==
  /\ Len(path) = Len(uri)
  /\ \A i \in DOMAIN path :
       path[i] \in IdentifierNodes \/ path[i] = uri[i]
Matching(uri) == {i \in DOMAIN Routes : MatchUri(Routes[i].path, uri)}
ResolveResource(uri) ==
  Routes[CHOOSE i \in Matching(uri) : \A j \in Matching(uri) : i <= j]
IdentifierValue(path, uri, node) ==
  uri[CHOOSE i \in Positions(path, node) : TRUE]

(* The handlers a resource has: no other verb is allowed. *)
Verbs(resource) ==
  CASE resource = "Refresh"                             -> {"POST"}
    [] resource \in {"ProbeStream", "ParameterValue"}   -> {"GET", "PUT"}
    [] resource \notin {"Refresh", "ProbeStream", "ParameterValue"} ->
         {"GET"}

-----------------------------------------------------------------------------
(* The documents that set the parameters of a service.                     *)
Levels == DOMAIN LogPriority \ {"Quiet"}
PerfStates == [Disabled |-> Disabled, Stopped |-> Stopped,
               Started  |-> Started,  Paused  |-> Paused]

IsLogDocument(document) ==
  /\ HasValue(document, "Started", Booleans)
  /\ HasValue(document, "Verbosity", Levels)
  /\ HasValue(document, "ViaPTI", Booleans)
SetLogService(document) ==
  IF ~IsLogDocument(document) THEN HttpError("InternalError")
  ELSE [Request("putLog") EXCEPT !.payloads =
          LogState(document["Started"] = "1", document["Verbosity"],
                   IF document["ViaPTI"] = "1" THEN "Pti" ELSE "Sram")]

SetPerfService(document) ==
  IF ~HasValue(document, "State", DOMAIN PerfStates)
    THEN HttpError("InternalError")
    ELSE [Request("putPerf") EXCEPT !.state = PerfStates[document["State"]]]

SetProbeService(document) ==
  IF ~HasValue(document, "Started", Booleans)
    THEN HttpError("InternalError")
    ELSE Request(IF document["Started"] = "1" THEN "startProbes"
                                              ELSE "stopProbes")

(* An end point.  The fields of a disabled one are not looked at; those of *)
(* a point are as wide as the firmware has them.                           *)
ModulePrefix == "module-"
InstanceIdSize == 256
IndexSize      == 64
KnownModules(agent) ==
  {name \in DOMAIN ModuleNames :
     FindModuleEntry(agent.handler, ModuleNames[name]) # {}}
ComponentTypes(agent) == {ModulePrefix \o name : name \in KnownModules(agent)}
GetCavsModuleName(component) ==
  CHOOSE name \in DOMAIN ModuleNames : ModulePrefix \o name = component
IsPointDocument(agent, document) ==
  /\ HasValue(document, "Purpose", DOMAIN PurposeNumber)
  /\ HasValue(document, "ComponentType", ComponentTypes(agent))
  /\ HasValue(document, "InstanceId", Numbers(InstanceIdSize - 1))
  /\ HasValue(document, "Type", DOMAIN TypeNumber)
  /\ HasValue(document, "Index", Numbers(IndexSize - 1))
IsEndPointDocument(agent, document) ==
  /\ HasValue(document, "Active", Booleans)
  /\ document["Active"] = "0" \/ IsPointDocument(agent, document)
ProbeConfig(document) ==
  IF document["Active"] = "0" THEN DisabledProbe
  ELSE Probe(TRUE,
             Point(ModuleNames[GetCavsModuleName(document["ComponentType"])],
                   NumberOf(document["InstanceId"]), document["Type"],
                   NumberOf(document["Index"])),
             document["Purpose"])
SetEndPoint(agent, probe, document) ==
  IF ~IsEndPointDocument(agent, document) THEN HttpError("InternalError")
  ELSE [Request("putEndPoint") EXCEPT !.id = << 0, probe >>,
                                      !.payloads = ProbeConfig(document)]

(* The module of an enabled probe has to be one of the firmware. *)
GetEndPoint(agent, probe) ==
  LET config == agent.probes[probe]
  IN  IF config.enabled
           /\ FindModuleEntry(agent.handler, config.point.module) = {}
        THEN HttpError("InternalError")
        ELSE [Request("getEndPoint") EXCEPT !.id = << 0, probe >>]

-----------------------------------------------------------------------------
(* The parameter dispatcher: the appliers, by type, and what each accepts. *)
(* Services and end points have control parameters only, a service its     *)
(* instance "0" only, and the subsystem nothing but values to get.         *)
Appliers ==
  ("cavs" :> "subsystem") @@ ("cavs.fwlogs" :> "log")
    @@ ("cavs.perf_measurement" :> "perf") @@ ("cavs.probe" :> "probe")
    @@ ("cavs.probe.endpoint" :> "endpoint")
FdkModuleName(name) == "cavs." \o ModulePrefix \o name
ModuleTypes(agent) == {FdkModuleName(name) : name \in KnownModules(agent)}
FdkModuleTypeToCavs(type) ==
  CHOOSE name \in DOMAIN ModuleNames : FdkModuleName(name) = type

IsService(type) ==
  type \in DOMAIN Appliers /\ Appliers[type] \in {"log", "perf", "probe"}
IsEndPoint(type) == type \in DOMAIN Appliers /\ Appliers[type] = "endpoint"
IsSubsystem(type) == type \in DOMAIN Appliers /\ Appliers[type] = "subsystem"
ServiceAccepts(kind, id)  == kind = "Control" /\ id = "0"
EndPointAccepts(kind, id) ==
  kind = "Control" /\ id \in Numbers(MaxProbeCount - 1)

GetParameterStructure(agent, type, kind) ==
  IF \/ type \in ModuleTypes(agent)
     \/ (IsService(type) \/ IsEndPoint(type)) /\ kind = "Control"
    THEN Page ELSE HttpError("NotFound")

ModuleRequestOf(name, type, kind, id) ==
  IF id \notin Numbers(MaxNumber) THEN HttpError("InternalError")
  ELSE [Request(name) EXCEPT
          !.kind = kind,
          !.id   = << ModuleNames[FdkModuleTypeToCavs(type)], NumberOf(id) >>]
(* An instance of the subsystem that is not "0" is one it does not have. *)
SubsystemRequest(kind, id) ==
  [Request("getSubsystem") EXCEPT
     !.kind = kind, !.id = << 0, IF id = "0" THEN 0 ELSE 1 >>]
ServiceRequestOf(type) ==
  Request(CASE Appliers[type] = "log"   -> "getLog"
            [] Appliers[type] = "perf"  -> "getPerf"
            [] Appliers[type] = "probe" -> "getProbes")
GetParameterValue(agent, type, kind, id) ==
  CASE type \in ModuleTypes(agent) ->
         ModuleRequestOf("getModule", type, kind, id)
    [] IsSubsystem(type) -> SubsystemRequest(kind, id)
    [] IsService(type) /\ ServiceAccepts(kind, id) -> ServiceRequestOf(type)
    [] IsEndPoint(type) /\ EndPointAccepts(kind, id) ->
         GetEndPoint(agent, NumberOf(id))
    [] OTHER -> HttpError("NotFound")

SetService(type, document) ==
  CASE Appliers[type] = "log"   -> SetLogService(document)
    [] Appliers[type] = "perf"  -> SetPerfService(document)
    [] Appliers[type] = "probe" -> SetProbeService(document)
SetParameterValue(agent, type, kind, id, document) ==
  CASE kind # "Control" -> HttpError("NotFound")
    [] type \in ModuleTypes(agent) /\ kind = "Control" ->
         [ModuleRequestOf("putModule", type, kind, id) EXCEPT
            !.payloads = document]
    [] IsService(type) /\ ServiceAccepts(kind, id) ->
         SetService(type, document)
    [] IsEndPoint(type) /\ EndPointAccepts(kind, id) ->
         SetEndPoint(agent, NumberOf(id), document)
    [] OTHER -> HttpError("NotFound")

-----------------------------------------------------------------------------
(* The resources. *)
GetType(type) ==
  IF type \in TypeNames THEN Page ELSE HttpError("BadRequest")
GetCollection(agent, type) ==
  CASE ~agent.model -> HttpError("InternalError")
    [] agent.model /\ type \notin DOMAIN Collections ->
         HttpError("BadRequest")
    [] agent.model /\ type \in DOMAIN Collections -> Page
GetInstance(agent, type, id) ==
  CASE ~agent.model -> HttpError("InternalError")
    [] agent.model -> IF type \in DOMAIN Collections
                           /\ id \in Collections[type]
                        THEN Page ELSE HttpError("BadRequest")

(* ProbeStreamResource: an id that is no number, or that no probe has. *)
StreamProbe(verb, id, content) ==
  CASE id \notin Numbers(MaxNumber) -> HttpError("BadRequest")
    [] id \in Numbers(MaxNumber) /\ id \notin Numbers(MaxProbeCount - 1) ->
         HttpError("InternalError")
    [] id \in Numbers(MaxProbeCount - 1) ->
         IF verb = "GET" THEN Page
         ELSE [Request("putStream") EXCEPT !.payloads = content]

HandleRequest(agent, route, request) ==
  LET type == IdentifierValue(route.path, request.uri, TypeNameNode)
      id   == IdentifierValue(route.path, request.uri, InstanceIdNode)
  IN  CASE route.resource \in {"LogStream", "SystemType", "SystemInstance",
                               "About"} -> Page
        [] route.resource = "ModuleList" -> Request("getModules")
        [] route.resource = "Topology"   -> Request("getTopology")
        [] route.resource = "ModelDump"  ->
             IF agent.model THEN Page ELSE HttpError("InternalError")
        [] route.resource = "Refresh"    -> Request("refresh")
        [] route.resource = "Type"       -> GetType(type)
        [] route.resource = "InstanceCollection" -> GetCollection(agent, type)
        [] route.resource = "Instance"   -> GetInstance(agent, type, id)
        [] route.resource = "ProbeStream" ->
             StreamProbe(request.verb, id, request.content)
        [] route.resource = "ParameterStructure" ->
             GetParameterStructure(agent, type, route.kind)
        [] route.resource = "ParameterValue" /\ request.verb = "GET" ->
             GetParameterValue(agent, type, route.kind, id)
        [] route.resource = "ParameterValue" /\ request.verb = "PUT" ->
             SetParameterValue(agent, type, route.kind, id, request.content)

AsRequest(agent, request) ==
  CASE Matching(request.uri) = {} -> HttpError("NotFound")
    [] Matching(request.uri) # {} ->
         LET route == ResolveResource(request.uri)
         IN  IF request.verb \notin Verbs(route.resource)
               THEN HttpError("VerbNotAllowed")
               ELSE HandleRequest(agent, route, request)

-----------------------------------------------------------------------------
(* What is shown.  The parameters of the services and of the end points,   *)
(* as the texts of their elements ...                                      *)
ShownLog(platform, agent, got) ==
  IF platform = "linux"
    THEN << << BooleanText(Producing(agent)),
               NameOf(AsNumber(got[1].value), LogPriority), "0" >> >>
    ELSE LET Field(n) == AsNumber(SubSeq(got[1].value, 4 * n - 3, 4 * n))
         IN  << << BooleanText(Field(1) = 1),
                   NameOf(Field(2), FW_LOG_LEVEL),
                   BooleanText(NameOf(Field(3), FW_LOG_OUTPUT) = "Pti") >> >>
ShownPerf(got) == << << NameOf(AsNumber(got[1].value), PerfStates) >> >>
ShownProbes(platform, agent, got) ==
  << << BooleanText(IF platform = "linux"
                      THEN agent.active
                      ELSE AsNumber(got[1].value) = Active) >> >>
NoComponent == "_Invalid_"
ShownEndPoint(config) ==
  << << BooleanText(config.enabled), config.purpose,
        IF config.enabled
          THEN ModulePrefix \o NameOf(config.point.module, ModuleNames)
          ELSE NoComponent,
        ToString(config.point.instance), config.point.type,
        ToString(config.point.index) >> >>

(* ... those of the subsystem: the loads, cores first ... *)
PowerModeOf(item) ==
  IF (item.details[4] \div 64) % 2 = 0 THEN "D0" ELSE "D0i3"
ShownItem(item) ==
  << ToString(IdOf(item.resourceId)[2]), PowerModeOf(item),
     BooleanText(IsRemoved(item)), Cell(item.peak), Cell(item.average) >>
ShownItems(items) ==
  LET modules == SelectSeq(items, LAMBDA item : ~IsCore(item))
      cores   == SelectSeq(items, LAMBDA item : IsCore(item))
      rows    == cores \o modules
  IN  [i \in DOMAIN rows |-> ShownItem(rows[i])]

(* ... and the internal pages: the module entries ...                      *)
ModuleRow(entry) ==
  << Cell(entry.module_id), NameOf(Count(entry.module_id), ModuleNames),
     Cell(entry.state_flags), Cell(entry.type.ul), Cell(entry.entry_point),
     Cell(entry.cfg_offset), Cell(entry.cfg_count),
     Cell(entry.affinity_mask), Cell(entry.instance_max_count),
     Cell(entry.instance_stack_size) >>
ModuleRows(handler) ==
  [i \in DOMAIN handler.entries |-> ModuleRow(handler.entries[i])]

(* ... and the topology: gateways, pipelines, schedulers and instances.    *)
(* The fields of a gateway's word are its index, eight bits, and its type, *)
(* five.  A table in a cell follows its row, and the formats of pins, and  *)
(* the hashes and the segments of modules, are left out.                   *)
CompoundText(id) ==
  "(" \o ToString(IdOf(id)[1]) \o "," \o ToString(IdOf(id)[2]) \o ")"
VectorToString(texts) == FoldLeft(LAMBDA s, text : s \o text \o ", ", "",
                                  texts)
CompoundsText(ids) ==
  VectorToString([i \in DOMAIN ids |-> CompoundText(ids[i])])
CellsText(words) == VectorToString([i \in DOMAIN words |-> Cell(words[i])])

GatewayNames ==
  [n \in 0 .. 17 |->
     CASE n = 0  -> "hda-host-out-gateway"   [] n = 1  -> "hda-host-in-gateway"
       [] n = 2  -> "hda-host-inout-gateway" [] n = 8  -> "hda-link-out-gateway"
       [] n = 9  -> "hda-link-in-gateway"    [] n = 10 -> "hda-link-inout-gateway"
       [] n = 11 -> "dmic-link-in-gateway"   [] n = 12 -> "i2s-link-out-gateway"
       [] n = 13 -> "i2s-link-in-gateway"    [] n = 14 -> "slimbus-link-out-gateway"
       [] n = 15 -> "slimbus-link-in-gateway" [] n = 16 -> "alh-link-out-gateway"
       [] n = 17 -> "alh-link-in-gateway"    [] n \in 3 .. 7 -> "unknown"]
DmaType(word) == word[2] % 32
VIndex(word)  == word[1]
GatewayToString(word) ==
  IF word = Unset THEN "none"
  ELSE "(" \o GatewayNames[DmaType(word)] \o "(" \o ToString(DmaType(word))
         \o "), " \o ToString(VIndex(word)) \o ")"

GatewayRow(gateway) ==
  << ToString(DmaType(gateway.id)), GatewayNames[DmaType(gateway.id)],
     ToString(VIndex(gateway.id)), Cell(gateway.attribs.dw) >>
DumpGateways(gateways) ==
  [i \in DOMAIN gateways |-> GatewayRow(gateways[i])]

PipelineRow(pipeline) ==
  << Cell(pipeline.id), Cell(pipeline.priority),
     Cell(pipeline.total_memory_bytes), Cell(pipeline.used_memory_bytes),
     Cell(pipeline.context_pages), CellsText(pipeline.dp_tasks),
     CellsText(pipeline.ll_tasks), CompoundsText(pipeline.module_instances) >>
DumpPipelines(pipelines) ==
  [i \in DOMAIN pipelines |-> PipelineRow(pipelines[i])]

DumpTasks(tasks) ==
  [i \in DOMAIN tasks |->
     << Cell(tasks[i].task_id), CompoundsText(tasks[i].module_instance_id) >>]
SchedulerRow(scheduler) ==
  << Cell(scheduler.core_id), Cell(scheduler.processing_domain),
     ToString(Len(scheduler.task_info)) >>
DumpCoreSchedulers(info) ==
  FlattenSeq([i \in DOMAIN info.scheduler_info |->
    << SchedulerRow(info.scheduler_info[i]) >>
      \o DumpTasks(info.scheduler_info[i].task_info)])
DumpAllSchedulers(cores) ==
  FlattenSeq([i \in DOMAIN cores |->
    << << ToString(i - 1), ToString(Len(cores[i].scheduler_info)) >> >>
      \o DumpCoreSchedulers(cores[i])])

DumpPins(pins) ==
  [i \in DOMAIN pins |->
     << Cell(pins[i].phys_queue_id), Cell(pins[i].stream_type) >>]
InstanceRow(props) ==
  << CompoundText(props.id), ToString(IdOf(props.id)[1]),
     NameOf(IdOf(props.id)[1], ModuleNames), ToString(IdOf(props.id)[2]),
     Cell(props.dp_queue_type), Cell(props.queue_alignment),
     Cell(props.cp_usage_mask), Cell(props.stack_bytes),
     Cell(props.bss_total_bytes), Cell(props.bss_used_bytes),
     Cell(props.ibs_bytes), Cell(props.obs_bytes), Cell(props.cpc),
     Cell(props.cpc_peak), GatewayToString(props.input_gateway.dw),
     GatewayToString(props.output_gateway.dw) >>
DumpModuleInstances(instances) ==
  FlattenSeq([i \in DOMAIN instances |->
    << InstanceRow(instances[i]) >>
      \o DumpPins(instances[i].input_pins.pin_info)
      \o DumpPins(instances[i].output_pins.pin_info)])

(* The results of RefreshTopology, by kind.  The pipelines are sorted by   *)
(* priority; those of the same priority are in any order, here in theirs.  *)
ValuesOf(got, first, last) == [i \in 1 .. last - first + 1 |->
                                 got[first + i - 1].value]
PipelinesOf(got) ==
  SortSeq(ValuesOf(got, 3, 2 + Len(got[2].value)),
          LAMBDA a, b : AsNumber(a.priority) < AsNumber(b.priority))
SchedulersEnd(handler, got) ==
  2 + Len(got[2].value) + HwCount(handler, "dspCoreCount")
InstancesOf(handler, got) ==
  ValuesOf(got, SchedulersEnd(handler, got) + 1, Len(got))
ShownTopology(handler, got) ==
  DumpGateways(got[1].value) \o DumpPipelines(PipelinesOf(got))
    \o DumpAllSchedulers(ValuesOf(got, 3 + Len(got[2].value),
                                  SchedulersEnd(handler, got)))
    \o DumpModuleInstances(InstancesOf(handler, got))

(* An instance of a module that is not one of the firmware has no row. *)
HasNames(handler, instances) ==
  \A i \in DOMAIN instances :
    FindModuleEntry(handler, IdOf(instances[i].id)[1]) # {}
GetTopology(handler, got) ==
  LET next == RefreshTopology(handler, got)
  IN  IF IsAnswer(next) /\ Status(next) = "200"
           /\ ~HasNames(handler, InstancesOf(handler, got))
        THEN Answer("500") ELSE next

Shown(platform, agent, request, got) ==
  CASE request.name = "getLog"      -> ShownLog(platform, agent, got)
    [] request.name = "getPerf"     -> ShownPerf(got)
    [] request.name = "getProbes"   -> ShownProbes(platform, agent, got)
    [] request.name = "getEndPoint" ->
         ShownEndPoint(agent.probes[request.id[2]])
    [] request.name = "getSubsystem" -> ShownItems(got[1].value)
    [] request.name = "getModules"  -> ModuleRows(agent.handler)
    [] request.name = "getTopology" -> ShownTopology(agent.handler, got)

-----------------------------------------------------------------------------
(* The next call of the driver that a request needs, or its answer. *)
AgentCall(platform, agent, request, call, got) ==
  CASE request.name = "error" -> Answer(request.kind)
    [] request.name \in {"page", "getModules", "getEndPoint", "putEndPoint",
                         "putStream"} -> Answer("200")
    [] request.name = "getTopology" -> GetTopology(agent.handler, got)
    [] OTHER -> NextCallOf(platform, agent, request, call, got)
=============================================================================
