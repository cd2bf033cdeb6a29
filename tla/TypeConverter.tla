---------------------------- MODULE TypeConverter ----------------------------
(***************************************************************************)
(* The type model the agent serves, made once at start by TypeModelConverter *)
(* from the module entries and the configuration of firmware and hardware.   *)
(***************************************************************************)
EXTENDS Sequences, SequencesExt

CONSTANTS ModuleName,     \* the module entries read at start: module id -> type name
          GatewayTypes,   \* the names of the gateway types the agent knows, in order
          ServiceList,       \* the services: [name, endPoints, endPointType, direction]
          ValidItems      \* the configuration items the firmware has reported

SystemName    == "system"
SubsystemName == "cavs"
StaticTypes   == <<"pipe", "core", "task">>
StaticTypeCollections == <<"pipes", "cores", "tasks">>
StaticServiceTypes    == <<"fwlogs">>

LOCAL Schema == INSTANCE TypeSchema
X == INSTANCE IfdkXml WITH Classes <- Schema!Classes, Tags <- Schema!Tags,
                           Written <- Schema!Written, Required <- Schema!Required

Mapped(s, Op(_)) == [i \in DOMAIN s |-> Op(s[i])]

\* Names of the modules, in the order of their ids.
ModuleNames == Mapped(SetToSortSeq(DOMAIN ModuleName, LAMBDA a, b : a < b), LAMBDA id : ModuleName[id])

New(c, name)       == X!New(c, [name |-> name])
RefOf(c, name)     == X!New(c, [refName |-> name])
Described(o, text) == [o EXCEPT !.parts.Description.text = text]
Item(name, value)  == [New("Characteristic", name) EXCEPT !.text = value]

\* A type with a description and these collections of references.
TypeOf(c, name, text, children) ==
    [Described(New(c, name), text) EXCEPT !.parts.Children.elements = children]

ModuleRefs == X!Named("ComponentRefCollection", "modules",
                      Mapped(ModuleNames, LAMBDA n : RefOf("ComponentRef", n)))
TaskRefs   == X!Named("TypeRefCollection", "tasks", <<RefOf("TypeRef", "task")>>)

\* Configuration items in the order they are written, the firmware's first;
\* two items with an empty text are counts that became part of the name.
FwItems == <<"fwVersion", "memoryReclaimed", "slowClockFreqHz", "fastClockFreqHz",
             "dmaBufferConfig", "alhSupportLevel", "ipcDlMailboxBytes", "ipcUlMailboxBytes",
             "traceLogBytes", "maxPplCount", "maxAstateCount", "maxModulePinCount",
             "modulesCount", "maxModInstCount", "maxLlTasksPerPriCount", "llPriCount",
             "maxDpTasksCount">>
HwItems == <<"cavsVersion", "dspCoreCount", "memPageSize", "totalPhysicalMemoryPage",
             "i2sCaps", "gpdmaCaps", "gatewayCount", "lpEbbCount", "hpEbbCount",
             "ebbSizeBytes">>
ItemsOf(name) ==
    CASE name = "dmaBufferConfig" -> <<Item("dma min size", "bytes"), Item("dma max size", "bytes")>>
      [] name = "i2sCaps"         -> <<Item("i2s version", "v"), Item("i2s controller", "address")>>
      [] name = "gpdmaCaps"       -> <<Item("lp gpdma count n", ""), Item("hp gpdma count n", "")>>
      [] OTHER                    -> <<Item(name, "value")>>

GetSystemCharacteristics ==
    FlattenSeq(Mapped(SelectSeq(FwItems \o HwItems, LAMBDA n : n \in ValidItems), ItemsOf))

CreateSystem ==
    TypeOf("System", SystemName, "platform",
           <<X!Named("SubsystemRefCollection", "subsystems", <<RefOf("SubsystemRef", SubsystemName)>>)>>)

CreateSubsystem ==
    LET components == GatewayTypes \o ModuleNames
        statics    == [i \in DOMAIN StaticTypes |->
                         X!Named("TypeRefCollection", StaticTypeCollections[i],
                                 <<RefOf("TypeRef", StaticTypes[i])>>)]
        services   == X!Named("ServiceRefCollection", "services",
                              Mapped(StaticServiceTypes, LAMBDA n : RefOf("ServiceRef", n)))
        gateways   == X!Named("ComponentRefCollection", "gateways",
                              Mapped(GatewayTypes, LAMBDA n : RefOf("ComponentRef", n)))
    IN  [TypeOf("Subsystem", SubsystemName, "subsystem", statics \o <<services, gateways, ModuleRefs>>)
          EXCEPT !.parts.Characteristics.elements = GetSystemCharacteristics,
                 !.parts.Categories.elements =
                    Mapped(StaticTypes, LAMBDA n : RefOf("TypeRef", n)) \o
                    Mapped(StaticServiceTypes, LAMBDA n : RefOf("ServiceRef", n)) \o
                    Mapped(components, LAMBDA n : RefOf("ComponentRef", n))]

\* Mutant: the pipe type does not announce its tasks.
CreatePipeOfModules == TypeOf("Type", "pipe", "pipe type", <<ModuleRefs>>)

CreatePipe == TypeOf("Type", "pipe", "pipe type", <<ModuleRefs, TaskRefs>>)
CreateTask == TypeOf("Type", "task", "task type", <<ModuleRefs>>)
CreateCore == TypeOf("Type", "core", "core type", <<TaskRefs>>)
CreateGateway(name) == Described(New("Component", name), "gateway")
CreateModule(name) ==
    [Described(New("Component", name), "module") EXCEPT
        !.parts.Characteristics.elements = <<Item("ModuleId", "id"), Item("UUID", "uuid")>>]
CreateService(s) ==
    TypeOf("Service", s.name, "service",
           IF s.endPoints = 0 THEN <<>>
           ELSE <<X!Named("EndPointRefCollection", "endpoints",
                          <<RefOf("EndPointRef", s.endPointType)>>)>>)
CreateEndPoint(s) ==
    Described(X!New("EndPoint", [name |-> s.endPointType, direction |-> s.direction]), "end point")

\* Type name -> type, the system's type aside.
CreateModel ==
    LET types == <<CreateSubsystem, CreatePipe, CreateTask, CreateCore>>
                 \o Mapped(ModuleNames, CreateModule) \o Mapped(GatewayTypes, CreateGateway)
                 \o Mapped(ServiceList, CreateService)
                 \o Mapped(SelectSeq(ServiceList, LAMBDA s : s.endPoints > 0), CreateEndPoint)
    IN  [name \in {types[i].fields.name : i \in DOMAIN types} |->
            types[CHOOSE i \in DOMAIN types : types[i].fields.name = name]]
==============================================================================
