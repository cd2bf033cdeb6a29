-------------------------- MODULE InstanceConverter --------------------------
(***************************************************************************)
(* The instance model the agent serves, made from a topology by             *)
(* InstanceModelConverter: per type a collection of instances with their    *)
(* parents, children, pins and links.  Types are names, instance ids are     *)
(* numbers; a gateway id is a record of its type and index.                  *)
(***************************************************************************)
EXTENDS Topology

CONSTANTS ModuleName,     \* the module entries read at start: module id -> type name
          GatewayTypes,   \* the names of the gateway types the agent knows, in order
          DspCoreCount,   \* number of cores
          ServiceList        \* the services: [name, endPoints], with the type of end points

SystemName    == "system"
SubsystemName == "cavs"
FormatUnknown == "Unknown"

LOCAL Schema == INSTANCE InstanceSchema
X == INSTANCE IfdkXml WITH Classes <- Schema!Classes, Tags <- Schema!Tags,
                           Written <- Schema!Written, Required <- Schema!Required

Mapped(s, Op(_)) == [i \in DOMAIN s |-> Op(s[i])]

New(c, type, id) == X!New(c, [typeName |-> type, instanceId |-> id])

SubsystemParent == New("SubsystemRef", SubsystemName, 0)
PipeRef(p)      == New("InstanceRef", "pipe", p)
CoreRef(c)      == New("InstanceRef", "core", c)
TaskRef(id)     == New("InstanceRef", "task", id)
ModuleRef(m)    == New("ComponentRef", ModuleName[m[1]], m[2])
GatewayRef(g)   == New("ComponentRef", g.type, g.index)

CreateModuleRef(ms) == X!Named("ComponentRefCollection", "modules", Mapped(ms, ModuleRef))
TaskRefs(ids)       == X!Named("InstanceRefCollection", "tasks", Mapped(ids, TaskRef))

\* The module instances in the order of the map, by module then instance id.
Precedes(a, b) == a[1] < b[1] \/ (a[1] = b[1] /\ a[2] < b[2])
ModuleIds(t)   == SetToSortSeq(DOMAIN t.modules, Precedes)

\* The tasks of one core, then of every core.
CoreTasks(schedulers) ==
    FlattenSeq(Mapped(schedulers, LAMBDA s : Mapped(s.tasks, LAMBDA k :
        [id |-> k.id, modules |-> k.modules, core |-> s.core])))
Tasks(t) == FlattenSeq(Mapped(t.schedulers, CoreTasks))
PipeTasks(pipe) == pipe.llTasks \o pipe.dpTasks

-----------------------------------------------------------------------------
(* initializeIntermediateStructures(): parents and directions.              *)

Ascending(S) == SetToSortSeq(S, LAMBDA a, b : a < b)

\* Mutant: the second list of tasks is forgotten.
TaskPipesOfOneList(t, id) ==
    Ascending({t.pipelines[i].id : i \in {i \in DOMAIN t.pipelines : id \in Range(t.pipelines[i].llTasks)}})

TaskPipes(t, id)  == Ascending({t.pipelines[i].id : i \in
                        {i \in DOMAIN t.pipelines : id \in Range(PipeTasks(t.pipelines[i]))}})
ModulePipes(t, m) == Ascending({t.pipelines[i].id : i \in
                        {i \in DOMAIN t.pipelines : m \in Range(t.pipelines[i].modules)}})
ModuleTasks(t, m) == Ascending({k.id : k \in {k \in Range(Tasks(t)) : m \in Range(k.modules)}})

\* The direction the last module that uses the gateway gives it; its output
\* gateway is looked at after its input gateway.
GatewayDirection(t, g) ==
    LET users == {i \in DOMAIN ModuleIds(t) :
                    g \in {t.modules[ModuleIds(t)[i]].inputGateway,
                           t.modules[ModuleIds(t)[i]].outputGateway}}
        last  == CHOOSE i \in users : \A j \in users : j <= i
    IN  IF users = {} THEN "none"
        ELSE IF t.modules[ModuleIds(t)[last]].outputGateway = g THEN "Output" ELSE "Input"

-----------------------------------------------------------------------------
(* Collections of instances.                                                *)

LinkOf(from, output, to, input) ==
    [X!Default("Link") EXCEPT
        !.parts.From.fields = [typeName   |-> from.fields.typeName,
                               instanceId |-> from.fields.instanceId, outputId |-> output],
        !.parts.To.fields   = [typeName   |-> to.fields.typeName,
                               instanceId |-> to.fields.instanceId, inputId |-> input]]

\* The links of m to its gateways, which are at pin 0.
GatewayLinks(t, m) ==
    (IF t.modules[m].inputGateway = NoGateway THEN <<>>
     ELSE <<LinkOf(GatewayRef(t.modules[m].inputGateway), 0, ModuleRef(m), 0)>>) \o
    (IF t.modules[m].outputGateway = NoGateway THEN <<>>
     ELSE <<LinkOf(ModuleRef(m), 0, GatewayRef(t.modules[m].outputGateway), 0)>>)

CreateSubsystem(t) ==
    LET pipes    == Mapped(t.pipelines, LAMBDA p : PipeRef(p.id))
        cores    == [i \in 1..DspCoreCount |-> CoreRef(i - 1)]
        services == Mapped(ServiceList, LAMBDA s : New("ServiceRef", s.name, 0))
    IN  X!ListOf("SubsystemCollection", <<
          [New("Subsystem", SubsystemName, 0) EXCEPT
            !.parts.Parents.elements  = <<New("SystemRef", SystemName, 0)>>,
            !.parts.Children.elements =
                <<X!Named("InstanceRefCollection", "pipes", pipes),
                  X!Named("InstanceRefCollection", "cores", cores),
                  TaskRefs(Mapped(Tasks(t), LAMBDA k : k.id)),
                  X!Named("ComponentRefCollection", "gateways", Mapped(t.gateways, GatewayRef)),
                  CreateModuleRef(ModuleIds(t)),
                  X!Named("ServiceRefCollection", "services", services)>>,
            !.parts.Links.elements =
                FlattenSeq(Mapped(ModuleIds(t), LAMBDA m : GatewayLinks(t, m))) \o
                Mapped(t.links, LAMBDA l : LinkOf(ModuleRef(l.from[1]), l.from[2],
                                                  ModuleRef(l.to[1]), l.to[2]))]>>)

CreatePipe(t) ==
    X!ListOf("InstanceCollection", Mapped(t.pipelines, LAMBDA p :
        [New("Instance", "pipe", p.id) EXCEPT
            !.parts.Parents.elements  = <<SubsystemParent>>,
            !.parts.Children.elements = <<TaskRefs(PipeTasks(p)), CreateModuleRef(p.modules)>>]))

CreateTask(t) ==
    X!ListOf("InstanceCollection", Mapped(Tasks(t), LAMBDA k :
        [New("Instance", "task", k.id) EXCEPT
            !.parts.Parents.elements  = <<CoreRef(k.core)>> \o Mapped(TaskPipes(t, k.id), PipeRef),
            !.parts.Children.elements = <<CreateModuleRef(k.modules)>>]))

CreateCore(t) ==
    X!ListOf("InstanceCollection", Mapped(t.schedulers, LAMBDA s :
        [New("Instance", "core", s[1].core) EXCEPT
            !.parts.Parents.elements  = <<SubsystemParent>>,
            !.parts.Children.elements = <<TaskRefs(Mapped(CoreTasks(s), LAMBDA k : k.id))>>]))

Connectors(c, formats) ==
    [i \in DOMAIN formats |-> X!New(c, [id |-> i - 1, format |-> formats[i]])]

CreateModule(t, id) ==
    X!ListOf("ComponentCollection",
        Mapped(SelectSeq(ModuleIds(t), LAMBDA m : m[1] = id), LAMBDA m :
        [New("Component", ModuleName[id], m[2]) EXCEPT
            !.parts.Parents.elements = <<SubsystemParent>> \o Mapped(ModulePipes(t, m), PipeRef)
                                          \o Mapped(ModuleTasks(t, m), TaskRef),
            !.parts.Inputs.elements  =
                Connectors("Input", Mapped(t.modules[m].inputs, LAMBDA q : "format")),
            !.parts.Outputs.elements =
                Connectors("Output", Mapped(t.modules[m].outputs, LAMBDA q : "format"))]))

CreateGateway(t, type) ==
    X!ListOf("ComponentCollection",
        Mapped(SelectSeq(t.gateways, LAMBDA g : g.type = type), LAMBDA g :
        [New("Component", type, g.index) EXCEPT
            !.parts.Parents.elements = <<SubsystemParent>>,
            !.parts.Outputs.elements =
                IF GatewayDirection(t, g) = "Input" THEN Connectors("Output", <<FormatUnknown>>) ELSE <<>>,
            !.parts.Inputs.elements  =
                IF GatewayDirection(t, g) = "Output" THEN Connectors("Input", <<FormatUnknown>>) ELSE <<>>]))

EndPointRefs(s) ==
    [i \in 1..s.endPoints |-> New("EndPointRef", s.endPointType, i - 1)]

CreateService(s) ==
    X!ListOf("ServiceCollection", <<[New("Service", s.name, 0) EXCEPT
        !.parts.Parents.elements  = <<SubsystemParent>>,
        !.parts.Children.elements =
            IF s.endPoints = 0 THEN <<>>
            ELSE <<X!Named("EndPointRefCollection", "endpoints", EndPointRefs(s))>>]>>)

CreateEndPoint(s) ==
    X!ListOf("EndPointCollection", [i \in 1..s.endPoints |->
        [New("EndPoint", s.endPointType, i - 1) EXCEPT
            !.parts.Parents.elements = <<New("ServiceRef", s.name, 0)>>]])

CreateSystem ==
    [New("System", SystemName, 0) EXCEPT !.parts.Children.elements =
        <<X!Named("SubsystemRefCollection", "subsystems", <<SubsystemParent>>)>>]

\* Type name -> collection.  An endpoint collection exists for a service with
\* end points only.
CreateModel(t) ==
    LET WithEndPoints == SelectSeq(ServiceList, LAMBDA s : s.endPoints > 0)
        Named(name)   == CHOOSE s \in Range(ServiceList) : name \in {s.name, s.endPointType}
    IN  [name \in {SubsystemName} |-> CreateSubsystem(t)] @@
        [name \in {"core"} |-> CreateCore(t)] @@
        [name \in {"pipe"} |-> CreatePipe(t)] @@
        [name \in {"task"} |-> CreateTask(t)] @@
        [name \in Range(ModuleName) |->
            CreateModule(t, CHOOSE id \in DOMAIN ModuleName : ModuleName[id] = name)] @@
        [name \in Range(GatewayTypes) |-> CreateGateway(t, name)] @@
        [name \in Range(Mapped(ServiceList, LAMBDA s : s.name)) |-> CreateService(Named(name))] @@
        [name \in Range(Mapped(WithEndPoints, LAMBDA s : s.endPointType)) |->
            CreateEndPoint(Named(name))]

-----------------------------------------------------------------------------
(* What makes createModel() throw, and who catches it.                      *)

HasModuleEntry(id)     == id \in DOMAIN ModuleName
FindGatewayTypeName(g)  == g = NoGateway \/ g.type \in Range(GatewayTypes)

\* createSubsystem() names the gateways, then per module the module and its
\* gateways.  A gateway of unknown type raises the converter's exception; a
\* module that is not among the entries raises the one of the module handler,
\* which the converter does not translate (it catches System::Exception).
Thrown(t) ==
    LET failing == {m \in DOMAIN t.modules :
                      ~ /\ HasModuleEntry(m[1])
                        /\ FindGatewayTypeName(t.modules[m].inputGateway)
                        /\ FindGatewayTypeName(t.modules[m].outputGateway)}
        first   == CHOOSE m \in failing : \A other \in failing \ {m} : Precedes(m, other)
    IN  IF \E g \in Range(t.gateways) : ~FindGatewayTypeName(g) THEN "ConverterException"
        ELSE IF failing = {} THEN "nothing"
        ELSE IF HasModuleEntry(first[1]) THEN "ConverterException"
        ELSE "ModuleHandlerException"
==============================================================================
