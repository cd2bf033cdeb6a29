----------------------------- MODULE InstanceModel -----------------------------
(***************************************************************************)
(* The refresh of the instance model: a POST asks System::getTopology() for  *)
(* the topology, one query to the firmware after another, converts it and    *)
(* replaces the model that the GETs serve.  The driver may create and delete *)
(* pipelines between two queries, and any query may fail.  One mutex is held *)
(* through the refresh, so refreshes and GETs follow one another.            *)
(*                                                                            *)
(* The firmware: gateways, pipes (a function from pipeline id to its          *)
(* properties), schedulers (per core) and modules (a function from module     *)
(* instance id to its properties).                                            *)
(***************************************************************************)
EXTENDS InstanceConverter, FiniteSets

CONSTANTS Initial,       \* configurations the firmware may start in
          Reconfigured,  \* configurations it may change to, from one another
          MaxPplCount,   \* FwConfig::maxPplCount
          ValidItems,    \* configuration items reported at start
          MaxChanges,    \* bound: changes of the configuration
          MaxRefreshes   \* bound: refreshes

\* The firmware lists the modules of pipelines and tasks, the tasks of every
\* core, and the queues of the pins of a module; a module instance id is a pair
\* of numbers.
IsList(s) == s \in Seq(Range(s))

ASSUME ConfigurationAssumption ==
    \A c \in Initial \cup Reconfigured :
        /\ \A p \in DOMAIN c.pipes : IsList(c.pipes[p].modules)
        /\ \A core \in 1..DspCoreCount :
              /\ IsList(c.schedulers[core])
              /\ \A s \in Range(c.schedulers[core]) :
                    IsList(s.tasks) /\ \A k \in Range(s.tasks) : IsList(k.modules)
        /\ DOMAIN c.modules \subseteq Nat \X Nat
        /\ \A m \in DOMAIN c.modules :
              IsList(c.modules[m].inputs) /\ IsList(c.modules[m].outputs)

ASSUME CoreAssumption == DspCoreCount \in Nat \ {0}

VARIABLES firmware,  \* the configuration of the firmware
          query,     \* the query a refresh makes next, "idle" when there is none
          todo,      \* ids still to be asked for
          topology,  \* what the refresh has found so far
          model,     \* the model the GETs serve: NoModel, or a collection per type
          stable,    \* history: the firmware has not changed since the refresh began
          coherent,  \* history: stable, at the end of the refresh that made the model
          changes, refreshes

refreshVars == <<firmware, query, todo, topology, model, stable, coherent, changes, refreshes>>

NoModel == <<>>
Types   == INSTANCE TypeConverter

RefreshInit ==
    /\ firmware \in Initial
    /\ query = "idle" /\ todo = <<>> /\ topology = EmptyTopology
    /\ model = NoModel /\ stable = TRUE /\ coherent = TRUE
    /\ changes = 0 /\ refreshes = 0

Refresh ==
    /\ query = "idle" /\ refreshes < MaxRefreshes
    /\ query' = "gateways" /\ topology' = EmptyTopology /\ stable' = TRUE
    /\ refreshes' = refreshes + 1
    /\ UNCHANGED <<firmware, todo, model, coherent, changes>>

\* One query is answered.
Fetched(found, next, ids) ==
    /\ topology' = found /\ query' = next /\ todo' = ids
    /\ UNCHANGED <<firmware, model, stable, coherent, changes, refreshes>>

\* Mutant: the client is told, but the previous model stays.
ReportOnly ==
    /\ query' = "idle" /\ todo' = <<>> /\ topology' = EmptyTopology
    /\ UNCHANGED <<firmware, model, stable, coherent, changes, refreshes>>

\* The model is discarded and the client told so.
Invalidate ==
    /\ query' = "idle" /\ model' = NoModel /\ todo' = <<>> /\ topology' = EmptyTopology
    /\ UNCHANGED <<firmware, stable, coherent, changes, refreshes>>

GetGatewaysInfo ==
    /\ query = "gateways"
    /\ Fetched([topology EXCEPT !.gateways = firmware.gateways], "pipelines", <<>>)

GetPipelineIdList ==
    /\ query = "pipelines"
    /\ IF Cardinality(DOMAIN firmware.pipes) > MaxPplCount THEN Invalidate
       ELSE Fetched(topology, "props", Ascending(DOMAIN firmware.pipes))

\* A pipeline that is gone makes the firmware answer with an error.
GetPipelineProps ==
    /\ query = "props" /\ todo # <<>>
    /\ IF Head(todo) \notin DOMAIN firmware.pipes THEN Invalidate
       ELSE Fetched([topology EXCEPT !.pipelines = Append(@, firmware.pipes[Head(todo)])],
                  "props", Tail(todo))

\* std::sort by priority: pipelines of one priority come in any order.
SortPipelines ==
    /\ query = "props" /\ todo = <<>>
    /\ \E order \in SetToSeqs(DOMAIN topology.pipelines) :
        LET sorted == Mapped(order, LAMBDA i : topology.pipelines[i])
        IN  /\ \A i \in 1..Len(sorted) - 1 : sorted[i].priority <= sorted[i + 1].priority
            /\ Fetched([topology EXCEPT !.pipelines = sorted], "cores",
                     [i \in 1..DspCoreCount |-> i])

\* Mutant: the modules of tasks are forgotten.
ModulesOfPipes(t) == UNION {Range(p.modules) : p \in Range(t.pipelines)}

\* The module instances that pipelines and tasks name.
ModulesOf(t) ==
    LET schedulers == UNION {Range(core) : core \in Range(t.schedulers)}
        tasks      == UNION {Range(s.tasks) : s \in schedulers}
    IN  UNION ({Range(p.modules) : p \in Range(t.pipelines)} \cup
               {Range(k.modules) : k \in tasks})

GetSchedulersInfo ==
    /\ query = "cores" /\ todo # <<>>
    /\ Fetched([topology EXCEPT !.schedulers = Append(@, firmware.schedulers[Head(todo)])],
             "cores", Tail(todo))

CollectModules ==
    /\ query = "cores" /\ todo = <<>>
    /\ Fetched(topology, "modules", SetToSeq(ModulesOf(topology)))

GetModuleInstanceProps ==
    /\ query = "modules" /\ todo # <<>>
    /\ IF Head(todo) \notin DOMAIN firmware.modules THEN Invalidate
       ELSE Fetched([topology EXCEPT !.modules =
                        [m \in DOMAIN @ \cup {Head(todo)} |->
                           IF m = Head(todo) THEN firmware.modules[m] ELSE topology.modules[m]]],
                    "modules", Tail(todo))

\* A query to the firmware fails.
QueryFails ==
    /\ query # "idle" /\ ~(query \in {"props", "cores", "modules"} /\ todo = <<>>)
    /\ Invalidate

\* The links are computed and the model is created.  An exception that is not
\* the converter's own leaves handlePost() and the previous model in place.
Convert ==
    LET found == ComputeLinks(topology)
    IN  /\ query = "modules" /\ todo = <<>>
        /\ CASE Thrown(found) = "nothing" ->
                  /\ model' = CreateModel(found) /\ topology' = found /\ query' = "idle"
                  /\ coherent' = stable
                  /\ UNCHANGED <<firmware, todo, stable, changes, refreshes>>
             [] Thrown(found) = "ConverterException" -> Invalidate
             [] Thrown(found) = "ModuleHandlerException" ->
                  /\ query' = "idle" /\ topology' = EmptyTopology
                  /\ UNCHANGED <<firmware, todo, model, stable, coherent, changes, refreshes>>

\* The driver changes the topology, whatever the agent is doing.
Reconfigure ==
    /\ changes < MaxChanges /\ firmware \in Reconfigured
    /\ firmware' \in Reconfigured \ {firmware}
    /\ changes' = changes + 1 /\ stable' = FALSE
    /\ UNCHANGED <<query, todo, topology, model, coherent, refreshes>>

RefreshNext ==
    \/ Refresh
    \/ GetGatewaysInfo \/ GetPipelineIdList \/ GetPipelineProps \/ SortPipelines
    \/ GetSchedulersInfo \/ CollectModules \/ GetModuleInstanceProps \/ Convert
    \/ QueryFails
    \/ Reconfigure

RefreshSpec == RefreshInit /\ [][RefreshNext]_refreshVars
-----------------------------------------------------------------------------
(* Properties.  They are about the model a GET can see, and none can see it *)
(* while a refresh holds the mutex.                                          *)

Served     == query = "idle" /\ model # NoModel
Objects    == UNION {Range(model[type].elements) : type \in DOMAIN model}
Key(o)     == <<o.fields.typeName, o.fields.instanceId>>
ParentKeys(o) == {Key(r) : r \in Range(o.parts.Parents.elements)}
ChildKeys(o)  == UNION {{Key(r) : r \in Range(c.elements)} : c \in Range(o.parts.Children.elements)}
EndKeys(o)    == IF "Links" \notin DOMAIN o.parts THEN {}
                 ELSE UNION {{Key(l.parts.From), Key(l.parts.To)} : l \in Range(o.parts.Links.elements)}

\* A client can follow every reference of the served model (parent, child or
\* end of a link) and finds one instance there, although the references come
\* from queries made at different times.  Only a change of the firmware during
\* the refresh may break it, and then only for a task of a pipe, a gateway, or
\* a task two cores have named (InstanceModelConverter::createModel).
ReferencesResolve ==
    Served =>
        \A o \in Objects : \A k \in ParentKeys(o) \cup ChildKeys(o) \cup EndKeys(o) :
            \/ k = <<SystemName, 0>>
            \/ k[1] \in DOMAIN model /\ Cardinality({i \in DOMAIN model[k[1]].elements :
                                                   Key(model[k[1]].elements[i]) = k}) = 1
            \/ ~coherent /\ (k[1] = "task" \/ k[1] \in Range(GatewayTypes))

\* Parents and children are computed apart, by two passes over the topology,
\* and agree: an instance names another as a child if and only if it is named
\* as a parent by it.  Two exceptions: the subsystem lists tasks, which do not
\* name it, and a task that two cores named while the firmware changed: it is
\* an instance of each core, maybe with other modules, but of one id.
NamedTwice(p) == ~coherent /\ \E q \in Objects : q # p /\ Key(q) = Key(p)

ParentsMatchChildren ==
    Served =>
        \A o, p \in Objects :
            \/ NamedTwice(p)
            \/ (Key(o) \in ChildKeys(p)) <=>
                   \/ Key(p) \in ParentKeys(o)
                   \/ Key(o) \in ChildKeys(p) /\ o.fields.typeName = "task"
                         /\ (p.fields.typeName = SubsystemName \/ ~coherent)

\* The links found (Topology::computeLinks) join an output and an input of one
\* queue, leave alone the pins a gateway takes, and leave no output and input of
\* a pipeline's modules unconnected that share a queue.  A pin is used once,
\* unless the firmware moved a module from a pipeline to another between two
\* queries, so that both list it.
LinksMatchQueues ==
    query = "idle" => /\ LinksJoinQueues(topology) /\ NoQueueIsLeft(topology)
                      /\ ListedOnce(topology) => PinsAreUsedOnce(topology)

\* What the agent serves as XML, it can read: every instance, collection and
\* type is read back equal to what was written, except the subsystem, whose
\* parent is a system, which the deserializer does not expect among parents
\* (InstanceDeserializer::enter(Parents &)).
ReadsBack ==
    Served =>
        /\ \A o \in Objects : X!RoundTrips(o) <=> o.class # "Subsystem"
        /\ \A type \in DOMAIN model \ {SubsystemName} : X!RoundTrips(model[type])
        /\ X!RoundTrips(CreateSystem)
        /\ \A type \in DOMAIN Types!CreateModel : Types!X!RoundTrips(Types!CreateModel[type])
        /\ Types!X!RoundTrips(Types!CreateSystem)

\* The instance model and the type model, made by two converters at different
\* times, agree: every collection has a type, and an instance has only children
\* whose type the collection of the same name in its own type announces.  The
\* subsystem type announces the log service only.
TypesAreAnnounced ==
    Served =>
        LET types == Types!CreateModel
        IN  /\ DOMAIN model = DOMAIN types
            /\ \A o \in Objects : \A c \in Range(o.parts.Children.elements) :
                  \E a \in Range(types[o.fields.typeName].parts.Children.elements) :
                     /\ a.fields.name = c.fields.name
                     /\ c.fields.name # "services" =>
                           {r.fields.typeName : r \in Range(c.elements)}
                              \subseteq {r.fields.refName : r \in Range(a.elements)}

\* A refresh that does not make a new model leaves none: "Topology retrieving
\* has failed: invalidate the previous one" (RefreshSubsystemResource).  It
\* keeps the previous one only if the firmware names a module that was not
\* among the entries read at start.
FailedRefreshClears ==
    [][(query # "idle" /\ query' = "idle") =>
          \/ model' = NoModel
          \/ topology' # EmptyTopology /\ model' = CreateModel(topology')
          \/ \E m \in ModulesOf(topology) : ~HasModuleEntry(m[1])]_refreshVars
==============================================================================
