---------------------------- MODULE InstanceSchema ----------------------------
(***************************************************************************)
(* The classes of the instance model (IfdkObjects/Instance) and what the    *)
(* instance serializer and deserializer do with them, as tables for         *)
(* IfdkXml.  A class is a record                                            *)
(*   enter : the classes whose enter() its accept() calls, derived first    *)
(*   parts : the members its accept() visits, those of its base first       *)
(*   list  : "none", or how the deserializer sizes its list of elements     *)
(*   of    : the classes its elements may have                              *)
(*   text  : whether it has a text content                                  *)
(***************************************************************************)
EXTENDS Sequences, TLC

Plain(names)         == [enter |-> names, parts |-> <<>>, list |-> "none", of |-> <<>>, text |-> FALSE]
ListClass(names, how, of) == [Plain(names) EXCEPT !.list = how, !.of = of]
Derived(base, name)  == [base EXCEPT !.enter = <<name>> \o @]

Ref          == Plain(<<"Ref">>)
InstanceRef  == Derived(Ref, "InstanceRef")
ComponentRef == Derived(Ref, "ComponentRef")
ServiceRef   == Derived(Ref, "ServiceRef")
EndPointRef  == Derived(Ref, "EndPointRef")
SubsystemRef == Derived(Ref, "SubsystemRef")
SystemRef    == Derived(Ref, "SystemRef")

RefCollection            == Plain(<<"RefCollection">>)
GenericRefCollection(of) == [RefCollection EXCEPT !.list = "resized", !.of = <<of>>]
InstanceRefCollection    == Derived(GenericRefCollection("InstanceRef"), "InstanceRefCollection")
ComponentRefCollection   == Derived(GenericRefCollection("ComponentRef"), "ComponentRefCollection")
ServiceRefCollection     == Derived(GenericRefCollection("ServiceRef"), "ServiceRefCollection")
EndPointRefCollection    == Derived(GenericRefCollection("EndPointRef"), "EndPointRefCollection")
SubsystemRefCollection   == Derived(GenericRefCollection("SubsystemRef"), "SubsystemRefCollection")

Parameters        == Plain(<<"Parameters">>)
InfoParameters    == Derived(Parameters, "InfoParameters")
ControlParameters == Derived(Parameters, "ControlParameters")

\* Mutant: a class is missing from the list of the factory.
FewerChildrenClasses == <<"InstanceRefCollection", "ComponentRefCollection", "ServiceRefCollection">>

ChildrenClasses == <<"InstanceRefCollection", "ComponentRefCollection", "ServiceRefCollection",
                     "EndPointRefCollection", "SubsystemRefCollection">>
ParentsClasses  == <<"InstanceRef", "ComponentRef", "SubsystemRef", "ServiceRef", "EndPointRef">>
Children == ListClass(<<"Children">>, "factory", ChildrenClasses)
Parents  == ListClass(<<"Parents">>, "factory", ParentsClasses)

Connector == Plain(<<"Connector">>)
Input     == Derived(Connector, "Input")
Output    == Derived(Connector, "Output")
Inputs    == ListClass(<<"Inputs">>, "resized", <<"Input">>)
Outputs   == ListClass(<<"Outputs">>, "resized", <<"Output">>)

From  == Plain(<<"From">>)
To    == Plain(<<"To">>)
Link  == [Plain(<<"Link">>) EXCEPT !.parts = <<"From", "To">>]
Links == ListClass(<<"Links">>, "resized", <<"Link">>)

Instance  == [Plain(<<"Instance">>) EXCEPT
                !.parts = <<"InfoParameters", "ControlParameters", "Parents", "Children">>]
Component == [Derived(Instance, "Component") EXCEPT !.parts = @ \o <<"Inputs", "Outputs", "Links">>]
Subsystem == Derived(Component, "Subsystem")
System    == Derived(Component, "System")
Service   == Derived(Instance, "Service")
EndPoint  == Derived(Instance, "EndPoint")

BaseCollection          == Plain(<<>>)
GenericCollection(of)   == [BaseCollection EXCEPT !.list = "resized", !.of = <<of>>]
InstanceCollection      == Derived(GenericCollection("Instance"), "InstanceCollection")
ComponentCollection     == Derived(GenericCollection("Component"), "ComponentCollection")
SubsystemCollection     == Derived(GenericCollection("Subsystem"), "SubsystemCollection")
ServiceCollection       == Derived(GenericCollection("Service"), "ServiceCollection")
EndPointCollection      == Derived(GenericCollection("EndPoint"), "EndPointCollection")

\* The classes a visitor can visit.
Classes ==
    [InstanceRef |-> InstanceRef, ComponentRef |-> ComponentRef, ServiceRef |-> ServiceRef,
     EndPointRef |-> EndPointRef, SubsystemRef |-> SubsystemRef, SystemRef |-> SystemRef,
     InstanceRefCollection |-> InstanceRefCollection,
     ComponentRefCollection |-> ComponentRefCollection,
     ServiceRefCollection |-> ServiceRefCollection,
     EndPointRefCollection |-> EndPointRefCollection,
     SubsystemRefCollection |-> SubsystemRefCollection,
     InfoParameters |-> InfoParameters, ControlParameters |-> ControlParameters,
     Children |-> Children, Parents |-> Parents,
     Input |-> Input, Output |-> Output, Inputs |-> Inputs, Outputs |-> Outputs,
     From |-> From, To |-> To, Link |-> Link, Links |-> Links,
     Instance |-> Instance, Component |-> Component, Subsystem |-> Subsystem,
     System |-> System, Service |-> Service, EndPoint |-> EndPoint,
     InstanceCollection |-> InstanceCollection, ComponentCollection |-> ComponentCollection,
     SubsystemCollection |-> SubsystemCollection, ServiceCollection |-> ServiceCollection,
     EndPointCollection |-> EndPointCollection]

\* The traits: the tag of every class that can be an element.  Ref, Parameters,
\* Connector, RefCollection and the base collections have none.
RefTags ==
    [InstanceRef |-> "instance", ComponentRef |-> "component", ServiceRef |-> "service",
     EndPointRef |-> "endpoint", SubsystemRef |-> "subsystem", SystemRef |-> "system"]
RefCollectionTags ==
    [InstanceRefCollection |-> "collection", ComponentRefCollection |-> "component_collection",
     ServiceRefCollection |-> "service_collection", EndPointRefCollection |-> "endpoint_collection",
     SubsystemRefCollection |-> "subsystem_collection"]
PartTags ==
    [Children |-> "children", Parents |-> "parents",
     InfoParameters |-> "info_parameters", ControlParameters |-> "control_parameters",
     Input |-> "input", Output |-> "output", Inputs |-> "inputs", Outputs |-> "outputs",
     From |-> "from", To |-> "to", Link |-> "link", Links |-> "links"]
MainTags ==
    [Instance |-> "instance", Component |-> "component", Subsystem |-> "subsystem",
     System |-> "system", Service |-> "service", EndPoint |-> "endpoint"]
MainCollectionTags ==
    [InstanceCollection |-> "collection", ComponentCollection |-> "component_collection",
     SubsystemCollection |-> "subsystem_collection", ServiceCollection |-> "service_collection",
     EndPointCollection |-> "endpoint_collection"]
Tags == RefTags @@ RefCollectionTags @@ PartTags @@ MainTags @@ MainCollectionTags

\* The attributes InstanceSerializer sets, and the field each is taken from:
\* an instance and what refers to one, then the ends of a link.
InstanceAttributes ==
    [Instance      |-> [Type |-> "typeName", Id |-> "instanceId"],
     Ref           |-> [Type |-> "typeName", Id |-> "instanceId"],
     RefCollection |-> [Name |-> "name"]]
LinkAttributes ==
    [Connector     |-> [Id |-> "id", Format |-> "format"],
     From          |-> [Type |-> "typeName", Id |-> "instanceId", OutputId |-> "outputId"],
     To            |-> [Type |-> "typeName", Id |-> "instanceId", InputId |-> "inputId"]]
Written == InstanceAttributes @@ LinkAttributes

\* The attributes InstanceDeserializer asks for, and the field each sets.
InstanceFields ==
    [Instance      |-> [typeName |-> "Type", instanceId |-> "Id"],
     Ref           |-> [typeName |-> "Type", instanceId |-> "Id"],
     RefCollection |-> [name |-> "Name"]]
LinkFields ==
    [Connector     |-> [id |-> "Id", format |-> "Format"],
     From          |-> [typeName |-> "Type", instanceId |-> "Id", outputId |-> "OutputId"],
     To            |-> [typeName |-> "Type", instanceId |-> "Id", inputId |-> "InputId"]]
Required == InstanceFields @@ LinkFields
==============================================================================
