------------------------------ MODULE TypeSchema ------------------------------
(***************************************************************************)
(* The classes of the type model (IfdkObjects/Type) and what the type       *)
(* serializer and deserializer do with them, as tables for IfdkXml.  The    *)
(* records are those of InstanceSchema.                                     *)
(***************************************************************************)
EXTENDS Sequences, TLC

Plain(names)         == [enter |-> names, parts |-> <<>>, list |-> "none", of |-> <<>>, text |-> FALSE]
ListClass(names, how, of) == [Plain(names) EXCEPT !.list = how, !.of = of]
Derived(base, name)  == [base EXCEPT !.enter = <<name>> \o @]

Ref          == Plain(<<"Ref">>)
TypeRef      == Derived(Ref, "TypeRef")
ComponentRef == Derived(Ref, "ComponentRef")
ServiceRef   == Derived(Ref, "ServiceRef")
EndPointRef  == Derived(Ref, "EndPointRef")
SubsystemRef == Derived(Ref, "SubsystemRef")

RefCollection            == Plain(<<"RefCollection">>)
GenericRefCollection(of) == [RefCollection EXCEPT !.list = "resized", !.of = <<of>>]
TypeRefCollection        == Derived(GenericRefCollection("TypeRef"), "TypeRefCollection")
ComponentRefCollection   == Derived(GenericRefCollection("ComponentRef"), "ComponentRefCollection")
ServiceRefCollection     == Derived(GenericRefCollection("ServiceRef"), "ServiceRefCollection")
EndPointRefCollection    == Derived(GenericRefCollection("EndPointRef"), "EndPointRefCollection")
SubsystemRefCollection   == Derived(GenericRefCollection("SubsystemRef"), "SubsystemRefCollection")

Description       == [Plain(<<"Description">>) EXCEPT !.text = TRUE]
Characteristic    == [Plain(<<"Characteristic">>) EXCEPT !.text = TRUE]
Characteristics   == ListClass(<<"Characteristics">>, "resized", <<"Characteristic">>)
Parameters        == Plain(<<"Parameters">>)
InfoParameters    == Derived(Parameters, "InfoParameters")
ControlParameters == Derived(Parameters, "ControlParameters")

CategoriesClasses == <<"TypeRef", "ComponentRef", "ServiceRef", "EndPointRef", "SubsystemRef">>
ChildrenClasses   == <<"TypeRefCollection", "ComponentRefCollection", "ServiceRefCollection",
                       "EndPointRefCollection", "SubsystemRefCollection">>
Categories == ListClass(<<"Categories">>, "factory", CategoriesClasses)
Children   == ListClass(<<"Children">>, "factory", ChildrenClasses)

Connector == Plain(<<"Connector">>)
Input     == Derived(Connector, "Input")
Output    == Derived(Connector, "Output")
Inputs    == ListClass(<<"Inputs">>, "resized", <<"Input">>)
Outputs   == ListClass(<<"Outputs">>, "resized", <<"Output">>)

Type      == [Plain(<<"Type">>) EXCEPT
                !.parts = <<"Description", "Characteristics", "InfoParameters",
                            "ControlParameters", "Children">>]
Component == [Derived(Type, "Component") EXCEPT !.parts = @ \o <<"Inputs", "Outputs">>]
Subsystem == [Derived(Component, "Subsystem") EXCEPT !.parts = @ \o <<"Categories">>]
System    == Derived(Component, "System")
Service   == Derived(Type, "Service")
EndPoint  == Derived(Type, "EndPoint")

Classes ==
    [TypeRef |-> TypeRef, ComponentRef |-> ComponentRef, ServiceRef |-> ServiceRef,
     EndPointRef |-> EndPointRef, SubsystemRef |-> SubsystemRef,
     TypeRefCollection |-> TypeRefCollection, ComponentRefCollection |-> ComponentRefCollection,
     ServiceRefCollection |-> ServiceRefCollection,
     EndPointRefCollection |-> EndPointRefCollection,
     SubsystemRefCollection |-> SubsystemRefCollection,
     Description |-> Description, Characteristic |-> Characteristic,
     Characteristics |-> Characteristics, InfoParameters |-> InfoParameters,
     ControlParameters |-> ControlParameters, Categories |-> Categories, Children |-> Children,
     Input |-> Input, Output |-> Output, Inputs |-> Inputs, Outputs |-> Outputs,
     Type |-> Type, Component |-> Component, Subsystem |-> Subsystem, System |-> System,
     Service |-> Service, EndPoint |-> EndPoint]

\* The traits, as in InstanceSchema.
RefTags ==
    [TypeRef |-> "type", ComponentRef |-> "component_type", ServiceRef |-> "service_type",
     EndPointRef |-> "endpoint_type", SubsystemRef |-> "subsystem_type"]
RefCollectionTags ==
    [TypeRefCollection |-> "collection", ComponentRefCollection |-> "component_collection",
     ServiceRefCollection |-> "service_collection", EndPointRefCollection |-> "endpoint_collection",
     SubsystemRefCollection |-> "subsystem_collection"]
PartTags ==
    [Characteristic |-> "characteristic", Characteristics |-> "characteristics",
     Description |-> "description", Categories |-> "categories", Children |-> "children",
     InfoParameters |-> "info_parameters", ControlParameters |-> "control_parameters",
     Input |-> "input", Output |-> "output", Inputs |-> "inputs", Outputs |-> "outputs"]
MainTags ==
    [Type |-> "type", Component |-> "component_type", Subsystem |-> "subsystem_type",
     System |-> "system_type", Service |-> "service_type", EndPoint |-> "endpoint_type"]
Tags == RefTags @@ RefCollectionTags @@ PartTags @@ MainTags

\* The attributes TypeSerializer sets, and the field each is taken from: a
\* type and what refers to one, then the parts of a type.
TypeAttributes ==
    [Type           |-> [Name |-> "name"],
     EndPoint       |-> [Direction |-> "direction"],
     Ref            |-> [Name |-> "refName"],
     RefCollection  |-> [Name |-> "name"]]
PartAttributes ==
    [Characteristic |-> [Name |-> "name"],
     Connector      |-> [Id |-> "id", Name |-> "name"]]
Written == TypeAttributes @@ PartAttributes

\* The attributes TypeDeserializer asks for, and the field each sets.
TypeFields ==
    [Type           |-> [name |-> "Name"],
     EndPoint       |-> [direction |-> "Direction"],
     Ref            |-> [refName |-> "Name"],
     RefCollection  |-> [name |-> "Name"]]
PartFields ==
    [Characteristic |-> [name |-> "Name"],
     Connector      |-> [id |-> "Id", name |-> "Name"]]
Required == TypeFields @@ PartFields
==============================================================================
