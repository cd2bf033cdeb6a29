------------------------------- MODULE Topology -------------------------------
(***************************************************************************)
(* The links of a cAVS topology (cAVS/Topology.cpp): which output pin of a  *)
(* module is connected to which input pin, found from the queue each pin    *)
(* is attached to.  A topology is a record                                   *)
(*   gateways   : the gateways, in the order the firmware lists them        *)
(*   pipelines  : the pipelines, highest priority first, each with its      *)
(*                modules in processing order and its tasks                 *)
(*   schedulers : per core, the schedulers with their tasks                 *)
(*   modules    : the properties of each module instance: the queue of each *)
(*                pin and the gateways at pin 0 (a function)                *)
(*   links      : the links found                                           *)
(* A module instance id is a pair <<module id, instance id>>; a pin is a    *)
(* pair <<module instance id, pin>> and pins count from 0.                  *)
(***************************************************************************)
EXTENDS Integers, Sequences, SequencesExt

CONSTANTS InvalidQueue,   \* PinProps::invalidQueueId
          NoGateway       \* ConnectorNodeId::kInvalidNodeId

EmptyTopology ==
    [gateways |-> <<>>, pipelines |-> <<>>, schedulers |-> <<>>,
     modules |-> <<>>, links |-> <<>>]

\* The pins of m that a link may use: a gateway takes pin 0, and a pin may have
\* no queue.
Pins(m, queues, gateway) ==
    LET first == IF gateway = NoGateway THEN 1 ELSE 2
        added[i \in 0 .. Len(queues)] ==
            IF i = 0 THEN <<>>
            ELSE IF i < first \/ queues[i] = InvalidQueue THEN added[i - 1]
            ELSE Append(added[i - 1], <<m, i - 1>>)
    IN  added[Len(queues)]

AddAllModuleOutputs(t, m) == Pins(m, t.modules[m].outputs, t.modules[m].outputGateway)
AddAllModuleInputs(t, m)  == Pins(m, t.modules[m].inputs, t.modules[m].inputGateway)

OutputQueue(t, pin) == t.modules[pin[1]].outputs[pin[2] + 1]
InputQueue(t, pin)  == t.modules[pin[1]].inputs[pin[2] + 1]

\* Mutant: an input that is connected stays in the list.
JoinPinsAgain(s, output, input) ==
    [s EXCEPT !.links = Append(@, [from |-> output, to |-> s.inputs[input]])]

\* An output is joined to the input found for it, which it uses up.
JoinPins(s, output, input) ==
    [s EXCEPT !.links  = Append(@, [from |-> output, to |-> s.inputs[input]]),
              !.inputs = RemoveAt(@, input)]

\* The inputs of s that are attached to the queue of an output.
Attached(t, s, output) ==
    {i \in DOMAIN s.inputs : InputQueue(t, s.inputs[i]) = OutputQueue(t, output)}

\* An output takes the first input of its queue that is left, or is left too.
Connect(t, s, output) ==
    LET same == Attached(t, s, output)
    IN  IF same = {} THEN [s EXCEPT !.outputs = Append(@, output)]
        ELSE JoinPins(s, output, CHOOSE i \in same : \A j \in same : i <= j)

\* The outputs are connected one after another.
Match(t, outputs, inputs) ==
    LET after[i \in 0 .. Len(outputs)] ==
            IF i = 0 THEN [links |-> <<>>, outputs |-> <<>>, inputs |-> inputs]
            ELSE Connect(t, after[i - 1], outputs[i])
    IN  after[Len(outputs)]

\* A module and the next one of the pipe; what stays unconnected is added to
\* the unresolved pins.
ComputeModulesPairLink(t, s, source, destination) ==
    LET found == Match(t, AddAllModuleOutputs(t, source), AddAllModuleInputs(t, destination))
    IN  [links   |-> s.links \o found.links,
         outputs |-> s.outputs \o found.outputs,
         inputs  |-> s.inputs \o found.inputs]

\* The ends of a pipe are unresolved, then its modules are linked in order.
ComputePipeLinks(t, s, ms) ==
    LET ends == [links   |-> s.links,
                 outputs |-> s.outputs \o AddAllModuleOutputs(t, Last(ms)),
                 inputs  |-> s.inputs \o AddAllModuleInputs(t, Head(ms))]
        after[i \in 0 .. Len(ms) - 1] ==
            IF i = 0 THEN ends
            ELSE ComputeModulesPairLink(t, after[i - 1], ms[i], ms[i + 1])
    IN  IF ms = <<>> THEN s ELSE after[Len(ms) - 1]

ComputeIntraPipeLinks(t) ==
    LET after[i \in 0 .. Len(t.pipelines)] ==
            IF i = 0 THEN [links |-> <<>>, outputs |-> <<>>, inputs |-> <<>>]
            ELSE ComputePipeLinks(t, after[i - 1], t.pipelines[i].modules)
    IN  after[Len(t.pipelines)]

ComputeInterPipeLinks(t, s) ==
    LET found == Match(t, s.outputs, s.inputs)
    IN  [links   |-> s.links \o found.links,
         outputs |-> found.outputs,
         inputs  |-> found.inputs]

ComputeLinks(t) ==
    [t EXCEPT !.links = ComputeInterPipeLinks(t, ComputeIntraPipeLinks(t)).links]
-----------------------------------------------------------------------------
(* What the links of a topology are to be.                                   *)

\* The pins the links of t may use, those of the modules of its pipelines.
PipedModules(t) == UNION {Range(p.modules) : p \in Range(t.pipelines)}
Outputs(t) == UNION {Range(AddAllModuleOutputs(t, m)) : m \in PipedModules(t)}
Inputs(t)  == UNION {Range(AddAllModuleInputs(t, m)) : m \in PipedModules(t)}

\* A link joins an output and an input that are attached to one queue.
LinksJoinQueues(t) ==
    \A l \in Range(t.links) : /\ l.from \in Outputs(t) /\ l.to \in Inputs(t)
                              /\ OutputQueue(t, l.from) = InputQueue(t, l.to)

\* No output is left alone as long as an input of its queue is.
NoQueueIsLeft(t) ==
    \A output \in Outputs(t), input \in Inputs(t) :
        \/ OutputQueue(t, output) # InputQueue(t, input)
        \/ \E l \in Range(t.links) : l.from = output \/ l.to = input

\* Every module instance is listed once, in one pipeline.
ListedOnce(t) ==
    \A i, j \in DOMAIN t.pipelines :
        \A k \in DOMAIN t.pipelines[i].modules, l \in DOMAIN t.pipelines[j].modules :
            t.pipelines[i].modules[k] = t.pipelines[j].modules[l] => i = j /\ k = l

\* A pin has one link.
PinsAreUsedOnce(t) ==
    \A i, j \in DOMAIN t.links :
        i # j => t.links[i].from # t.links[j].from /\ t.links[i].to # t.links[j].to
==============================================================================
