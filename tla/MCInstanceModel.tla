--------------------------- MODULE MCInstanceModel ---------------------------
(***************************************************************************)
(* A firmware with two module types, two cores and up to three pipelines.    *)
(***************************************************************************)
EXTENDS InstanceModel

Modules  == 1 :> "module-a" @@ 2 :> "module-b"
Gateways == <<"hda-in", "hda-out">>
Service(name, endPoints, direction) ==
    [name |-> name, endPoints |-> endPoints, endPointType |-> name \o "_endpoint",
     direction |-> direction]
AllServices == <<Service("fwlogs", 0, "Outgoing"), Service("probe", 2, "Bidirectional"),
                 Service("perf_measurement", 0, "Outgoing")>>
Valid == {"fwVersion", "dmaBufferConfig", "modulesCount", "dspCoreCount", "gpdmaCaps", "i2sCaps"}

In  == [type |-> "hda-in", index |-> 0]
Out == [type |-> "hda-out", index |-> 1]
Odd == [type |-> "unheard-of", index |-> 0]

\* Pipeline 1 holds module a0, then b0; pipeline 2 holds a1; pipeline 3 holds a
\* module of a library that was loaded after the agent started.  In the other
\* layout b0 is made again in pipeline 2.
A0 == <<1, 0>>
A1 == <<1, 1>>
B0 == <<2, 0>>
L0 == <<9, 0>>
PipeModules  == <<<<A0, B0>>, <<A1>>, <<L0>>>>
OtherModules == <<<<A0>>, <<A1, B0>>, <<L0>>>>
Pipe(layout, p) ==
    [id |-> p, priority |-> IF p = 3 THEN 0 ELSE 1, modules |-> layout[p],
     llTasks |-> <<p>>, dpTasks |-> IF p = 2 THEN <<p + 10>> ELSE <<>>]
Task(layout, id) == [id |-> id, modules |-> layout[IF id > 10 THEN id - 10 ELSE id]]

\* The tasks of the pipelines ps; those in moved run on the second core.
CoreSchedulers(layout, core, ps, moved) ==
    LET here == {p \in ps : (p \in moved) = (core = 1)}
    IN  <<[core |-> core,
           tasks |-> [i \in 1..Cardinality(here) |-> Task(layout, SetToSortSeq(here, <)[i])]],
          [core |-> core, tasks |-> IF 2 \in here THEN <<Task(layout, 12)>> ELSE <<>>]>>

ConfigOf(layout, ps, q, moved, source) ==
    LET used == UNION {Range(layout[p]) : p \in ps}
        props == A0 :> [inputs |-> <<1>>, outputs |-> q.a, inputGateway |-> source, outputGateway |-> NoGateway] @@
                 B0 :> [inputs |-> q.b, outputs |-> <<q.c>>, inputGateway |-> NoGateway, outputGateway |-> NoGateway] @@
                 A1 :> [inputs |-> q.d, outputs |-> <<1>>, inputGateway |-> NoGateway, outputGateway |-> Out] @@
                 L0 :> [inputs |-> <<>>, outputs |-> <<>>, inputGateway |-> NoGateway, outputGateway |-> NoGateway]
    IN  [gateways   |-> (IF 1 \in ps /\ source # NoGateway THEN <<source>> ELSE <<>>)
                        \o (IF 2 \in ps THEN <<Out>> ELSE <<>>),
         pipes      |-> [p \in ps |-> Pipe(layout, p)],
         schedulers |-> [c \in 1..2 |-> CoreSchedulers(layout, c - 1, ps, moved)],
         modules    |-> [m \in used |-> props[m]]]
Config(ps, q, moved, source) == ConfigOf(PipeModules, ps, q, moved, source)

None == InvalidQueue
Plain == [a |-> <<1, 2>>, b |-> <<2, 1>>, c |-> 3, d |-> <<3, None>>]
Queues == [a : {<<1, 1>>, <<1, 2>>, <<None, 2>>}, b : {<<1, 1>>, <<2, 1>>, <<3, 2>>},
           c : {1, 2, 3}, d : {<<1, 2>>, <<3, 3>>, <<3, None>>}]

Changing ==
    {Config({1}, Plain, {}, In), Config({1, 2}, Plain, {}, In), Config({2}, Plain, {}, In),
     Config({1, 2}, Plain, {1}, In), Config({1, 3}, Plain, {3}, In),
     Config({1, 2, 3}, Plain, {}, In), Config({1}, Plain, {}, Odd),
     ConfigOf(OtherModules, {1, 2}, [Plain EXCEPT !.d = <<3, 3>>], {}, In)}
Starting == Changing \cup {Config({1, 2}, q, {2}, g) : q \in Queues, g \in {In, NoGateway}}
==============================================================================
