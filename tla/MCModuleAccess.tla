--------------------------- MODULE MCModuleAccess ---------------------------
(* An instance of ModuleAccess: one module, one of its instances and two   *)
(* control blocks, one core and one pipeline, and a firmware that is       *)
(* consistent, with or without input pins of the instance it counts cycles *)
(* for, or has more pipelines than it says.                                *)
EXTENDS ModuleAccess, ByteStream, TLC

N(n) == Bytes(4, n)
Id(module, instance) == [moduleId   |-> Bytes(2, module),
                         instanceId |-> Bytes(2, instance)]

Entry == [Filled(ModuleEntry, 7) EXCEPT !.module_id = Bytes(2, 1)]
Pin   == [Filled(PinProps, 8) EXCEPT !.format.bit_depth = N(16)]
Props(i, pins) ==
  [Filled(ModuleInstanceProps, 3) EXCEPT
     !.id = Id(1, i), !.input_pins.pin_info = pins]
Pipe(n) ==
  [Filled(PplProps, 4) EXCEPT !.id = N(n),
                              !.module_instances = << Id(1, 0) >>]
Scheduler ==
  [scheduler_info |->
     << [processing_domain |-> N(0), core_id |-> N(0),
         task_info |-> << [task_id |-> N(5),
                           module_instance_id |-> << Id(1, 1) >>] >>] >>]
Item(module, instance, details) ==
  [resourceId |-> Id(module, instance), details |-> details,
   peak |-> N(9), average |-> N(8)]
Sram(n) == [freePhysMemPages |-> N(n), ebbStates |-> << N(1) >>,
            pageAlloc |-> << Bytes(2, n) >>]

Firmware(pipelines, pins) ==
  [consistent |-> pipelines = << N(3) >>,
   fwConfig   |-> << << "fwVersion", Filled(FwVersion, 2) >>,
                     << "modulesCount", N(1) >>, << "maxPplCount", N(1) >>,
                     << "maxModInstCount", N(2) >> >>,
   hwConfig   |-> << << "gatewayCount", N(1) >>, << "dspCoreCount", N(1) >> >>,
   memory     |-> << << "lpsramState", Sram(1) >>,
                     << "hpsramState", Sram(2) >> >>,
   entries    |-> << Entry >>,
   pipelines  |-> pipelines,
   pplProps   |-> (3 :> Pipe(3)) @@ (4 :> Pipe(4)),
   schedulers |-> (0 :> Scheduler),
   gateways   |-> << [id |-> N(6), attribs |-> [dw |-> N(1)]] >>,
   items      |-> << Item(0, 0, N(0)), Item(1, 0, N(1)),
                     Item(1, 1, << 0, 0, 0, 128 >>) >>,
   props      |-> (<< 1, 0 >> :> Props(0, pins))
                    @@ (<< 1, 1 >> :> Props(1, << Pin >>)),
   params     |-> (<< 1, 0, 10 >> :> << 1, 2 >>)
                    @@ (<< 1, 0, 300 >> :> [i \in 1 .. 30 |-> i]),
   perf       |-> Stopped]

MCFirmwares ==
  { Firmware(<< N(3) >>, << Pin >>), Firmware(<< N(3) >>, << >>),
    Firmware(<< N(3), N(4) >>, << Pin >>) }
MCControlParameters ==
  (1 :> << [param |-> 10, size |-> 2], [param |-> 300, size |-> 30] >>)

Put(payload) ==
  [Request("putModule") EXCEPT
     !.id = << 1, 0 >>, !.payloads = << << 5, 5 >>, payload >>]
GetOf(name, module, kind) ==
  [Request(name) EXCEPT !.id = << module, 0 >>, !.kind = kind]
MCClientRequests ==
  { Put([i \in 1 .. 30 |-> 6]), Put(<< 6 >>),
    GetOf("getModule", 1, "Control"), GetOf("getModule", 1, "Info"),
    GetOf("getModule", 2, "Control"), GetOf("getSubsystem", 0, "Info"),
    [Request("putPerf") EXCEPT !.state = Started],
    Request("getPerf"), Request("refresh") }
MCSymmetry == Permutations(Clients)
=============================================================================
