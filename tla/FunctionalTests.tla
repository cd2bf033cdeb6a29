--------------------------- MODULE FunctionalTests --------------------------
(***************************************************************************)
(* The functional tests of the agent (FunctionalTests, on both systems),   *)
(* played against the agent of Resources: the requests of a test, one      *)
(* after the other, and the commands they lead to, each of which the       *)
(* mocked device checks against the next entry of its script.              *)
(*                                                                         *)
(* The start and the end of the agent and the threads of the probe streams *)
(* are requests of their own; a thread's, "extract" or "inject", is played *)
(* where the test waits for it to have finished.  Of a document or a page  *)
(* that is asked for, the texts are compared; those of the type and        *)
(* instance models and of a module's parameters are not.                   *)
(***************************************************************************)
EXTENDS MockedDevices, Resources, ByteStream

CONSTANT Tests  (* those that are played, of AllTests *)

VARIABLES
  system,     (* where the test runs                                       *)
  script,     (* what each device still expects                            *)
  requests,   (* those that are still to serve, with what to expect        *)
  toExtract,  (* what the probe is to give                                 *)
  ongoing,    (* the call of the agent that is going on                    *)
  heard,      (* what its last command but the votes for sleep gave        *)
  results,    (* what the calls before it returned                         *)
  todo,       (* the commands it still has to give to the devices          *)
  debugAgent, (* what the agent keeps                                      *)
  failures    (* what went otherwise than the test says                    *)

vars == << system, script, requests, toExtract, ongoing, heard, results, todo,
           debugAgent, failures >>

-----------------------------------------------------------------------------
(* The firmware of the tests (CavsTopologySample): four pipelines, whose   *)
(* modules are linked by queues and gateways.                              *)
(*                                                                         *)
(*   host 1 -> copier.1 - aec.2 - gain.5 ---.                              *)
(*   host 2 -> gain.4 - aec.5 - ns.6 --- mixin.1 - src.0 - gain.9 -> link  *)
(*   dmic ---> gain.1 ---------------------------------------'             *)
(*                 '--- ns.2 - mixout.3 -> host                            *)
Word(n) == Bytes(4, n)
CompoundId(module, instance) ==
  [moduleId |-> Bytes(2, module), instanceId |-> Bytes(2, instance)]

Modules == [copier |-> 0, aec |-> 1, gain |-> 5, ns |-> 9, mixin |-> 1024,
            src |-> 4012, mixout |-> 4100]
Queue == [pipe1 |-> 0, pipe2 |-> 1, pipe3 |-> 2, pipe4 |-> 3,
          pipe1_3 |-> 4, pipe2_3 |-> 5, pipe3_4 |-> 6]

(* The words of the gateways: a type and an index, or no gateway. *)
Node(type, index) == [dw |-> << index, type, 0, 0 >>]
HdaHostOutput(index) == Node(0, index)
HdaHostInput(index)  == Node(1, index)
HdaLinkOutput(index) == Node(8, index)
DmicLinkInput(index) == Node(11, index)
NoNode == [dw |-> Unset]

SampleFormat ==
  [Filled(AudioDataFormatIpc, 0) EXCEPT
     !.sampling_frequency = << 128, 187, 0, 0 >>, !.bit_depth = Word(16),
     !.channel_config = Word(1), !.number_of_channels = << 1 >>,
     !.sample_type = << 1 >>]
NewPin(queue) == [stream_type |-> Word(0), format |-> SampleFormat,
                  phys_queue_id |-> Word(Queue[queue])]
NewPinList(queues) ==
  [pin_info |-> [i \in DOMAIN queues |-> NewPin(queues[i])]]
NewModuleInstance(module, instance, in, out, inGateway, outGateway) ==
  [Filled(ModuleInstanceProps, 0) EXCEPT
     !.id = CompoundId(Modules[module], instance),
     !.input_pins = NewPinList(in), !.output_pins = NewPinList(out),
     !.input_gateway = inGateway, !.output_gateway = outGateway]
NewGateway(node) == [id |-> node.dw, attribs |-> [dw |-> Word(0)]]
NewTask(id, instances) ==
  [task_id |-> Word(id), module_instance_id |-> instances]
NewScheduler(tasks) ==
  [processing_domain |-> Word(0), core_id |-> Word(0), task_info |-> tasks]
NewPipeline(id, priority, instances, tasks) ==
  [Filled(PplProps, 0) EXCEPT
     !.id = Word(id), !.priority = Word(priority),
     !.module_instances = instances,
     !.ll_tasks = [i \in DOMAIN tasks |-> Word(tasks[i])]]

MaxPplCount     == 10
GatewaysCount   == 5
MaxModInstCount == 4
DspCoreCount    == 1

-----------------------------------------------------------------------------
(* createInstanceFirmwareObjects(), the instances in the order of their    *)
(* ids: that in which the agent asks for them.                             *)
Instances ==
  << NewModuleInstance("copier", 1, << >>, << "pipe1" >>,
                       HdaHostInput(1), NoNode),
     NewModuleInstance("aec", 2, << "pipe1" >>, << "pipe1" >>,
                       NoNode, NoNode),
     NewModuleInstance("aec", 5, << "pipe2" >>, << "pipe2" >>,
                       NoNode, NoNode),
     NewModuleInstance("gain", 1, << >>, << "pipe3_4", "pipe4" >>,
                       DmicLinkInput(1), NoNode),
     NewModuleInstance("gain", 4, << >>, << "pipe2" >>,
                       HdaHostInput(2), NoNode),
     NewModuleInstance("gain", 5, << "pipe1" >>, << "pipe1_3" >>,
                       NoNode, NoNode),
     NewModuleInstance("gain", 9, << "pipe3", "pipe3_4" >>, << >>,
                       NoNode, HdaLinkOutput(1)),
     NewModuleInstance("ns", 2, << "pipe4" >>, << "pipe4" >>,
                       NoNode, NoNode),
     NewModuleInstance("ns", 6, << "pipe2" >>, << "pipe2_3" >>,
                       NoNode, NoNode),
     NewModuleInstance("mixin", 1, << "pipe1_3", "pipe2_3" >>,
                       << "pipe3" >>, NoNode, NoNode),
     NewModuleInstance("src", 0, << "pipe3" >>, << "pipe3" >>,
                       NoNode, NoNode),
     NewModuleInstance("mixout", 3, << "pipe4" >>, << >>,
                       NoNode, HdaHostOutput(1)) >>
IdsAt(positions) == [i \in DOMAIN positions |-> Instances[positions[i]].id]

Pipe1 == IdsAt(<< 1, 2, 6 >>)
Pipe2 == IdsAt(<< 5, 3, 9 >>)
Pipe3 == IdsAt(<< 10, 11, 7 >>)
Pipe4 == IdsAt(<< 4, 8, 12 >>)
Gateways ==
  << NewGateway(HdaHostInput(1)), NewGateway(HdaHostInput(2)),
     NewGateway(HdaLinkOutput(1)), NewGateway(DmicLinkInput(1)),
     NewGateway(HdaHostOutput(1)) >>
Schedulers ==
  [scheduler_info |->
     << NewScheduler(<< NewTask(1, SubSeq(Pipe1, 1, 1)),
                        NewTask(2, SubSeq(Pipe1, 2, 3)),
                        NewTask(3, SubSeq(Pipe2, 1, 1)),
                        NewTask(9, SubSeq(Pipe2, 2, 3)),
                        NewTask(4, Pipe3),
                        NewTask(5, SubSeq(Pipe4, 1, 1)),
                        NewTask(6, SubSeq(Pipe4, 2, 3)) >>) >>]
Pipelines ==
  << NewPipeline(4, 40, Pipe4, << 5, 6 >>),
     NewPipeline(2, 20, Pipe2, << 3, 9 >>),
     NewPipeline(1, 10, Pipe1, << 1, 2 >>),
     NewPipeline(3, 30, Pipe3, << 4 >>) >>
PipelineIds == [i \in DOMAIN Pipelines |-> Pipelines[i].id]

(* createFirmwareObjects() *)
NewModuleEntry(id) ==
  [Filled(ModuleEntry, 0) EXCEPT
     !.module_id = Bytes(2, id), !.uuid = [i \in 1 .. 4 |-> Word(id)]]
ModuleEntries ==
  LET names == << "copier", "aec", "gain", "ns", "mixin", "src", "mixout" >>
  IN  [i \in DOMAIN names |-> NewModuleEntry(Modules[names[i]])]
FwConfigTlvList ==
  TlvItem(0, << 1, 0, 2, 0, 3, 0, 4, 0 >>)
    \o TlvItem(12, Word(Len(ModuleEntries)))
    \o TlvItem(9, Word(MaxPplCount)) \o TlvItem(13, Word(MaxModInstCount))
HwConfigTlvList ==
  TlvItem(1, Word(DspCoreCount)) \o TlvItem(6, Word(GatewaysCount))

-----------------------------------------------------------------------------
(* A request, with the status of its answer, and what it shows if that is  *)
(* compared.                                                               *)
Uncompared                  == << >>
Expecting(request, rows)    == << request, "200", rows >>
Refusing(request, error)    == << request, ErrorStatus[error], Uncompared >>
Doing(name)                 == Expecting(Request(name), Uncompared)
Getting(uri)                == Http("GET", uri, << >>)
Putting(uri, content)       == Http("PUT", uri, content)
Posting(uri)                == Http("POST", uri, << >>)
Get(uri)                    == Expecting(Getting(uri), Uncompared)
Put(uri, content)           == Expecting(Putting(uri, content), Uncompared)

TypeUri(type)               == << "type", type >>
InstanceUri(type, id)       == << "instance", type, id >>
ControlUri(type, id)        == InstanceUri(type, id) \o << "control_parameters" >>
InfoUri(type, id)           == InstanceUri(type, id) \o << "info_parameters" >>
RefreshUri                  == << "instance", "cavs", "0", "refreshed" >>
Refresh                     == Expecting(Posting(RefreshUri), Uncompared)

(* Between the start and the end of the agent. *)
Session(served) == << Doing("construct") >> \o served \o << Doing("destroy") >>
Repeated(n, element) == [i \in 1 .. n |-> element]

(* What a test adds to what they all begin and end with, or, `refreshed',  *)
(* to what those that refresh the model of the system do.                  *)
NewTest(platform, refreshed, commands, served) ==
  [platform |-> platform, refreshed |-> refreshed,
   requests |-> Session(served), content |-> << >>,
   script |-> [device |-> commands, control |-> << >>, extractor |-> << >>,
               injector |-> << >>]]

-----------------------------------------------------------------------------
(* What most tests begin and end with, and what a refresh asks. *)
LinuxScope(commands) ==
  LinuxGetFwConfig(FwConfigTlvList) \o LinuxGetHwConfig(HwConfigTlvList)
    \o LinuxGetModuleEntries(Len(ModuleEntries), ModuleEntries)
    \o commands
    \o LinuxGetPerfState(Stopped) \o LinuxSetCorePower(0, TRUE)
    \o LinuxSetPerfState(Disabled)
LinuxGetAllInstanceProps(instances) ==
  FlattenSeq([i \in DOMAIN instances |->
    LinuxGetModuleInstanceProps(IdOf(instances[i].id)[1],
                                IdOf(instances[i].id)[2], instances[i])])
LinuxTopology ==
  LinuxGetGateways(Len(Gateways), Gateways)
    \o LinuxGetPipelineList(MaxPplCount, PipelineIds)
    \o FlattenSeq([i \in DOMAIN Pipelines |->
         LinuxGetPipelineProps(AsNumber(Pipelines[i].id), Pipelines[i])])
    \o LinuxGetSchedulersInfo(0, Schedulers)
    \o LinuxGetAllInstanceProps(Instances)

WindowsScope(commands) ==
  WindowsGetFwConfig(FwConfigTlvList) \o WindowsGetHwConfig(HwConfigTlvList)
    \o WindowsGetModuleEntries(Len(ModuleEntries), ModuleEntries)
    \o commands
    \o WindowsSetPerfState(Disabled) \o WindowsGetProbeState(Idle)
WindowsGetAllInstanceProps(instances) ==
  FlattenSeq([i \in DOMAIN instances |->
    WindowsGetModuleInstanceProps(IdOf(instances[i].id)[1],
                                  IdOf(instances[i].id)[2], instances[i])])
WindowsTopology ==
  WindowsGetGateways(Len(Gateways), "success", Gateways)
    \o WindowsGetPipelineList(MaxPplCount, PipelineIds)
    \o FlattenSeq([i \in DOMAIN Pipelines |->
         WindowsGetPipelineProps(AsNumber(Pipelines[i].id), Pipelines[i])])
    \o WindowsGetSchedulersInfo(0, Schedulers)
    \o WindowsGetAllInstanceProps(Instances)

LinuxTest(commands, served) ==
  NewTest("linux", FALSE, commands, served)
LinuxModelTest(commands, served) ==
  NewTest("linux", TRUE, commands, served)
WindowsTest(commands, served) ==
  NewTest("windows", FALSE, commands, served)
WindowsModelTest(commands, served) ==
  NewTest("windows", TRUE, commands, served)

DeviceCommands(test) ==
  IF test.platform = "linux"
    THEN LinuxScope((IF test.refreshed THEN LinuxTopology ELSE << >>)
                      \o test.script.device)
    ELSE WindowsScope((IF test.refreshed THEN WindowsTopology ELSE << >>)
                        \o test.script.device)

-----------------------------------------------------------------------------
(* The model of the system.  checkUrlMap() asks for types and instances.   *)
CheckedInstances ==
  << << "cavs", "0" >>, << "cavs.pipe", "1" >>, << "cavs.task", "1" >>,
     << "cavs.core", "0" >>, << "cavs.module-aec", "2" >>,
     << "cavs.hda-host-out-gateway", "1" >>, << "cavs.fwlogs", "0" >>,
     << "cavs.probe", "0" >>, << "cavs.perf_measurement", "0" >>,
     << "cavs.probe.endpoint", "0" >> >>
CheckUrlMap(instances) ==
  FlattenSeq([i \in DOMAIN instances |->
    << Get(TypeUri(instances[i][1])), Get(<< "instance", instances[i][1] >>),
       Get(InstanceUri(instances[i][1], instances[i][2])) >>])
TopologyRequests ==
  << Get(<< "type" >>), Get(<< "instance" >>), Refresh >>
    \o CheckUrlMap(CheckedInstances)
LinuxTopologyTest   == LinuxModelTest(<< >>, TopologyRequests)
WindowsTopologyTest == WindowsModelTest(<< >>, TopologyRequests)

(* For the .cfg: the names and the instances of the sample. *)
TestModuleNames == Modules
TestTypeNames   == {CheckedInstances[i][1] : i \in DOMAIN CheckedInstances}
TestCollections ==
  [type \in TestTypeNames |->
     CASE type = "cavs.pipe"           -> {"1", "2", "3", "4"}
       [] type = "cavs.task"           -> {"1", "2", "3", "4", "5", "6", "9"}
       [] type = "cavs.module-aec"     -> {"2", "5"}
       [] type = "cavs.probe.endpoint" -> Numbers(MaxProbeCount - 1)
       [] type = "cavs.hda-host-out-gateway" -> {"1"}
       [] OTHER                        -> {"0"}]

(* The internal pages, as internal_module_list.html and                    *)
(* internal_topology.html show them.                                       *)
Zeros(n) == Repeated(n, "0")
ExpectedModules ==
  << << "0", "copier" >> \o Zeros(8), << "1", "aec" >> \o Zeros(8),
     << "5", "gain" >> \o Zeros(8), << "9", "ns" >> \o Zeros(8),
     << "1024", "mixin" >> \o Zeros(8), << "4012", "src" >> \o Zeros(8),
     << "4100", "mixout" >> \o Zeros(8) >>
ExpectedPipeline(id, priority, tasks, instances) ==
  << id, priority, "0", "0", "0", "", tasks, instances >>
ExpectedInstance(module, name, instance, input, output) ==
  << "(" \o module \o "," \o instance \o ")", module, name, instance >>
    \o Zeros(10) \o << input, output >>
Inner(module, name, instance) ==
  ExpectedInstance(module, name, instance, "none", "none")
ExpectedPin(queue) == << queue, "0" >>
ExpectedTopology ==
  << << "1", "hda-host-in-gateway", "1", "0" >>,
     << "1", "hda-host-in-gateway", "2", "0" >>,
     << "8", "hda-link-out-gateway", "1", "0" >>,
     << "11", "dmic-link-in-gateway", "1", "0" >>,
     << "0", "hda-host-out-gateway", "1", "0" >>,
     ExpectedPipeline("1", "10", "1, 2, ", "(0,1), (1,2), (5,5), "),
     ExpectedPipeline("2", "20", "3, 9, ", "(5,4), (1,5), (9,6), "),
     ExpectedPipeline("3", "30", "4, ", "(1024,1), (4012,0), (5,9), "),
     ExpectedPipeline("4", "40", "5, 6, ", "(5,1), (9,2), (4100,3), "),
     << "0", "1" >>, << "0", "0", "7" >>,
     << "1", "(0,1), " >>, << "2", "(1,2), (5,5), " >>, << "3", "(5,4), " >>,
     << "9", "(1,5), (9,6), " >>, << "4", "(1024,1), (4012,0), (5,9), " >>,
     << "5", "(5,1), " >>, << "6", "(9,2), (4100,3), " >>,
     ExpectedInstance("0", "copier", "1", "(hda-host-in-gateway(1), 1)",
                      "none"), ExpectedPin("0"),
     Inner("1", "aec", "2"), ExpectedPin("0"), ExpectedPin("0"),
     Inner("1", "aec", "5"), ExpectedPin("1"), ExpectedPin("1"),
     ExpectedInstance("5", "gain", "1", "(dmic-link-in-gateway(11), 1)",
                      "none"), ExpectedPin("6"), ExpectedPin("3"),
     ExpectedInstance("5", "gain", "4", "(hda-host-in-gateway(1), 2)",
                      "none"), ExpectedPin("1"),
     Inner("5", "gain", "5"), ExpectedPin("0"), ExpectedPin("4"),
     ExpectedInstance("5", "gain", "9", "none",
                      "(hda-link-out-gateway(8), 1)"),
     ExpectedPin("2"), ExpectedPin("6"),
     Inner("9", "ns", "2"), ExpectedPin("3"), ExpectedPin("3"),
     Inner("9", "ns", "6"), ExpectedPin("1"), ExpectedPin("5"),
     Inner("1024", "mixin", "1"), ExpectedPin("4"), ExpectedPin("5"),
     ExpectedPin("2"),
     Inner("4012", "src", "0"), ExpectedPin("2"), ExpectedPin("2"),
     ExpectedInstance("4100", "mixout", "3", "none",
                      "(hda-host-out-gateway(0), 1)"), ExpectedPin("3") >>
DebugRequests ==
  << Expecting(Getting(<< "internal", "modules" >>), ExpectedModules),
     Expecting(Getting(<< "internal", "topology" >>), ExpectedTopology) >>
LinuxDebugTest   == LinuxModelTest(<< >>, DebugRequests)
WindowsDebugTest == WindowsModelTest(<< >>, DebugRequests)

(* A refresh that fails erases the model. *)
WindowsRefreshErrorTest ==
  WindowsModelTest(
    WindowsGetGateways(GatewaysCount, "ioctl", << >>),
    << Refresh, Get(InstanceUri("cavs.module-aec", "2")),
       Refusing(Posting(RefreshUri), "InternalError"),
       Refusing(Getting(InstanceUri("cavs.module-aec", "2")),
                "InternalError") >>)

StructureRequests ==
  << Get(TypeUri("cavs.module-aec") \o << "control_parameters" >>),
     Get(TypeUri("cavs.fwlogs") \o << "control_parameters" >>) >>
LinuxStructureTest   == LinuxTest(<< >>, StructureRequests)
WindowsStructureTest == WindowsTest(<< >>, StructureRequests)

-----------------------------------------------------------------------------
(* The subsystem: the load of the core and of its modules, of which the    *)
(* last is removed, then the memory.                                       *)
PerfItem(module, instance, flags, peak, average) ==
  [resourceId |-> CompoundId(module, instance),
   details |-> << 0, 0, 0, flags >>, peak |-> peak,
   average |-> Word(average)]
PowerMode == 64
Removed   == 128
PerfItems ==
  << PerfItem(0, 0, 0, Word(1337), 42),
     PerfItem(1, 0, PowerMode, << 64, 226, 1, 0 >>, 789),
     PerfItem(9, 0, 0, Word(1111), 222),
     PerfItem(9, 1, PowerMode, Word(3333), 444),
     PerfItem(9, 2, PowerMode + Removed, Word(5555), 666) >>
PropsWithPin(module, instance, ibs, cpc, channels, depth, validDepth) ==
  [Filled(ModuleInstanceProps, 0) EXCEPT
     !.id = CompoundId(module, instance), !.ibs_bytes = Word(ibs),
     !.cpc = Word(cpc),
     !.input_pins.pin_info =
       << [Filled(PinProps, 0) EXCEPT
             !.format.number_of_channels = << channels >>,
             !.format.bit_depth = Word(depth),
             !.format.valid_bit_depth = << validDepth >>] >>]
LoadedInstances ==
  << PropsWithPin(1, 0, 1, 2000, 4, 8, 8),
     PropsWithPin(9, 0, 9, 10000, 12, 16, 16),
     PropsWithPin(9, 1, 17, 18000, 20, 32, 24) >>
MemoryState ==
  TlvItem(0, Write(SramStateInfo,
    [freePhysMemPages |-> Word(42), ebbStates |-> << Word(1) >>,
     pageAlloc |-> << << 42, 0 >> >>]))
  \o TlvItem(1, Write(SramStateInfo,
    [freePhysMemPages |-> Word(1337), ebbStates |-> << Word(255), Unset >>,
     pageAlloc |-> << << 42, 0 >>, << 0, 0 >>, << 0, 255 >> >>]))

PerfUri        == ControlUri("cavs.perf_measurement", "0")
PutPerf(state) == Put(PerfUri, [State |-> state])
GetPerfIs(state) == Expecting(Getting(PerfUri), << << state >> >>)
ExpectedItems ==
  << << "0", "D0", "0", "1337", "42" >>, << "0", "D0i3", "0", "123456", "789" >>,
     << "0", "D0", "0", "1111", "222" >>, << "1", "D0i3", "0", "3333", "444" >>,
     << "2", "D0i3", "1", "5555", "666" >> >>
SubsystemRequests ==
  << Refresh, PutPerf("Started"),
     Expecting(Getting(InfoUri("cavs", "0")), ExpectedItems) >>
LinuxSubsystemTest ==
  LinuxModelTest(
    LinuxGetPerfState(Disabled) \o LinuxSetCorePower(0, FALSE)
      \o LinuxSetPerfState(Started)
      \o LinuxGetGlobalPerfData(MaxModInstCount + DspCoreCount, PerfItems)
      \o LinuxGetAllInstanceProps(LoadedInstances)
      \o LinuxGetGlobalMemoryState(MemoryState),
    SubsystemRequests)
WindowsSubsystemTest ==
  WindowsModelTest(
    WindowsSetPerfState(Started)
      \o WindowsGetPerfItems(MaxModInstCount + DspCoreCount, PerfItems)
      \o WindowsGetAllInstanceProps(LoadedInstances)
      \o WindowsGetGlobalMemoryState(MemoryState),
    SubsystemRequests)

LinuxPerfTest ==
  LinuxTest(
    LinuxGetPerfState(Disabled) \o LinuxSetCorePower(0, FALSE)
      \o LinuxSetPerfState(Started)
      \o LinuxGetPerfState(Started) \o LinuxSetPerfState(Paused)
      \o LinuxGetPerfState(Paused)  \o LinuxSetPerfState(Stopped)
      \o LinuxGetPerfState(Stopped),
    << PutPerf("Started"), PutPerf("Paused"), PutPerf("Stopped"),
       GetPerfIs("Stopped") >>)
WindowsPerfTest ==
  WindowsTest(
    WindowsSetPerfState(Started) \o WindowsGetPerfState(Started)
      \o WindowsSetPerfState(Paused) \o WindowsSetPerfState(Stopped),
    << PutPerf("Started"), GetPerfIs("Started"), PutPerf("Paused"),
       PutPerf("Stopped") >>)

-----------------------------------------------------------------------------
(* The parameters of a module: two blocks, of which what matters here is   *)
(* that they are two and how long they are.                                *)
AecControlParameterPayload == NewRing(642, 1)
NsControlParameterPayload  == NewRing(38, 2)
AecParameterId == 0
NsParameterId  == 25
(* For the .cfg: what the parameter-framework of the tests knows. *)
TestControlParameters ==
  1 :> << [param |-> AecParameterId, size |-> 642],
          [param |-> NsParameterId, size |-> 38] >>
TestLoggerCores == << 0, 0 >>

AecUri            == ControlUri("cavs.module-aec", "1")
GetModuleRequests == << Refresh, Get(AecUri) >>
SetModuleRequests ==
  << Refresh, Put(AecUri, << AecControlParameterPayload,
                             NsControlParameterPayload >>) >>

LinuxGetModuleTest ==
  LinuxModelTest(
    LinuxGetModuleParameter(1, 1, AecParameterId, MaxParameterPayloadSize,
                            AecControlParameterPayload)
      \o LinuxGetModuleParameter(1, 1, NsParameterId,
                                 MaxParameterPayloadSize,
                                 NsControlParameterPayload),
    GetModuleRequests)
LinuxSetModuleTest ==
  LinuxModelTest(
    LinuxSetModuleParameter(1, 1, AecParameterId, AecControlParameterPayload)
      \o LinuxSetModuleParameter(1, 1, NsParameterId,
                                 NsControlParameterPayload),
    SetModuleRequests)
LinuxModuleInfoTest ==
  LinuxModelTest(
    LinuxGetModuleInstanceProps(1, 1,
      [Filled(ModuleInstanceProps, 0) EXCEPT
         !.id = CompoundId(1, 1), !.stack_bytes = Word(128),
         !.bss_total_bytes = Word(256), !.bss_used_bytes = Word(64)]),
    << Refresh, Get(InfoUri("cavs.module-aec", "1")) >>)

WindowsGetModuleTest ==
  WindowsModelTest(
    WindowsGetModuleParameter(1, 1, AecParameterId, "success",
                              AecControlParameterPayload)
      \o WindowsGetModuleParameter(1, 1, NsParameterId, "success",
                                   NsControlParameterPayload),
    GetModuleRequests)
WindowsSetModuleTest ==
  WindowsModelTest(
    WindowsSetModuleParameter(1, 1, AecParameterId, "success",
                              AecControlParameterPayload)
      \o WindowsSetModuleParameter(1, 1, NsParameterId, "success",
                                   NsControlParameterPayload),
    SetModuleRequests)

-----------------------------------------------------------------------------
(* The logs.  On Linux nothing is scripted for the level that is set once  *)
(* more when the agent ends: the mock refuses it, and nobody is told.      *)
LogUri     == ControlUri("cavs.fwlogs", "0")
StartedLog == LogState(TRUE, "Verbose", "Sram")
StartLogDocument == [Started |-> "1", Verbosity |-> "Verbose", ViaPTI |-> "0"]
GetLogIs(started, level, viaPti) ==
  Expecting(Getting(LogUri), << << started, level, viaPti >> >>)
LogRequests(viaPti) ==
  << GetLogIs("0", "Critical", viaPti), Put(LogUri, StartLogDocument),
     GetLogIs("1", "Verbose", "0") >>
LogCorePowers ==
  LinuxSetCorePower(0, FALSE) \o LinuxSetCorePower(0, FALSE)
    \o LinuxSetCorePower(0, TRUE) \o LinuxSetCorePower(0, TRUE)

LinuxLogTest ==
  [LinuxTest(LogCorePowers, LogRequests("0")) EXCEPT
     !.script.control = MixerGetLogLevel("Critical")
                          \o MixerSetLogLevel("Verbose")
                          \o MixerGetLogLevel("Verbose")]
LinuxLogTwiceTest ==
  [LinuxTest(LogCorePowers,
             << GetLogIs("0", "Critical", "0"), Put(LogUri, StartLogDocument),
                Refusing(Putting(LogUri, StartLogDocument),
                         "InternalError") >>) EXCEPT
     !.script.control = MixerGetLogLevel("Critical")
                          \o MixerSetLogLevel("Verbose")]
WindowsLogTest ==
  WindowsTest(
    WindowsGetLogParameters(LogState(FALSE, "Critical", "Pti"))
      \o WindowsSetLogParameters(StartedLog)
      \o WindowsGetLogParameters(StartedLog)
      \o WindowsSetLogParameters(LastLogState),
    LogRequests("1"))

-----------------------------------------------------------------------------
(* The probes: probe 0 injects into what probe 1 extracts from. *)
InjectionProbe  == Probe(TRUE, Point(1, 2, "Input", 0), "Inject")
ExtractionProbe == Probe(TRUE, Point(1, 2, "Output", 0), "Extract")
RingBufferSize  == 31
BitDepth        == 16
ChannelCount    == 4
SampleSize      == (BitDepth \div 8) * ChannelCount
InjectedProps   == PropsWithPin(0, 0, 0, 0, ChannelCount, BitDepth, 0)

(* Twenty packets, of which each has as many bytes as its rank, that are   *)
(* as much.  The checksum is the sum of the header's fields.               *)
PacketOf(rank) ==
  [syncWord |-> << 186, 190, 190, 186 >>,
   probePointId |-> [full |-> PointBytes(ExtractionProbe.point)],
   format |-> Word(0), dspWallClockTsHw |-> Word(0),
   dspWallClockTsLw |-> Word(0), data |-> Repeated(rank, << rank >>),
   checksum |-> << 187 + rank, 190, 192, 187, 0, 0, 0, 0 >>]
ProbeExtractionContent ==
  FlattenSeq([i \in 1 .. 20 |-> Write(Packet, PacketOf(i - 1))])

Buffers == Seq(0 .. 255)
SplitBuffer(buffer, sizeList) ==
  LET blocks[rest \in Buffers, sizes \in Seq(Nat)] ==
        LET n == Least(Head(sizes), Len(rest))
        IN  IF rest = << >> THEN << >>
            ELSE << SubSeq(rest, 1, n) >>
                   \o blocks[After(rest, n), Append(Tail(sizes), Head(sizes))]
  IN  blocks[buffer, sizeList]
ExtractionBlocks == SplitBuffer(ProbeExtractionContent, << 1, 10, 20, 30 >>)
InjectionData    == [i \in 1 .. 100 * SampleSize |-> (i - 1) % 256]
CompletedBlock(data, size) == Padded(SubSeq(data, 1, Least(size, Len(data))),
                                     size)

(* The driver's side of the Windows rings. *)
FakeRingBuffer == [buffer |-> NewRing(RingBufferSize, 255), offset |-> 0]
FakeWrite(fake, content) ==
  [buffer |-> [i \in 1 .. RingBufferSize |->
     LET k == (i - 1 - fake.offset) % RingBufferSize
     IN  IF k < Len(content) THEN content[k + 1] ELSE fake.buffer[i]],
   offset |-> fake.offset + Len(content)]
ExtractionRing(blocks) == FoldLeft(FakeWrite, FakeRingBuffer, blocks)

ConsumerPositionDelta == 21
ExpectedRings(prefilled) ==
  LET rings[fake \in [buffer : Buffers, offset : Nat], data \in Buffers,
            consumer \in Nat] ==
        LET size == Whole(RingBufferSize - (fake.offset - consumer),
                          SampleSize)
        IN  << fake.buffer >>
              \o IF data = << >> THEN << >>
                 ELSE rings[FakeWrite(fake, CompletedBlock(data, size)),
                            After(data, Least(size, Len(data))),
                            consumer + ConsumerPositionDelta]
  IN  rings[prefilled, InjectionData, ConsumerPositionDelta]
WindowsInjectionRings ==
  ExpectedRings(FakeWrite(FakeRingBuffer,
                          Silence(Whole(RingBufferSize, SampleSize))))

(* On Linux, what is written to the device instead. *)
InjectionBlockSize == Whole(RingBufferSize, SampleSize)
LinuxInjectionBlocks ==
  LET parts == SplitBuffer(InjectionData, << InjectionBlockSize >>)
  IN  [i \in DOMAIN parts |-> CompletedBlock(parts[i], InjectionBlockSize)]

-----------------------------------------------------------------------------
(* The probe service, started, streaming and stopped. *)
EndPointUri(probe) == ControlUri("cavs.probe.endpoint", probe)
EndPointStream(probe) ==
  InstanceUri("cavs.probe.endpoint", probe) \o << "streaming" >>
EnabledEndPoint(purpose, type) ==
  [Active |-> "1", Purpose |-> purpose, ComponentType |-> "module-aec",
   InstanceId |-> "2", Type |-> type, Index |-> "0"]
ExtractDocument == EnabledEndPoint("Extract", "Output")
InjectDocument  == EnabledEndPoint("Inject", "Input")
DisabledRow == << "0", "Inject", "_Invalid_", "0", "Input", "0" >>
ExtractRow  == << "1", "Extract", "module-aec", "2", "Output", "0" >>
InjectRow   == << "1", "Inject", "module-aec", "2", "Input", "0" >>
GetEndPoints(RowOf(_)) ==
  [i \in 1 .. MaxProbeCount |->
     Expecting(Getting(EndPointUri(ToString(i - 1))), << RowOf(i - 1) >>)]

ProbesUri == ControlUri("cavs.probe", "0")
GetProbesIs(started) == Expecting(Getting(ProbesUri), << << started >> >>)
StartProbes == Putting(ProbesUri, [Started |-> "1"])
SettingUp(configured, RowOf(_)) ==
  << GetProbesIs("0") >> \o GetEndPoints(LAMBDA probe : DisabledRow)
    \o configured \o GetEndPoints(RowOf)
NominalRequests(extract, inject) ==
  SettingUp(<< Put(EndPointUri("1"), ExtractDocument),
               Put(EndPointUri("0"), InjectDocument) >>,
            LAMBDA probe : CASE probe = 0 -> InjectRow
                             [] probe = 1 -> ExtractRow
                             [] probe > 1 -> DisabledRow)
    \o << Expecting(StartProbes, Uncompared), GetProbesIs("1"),
          Get(EndPointStream("1")), Expecting(extract, Uncompared),
          Put(EndPointStream("0"), InjectionData),
          Expecting(inject, Uncompared),
          Put(ProbesUri, [Started |-> "0"]), GetProbesIs("0") >>

LinuxExtractions ==
  CompressOperation("extractor", "open")
    \o CompressOperation("extractor", "start")
    \o FlattenSeq([i \in DOMAIN ExtractionBlocks |->
         CompressWait("extractor", TRUE)
           \o CompressRead("extractor", ExtractionBlocks[i])])
    \o CompressWait("extractor", FALSE)
    \o CompressOperation("extractor", "stop")
LinuxInjections ==
  CompressOperation("injector", "open")
    \o CompressSize("injector", "getBufferSize", InjectionBlockSize)
    \o CompressWrite("injector", Silence(InjectionBlockSize))
    \o CompressOperation("injector", "start")
    \o FlattenSeq([i \in DOMAIN LinuxInjectionBlocks |->
         CompressWait("injector", TRUE)
           \o CompressSize("injector", "getAvailable", InjectionBlockSize)
           \o CompressWrite("injector", LinuxInjectionBlocks[i])])
    \o CompressWait("injector", FALSE)
    \o CompressOperation("injector", "stop")
LinuxProbesTest ==
  [LinuxTest(LinuxGetModuleInstanceProps(1, 2, InjectedProps),
             NominalRequests(Request("extract"), Request("inject"))) EXCEPT
     !.script.control   = MixerSetExtractControl(0, ExtractionProbe)
                            \o MixerSetInjectControl(0, InjectionProbe),
     !.script.extractor = LinuxExtractions,
     !.script.injector  = LinuxInjections,
     !.content          = ProbeExtractionContent]

(* A device that cannot be opened. *)
LinuxProbesFailureTest ==
  [LinuxTest(<< >>, SettingUp(<< Put(EndPointUri("1"), ExtractDocument) >>,
                              LAMBDA probe : IF probe = 1 THEN ExtractRow
                                                          ELSE DisabledRow)
                      \o << Refusing(StartProbes, "InternalError"),
                            GetProbesIs("0") >>) EXCEPT
     !.script.control   = MixerSetExtractControl(0, ExtractionProbe),
     !.script.extractor = FailedCompressOperation("extractor", "open")]

SessionProbes == [NewAgent.probes EXCEPT ![0] = InjectionProbe,
                                         ![1] = ExtractionProbe]
WindowsNominalCommands ==
  LET ring == [startAdress |-> Bytes(8, 0), size |-> Bytes(8, RingBufferSize)]
      none == [startAdress |-> Bytes(8, 0), size |-> Bytes(8, 0)]
  IN  WindowsGetProbeState(Idle)
        \o WindowsGetModuleInstanceProps(1, 2, InjectedProps)
        \o WindowsGetProbeState(Idle)
        \o WindowsSetProbeState("success", Owned)
        \o WindowsSetProbeConfiguration(SessionProbes)
        \o WindowsSetProbeState("success", Allocated)
        \o WindowsGetRingBuffers(
             [extractionRBDescription |-> ring,
              injectionRBDescriptions |->
                [i \in 1 .. MaxProbes |-> IF i = 1 THEN ring ELSE none]])
        \o WindowsSetProbeState("success", Active)
        \o WindowsGetProbeState(Active)
        \o FlattenSeq([i \in DOMAIN ExtractionBlocks |->
             WindowsGetExtractionPosition(
               ExtractionRing(SubSeq(ExtractionBlocks, 1, i)).offset)])
        \o FlattenSeq([i \in DOMAIN WindowsInjectionRings |->
             WindowsGetInjectionPosition(0, i * ConsumerPositionDelta)])
        \o WindowsGetProbeState(Active)
        \o WindowsSetProbeState("success", Allocated)
        \o WindowsSetProbeState("success", Owned)
        \o WindowsSetProbeState("success", Idle)
        \o WindowsGetProbeState(Idle)
WindowsNominalRequests ==
  NominalRequests(
    [Request("extract") EXCEPT
       !.payloads = [i \in DOMAIN ExtractionBlocks |->
         ExtractionRing(SubSeq(ExtractionBlocks, 1, i)).buffer]],
    [Request("inject") EXCEPT !.state = Len(WindowsInjectionRings)])
WindowsProbesTest ==
  [WindowsTest(WindowsNominalCommands, WindowsNominalRequests) EXCEPT
     !.script.injector = FlattenSeq([i \in DOMAIN WindowsInjectionRings |->
       Entry("ring", WindowsInjectionRings[i], TRUE, << >>)]),
     !.content = ProbeExtractionContent]

(* A driver in a state it should not be in, then one that refuses one. *)
WindowsProbesFailureTest ==
  WindowsTest(
    WindowsGetProbeState(Owned)
      \o WindowsGetProbeState(Idle) \o WindowsSetProbeState("success", Owned)
      \o WindowsSetProbeConfiguration(NewAgent.probes)
      \o WindowsSetProbeState("ioctl", Allocated)
      \o WindowsGetProbeState(Owned) \o WindowsSetProbeState("success", Idle)
      \o WindowsGetProbeState(Idle),
    << Refusing(Getting(ProbesUri), "InternalError"),
       Refusing(StartProbes, "InternalError"), GetProbesIs("0") >>)

-----------------------------------------------------------------------------
(* A session of our own: what is refused before the driver is asked, on    *)
(* both sides of a refresh.                                                *)
RefusedWithoutModel ==
  << Refusing(Getting(<< "instance", "cavs" >>), "InternalError"),
     Refusing(Getting(InstanceUri("cavs", "0")), "InternalError"),
     Refusing(Getting(<< "internal", "model" >>), "InternalError"),
     Refusing(Getting(<< "internal" >>), "NotFound"),
     Refusing(Posting(<< "type" >>), "VerbNotAllowed"),
     Refusing(Getting(RefreshUri), "VerbNotAllowed"),
     Refusing(Putting(InstanceUri("cavs.fwlogs", "0") \o << "streaming" >>,
                      << >>), "VerbNotAllowed") >>
RefusedUris ==
  << << TypeUri("cavs.void"), "BadRequest" >>,
     << << "instance", "cavs.void" >>, "BadRequest" >>,
     << InstanceUri("cavs.pipe", "9"), "BadRequest" >>,
     << TypeUri("cavs") \o << "control_parameters" >>, "NotFound" >>,
     << TypeUri("cavs.fwlogs") \o << "info_parameters" >>, "NotFound" >>,
     << ControlUri("cavs.pipe", "1"), "NotFound" >>,
     << ControlUri("cavs.fwlogs", "1"), "NotFound" >>,
     << EndPointUri("8"), "NotFound" >>,
     << InfoUri("cavs.probe.endpoint", "0"), "NotFound" >>,
     << InfoUri("cavs", "1"), "NotFound" >>,
     << ControlUri("cavs.module-aec", "first"), "InternalError" >>,
     << EndPointStream("first"), "BadRequest" >>,
     << EndPointStream("8"), "InternalError" >> >>
RefusedDocuments ==
  << << LogUri, [StartLogDocument EXCEPT !.Verbosity = "Quiet"] >>,
     << LogUri, [Started |-> "1"] >>,
     << PerfUri, [State |-> "Running"] >>,
     << ProbesUri, [Started |-> "yes"] >>,
     << EndPointUri("0"), [InjectDocument EXCEPT !.ComponentType = "void"] >>,
     << EndPointUri("0"), [InjectDocument EXCEPT !.Index = "64"] >> >>
RefusedRequests ==
  RefusedWithoutModel \o << Refresh >>
    \o [i \in DOMAIN RefusedUris |->
          Refusing(Getting(RefusedUris[i][1]), RefusedUris[i][2])]
    \o [i \in DOMAIN RefusedDocuments |->
          Refusing(Putting(RefusedDocuments[i][1], RefusedDocuments[i][2]),
                   "InternalError")]
    \o << Refusing(Putting(InfoUri("cavs.module-aec", "1"), << >>),
                   "NotFound"),
          Get(ControlUri("cavs", "0")), Get(<< "internal", "model" >>),
          Get(<< "about" >>) >>
LinuxRefusedTest   == LinuxModelTest(<< >>, RefusedRequests)
WindowsRefusedTest == WindowsModelTest(<< >>, RefusedRequests)

AllTests ==
  << LinuxTopologyTest, LinuxDebugTest, LinuxSubsystemTest,
     LinuxGetModuleTest, LinuxSetModuleTest, LinuxModuleInfoTest,
     LinuxStructureTest, LinuxLogTest, LinuxLogTwiceTest, LinuxPerfTest,
     LinuxProbesTest, LinuxProbesFailureTest,
     WindowsTopologyTest, WindowsDebugTest, WindowsGetModuleTest,
     WindowsRefreshErrorTest, WindowsSetModuleTest, WindowsStructureTest,
     WindowsLogTest, WindowsProbesTest, WindowsProbesFailureTest,
     WindowsPerfTest, WindowsSubsystemTest,
     LinuxRefusedTest, WindowsRefusedTest >>

-----------------------------------------------------------------------------
(* From a call to its commands, and back. *)
Sent     == Head(requests)[1]
Current  == IF IsHttp(Sent) THEN AsRequest(debugAgent, Sent) ELSE Sent
Finished == requests = << >>
(* The answer is as the test says, and so is what it shows. *)
IsExpected(status) ==
  /\ status = Head(requests)[2]
  /\ \/ Head(requests)[3] = Uncompared
     \/ Shown(system, debugAgent, Current, results) = Head(requests)[3]

TinyCommandOf(to, feature, param, payload) ==
  << Command(to, ToTinyCmdBuffer(feature, param, payload)) >>
CorePower(allowedToSleep, coreId) ==
  Command("corePower", CorePowerCommand(allowedToSleep, coreId))
AccessCommands(access) ==
  IF system = "windows"
    THEN << Command(IF access.get THEN "BigGet" ELSE "BigSet",
                    WindowsMessage(access)) >>
    ELSE << CorePower(FALSE, 0),
            Command(IF access.get THEN "read" ELSE "write",
                    LinuxMessage(access)),
            CorePower(TRUE, 0) >>
CommandsOf(next) ==
  CASE next.name = "vote" ->
         << CorePower(next.param = 1, next.instance) >>
    [] next.name \in {"mixerRead", "mixerWrite"} ->
         << Command(next.name,
                    << next.module, next.instance, next.payload >>) >>
    [] next.name \in {"extractor", "injector"} ->
         << Command(next.name, << next.param, next.payload >>) >>
    [] next.name = "ring" -> << Command("ring", next.payload) >>
    [] next.name = "tinyGet" ->
         TinyCommandOf("TinyGet", next.module, next.param, next.payload)
    [] next.name = "tinySet" ->
         TinyCommandOf("TinySet", next.module, next.param, next.payload)
    [] next.name = "ioctlGetPerf" ->
         TinyCommandOf("TinyGet", FEATURE_PERFORMANCE_MEASUREMENT,
                       PERFORMANCE_MEASURE_PARAM, Unset)
    [] next.name = "ioctlSetPerf" ->
         TinyCommandOf("TinySet", FEATURE_PERFORMANCE_MEASUREMENT,
                       PERFORMANCE_MEASURE_PARAM, Bytes(4, next.param))
    [] OTHER -> AccessCommands(AccessOf(debugAgent.handler, next))

IsIoctl(to) == to \in {"TinyGet", "TinySet", "BigGet", "BigSet"}
ReplyOf(access, out) ==
  IF ~access.get THEN Returns(<< >>)
  ELSE Returns(LinuxPayload(access, Padded(out, MaxParameterPayloadSize)))
AccessResult(out) ==
  ResultOf(debugAgent.handler, ongoing,
           IF system = "windows"
             THEN WindowsPayload(out)
             ELSE ReplyOf(AccessOf(debugAgent.handler, ongoing), out))
ResultFor(out) ==
  CASE ongoing.name \in {"vote", "mixerRead", "mixerWrite", "extractor",
                      "injector", "ring"} -> Returns(out)
    [] ongoing.name \in {"tinyGet", "tinySet"} ->
         FromBodyBuffer(After(out, SizeOf(Intc_App_Cmd_Header)),
                        "Device", "Device")
    [] ongoing.name = "ioctlGetPerf" -> IoctlPayload(U32, out)
    [] ongoing.name = "ioctlSetPerf" -> Returns(<< >>)
    [] OTHER -> AccessResult(out)
Failure == Throws(IF Last(todo).to = "corePower" \/ IsIoctl(Last(todo).to)
                    THEN "ModuleHandler" ELSE "Device")

-----------------------------------------------------------------------------
Plays(test) ==
  /\ system = test.platform
  /\ script = [test.script EXCEPT !.device = DeviceCommands(test)]
  /\ requests = test.requests /\ toExtract = test.content
Init ==
  /\ \E i \in DOMAIN Tests : Plays(Tests[i])
  /\ ongoing = Call("none") /\ heard = << >> /\ results = << >> /\ todo = << >>
  /\ debugAgent = IF system = "windows"
       THEN [NewAgent EXCEPT !.ring = NewRing(RingBufferSize, 255)]
       ELSE NewAgent
  /\ failures = {}

(* The agent goes on: it makes a call, or answers. *)
Answers(status) ==
  /\ debugAgent' = Settled(system, debugAgent, Current, results, status)
  /\ failures' = IF IsExpected(status) THEN failures
                 ELSE failures \cup {<< Current.name, "answer" >>}
  /\ requests' = Tail(requests)
  /\ ongoing' = Call("none") /\ results' = << >>
  /\ UNCHANGED todo
Calls(next) ==
  /\ ongoing' = next /\ todo' = CommandsOf(next)
  /\ UNCHANGED << requests, results, debugAgent, failures >>
GoesOnWith(next) == IF IsAnswer(next) THEN Answers(Status(next))
                                      ELSE Calls(next)
Proceed ==
  /\ ~Finished /\ todo = << >>
  /\ GoesOnWith(AgentCall(system, debugAgent, Current, ongoing, results))
  /\ heard' = << >> /\ UNCHANGED << system, script, toExtract >>

(* The call ends with its last command, or with the first that fails. *)
Ends(result) ==
  /\ results' = Append(results, result) /\ todo' = << >>
  /\ debugAgent' = Kept(system, debugAgent, Current, ongoing, results,
                        result)
(* An access returns what it read: its last command only lets the core    *)
(* sleep.  A vote alone returns what the device gave, nothing.             *)
Gave(entry) ==
  IF entry.to = "corePower" /\ ongoing.name # "vote" THEN heard
                                                     ELSE entry.out
GoesOn(entry) ==
  /\ todo' = Tail(todo) /\ heard' = Gave(entry)
  /\ UNCHANGED << results, debugAgent >>
Consumes(device, entry) ==
  /\ script' = [script EXCEPT ![device] = Tail(@)]
  /\ IF entry.ok /\ Len(todo) > 1
       THEN GoesOn(entry)
       ELSE /\ Ends(IF entry.ok THEN ResultFor(Gave(entry)) ELSE Failure)
            /\ UNCHANGED heard
  /\ UNCHANGED failures
(* The device refuses what it does not expect, and remembers it. *)
Refuses ==
  /\ failures' = failures \cup {<< Current.name, Head(todo).to >>}
  /\ Ends(Failure) /\ UNCHANGED << script, heard >>
IsNext(device) ==
  IF script[device] = << >> THEN FALSE
                            ELSE Expects(Head(script[device]), Head(todo))
Exchange(device, kinds) ==
  /\ ~Finished /\ todo # << >>
  /\ Head(todo).to \in kinds
  /\ IF IsNext(device) THEN Consumes(device, Head(script[device]))
                       ELSE Refuses
  /\ UNCHANGED << system, requests, toExtract, ongoing >>

(* Each device checks its own commands. *)
FileCommand      == Exchange("device", {"corePower", "read", "write"})
IoctlCommand     == Exchange("device",
                             {"TinyGet", "TinySet", "BigGet", "BigSet"})
MixerCommand     == Exchange("control", {"mixerRead", "mixerWrite"})
ExtractorCommand == Exchange("extractor", {"extractor"})
InjectorCommand  == Exchange("injector", {"injector", "ring"})

End == Finished /\ UNCHANGED vars

Next ==
  \/ Proceed
  \/ FileCommand \/ IoctlCommand
  \/ MixerCommand
  \/ ExtractorCommand \/ InjectorCommand
  \/ End

Spec == Init /\ [][Next]_vars

-----------------------------------------------------------------------------
(* Properties.                                                             *)
(* The agent sends the devices, byte for byte and in order, what the tests *)
(* of the repository say that it does: the one difference is the log level *)
(* set as the agent ends, which on Linux the tests have forgotten, and     *)
(* which Logger::stop() does not report.                                   *)
CommandsAreThoseExpected ==
  \A f \in failures :
    \/ f[2] = "answer"
    \/ system = "linux" /\ f = << "destroy", "mixerWrite" >>

(* Every request gets the answer the test says, errors included; at the    *)
(* end nothing is left of a script, no stream has broken, and the content  *)
(* extracted from the probe is what was put in its ring or its device.     *)
RequestsAreAnswered ==
  /\ \A f \in failures : f[2] # "answer"
  /\ Finished =>
       /\ \A device \in DOMAIN script : script[device] = << >>
       /\ ~debugAgent.broken /\ debugAgent.extracted = toExtract
=============================================================================
