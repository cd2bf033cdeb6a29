------------------------------ MODULE Requests ------------------------------
(***************************************************************************)
(* What the agent does, one call of the driver after the other, to serve   *)
(* the requests that reach the modules of the firmware, and to start and   *)
(* stop.  NextCall gives the call that follows the results `got' so far,   *)
(* each [thrown, value], or the answer to the request.                     *)
(*                                                                         *)
(* Three calls are not the ModuleHandler's: on Linux, "vote", of the perf  *)
(* service for the cores to sleep (param = 1) or not (0); on Windows,      *)
(* "ioctlGetPerf" and "ioctlSetPerf".                                      *)
(***************************************************************************)
EXTENDS ModuleHandler

CONSTANT
  ControlParameters  (* What the parameter serializer knows of the modules, *)
                     (* by id: the blocks of their control parameters, each *)
                     (* with the firmware's parameter it is mapped to and   *)
                     (* its size.                                           *)

(* Perf::State *)
Disabled == 0
Stopped  == 1
Started  == 2
Paused   == 3

(* A request: `id' is the module instance, `state' that of the perf        *)
(* service, and `payloads' the blocks of a control parameter, encoded.     *)
Request(name) == [name |-> name, id |-> << 0, 0 >>, kind |-> "Control",
                  state |-> Disabled, payloads |-> << >>]

Answer(status)  == [Call("answer") EXCEPT !.payload = << status >>]
IsAnswer(call)  == call.name = "answer"
Status(call)    == call.payload[1]

Failed(got) == got # << >> /\ ~Succeeds(Last(got))
AsNumber(bytes) == Count(bytes)

-----------------------------------------------------------------------------
(* The constructor of the ModuleHandler. *)
Construct(handler, got) ==
  CASE Failed(got)   -> Answer("500")
    [] got = << >>   -> Call("readFwConfig")
    [] Len(got) = 1 /\ ~Failed(got) -> Call("readHwConfig")
    [] Len(got) = 2 /\ ~Failed(got) ->
         IF ConfigIsValid(handler) THEN Call("cacheModuleEntries")
                                   ELSE Answer("500")
    [] Len(got) = 3 /\ ~Failed(got) -> Answer("200")

(* Perf::setState().  On Linux the driver is not told twice the same, and  *)
(* the cores are kept awake between a start and the disabling.             *)
LinuxSetPerf(state, got) ==
  LET votes == state \in {Started, Disabled}
  IN  CASE Failed(got) -> Answer("500")
        [] got = << >> -> Call("getPerfState")
        [] got # << >> /\ ~Failed(got) ->
             CASE AsNumber(got[1].value) = state -> Answer("200")
               [] AsNumber(got[1].value) # state /\ Len(got) = 1 /\ votes ->
                    CallOn("vote", IF state = Disabled THEN 1 ELSE 0)
               [] AsNumber(got[1].value) # state
                    /\ Len(got) = (IF votes THEN 2 ELSE 1) ->
                    CallOn("setPerfState", state)
               [] OTHER -> Answer("200")
WindowsSetPerf(state, got) ==
  CASE Failed(got) -> Answer("500")
    [] got = << >> -> CallOn("ioctlSetPerf", state)
    [] got # << >> /\ ~Failed(got) -> Answer("200")
SetPerf(platform, state, got) ==
  IF platform = "linux" THEN LinuxSetPerf(state, got)
                        ELSE WindowsSetPerf(state, got)

GetPerf(platform, got) ==
  CASE Failed(got) -> Answer("500")
    [] got = << >> -> Call(IF platform = "linux" THEN "getPerfState"
                                                 ELSE "ioctlGetPerf")
    [] got # << >> /\ ~Failed(got) -> Answer("200")

(* The destructor of the perf service: it catches PerfService::Exception,  *)
(* which is not what setState() throws.                                    *)
Destroy(platform, got) ==
  IF Failed(got) THEN Answer("terminate")
                 ELSE SetPerf(platform, Disabled, got)

-----------------------------------------------------------------------------
(* PerfService::getData(), one item after the other, then the memory.  An  *)
(* instance whose properties cannot be had is skipped, but its module must *)
(* be a known one.                                                         *)
IdOf(compound) == << Count(compound.moduleId), Count(compound.instanceId) >>
IsCore(item)     == IdOf(item.resourceId)[1] = 0
IsRemoved(item)  == item.details[4] >= 128
NeedsProps(item) == ~IsCore(item) /\ ~IsRemoved(item)
IsUnknown(handler, item) ==
  ~IsCore(item) /\ FindModuleEntry(handler, IdOf(item.resourceId)[1]) = {}

(* computeBudget() refuses a number of bits that is not one of bytes, and  *)
(* looks at the first input pin, which in an empty vector is the null      *)
(* pointer.                                                                *)
LacksPins(result) ==
  Succeeds(result) /\ result.value.input_pins.pin_info = << >>
BudgetFails(props) ==
  Head(props.input_pins.pin_info).format.bit_depth[1] % 8 # 0
StopsTheList(result) ==
  IF Succeeds(result) THEN BudgetFails(result.value)
                      ELSE result.thrown # "ModuleHandler"

ListItems(handler, items, got) ==
  LET Asked(j) == Cardinality({i \in 1 .. j : NeedsProps(items[i])})
      done  == Len(got) - 1
      stops == {j \in DOMAIN items :
                  \/ NeedsProps(items[j]) /\ Asked(j) > done
                  \/ IsUnknown(handler, items[j])}
      stop  == CHOOSE j \in stops : \A k \in stops : j <= k
      props == 2 .. Least(Len(got), Asked(Len(items)) + 1)
  IN  IF \E i \in props : LacksPins(got[i])    THEN Answer("crash")
      ELSE IF \E i \in props : StopsTheList(got[i]) THEN Answer("500")
      ELSE IF stops # {}
        THEN IF Asked(stop) > done
               THEN CallOf("getModuleInstanceProps",
                           IdOf(items[stop].resourceId))
               ELSE Answer("500")
      ELSE IF done = Asked(Len(items))       THEN Call("getGlobalMemoryState")
      ELSE Answer(IF Succeeds(Last(got)) THEN "200" ELSE "500")

(* The control parameters of the subsystem are a constant text, and there  *)
(* is one instance of it.                                                  *)
GetSubsystem(handler, request, got) ==
  CASE request.kind = "Control" -> Answer("200")
    [] request.kind = "Info" /\ request.id[2] # 0 -> Answer("404")
    [] request.kind = "Info" /\ request.id[2] = 0 /\ got = << >> ->
         Call("getPerfItems")
    [] request.kind = "Info" /\ request.id[2] = 0 /\ got # << >> ->
         IF Succeeds(got[1]) THEN ListItems(handler, got[1].value, got)
                             ELSE Answer("500")

-----------------------------------------------------------------------------
(* The parameters of a module, block by block: an error stops a PUT there, *)
(* the blocks before it being set.  A module nobody knows has no applier.  *)
\* Mutant: the last block is never reached.
ChildrenButLast(request) ==
  IF request.id[1] \in DOMAIN ControlParameters
    THEN Front(ControlParameters[request.id[1]]) ELSE << >>
Children(request) ==
  IF request.id[1] \in DOMAIN ControlParameters
    THEN ControlParameters[request.id[1]] ELSE << >>
IsKnownModule(handler, request) ==
  FindModuleEntry(handler, request.id[1]) # {}

(* xmlToBinary() fails on a block that is not what the serializer knows,   *)
(* and setModuleParameter() on one that is too big.                        *)
Encodes(block, payload) == Len(payload) = block.size
IsSettable(block, payload) ==
  Encodes(block, payload) /\ Len(payload) <= MaxParameterPayloadSize

SetModuleControl(request, got) ==
  LET blocks == Children(request)
      n      == Len(got) + 1
  IN  CASE Failed(got) -> Answer("500")
        [] ~Failed(got) /\ n > Len(blocks) -> Answer("200")
        [] ~Failed(got) /\ n <= Len(blocks) ->
             IF IsSettable(blocks[n], request.payloads[n])
               THEN [CallOf("setModuleParameter", request.id) EXCEPT
                       !.param   = blocks[n].param,
                       !.payload = request.payloads[n]]
               ELSE Answer("500")

GetModuleControl(request, got) ==
  LET blocks == Children(request)
      n      == Len(got)
      wrong  == n > 0 /\ ~Failed(got) /\ ~Encodes(blocks[n], Last(got).value)
  IN  CASE Failed(got) \/ wrong -> Answer("500")
        [] ~Failed(got) /\ ~wrong /\ n = Len(blocks) -> Answer("200")
        [] ~Failed(got) /\ ~wrong /\ n < Len(blocks) ->
             [CallOf("getModuleParameter", request.id) EXCEPT
                !.param = blocks[n + 1].param]

GetModuleInfo(request, got) ==
  CASE Failed(got) -> Answer("500")
    [] got = << >> -> CallOf("getModuleInstanceProps", request.id)
    [] got # << >> /\ ~Failed(got) -> Answer("200")

Module(handler, request, got) ==
  CASE ~IsKnownModule(handler, request) -> Answer("404")
    [] IsKnownModule(handler, request) /\ request.name = "putModule" ->
         SetModuleControl(request, got)
    [] IsKnownModule(handler, request) /\ request.name = "getModule" ->
         IF request.kind = "Info" THEN GetModuleInfo(request, got)
                                  ELSE GetModuleControl(request, got)

-----------------------------------------------------------------------------
(* System::getTopology(): what is asked depends on what was found.  What   *)
(* is made of it is InstanceModel.                                         *)
Before(a, b) == a[1] < b[1] \/ (a[1] = b[1] /\ a[2] < b[2])
InOrder(ids) ==
  [n \in 1 .. Cardinality(ids) |->
     CHOOSE id \in ids : Cardinality({a \in ids : Before(a, id)}) = n - 1]
IdsOf(compounds) == {IdOf(c) : c \in ToSet(compounds)}

RefreshTopology(handler, got) ==
  LET pipes   == got[2].value
      cores   == HwCount(handler, "dspCoreCount")
      n       == Len(got)
      lists   == 2 + Len(pipes) + cores
      ofPipes == UNION {IdsOf(got[i].value.module_instances) :
                          i \in 3 .. 2 + Len(pipes)}
      ofTasks == UNION {UNION {UNION {IdsOf(t.module_instance_id) :
                                        t \in ToSet(s.task_info)} :
                                 s \in ToSet(got[i].value.scheduler_info)} :
                          i \in 3 + Len(pipes) .. lists}
      instances == InOrder(ofPipes \cup ofTasks)
  IN  IF Failed(got)                    THEN Answer("500")
      ELSE IF n = 0                     THEN Call("getGatewaysInfo")
      ELSE IF n = 1                     THEN Call("getPipelineIdList")
      ELSE IF n < 2 + Len(pipes)
        THEN CallOn("getPipelineProps", AsNumber(pipes[n - 1]))
      ELSE IF n < lists
        THEN CallOn("getSchedulersInfo", n - 2 - Len(pipes))
      ELSE IF n < lists + Len(instances)
        THEN CallOf("getModuleInstanceProps", instances[n - lists + 1])
      ELSE Answer("200")

-----------------------------------------------------------------------------
NextCall(platform, handler, request, got) ==
  CASE request.name = "construct" -> Construct(handler, got)
    [] request.name = "destroy"   -> Destroy(platform, got)
    [] request.name = "putPerf"   -> SetPerf(platform, request.state, got)
    [] request.name = "getPerf"   -> GetPerf(platform, got)
    [] request.name = "getSubsystem" -> GetSubsystem(handler, request, got)
    [] request.name \in {"putModule", "getModule"} ->
         Module(handler, request, got)
    [] request.name = "refresh"   -> RefreshTopology(handler, got)
=============================================================================
