---------------------------- MODULE ModuleAccess ----------------------------
(***************************************************************************)
(* The way from a request to the firmware and back, on both systems.  The  *)
(* HTTP threads each serve a request (Requests); every call of the         *)
(* ModuleHandler goes to the driver:                                       *)
(*   - on Linux, through one file handler for all the debugfs entries,     *)
(*     under a mutex per command; a vote keeps the core awake around each  *)
(*     access (AutoPreventFromSleeping), so that an access is three        *)
(*     commands: wake, the message, sleep;                                 *)
(*   - on Windows, through one ioctl.                                      *)
(*                                                                         *)
(* The driver and the firmware are external.  They may fail, or answer     *)
(* something else than they should, MaxFaults times.                       *)
(***************************************************************************)
EXTENDS Requests, FiniteSets

CONSTANTS
  Platforms,     (* "linux", "windows": where the agent runs               *)
  Main,          (* the thread that starts and stops the agent             *)
  Clients,       (* the HTTP threads                                       *)
  ClientRequests,
  Firmwares,     (* what the firmware may be: its configuration, lists,    *)
                 (* properties and parameters, and if it is consistent     *)
  StreamBuffer,  (* a write of fewer bytes stays in the buffer of the file *)
                 (* until it is flushed                                    *)
  MaxFaults, MaxRequests  (* bounds *)

ASSUME LayoutAssumption == HeadersMatch /\ DriverHeadersMatch

VARIABLES
  platform,
  phase,      (* "starting", "running", "stopping", "stopped" or "dead"    *)
  handler,    (* what the ModuleHandler has learnt                         *)
  fw,         (* the firmware                                              *)
  stream,     (* mFileEntry: open, or sticky: with error bits left         *)
  owner,      (* the thread that holds mClientMutex, or NoThread           *)
  votes,      (* the reference count of the core in the driver             *)
  perfVotes,  (* history: the part of it that is the perf service's        *)
  lost,       (* history: a command was lost and nobody told               *)
  threads,    (* the request of each thread and how far it is              *)
  faults, requests

vars == << platform, phase, handler, fw, stream, owner, votes, perfVotes,
           lost, threads, faults, requests >>
NoThread == "nobody"
Threads  == Clients \cup {Main}

ASSUME ThreadAssumption ==
  /\ Platforms \subseteq {"linux", "windows"}
  /\ IsFiniteSet(Clients) /\ Main \notin Clients /\ NoThread \notin Threads

(* The parameter framework makes a value of each block out of the XML of a *)
(* PUT, or refuses it.                                                     *)
IsSequence(s) == s \in Seq(ToSet(s))
IsComplete(request) ==
  /\ IsSequence(request.payloads)
  /\ Len(request.payloads) =
       IF request.id[1] \in DOMAIN ControlParameters
         THEN Len(ControlParameters[request.id[1]]) ELSE 0
Puts == {r \in ClientRequests : r.name = "putModule"}

ASSUME RequestAssumption == \A r \in Puts : IsComplete(r)

Nothing  == Returns(<< >>)
Idle     == [stage |-> "idle", request |-> Request("none"), got |-> << >>,
             call |-> Call("none"), access |-> BaseFwGet(0, 0),
             reply |-> Nothing, truth |-> << >>, applied |-> << >>]

-----------------------------------------------------------------------------
(* The firmware. *)
Known(dictionary, values) ==
  FlattenSeq([i \in DOMAIN values |->
     LET e == EntryNamed(dictionary, values[i][1])
     IN  TlvItem(e.tag, Write(e.type, values[i][2]))])
ListContent(T, field, list) ==
  Write(T, [name \in {field} |-> list])
IsFirmwareGet(access, parameter) ==
  access.module = 0 /\ access.param = parameter

Content(access) ==
  CASE IsFirmwareGet(access, FW_CONFIG) -> Known(FwConfig, fw.fwConfig)
    [] IsFirmwareGet(access, HW_CONFIG_GET) -> Known(HwConfig, fw.hwConfig)
    [] IsFirmwareGet(access, MEMORY_STATE_INFO_GET) ->
         Known(GlobalMemoryState, fw.memory)
    [] IsFirmwareGet(access, MODULES_INFO_GET) ->
         ListContent(ModulesInfo, "module_info", fw.entries)
    [] IsFirmwareGet(access, PIPELINE_LIST_INFO_GET) ->
         ListContent(PipelinesListInfo, "ppl_id", fw.pipelines)
    [] IsFirmwareGet(access, GATEWAYS_INFO_GET) ->
         ListContent(GatewaysInfo, "gateways", fw.gateways)
    [] IsFirmwareGet(access, GLOBAL_PERF_DATA) ->
         ListContent(GlobalPerfData, "items", fw.items)
    [] IsFirmwareGet(access, PERF_MEASUREMENTS_STATE) -> Bytes(4, fw.perf)
    [] access.module = 0 /\ access.param % 256 = PIPELINE_PROPS_GET ->
         Write(PplProps, fw.pplProps[access.param \div 256])
    [] access.module = 0 /\ access.param % 256 = SCHEDULERS_INFO_GET ->
         Write(SchedulersInfo, fw.schedulers[access.param \div 256])
    [] access.module # 0 /\ access.param = MOD_INST_PROPS ->
         Write(ModuleInstanceProps,
               fw.props[<< access.module, access.instance >>])
    [] access.module # 0 /\ access.param # MOD_INST_PROPS ->
         fw.params[<< access.module, access.instance, access.param >>]

(* What the firmware is told. *)
Applied(access) ==
  IF access.module = 0
    THEN [fw EXCEPT !.perf = AsNumber(access.payload)]
    ELSE [fw EXCEPT !.params[<< access.module, access.instance,
                                access.param >>] = access.payload]

(* What a call should return. *)
Truth(call) ==
  CASE call.name = "getPipelineIdList" -> fw.pipelines
    [] call.name = "getGatewaysInfo"   -> fw.gateways
    [] call.name = "getPerfItems"      -> fw.items
    [] call.name = "cacheModuleEntries" -> fw.entries
    [] call.name = "getPipelineProps"  -> fw.pplProps[call.param]
    [] call.name = "getSchedulersInfo" -> fw.schedulers[call.param]
    [] call.name \in {"getPerfState", "ioctlGetPerf"} -> Bytes(4, fw.perf)
    [] call.name = "getGlobalMemoryState" ->
         [v \in Variables(GlobalMemoryState) |->
            [valid |-> TRUE,
             value |-> (CHOOSE m \in ToSet(fw.memory) : m[1] = v)[2]]]
    [] call.name = "getModuleInstanceProps" ->
         fw.props[<< call.module, call.instance >>]
    [] call.name = "getModuleParameter" ->
         fw.params[<< call.module, call.instance, call.param >>]
TlvCalls == {"readFwConfig", "readHwConfig", "getGlobalMemoryState"}
HasTruth(call) ==
  call.name \notin {"readFwConfig", "readHwConfig", "vote", "setPerfState",
                    "ioctlSetPerf", "setModuleParameter"}

(* A thread that has its reply, with what it should have been told.        *)
Replied(thread, reply) ==
  [thread EXCEPT !.reply = reply,
                 !.truth = IF HasTruth(thread.call) THEN Truth(thread.call)
                                                    ELSE << >>]

(* The answers it may give instead of its content: one byte less, none, or *)
(* one byte more; in a TLV list, one item less, or one value cut short.    *)
(* An item of a tag the agent does not know is no fault.                   *)
Faulty(call, content) ==
  {Front(content), << >>, Append(content, 0)} \cup
  (IF call.name \in TlvCalls
     THEN LET n == content[5]
          IN  {SubSeq(content, 9 + n, Len(content)),
               SubSeq(content, 1, 4) \o Bytes(4, n - 1)
                 \o SubSeq(content, 9, 7 + n)
                 \o SubSeq(content, 9 + n, Len(content))}
     ELSE {})
Exact(call, content) ==
  {content} \cup
  (IF call.name \in TlvCalls THEN {TlvItem(99, << 7 >>) \o content} ELSE {})

MayFail == faults < MaxFaults
ContentsAround(call, content) ==
  (Exact(call, content) \X {0}) \cup
  (IF MayFail THEN Faulty(call, content) \X {1} ELSE {})
Contents(call, access) == ContentsAround(call, Content(access))

-----------------------------------------------------------------------------
(* Between two calls: what the last one returned, or threw, is made of its *)
(* reply, and what the request does next depends on it.                    *)
IsDriverCall(call) ==
  call.name \notin {"answer", "vote", "ioctlGetPerf", "ioctlSetPerf"}
StageOf(call) ==
  CASE IsAnswer(call) -> "answered"
    [] ~IsAnswer(call) /\ platform = "windows" -> "ioctl"
    [] ~IsAnswer(call) /\ platform = "linux" ->
         IF call.name = "vote" THEN "vote" ELSE "wake"

Begun(thread, learnt, call) ==
  [thread EXCEPT !.call = call, !.stage = StageOf(call),
                 !.access = IF IsDriverCall(call) THEN AccessOf(learnt, call)
                                                  ELSE Idle.access]
Continue(t, learnt, got) ==
  /\ handler' = learnt
  /\ threads' = [threads EXCEPT ![t] =
       Begun([@ EXCEPT !.got = got], learnt,
             NextCall(platform, learnt, @.request, got))]

(* A result has, for the properties, whose it is and if it is true.        *)
Judged(thread, result) ==
  [thrown |-> result.thrown, value |-> result.value, of |-> thread.call.name,
   true |-> HasTruth(thread.call) /\ Succeeds(result)
              => result.value = thread.truth]
ContinueWith(t, thread, result) ==
  Continue(t, IF Succeeds(result)
                THEN Learnt(handler, thread.call, result.value) ELSE handler,
           Append(thread.got, Judged(thread, result)))

GoesOn(t) ==
  /\ threads[t].stage = "between"
  /\ IF threads[t].call.name = "none"
       THEN Continue(t, handler, << >>)
       ELSE ContinueWith(t, threads[t],
              ResultOf(handler, threads[t].call, threads[t].reply))
  /\ UNCHANGED << platform, phase, fw, stream, owner, votes, perfVotes, lost,
                  faults, requests >>

Starting(request) == [Idle EXCEPT !.stage = "between", !.request = request]
Starts(t, request) == threads' = [threads EXCEPT ![t] = Starting(request)]

Takes(t, request) ==
  /\ phase = "running" /\ threads[t].stage = "idle"
  /\ requests < MaxRequests /\ requests' = requests + 1
  /\ Starts(t, request)
  /\ UNCHANGED << platform, phase, handler, fw, stream, owner, votes,
                  perfVotes, lost, faults >>

Fatal == {"crash", "terminate"}
Collects(t) ==
  /\ phase # "dead" /\ t # Main /\ threads[t].stage = "answered"
  /\ Status(threads[t].call) \notin Fatal
  /\ threads' = [threads EXCEPT ![t] = Idle]
  /\ UNCHANGED << platform, phase, handler, fw, stream, owner, votes,
                  perfVotes, lost, faults, requests >>

(* The agent starts only with a complete handler, and stops once nothing   *)
(* is being served.                                                        *)
Begins ==
  /\ phase = "starting" /\ threads[Main].stage = "answered"
  /\ phase' = IF Status(threads[Main].call) = "200" THEN "running"
                                                    ELSE "stopped"
  /\ threads' = [threads EXCEPT ![Main] = Idle]
  /\ UNCHANGED << platform, handler, fw, stream, owner, votes, perfVotes,
                  lost, faults, requests >>

Stops ==
  /\ phase = "running" /\ \A t \in Threads : threads[t].stage = "idle"
  /\ phase' = "stopping" /\ Starts(Main, Request("destroy"))
  /\ UNCHANGED << platform, handler, fw, stream, owner, votes, perfVotes,
                  lost, faults, requests >>

Ends ==
  /\ phase = "stopping" /\ threads[Main].stage = "answered"
  /\ Status(threads[Main].call) \notin Fatal
  /\ phase' = "stopped" /\ threads' = [threads EXCEPT ![Main] = Idle]
  /\ UNCHANGED << platform, handler, fw, stream, owner, votes, perfVotes,
                  lost, faults, requests >>

(* A null pointer, or what leaves a destructor, ends the process. *)
Dies(t) ==
  /\ phase # "dead" /\ threads[t].stage = "answered"
  /\ Status(threads[t].call) \in Fatal
  /\ phase' = "dead"
  /\ UNCHANGED << platform, handler, fw, stream, owner, votes, perfVotes,
                  lost, threads, faults, requests >>

-----------------------------------------------------------------------------
(* Linux: SystemDevice over DebugFsEntryHandler.  Error bits that stay in  *)
(* the stream make exceptions(), at the next open(), throw something that  *)
(* is no Exception of the file handler, and nothing ever clears them.      *)
Fails(class, isSticky, cost) ==
  [thrown |-> class, delivered |-> FALSE, sticky |-> isSticky, cost |-> cost]

(* open(): the file handler is busy if another command is going on. *)
OpenErrors ==
  CASE stream.sticky -> {Fails("ios", TRUE, 0)}
    [] ~stream.sticky /\ stream.open -> {Fails("Device", FALSE, 0)}
    [] ~stream.sticky /\ ~stream.open /\ MayFail -> {Fails("Device", TRUE, 1)}
    [] ~stream.sticky /\ ~stream.open /\ ~MayFail -> {}

(* commandWrite(): a short message is only written when the file is        *)
(* closed, and an error is forgotten there.                                *)
CommandWrite(size) ==
  OpenErrors \cup
  (IF stream.sticky \/ stream.open THEN {}
   ELSE {[Fails("nothing", FALSE, 0) EXCEPT !.delivered = TRUE]} \cup
        (IF MayFail /\ size < StreamBuffer THEN {Fails("nothing", FALSE, 1)}
                                           ELSE {}))

AfterWrite(outcome) ==
  /\ stream' = [stream EXCEPT !.sticky = outcome.sticky]
  /\ lost'   = (lost \/ (Succeeds(outcome) /\ ~outcome.delivered))
  /\ faults' = faults + outcome.cost

(* Every command is under the mutex of the client of the file. *)
\* Mutant: the commands of two threads overlap.
NoMutex == owner \in Threads \cup {NoThread}
MutexIsFree == owner = NoThread

(* A command of the power of the cores: "wake 0" or "sleep 0". *)
VoteSize == 6
AsVote(delta, outcome) == IF outcome.delivered THEN delta ELSE 0

Wakes(t) ==
  /\ threads[t].stage = "wake" /\ MutexIsFree
  /\ \E o \in CommandWrite(VoteSize) :
       /\ AfterWrite(o) /\ votes' = votes + AsVote(1, o)
       /\ threads' = [threads EXCEPT ![t] =
            IF Succeeds(o)
              THEN [@ EXCEPT !.stage = "command"]
              ELSE [@ EXCEPT !.stage = "between",
                             !.reply = Throws(IF o.thrown = "Device"
                                                THEN "ModuleHandler"
                                                ELSE "ios")]]
  /\ UNCHANGED << platform, phase, handler, fw, owner, perfVotes, requests >>

(* The destructor of the vote throws if the command fails. *)
Sleeps(t) ==
  /\ threads[t].stage = "sleep" /\ MutexIsFree
  /\ \E o \in CommandWrite(VoteSize) :
       /\ AfterWrite(o) /\ votes' = votes + AsVote(-1, o)
       /\ IF Succeeds(o)
            THEN /\ threads' = [threads EXCEPT ![t].stage = "between"]
                 /\ UNCHANGED phase
            ELSE /\ phase' = "dead" /\ UNCHANGED threads
  /\ UNCHANGED << platform, handler, fw, owner, perfVotes, requests >>

(* The perf service's own vote. *)
Votes(t) ==
  LET delta == IF threads[t].call.param = 1 THEN -1 ELSE 1
  IN  /\ threads[t].stage = "vote" /\ MutexIsFree
      /\ \E o \in CommandWrite(VoteSize) :
           /\ AfterWrite(o)
           /\ votes' = votes + AsVote(delta, o)
           /\ perfVotes' = perfVotes + AsVote(delta, o)
           /\ threads' = [threads EXCEPT
                ![t].stage = "between",
                ![t].reply = CASE Succeeds(o) -> Nothing
                               [] o.thrown = "Device" -> Throws("Perf")
                               [] o.thrown = "ios" -> Throws("ios")]
      /\ UNCHANGED << platform, phase, handler, fw, owner, requests >>

(* configSet() and configGet(), between the two votes. *)
\* Mutant: a command that fails leaves without withdrawing its vote.
ReturnedAwake(thread, outcome) ==
  [thread EXCEPT !.stage = IF Succeeds(outcome) THEN "sleep" ELSE "between",
                 !.reply = IF Succeeds(outcome) THEN Nothing
                                                ELSE Throws("ModuleHandler")]
Returned(thread, outcome) ==
  [thread EXCEPT !.stage = "sleep",
                 !.reply = CASE Succeeds(outcome) -> Nothing
                             [] outcome.thrown = "Device" ->
                                  Throws("ModuleHandler")
                             [] outcome.thrown = "ios" -> Throws("ios")]

Sets(t) ==
  LET thread  == threads[t]
      message == LinuxMessage(thread.access)
      done    == [thread EXCEPT !.applied = Append(@, thread.call)]
  IN  /\ thread.stage = "command" /\ ~thread.access.get /\ MutexIsFree
      /\ \E o \in CommandWrite(Len(message)) :
           /\ AfterWrite(o)
           /\ fw' = IF o.delivered THEN Applied(LinuxAccess(message)) ELSE fw
           /\ threads' = [threads EXCEPT ![t] =
                Returned(IF o.delivered THEN done ELSE thread, o)]
      /\ UNCHANGED << platform, phase, handler, owner, votes, perfVotes,
                      requests >>

(* commandRead(): the message is in the buffer of the stream until the     *)
(* read, and the mutex is held in between.                                 *)
Writes(t) ==
  /\ threads[t].stage = "command" /\ threads[t].access.get
  /\ MutexIsFree
  /\ \/ \E o \in OpenErrors :
          /\ AfterWrite(o) /\ UNCHANGED owner
          /\ threads' = [threads EXCEPT ![t] = Returned(@, o)]
     \/ /\ ~stream.sticky /\ ~stream.open
        /\ stream' = [stream EXCEPT !.open = TRUE] /\ owner' = t
        /\ threads' = [threads EXCEPT ![t].stage = "reading"]
        /\ UNCHANGED << lost, faults >>
  /\ UNCHANGED << platform, phase, handler, fw, votes, perfVotes, requests >>

(* A flush that fails may yet succeed at the close, which then leaves the  *)
(* error bits; so does a read that finds nothing.                          *)
ReadErrors == IF MayFail THEN {Fails("Device", FALSE, 1),
                               Fails("Device", TRUE, 1)} ELSE {}

ReadsReply(t, asked) ==
  \E c \in Contents(threads[t].call, asked) :
    /\ stream' = [stream EXCEPT !.open = FALSE]
    /\ faults' = faults + c[2]
    /\ threads' = [threads EXCEPT ![t] =
         [Replied(@, Returns(LinuxPayload(@.access, LinuxReply(asked, c[1]))))
            EXCEPT !.stage = "sleep"]]

Reads(t) ==
  /\ threads[t].stage = "reading"
  /\ \/ \E o \in ReadErrors :
          /\ stream' = [open |-> FALSE, sticky |-> o.sticky]
          /\ faults' = faults + o.cost
          /\ threads' = [threads EXCEPT ![t] = Returned(@, o)]
     \/ ReadsReply(t, LinuxAccess(LinuxMessage(threads[t].access)))
  /\ owner' = NoThread
  /\ UNCHANGED << platform, phase, handler, fw, votes, perfVotes, lost,
                  requests >>

-----------------------------------------------------------------------------
(* Windows.  What the driver may leave in the buffer of a module's         *)
(* parameter instead of its reply: nothing good, and no parameter is set.  *)
BadStatus == << 1, 0, 0, 192 >>
BadReplies(access) ==
  { WindowsReply(access, BadStatus, Success, << >>),
    WindowsReply(access, Success, BadStatus, << >>),
    SubSeq(WindowsReply(access, Success, Success, << >>), 1, 11) }

(* The errors of a set are told from its success, whatever is set.         *)
SetAccesses ==
  UNION { {ConfigSet(r.id[1], r.id[2], Children(r)[i].param, r.payloads[i]) :
             i \in 1 .. Len(Children(r))} : r \in Puts }
ASSUME IoctlAssumption ==
  \A access \in SetAccesses :
    \A body \in BadReplies(WindowsAccess(FALSE,
                               WindowsMessage(access)[2])) :
      ~Succeeds(WindowsPayload(body))

Hears(t, reply) ==
  threads' = [threads EXCEPT ![t] =
                [Replied(@, reply) EXCEPT !.stage = "between"]]

ModuleIoctl(t, asked) ==
  \/ /\ asked.get
     /\ \E c \in Contents(threads[t].call, asked) :
          /\ faults' = faults + c[2]
          /\ Hears(t, WindowsPayload(
               WindowsReply(asked, Success, Success, c[1])))
     /\ UNCHANGED fw
  \/ /\ ~asked.get
     /\ fw' = Applied(asked)
     /\ threads' = [threads EXCEPT
          ![t].stage = "between",
          ![t].reply = WindowsPayload(
                         WindowsReply(asked, Success, Success, << >>)),
          ![t].applied = Append(@, threads[t].call)]
     /\ UNCHANGED faults
  \/ /\ MayFail /\ faults' = faults + 1
     /\ \E reply \in {Throws("ModuleHandler")} \cup
                     {WindowsPayload(body) : body \in BadReplies(asked)} :
          Hears(t, reply)
     /\ UNCHANGED fw

(* The perf service: one buffer for the question and the answer. *)
FEATURE_PERFORMANCE_MEASUREMENT == 5
PerfBuffer(status, value) ==
  ToHeaderBuffer(FEATURE_PERFORMANCE_MEASUREMENT, 0, 8) \o status \o value
BadPerfBuffers(value) ==
  { PerfBuffer(BadStatus, value), PerfBuffer(Success, << 0 >>),
    PerfBuffer(Success, << >>), PerfBuffer(Success, Append(value, 0)),
    PerfBuffer(<< >>, << >>), << 0 >> }

PerfIoctl(t, state) ==
  \/ /\ fw' = [fw EXCEPT !.perf = state]
     /\ threads' = [threads EXCEPT
          ![t] = [@ EXCEPT
            !.stage = "between", !.truth = Bytes(4, state),
            !.reply = IoctlPayload(U32,
                                   PerfBuffer(Success, Bytes(4, state)))]]
     /\ UNCHANGED faults
  \/ /\ MayFail /\ faults' = faults + 1
     /\ \E reply \in {Throws("Perf")} \cup
                     {IoctlPayload(U32, buffer) :
                        buffer \in BadPerfBuffers(Bytes(4, state))} :
          Hears(t, reply)
     /\ UNCHANGED fw

Ioctls(t) ==
  /\ threads[t].stage = "ioctl"
  /\ CASE threads[t].call.name = "ioctlGetPerf" -> PerfIoctl(t, fw.perf)
       [] threads[t].call.name = "ioctlSetPerf" ->
            PerfIoctl(t, threads[t].call.param)
       [] OTHER ->
            ModuleIoctl(t, WindowsAccess(threads[t].access.get,
                             WindowsMessage(threads[t].access)[2]))
  /\ UNCHANGED << platform, phase, handler, stream, owner, votes, perfVotes,
                  lost, requests >>

-----------------------------------------------------------------------------
Init ==
  /\ platform \in Platforms /\ fw \in Firmwares
  /\ phase = "starting" /\ handler = Nobody
  /\ stream = [open |-> FALSE, sticky |-> FALSE] /\ owner = NoThread
  /\ votes = 0 /\ perfVotes = 0 /\ lost = FALSE
  /\ threads = [t \in Threads |->
       IF t = Main THEN Starting(Request("construct")) ELSE Idle]
  /\ faults = 0 /\ requests = 0

(* A dead process takes no step. *)
ThreadStep(t) ==
  /\ phase # "dead"
  /\ \/ GoesOn(t) \/ Wakes(t) \/ Sleeps(t) \/ Votes(t)
     \/ Sets(t) \/ Writes(t) \/ Reads(t) \/ Ioctls(t)
Next ==
  \/ \E t \in Threads : ThreadStep(t) \/ Collects(t) \/ Dies(t)
  \/ \E t \in Clients, r \in ClientRequests : Takes(t, r)
  \/ Begins \/ Stops \/ Ends

Spec == Init /\ [][Next]_vars

-----------------------------------------------------------------------------
(* Properties.                                                             *)
Answered(t) == threads[t].stage = "answered"
Gave200(t)  == Answered(t) /\ Status(threads[t].call) = "200"

IsLegitimate(request) ==
  CASE request.name \in {"putModule", "getModule"} ->
         /\ IsKnownModule(handler, request)
         /\ \A i \in DOMAIN request.payloads :
              IsSettable(Children(request)[i], request.payloads[i])
    [] request.name = "getSubsystem" ->
         request.kind = "Control" \/ request.id[2] = 0
    [] OTHER -> TRUE

(* The budget of an instance is computed from the format of its first      *)
(* input pin, also of one that has none.                                   *)
HasInputPins(item) ==
  fw.props[IdOf(item.resourceId)].input_pins.pin_info # << >>
TakesAMissingPin(request) ==
  /\ request.name = "getSubsystem" /\ request.kind = "Info"
  /\ \E i \in DOMAIN fw.items :
       NeedsProps(fw.items[i]) /\ ~HasInputPins(fw.items[i])

(* Unless the driver or the firmware has failed once, and whatever the     *)
(* other threads do meanwhile: a request that the firmware can serve is    *)
(* never answered with an error, and ends the process only if it is the    *)
(* one that computes a budget for an instance without input pins.          *)
NoSpuriousErrors ==
  faults = 0 /\ fw.consistent =>
    /\ phase = "dead" =>
         \E t \in Threads : Answered(t) /\ TakesAMissingPin(threads[t].request)
    /\ \A t \in Threads :
         Answered(t) /\ IsLegitimate(threads[t].request) =>
           IF TakesAMissingPin(threads[t].request)
             THEN Status(threads[t].call) = "crash"
             ELSE Gave200(t)

(* What a successful request has read is what the firmware had, even when  *)
(* it has answered one of the calls wrongly.  Out of reach: on Linux, the  *)
(* properties of an instance come without their size, and a short answer   *)
(* is completed with zeros; the flags of the memory state are not read.    *)
OutOfReach(name) ==
  faults > 0 /\ \/ name = "getGlobalMemoryState"
                \/ platform = "linux" /\ name = "getModuleInstanceProps"
AnswersAreTrue ==
  \A t \in Threads : Gave200(t) =>
    \A i \in DOMAIN threads[t].got :
      threads[t].got[i].true \/ OutOfReach(threads[t].got[i].of)

(* A handler that is in use has the firmware's own six configuration items *)
(* (ModuleHandler.hpp: "guaranteed to be valid") and its module entries.   *)
(* TLC refutes it: README, section 6.                                      *)
Configured(values, learnt, names) ==
  \A name \in names : \E i \in DOMAIN values :
    values[i] = << name, learnt[name].value >>
ConfigIsTrustworthy ==
  phase \in {"running", "stopping"} =>
    /\ Configured(fw.fwConfig, handler.fwConfig,
                  {"fwVersion", "modulesCount", "maxPplCount",
                   "maxModInstCount"})
    /\ Configured(fw.hwConfig, handler.hwConfig,
                  {"gatewayCount", "dspCoreCount"})
    /\ handler.entries = fw.entries

(* A PUT that is answered with a success has given the firmware each of    *)
(* its blocks, in order and once.  Only a command lost in the buffer of    *)
(* the debugfs stream goes unnoticed.                                      *)
SuccessMeansApplied ==
  \A t \in Clients :
    (Gave200(t) /\ threads[t].request.name = "putModule" /\ ~lost) =>
      [i \in DOMAIN threads[t].applied |-> threads[t].applied[i].payload]
        = threads[t].request.payloads

(* Between accesses the core is held awake by the perf service only: an    *)
(* access that fails, wherever it does, takes its vote back.               *)
AccessesReturnTheirVote ==
  (phase # "dead" /\ ~lost /\ \A t \in Threads :
     threads[t].stage \in {"idle", "between", "answered", "wake", "vote"})
    => votes = perfVotes

(* The documentation of the device (Linux/Device.hpp): a write error is a  *)
(* Device::Exception, which is caught where it may come from.              *)
(* TLC refutes it: README, section 6.                                      *)
WriteErrorsAreDeviceExceptions ==
  \A t \in Threads : threads[t].reply.thrown # "ios"
=============================================================================
