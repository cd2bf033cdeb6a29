--------------------------- MODULE HttpThreads_proofs ---------------------------
(***************************************************************************)
(* The HTTP threads, for any number of them and whatever they are asked:   *)
(*   - ModuleAccess: the mutex of the debugfs file, and the votes and the  *)
(*     blocks of parameters that go through it, whatever the codec is;     *)
(*   - Agent: the mutexes of the streams, and the pool the threads are of; *)
(*   - Topology and InstanceModel: the links that a refresh finds between  *)
(*     the modules of a firmware, and what a refresh that fails leaves,    *)
(*     whatever the firmware is configured to run.                         *)
(***************************************************************************)
EXTENDS ModuleAccess, Agent, InstanceModel, SequenceTheorems, FiniteSetTheorems,
        WellFoundedInduction, TLAPS

Stages == {"idle", "between", "answered", "wake", "vote", "command",
           "reading", "sleep", "ioctl"}

(* A thread has the fields of Idle, and its results and what it has        *)
(* applied are sequences.                                                  *)
IsThread(thread) ==
  /\ DOMAIN thread = DOMAIN Idle /\ thread.stage \in Stages
  /\ IsSequence(thread.got) /\ IsSequence(thread.applied)

(* The values the variables take; those of the handler, of the firmware    *)
(* and of what a thread was told depend on the codec.                      *)
AccessTypeOK ==
  /\ platform \in Platforms
  /\ phase \in {"starting", "running", "stopping", "stopped", "dead"}
  /\ stream \in [open : BOOLEAN, sticky : BOOLEAN]
  /\ owner \in Threads \cup {NoThread}
  /\ votes \in Int /\ perfVotes \in Int /\ lost \in BOOLEAN
  /\ faults \in Nat /\ requests \in Nat
  /\ DOMAIN threads = Threads /\ \A t \in Threads : IsThread(threads[t])

(* The mutex of the file is held by the thread that has written its        *)
(* message and not read its reply, and then only is the file open.         *)
MutexIsHeld ==
  /\ \A t \in Threads : threads[t].stage = "reading" <=> owner = t
  /\ stream.open <=> owner # NoThread

(* A command that has the mutex finds the file closed, and no other thread *)
(* waits for a reply.                                                      *)
CommandsAreExclusive ==
  /\ MutexIsFree => ~stream.open
  /\ \A t, u \in Threads :
       threads[t].stage = "reading" /\ threads[u].stage = "reading" => t = u

(* Between its wake and its sleep, a thread has a vote in the driver.      *)
IsAwake(t) == threads[t].stage \in {"command", "reading", "sleep"}
Awake      == {t \in Threads : IsAwake(t)}

(* The driver counts the perf service's votes and one for each of those.   *)
VotesAreCounted ==
  phase # "dead" /\ ~lost => votes = perfVotes + Cardinality(Awake)

(* What a PUT has given the firmware, block by block: as many blocks as it *)
(* has results, or one more when the access has succeeded and its result   *)
(* is yet to be looked at.                                                 *)
IsPut(thread)  == thread.stage # "idle" /\ thread.request.name = "putModule"
Blocks(thread) == Len(thread.request.payloads)
IsInOrder(thread) ==
  /\ Len(thread.applied) <= Blocks(thread)
  /\ \A i \in DOMAIN thread.applied :
       thread.applied[i].payload = thread.request.payloads[i]
IsSetting(thread) ==
  /\ thread.call.name = "setModuleParameter"
  /\ thread.access \in SetAccesses /\ ~thread.access.get
  /\ Len(thread.got) < Blocks(thread)
  /\ thread.call.payload = thread.request.payloads[Len(thread.got) + 1]
Counted(thread) ==
  CASE thread.stage \in {"wake", "command", "ioctl"} ->
         Len(thread.applied) = Len(thread.got)
    [] thread.stage \in {"sleep", "between"} /\ IsSetting(thread) ->
         /\ Len(thread.applied) \in {Len(thread.got), Len(thread.got) + 1}
         /\ Succeeds(thread.reply)
              => Len(thread.applied) = Len(thread.got) + 1
    [] thread.stage = "between" /\ ~IsSetting(thread) ->
         Len(thread.applied) = 0 /\ Len(thread.got) = 0
    [] OTHER -> TRUE
(* From its start to its answer a PUT does nothing but to set its blocks.  *)
PutGoesOn(thread) ==
  IsPut(thread) =>
    /\ thread.request \in Puts
    /\ thread.stage \in {"wake", "command", "sleep", "ioctl"}
         => IsSetting(thread)
    /\ thread.stage = "between"
         => IsSetting(thread) \/ thread.call = Call("none")
    /\ thread.stage \notin {"vote", "reading"}
PutIsInOrder(thread) ==
  IsPut(thread) =>
    /\ IsInOrder(thread) /\ Counted(thread)
    /\ thread.stage = "answered" /\ Status(thread.call) = "200"
         => Len(thread.applied) = Blocks(thread)
PutsGoOn       == \A t \in Threads : PutGoesOn(threads[t])
PutsAreInOrder == ~lost => \A t \in Threads : PutIsInOrder(threads[t])

(* While the driver has not failed, no command of debugfs does: no error   *)
(* comes from what the other threads do.  A call with nothing to decode    *)
(* then succeeds too.                                                      *)
Undecoded == {"vote", "setPerfState", "setModuleParameter"}
IsUntroubled(thread) ==
  /\ thread.stage # "ioctl" /\ Succeeds(thread.reply)
  /\ \A i \in DOMAIN thread.got :
       thread.got[i].of \in Undecoded => Succeeds(thread.got[i])
NoErrorOfOurOwn ==
  platform = "linux" /\ faults = 0 =>
    /\ ~stream.sticky /\ ~lost
    /\ \A t \in Threads : IsUntroubled(threads[t])

-----------------------------------------------------------------------------
(* A function on 1 .. n is a sequence. *)
LEMMA MadeSequence ==
  ASSUME NEW S, NEW n \in Nat, NEW f, f = [i \in 1 .. n |-> f[i]],
         \A i \in 1 .. n : f[i] \in S
  PROVE  f \in Seq(S)
  <1>1. f \in [1 .. n -> S]
    OBVIOUS
  <1> QED
    BY <1>1, SeqDef

(* A sequence that grows. *)
LEMMA AppendedSequence ==
  ASSUME NEW s, IsSequence(s), NEW e
  PROVE  /\ Len(s) \in Nat /\ DOMAIN s = 1 .. Len(s)
         /\ IsSequence(Append(s, e)) /\ Len(Append(s, e)) = Len(s) + 1
         /\ \A i \in 1 .. Len(s) : Append(s, e)[i] = s[i]
         /\ Append(s, e)[Len(s) + 1] = e
  <1> DEFINE S == ToSet(s) \cup {e}
  <1>1. s \in Seq(S)
    BY DEF IsSequence
  <1>2. /\ Append(s, e) \in Seq(S) /\ Len(Append(s, e)) = Len(s) + 1
        /\ \A i \in 1 .. Len(s) : Append(s, e)[i] = s[i]
        /\ Append(s, e)[Len(s) + 1] = e
    BY <1>1
  <1>3. IsSequence(Append(s, e))
    <2> DEFINE a == Append(s, e)
    <2>1. DOMAIN a = 1 .. Len(a) /\ Len(a) \in Nat /\ a = [i \in 1 .. Len(a) |-> a[i]]
      <3>1. a \in Seq(S)
        BY <1>2
      <3> HIDE DEF a, S
      <3> QED
        BY <3>1, LenProperties
    <2>2. \A i \in 1 .. Len(a) : a[i] \in ToSet(a)
      BY <2>1 DEF ToSet
    <2> HIDE DEF a
    <2>3. a \in Seq(ToSet(a))
      BY <2>1, <2>2, MadeSequence
    <2> QED
      BY <2>3 DEF IsSequence, a
  <1> QED
    BY <1>1, <1>2, <1>3

(* The sequence that a thread starts with. *)
LEMMA EmptySequence == IsSequence(<< >>) /\ Len(<< >>) = 0
  BY DEF IsSequence

(* The fields of a thread. *)
LEMMA ThreadFields ==
  DOMAIN Idle = {"stage", "request", "got", "call", "access", "reply",
                 "truth", "applied"}
  BY DEF Idle

(* A thread that does nothing, and one that has just got a request. *)
LEMMA IdleIsThread ==
  ASSUME NEW request
  PROVE  /\ IsThread(Idle) /\ Idle.stage = "idle"
         /\ IsThread(Starting(request))
         /\ Starting(request).stage = "between"
         /\ Starting(request).request = request
         /\ Starting(request).call = Call("none")
         /\ Starting(request).reply = Nothing
         /\ Starting(request).got = << >>
         /\ Starting(request).applied = << >>
  BY EmptySequence DEF Idle, Starting, IsThread, Stages

(* A call is the next one to make, once a platform is known. *)
LEMMA StageOfACall ==
  ASSUME platform \in Platforms, NEW call
  PROVE  /\ StageOf(call) \in {"answered", "ioctl", "vote", "wake"}
         /\ StageOf(call) = "answered" <=> IsAnswer(call)
         /\ StageOf(call) = "vote" => call.name = "vote"
         /\ StageOf(call) = "ioctl" => platform = "windows"
  BY ThreadAssumption DEF StageOf

-----------------------------------------------------------------------------
(* What a step of a thread does to the threads.                            *)
OnlyMoves(t) ==
  /\ DOMAIN threads' = Threads
  /\ \A u \in Threads : u # t => threads'[u] = threads[u]
Keeps(t, fields) == \A f \in fields : threads'[t][f] = threads[t][f]

(* A step that gives a thread its new state. *)
LEMMA Moved ==
  ASSUME AccessTypeOK, NEW t \in Threads, NEW thread,
         threads' = [threads EXCEPT ![t] = thread]
  PROVE  OnlyMoves(t) /\ threads'[t] = thread
  BY DEF AccessTypeOK, OnlyMoves

(* Between two calls, a thread has one result more and its next call.      *)
AsksNext(t) ==
  \E learnt :
    LET now == threads'[t]
    IN  /\ now.call = NextCall(platform, learnt, now.request, now.got)
        /\ now.stage = StageOf(now.call)
        /\ IsDriverCall(now.call) => now.access = AccessOf(learnt, now.call)
HasOneResultMore(t) ==
  IF threads[t].call.name = "none"
    THEN threads'[t].got = << >>
    ELSE threads'[t].got =
           Append(threads[t].got,
                  Judged(threads[t], ResultOf(handler, threads[t].call,
                                              threads[t].reply)))

(* Continue(): a thread asks for its next call and keeps its last reply. *)
LEMMA ContinueEffect ==
  ASSUME AccessTypeOK, NEW t \in Threads, NEW learnt, NEW got, IsSequence(got),
         Continue(t, learnt, got)
  PROVE  /\ OnlyMoves(t) /\ IsThread(threads'[t])
         /\ Keeps(t, {"request", "reply", "applied"})
         /\ threads'[t].got = got
         /\ AsksNext(t)
  <1> DEFINE before == [threads[t] EXCEPT !.got = got]
             call   == NextCall(platform, learnt, threads[t].request, got)
             now    == Begun(before, learnt, call)
  <1>1. threads' = [threads EXCEPT ![t] = now]
    BY DEF Continue, AccessTypeOK
  <1>2. OnlyMoves(t) /\ threads'[t] = now
    BY <1>1, Moved
  <1>3. IsThread(threads[t])
    BY DEF AccessTypeOK
  <1>4. /\ DOMAIN before = DOMAIN Idle /\ before.got = got
        /\ \A f \in DOMAIN Idle \ {"got"} : before[f] = threads[t][f]
    BY <1>3, ThreadFields DEF IsThread
  <1> HIDE DEF before, call
  <1>5. /\ DOMAIN now = DOMAIN Idle
        /\ now.call = call /\ now.stage = StageOf(call)
        /\ now.access = IF IsDriverCall(call) THEN AccessOf(learnt, call)
                                              ELSE Idle.access
        /\ \A f \in DOMAIN Idle \ {"call", "stage", "access"} :
             now[f] = before[f]
    BY <1>4, ThreadFields DEF Begun
  <1> HIDE DEF now
  <1>6. /\ now.got = got /\ now.request = threads[t].request
        /\ now.reply = threads[t].reply /\ now.applied = threads[t].applied
    BY <1>4, <1>5, ThreadFields
  <1>7. IsThread(now)
    <2>1. StageOf(call) \in Stages
      BY StageOfACall DEF Stages, AccessTypeOK
    <2> QED
      BY <2>1, <1>3, <1>5, <1>6 DEF IsThread
  <1>8. AsksNext(t)
    BY <1>2, <1>5, <1>6 DEF AsksNext, call
  <1> QED
    BY <1>2, <1>6, <1>7, <1>8 DEF Keeps

(* GoesOn(): the reply becomes a result, and the thread asks for more. *)
LEMMA GoesOnEffect ==
  ASSUME AccessTypeOK, NEW t \in Threads, GoesOn(t)
  PROVE  /\ OnlyMoves(t) /\ IsThread(threads'[t])
         /\ Keeps(t, {"request", "reply", "applied"})
         /\ AsksNext(t) /\ HasOneResultMore(t)
  <1>1. CASE threads[t].call.name = "none"
    <2>1. Continue(t, handler, << >>)
      BY <1>1 DEF GoesOn
    <2> QED
      BY <1>1, <2>1, ContinueEffect, EmptySequence DEF HasOneResultMore
  <1>2. CASE threads[t].call.name # "none"
    <2> DEFINE result == ResultOf(handler, threads[t].call, threads[t].reply)
               got    == Append(threads[t].got, Judged(threads[t], result))
               learnt == IF Succeeds(result)
                           THEN Learnt(handler, threads[t].call, result.value)
                           ELSE handler
    <2>1. Continue(t, learnt, got)
      BY <1>2 DEF GoesOn, ContinueWith
    <2>2. IsSequence(got)
      BY AppendedSequence DEF AccessTypeOK, IsThread
    <2> HIDE DEF learnt, got
    <2>3. /\ OnlyMoves(t) /\ IsThread(threads'[t])
          /\ Keeps(t, {"request", "reply", "applied"})
          /\ AsksNext(t) /\ threads'[t].got = got
      BY <2>1, <2>2, ContinueEffect
    <2> QED
      BY <1>2, <2>3 DEF HasOneResultMore, got
  <1> QED
    BY <1>1, <1>2

-----------------------------------------------------------------------------
(* The outcomes of a command. *)
LEMMA OpenOutcomes ==
  ASSUME AccessTypeOK, NEW o \in OpenErrors
  PROVE  /\ o.thrown \in {"Device", "ios"} /\ ~Succeeds(o)
         /\ o.delivered = FALSE /\ o.sticky \in BOOLEAN /\ o.cost \in {0, 1}
         /\ o.cost = 0 => stream.sticky \/ stream.open
  <1>1. /\ stream.sticky \in BOOLEAN /\ stream.open \in BOOLEAN
        /\ MayFail \in BOOLEAN
    BY DEF AccessTypeOK, MayFail
  <1>2. \/ stream.sticky /\ o = Fails("ios", TRUE, 0)
        \/ stream.open /\ o = Fails("Device", FALSE, 0)
        \/ o = Fails("Device", TRUE, 1)
    BY <1>1 DEF OpenErrors
  <1>3. CASE stream.sticky /\ o = Fails("ios", TRUE, 0)
    BY <1>3 DEF Fails, Succeeds
  <1>4. CASE stream.open /\ o = Fails("Device", FALSE, 0)
    BY <1>4 DEF Fails, Succeeds
  <1>5. CASE o = Fails("Device", TRUE, 1)
    BY <1>5 DEF Fails, Succeeds
  <1> QED
    BY <1>2, <1>3, <1>4, <1>5

(* What commandWrite() ends with: an error, a success, or a command that is
   lost at the cost of a fault. *)
LEMMA WriteOutcomes ==
  ASSUME AccessTypeOK, NEW size, NEW o \in CommandWrite(size)
  PROVE  /\ o.thrown \in {"nothing", "Device", "ios"}
         /\ o.delivered \in BOOLEAN /\ o.sticky \in BOOLEAN
         /\ o.cost \in {0, 1}
         /\ o.delivered => Succeeds(o)
         /\ Succeeds(o) => o.sticky = FALSE /\ (o.cost = 0 => o.delivered)
         /\ ~Succeeds(o) /\ o.cost = 0 => stream.sticky \/ stream.open
  <1>1. \/ o \in OpenErrors
        \/ o = [Fails("nothing", FALSE, 0) EXCEPT !.delivered = TRUE]
        \/ o = Fails("nothing", FALSE, 1)
    <2>1. \/ o \in OpenErrors
          \/ o \in {[Fails("nothing", FALSE, 0) EXCEPT !.delivered = TRUE]}
                     \cup {Fails("nothing", FALSE, 1)}
      BY DEF CommandWrite
    <2> QED
      BY <2>1
  <1>2. CASE o \in OpenErrors
    BY <1>2, OpenOutcomes
  <1>3. CASE o = [Fails("nothing", FALSE, 0) EXCEPT !.delivered = TRUE]
    BY <1>3 DEF Fails, Succeeds
  <1>4. CASE o = Fails("nothing", FALSE, 1)
    BY <1>4 DEF Fails, Succeeds
  <1> QED
    BY <1>1, <1>2, <1>3, <1>4

(* What is returned is a success, and what is thrown is not. *)
LEMMA RepliesSucceed ==
  /\ Succeeds(Nothing) /\ \A value : Succeeds(Returns(value))
  /\ \A class \in {"ModuleHandler", "Perf", "ios"} : ~Succeeds(Throws(class))
  BY DEF Nothing, Succeeds, Returns, Throws

(* The commands of a thread. *)
LEMMA WakesEffect ==
  ASSUME AccessTypeOK, NEW t \in Threads, Wakes(t)
  PROVE  /\ OnlyMoves(t) /\ IsThread(threads'[t])
         /\ Keeps(t, {"request", "got", "call", "access", "applied"})
         /\ \E o \in CommandWrite(VoteSize) :
              /\ AfterWrite(o) /\ votes' = votes + AsVote(1, o)
              /\ IF Succeeds(o)
                   THEN /\ threads'[t].stage = "command"
                        /\ threads'[t].reply = threads[t].reply
                   ELSE /\ threads'[t].stage = "between"
                        /\ ~Succeeds(threads'[t].reply)
  <1>1. PICK o \in CommandWrite(VoteSize) :
          /\ AfterWrite(o) /\ votes' = votes + AsVote(1, o)
          /\ threads' = [threads EXCEPT ![t] =
               IF Succeeds(o)
                 THEN [@ EXCEPT !.stage = "command"]
                 ELSE [@ EXCEPT !.stage = "between",
                                !.reply = Throws(IF o.thrown = "Device"
                                                   THEN "ModuleHandler"
                                                   ELSE "ios")]]
    BY DEF Wakes
  <1>2. IsThread(threads[t])
    BY DEF AccessTypeOK
  <1>3. CASE Succeeds(o)
    <2> DEFINE now == [threads[t] EXCEPT !.stage = "command"]
    <2>1. OnlyMoves(t) /\ threads'[t] = now
      BY <1>1, <1>3, Moved DEF AccessTypeOK
    <2>2. IsThread(now) /\ now.stage = "command"
          /\ \A f \in DOMAIN Idle \ {"stage"} : now[f] = threads[t][f]
      BY <1>2, ThreadFields DEF IsThread, Stages
    <2> QED
      BY <1>1, <1>3, <2>1, <2>2, ThreadFields DEF Keeps
  <1>4. CASE ~Succeeds(o)
    <2> DEFINE error == Throws(IF o.thrown = "Device" THEN "ModuleHandler"
                                                      ELSE "ios")
               now == [threads[t] EXCEPT !.stage = "between", !.reply = error]
    <2>1. OnlyMoves(t) /\ threads'[t] = now
      BY <1>1, <1>4, Moved DEF AccessTypeOK
    <2>2. ~Succeeds(error)
      BY RepliesSucceed
    <2> HIDE DEF error
    <2>3. IsThread(now) /\ now.stage = "between" /\ now.reply = error
          /\ \A f \in DOMAIN Idle \ {"stage", "reply"} :
               now[f] = threads[t][f]
      BY <1>2, ThreadFields DEF IsThread, Stages
    <2> QED
      BY <1>1, <1>4, <2>1, <2>2, <2>3, ThreadFields DEF Keeps
  <1> QED
    BY <1>3, <1>4

(* The vote that is taken back, or the end of the process. *)
LEMMA SleepsEffect ==
  ASSUME AccessTypeOK, NEW t \in Threads, Sleeps(t)
  PROVE  \E o \in CommandWrite(VoteSize) :
           /\ AfterWrite(o) /\ votes' = votes + AsVote(-1, o)
           /\ IF Succeeds(o)
                THEN /\ OnlyMoves(t) /\ IsThread(threads'[t])
                     /\ Keeps(t, {"request", "got", "call", "access",
                                  "reply", "applied"})
                     /\ threads'[t].stage = "between" /\ UNCHANGED phase
                ELSE phase' = "dead" /\ UNCHANGED threads
  <1>1. PICK o \in CommandWrite(VoteSize) :
          /\ AfterWrite(o) /\ votes' = votes + AsVote(-1, o)
          /\ IF Succeeds(o)
               THEN /\ threads' = [threads EXCEPT ![t].stage = "between"]
                    /\ UNCHANGED phase
               ELSE /\ phase' = "dead" /\ UNCHANGED threads
    BY DEF Sleeps
  <1>2. CASE Succeeds(o)
    <2> DEFINE now == [threads[t] EXCEPT !.stage = "between"]
    <2>1. OnlyMoves(t) /\ threads'[t] = now
      BY <1>1, <1>2, Moved DEF AccessTypeOK
    <2>2. IsThread(now) /\ now.stage = "between"
          /\ \A f \in DOMAIN Idle \ {"stage"} : now[f] = threads[t][f]
      BY ThreadFields DEF AccessTypeOK, IsThread, Stages
    <2> QED
      BY <1>1, <1>2, <2>1, <2>2, ThreadFields DEF Keeps
  <1> QED
    BY <1>1, <1>2

(* The vote of the perf service, which is also counted as its own. *)
LEMMA VotesEffect ==
  ASSUME AccessTypeOK, NEW t \in Threads, Votes(t)
  PROVE  /\ OnlyMoves(t) /\ IsThread(threads'[t])
         /\ Keeps(t, {"request", "got", "call", "access", "applied"})
         /\ threads'[t].stage = "between"
         /\ \E o \in CommandWrite(VoteSize), delta \in {-1, 1} :
              /\ AfterWrite(o)
              /\ votes' = votes + AsVote(delta, o)
              /\ perfVotes' = perfVotes + AsVote(delta, o)
              /\ Succeeds(o) => threads'[t].reply = Nothing
  <1> DEFINE delta == IF threads[t].call.param = 1 THEN -1 ELSE 1
             reply(o) == CASE Succeeds(o) -> Nothing
                           [] o.thrown = "Device" -> Throws("Perf")
                           [] o.thrown = "ios" -> Throws("ios")
             now(o) == [threads[t] EXCEPT !.stage = "between",
                                          !.reply = reply(o)]
  <1>1. PICK o \in CommandWrite(VoteSize) :
          /\ AfterWrite(o)
          /\ votes' = votes + AsVote(delta, o)
          /\ perfVotes' = perfVotes + AsVote(delta, o)
          /\ threads' = [threads EXCEPT ![t].stage = "between",
                                        ![t].reply = reply(o)]
    BY DEF Votes
  <1>2. Succeeds(o) => reply(o) = Nothing
    BY DEF Succeeds
  <1>3. delta \in {-1, 1}
    OBVIOUS
  <1> HIDE DEF reply, delta
  <1>4. threads' = [threads EXCEPT ![t] = now(o)]
    BY <1>1 DEF AccessTypeOK
  <1>5. OnlyMoves(t) /\ threads'[t] = now(o)
    BY <1>4, Moved
  <1>6. /\ IsThread(now(o)) /\ now(o).stage = "between"
        /\ now(o).reply = reply(o)
        /\ \A f \in DOMAIN Idle \ {"stage", "reply"} :
             now(o)[f] = threads[t][f]
    BY ThreadFields DEF AccessTypeOK, IsThread, Stages
  <1> QED
    BY <1>1, <1>2, <1>3, <1>5, <1>6, ThreadFields DEF Keeps

(* What an access makes of the outcome of its command. *)
LEMMA ReturnedEffect ==
  ASSUME NEW thread, IsThread(thread), NEW o,
         o.thrown \in {"nothing", "Device", "ios"}
  PROVE  /\ IsThread(Returned(thread, o)) /\ Returned(thread, o).stage = "sleep"
         /\ Succeeds(Returned(thread, o).reply) <=> Succeeds(o)
         /\ \A f \in DOMAIN Idle \ {"stage", "reply"} :
              Returned(thread, o)[f] = thread[f]
  <1> DEFINE reply == CASE Succeeds(o) -> Nothing
                        [] o.thrown = "Device" -> Throws("ModuleHandler")
                        [] o.thrown = "ios" -> Throws("ios")
             now   == [thread EXCEPT !.stage = "sleep", !.reply = reply]
  <1>1. Succeeds(reply) <=> Succeeds(o)
    <2>1. CASE o.thrown = "nothing"
      BY <2>1, RepliesSucceed DEF Succeeds
    <2>2. CASE o.thrown = "Device"
      BY <2>2, RepliesSucceed DEF Succeeds
    <2>3. CASE o.thrown = "ios"
      BY <2>3, RepliesSucceed DEF Succeeds
    <2> QED
      BY <2>1, <2>2, <2>3
  <1>2. Returned(thread, o) = now
    BY DEF Returned
  <1> HIDE DEF reply
  <1>3. IsThread(now) /\ now.stage = "sleep" /\ now.reply = reply
        /\ \A f \in DOMAIN Idle \ {"stage", "reply"} : now[f] = thread[f]
    BY ThreadFields DEF IsThread, Stages
  <1> QED
    BY <1>1, <1>2, <1>3

(* A set is applied if its command is delivered. *)
LEMMA SetsEffect ==
  ASSUME AccessTypeOK, NEW t \in Threads, Sets(t)
  PROVE  /\ threads[t].stage = "command" /\ ~threads[t].access.get
         /\ OnlyMoves(t) /\ IsThread(threads'[t])
         /\ Keeps(t, {"request", "got", "call", "access"})
         /\ threads'[t].stage = "sleep"
         /\ \E size : \E o \in CommandWrite(size) :
              /\ AfterWrite(o)
              /\ threads'[t].applied =
                   IF o.delivered THEN Append(threads[t].applied,
                                              threads[t].call)
                                  ELSE threads[t].applied
              /\ Succeeds(threads'[t].reply) <=> Succeeds(o)
  <1> DEFINE message == LinuxMessage(threads[t].access)
             done    == [threads[t] EXCEPT !.applied =
                                      Append(@, threads[t].call)]
  <1>1. PICK o \in CommandWrite(Len(message)) :
          /\ AfterWrite(o)
          /\ threads' = [threads EXCEPT ![t] =
               Returned(IF o.delivered THEN done ELSE threads[t], o)]
    BY DEF Sets
  <1> HIDE DEF message
  <1> DEFINE thread == IF o.delivered THEN done ELSE threads[t]
  <1>2. IsThread(threads[t])
    BY DEF AccessTypeOK
  <1>3. IsThread(done)
        /\ done.applied = Append(threads[t].applied, threads[t].call)
        /\ \A f \in DOMAIN Idle \ {"applied"} : done[f] = threads[t][f]
    BY <1>2, ThreadFields, AppendedSequence DEF IsThread
  <1> HIDE DEF done
  <1>4. IsThread(thread)
        /\ thread.applied = (IF o.delivered THEN Append(threads[t].applied,
                                                        threads[t].call)
                                            ELSE threads[t].applied)
        /\ \A f \in DOMAIN Idle \ {"applied"} : thread[f] = threads[t][f]
    BY <1>2, <1>3, ThreadFields
  <1> HIDE DEF thread
  <1>5. OnlyMoves(t) /\ threads'[t] = Returned(thread, o)
    BY <1>1, Moved DEF thread
  <1>6. /\ IsThread(threads'[t]) /\ threads'[t].stage = "sleep"
        /\ Succeeds(threads'[t].reply) <=> Succeeds(o)
        /\ \A f \in DOMAIN Idle \ {"stage", "reply"} :
             threads'[t][f] = thread[f]
    <2>1. o.thrown \in {"nothing", "Device", "ios"}
      BY WriteOutcomes
    <2> QED
      BY <1>4, <1>5, <2>1, ReturnedEffect
  <1>7. threads[t].stage = "command" /\ ~threads[t].access.get
    BY DEF Sets
  <1> QED
    BY <1>1, <1>4, <1>5, <1>6, <1>7, ThreadFields DEF Keeps

(* A get fails to open the file, or opens it and has the mutex. *)
LEMMA WritesEffect ==
  ASSUME AccessTypeOK, NEW t \in Threads, Writes(t)
  PROVE  /\ threads[t].stage = "command" /\ threads[t].access.get
         /\ OnlyMoves(t) /\ IsThread(threads'[t])
         /\ Keeps(t, {"request", "got", "call", "access", "applied"})
         /\ \/ /\ \E o \in OpenErrors : AfterWrite(o)
               /\ UNCHANGED owner /\ threads'[t].stage = "sleep"
               /\ ~Succeeds(threads'[t].reply)
            \/ /\ ~stream.sticky /\ ~stream.open
               /\ stream' = [stream EXCEPT !.open = TRUE] /\ owner' = t
               /\ threads'[t].stage = "reading"
               /\ threads'[t].reply = threads[t].reply
               /\ UNCHANGED << lost, faults >>
  <1>1. threads[t].stage = "command" /\ threads[t].access.get
    BY DEF Writes
  <1>2. IsThread(threads[t])
    BY DEF AccessTypeOK
  <1>3. ASSUME NEW o \in OpenErrors, AfterWrite(o), UNCHANGED owner,
               threads' = [threads EXCEPT ![t] = Returned(@, o)]
        PROVE  /\ OnlyMoves(t) /\ IsThread(threads'[t])
               /\ Keeps(t, {"request", "got", "call", "access", "applied"})
               /\ threads'[t].stage = "sleep"
               /\ ~Succeeds(threads'[t].reply)
    <2>1. OnlyMoves(t) /\ threads'[t] = Returned(threads[t], o)
      BY <1>3, Moved DEF AccessTypeOK
    <2>2. o.thrown \in {"nothing", "Device", "ios"} /\ ~Succeeds(o)
      BY OpenOutcomes
    <2> QED
      BY <1>2, <2>1, <2>2, ReturnedEffect, ThreadFields DEF Keeps
  <1>4. ASSUME threads' = [threads EXCEPT ![t].stage = "reading"]
        PROVE  /\ OnlyMoves(t) /\ IsThread(threads'[t])
               /\ Keeps(t, {"request", "got", "call", "access", "applied",
                            "reply"})
               /\ threads'[t].stage = "reading"
    <2> DEFINE now == [threads[t] EXCEPT !.stage = "reading"]
    <2>1. OnlyMoves(t) /\ threads'[t] = now
      BY <1>4, Moved DEF AccessTypeOK
    <2>2. IsThread(now) /\ now.stage = "reading"
          /\ \A f \in DOMAIN Idle \ {"stage"} : now[f] = threads[t][f]
      BY <1>2, ThreadFields DEF IsThread, Stages
    <2> QED
      BY <2>1, <2>2, ThreadFields DEF Keeps
  <1>5. CASE \E o \in OpenErrors :
               /\ AfterWrite(o) /\ UNCHANGED owner
               /\ threads' = [threads EXCEPT ![t] = Returned(@, o)]
    BY <1>1, <1>3, <1>5 DEF Keeps
  <1>6. CASE /\ ~stream.sticky /\ ~stream.open
             /\ stream' = [stream EXCEPT !.open = TRUE] /\ owner' = t
             /\ threads' = [threads EXCEPT ![t].stage = "reading"]
             /\ UNCHANGED << lost, faults >>
    BY <1>1, <1>4, <1>6 DEF Keeps
  <1> QED
    BY <1>5, <1>6 DEF Writes

(* A reply touches what the thread is told and nothing else. *)
LEMMA RepliedEffect ==
  ASSUME NEW thread, IsThread(thread), NEW reply
  PROVE  /\ IsThread(Replied(thread, reply))
         /\ Replied(thread, reply).reply = reply
         /\ \A f \in DOMAIN Idle \ {"reply", "truth"} :
              Replied(thread, reply)[f] = thread[f]
  <1> DEFINE truth == IF HasTruth(thread.call) THEN Truth(thread.call)
                                               ELSE << >>
  <1>1. Replied(thread, reply) = [thread EXCEPT !.reply = reply,
                                                !.truth = truth]
    BY DEF Replied
  <1> HIDE DEF truth
  <1> QED
    BY <1>1, ThreadFields DEF IsThread

(* An answer costs a fault at the most. *)
LEMMA ContentsCost ==
  ASSUME NEW call, NEW access, NEW c \in Contents(call, access)
  PROVE  c[2] \in {0, 1}
  BY DEF Contents, ContentsAround

(* The reply is read, the file closed and the mutex released. *)
LEMMA ReadsEffect ==
  ASSUME AccessTypeOK, NEW t \in Threads, Reads(t)
  PROVE  /\ threads[t].stage = "reading"
         /\ OnlyMoves(t) /\ IsThread(threads'[t])
         /\ Keeps(t, {"request", "got", "call", "access", "applied"})
         /\ threads'[t].stage = "sleep" /\ owner' = NoThread
         /\ stream' \in [open : {FALSE}, sticky : BOOLEAN]
         /\ \/ faults' = faults + 1
            \/ /\ faults' = faults /\ Succeeds(threads'[t].reply)
               /\ stream'.sticky = stream.sticky
  <1>1. threads[t].stage = "reading" /\ owner' = NoThread
    BY DEF Reads
  <1>2. IsThread(threads[t]) /\ stream \in [open : BOOLEAN, sticky : BOOLEAN]
        /\ faults \in Nat
    BY DEF AccessTypeOK
  <1>3. ASSUME NEW o \in ReadErrors,
               stream' = [open |-> FALSE, sticky |-> o.sticky],
               faults' = faults + o.cost,
               threads' = [threads EXCEPT ![t] = Returned(@, o)]
        PROVE  /\ OnlyMoves(t) /\ IsThread(threads'[t])
               /\ Keeps(t, {"request", "got", "call", "access", "applied"})
               /\ threads'[t].stage = "sleep"
               /\ stream' \in [open : {FALSE}, sticky : BOOLEAN]
               /\ faults' = faults + 1
    <2>1. OnlyMoves(t) /\ threads'[t] = Returned(threads[t], o)
      BY <1>3, Moved DEF AccessTypeOK
    <2>2. o \in {Fails("Device", FALSE, 1), Fails("Device", TRUE, 1)}
      BY DEF ReadErrors
    <2>3. o.thrown \in {"nothing", "Device", "ios"} /\ o.cost = 1
          /\ o.sticky \in BOOLEAN
      <3>1. CASE o = Fails("Device", FALSE, 1)
        BY <3>1 DEF Fails
      <3>2. CASE o = Fails("Device", TRUE, 1)
        BY <3>2 DEF Fails
      <3> QED
        BY <2>2, <3>1, <3>2
    <2> QED
      BY <1>2, <1>3, <2>1, <2>3, ReturnedEffect, ThreadFields DEF Keeps
  <1>4. ASSUME NEW asked, ReadsReply(t, asked)
        PROVE  /\ OnlyMoves(t) /\ IsThread(threads'[t])
               /\ Keeps(t, {"request", "got", "call", "access", "applied"})
               /\ threads'[t].stage = "sleep"
               /\ stream' \in [open : {FALSE}, sticky : BOOLEAN]
               /\ faults' \in {faults, faults + 1}
               /\ Succeeds(threads'[t].reply)
               /\ stream'.sticky = stream.sticky
    <2> DEFINE reply(c) ==
                 Returns(LinuxPayload(threads[t].access,
                                      LinuxReply(asked, c[1])))
    <2>1. PICK c \in Contents(threads[t].call, asked) :
            /\ stream' = [stream EXCEPT !.open = FALSE]
            /\ faults' = faults + c[2]
            /\ threads' = [threads EXCEPT ![t] =
                 [Replied(threads[t], reply(c)) EXCEPT !.stage = "sleep"]]
      BY <1>4 DEF ReadsReply, AccessTypeOK
    <2>2. Succeeds(reply(c))
      BY RepliesSucceed
    <2> HIDE DEF reply
    <2> DEFINE now == [Replied(threads[t], reply(c)) EXCEPT !.stage = "sleep"]
    <2>3. OnlyMoves(t) /\ threads'[t] = now
      BY <2>1, Moved
    <2>4. IsThread(now) /\ now.stage = "sleep" /\ now.reply = reply(c)
          /\ \A f \in DOMAIN Idle \ {"stage", "reply", "truth"} :
               now[f] = threads[t][f]
      BY <1>2, RepliedEffect, ThreadFields DEF IsThread, Stages
    <2>5. faults' \in {faults, faults + 1}
      BY <1>2, <2>1, ContentsCost
    <2> QED
      BY <1>2, <2>1, <2>2, <2>3, <2>4, <2>5, ThreadFields DEF Keeps
  <1>5. \/ \E o \in ReadErrors :
             /\ stream' = [open |-> FALSE, sticky |-> o.sticky]
             /\ faults' = faults + o.cost
             /\ threads' = [threads EXCEPT ![t] = Returned(@, o)]
        \/ ReadsReply(t, LinuxAccess(LinuxMessage(threads[t].access)))
    BY DEF Reads
  <1> QED
    BY <1>1, <1>3, <1>4, <1>5

(* An ioctl that is answered. *)
LEMMA HearsEffect ==
  ASSUME AccessTypeOK, NEW t \in Threads, NEW reply, Hears(t, reply)
  PROVE  /\ OnlyMoves(t) /\ IsThread(threads'[t])
         /\ Keeps(t, {"request", "got", "call", "access", "applied"})
         /\ threads'[t].stage = "between" /\ threads'[t].reply = reply
  <1> DEFINE now == [Replied(threads[t], reply) EXCEPT !.stage = "between"]
  <1>1. OnlyMoves(t) /\ threads'[t] = now
    BY Moved DEF Hears, AccessTypeOK
  <1>2. IsThread(threads[t])
    BY DEF AccessTypeOK
  <1>3. IsThread(now) /\ now.stage = "between" /\ now.reply = reply
        /\ \A f \in DOMAIN Idle \ {"stage", "reply", "truth"} :
             now[f] = threads[t][f]
    BY <1>2, RepliedEffect, ThreadFields DEF IsThread, Stages
  <1> QED
    BY <1>1, <1>3, ThreadFields DEF Keeps

(* A set that the driver has refused was told so. *)
LEMMA SetAccess ==
  ASSUME NEW access \in SetAccesses
  PROVE  access.get = FALSE
  BY DEF SetAccesses, ConfigSet

(* What the driver leaves instead of a success is an error to the agent. *)
LEMMA RefusedSet ==
  ASSUME NEW access \in SetAccesses,
         NEW reply \in {Throws("ModuleHandler")} \cup
                       {WindowsPayload(body) : body \in
                          BadReplies(WindowsAccess(access.get,
                                       WindowsMessage(access)[2]))}
  PROVE  ~Succeeds(reply)
  <1>1. CASE reply = Throws("ModuleHandler")
    BY <1>1, RepliesSucceed
  <1>2. ASSUME NEW body \in BadReplies(WindowsAccess(access.get,
                                         WindowsMessage(access)[2])),
               reply = WindowsPayload(body)
        PROVE  ~Succeeds(reply)
    <2>1. access.get = FALSE
      BY SetAccess
    <2>2. body \in BadReplies(WindowsAccess(FALSE,
                                WindowsMessage(access)[2]))
      BY <1>2, <2>1
    <2> QED
      BY <1>2, <2>2, IoctlAssumption
  <1> QED
    BY <1>1, <1>2

(* An ioctl applies its block, or ends with an error if it is a set. *)
LEMMA IoctlsEffect ==
  ASSUME AccessTypeOK, NEW t \in Threads, Ioctls(t)
  PROVE  /\ threads[t].stage = "ioctl"
         /\ OnlyMoves(t) /\ IsThread(threads'[t])
         /\ Keeps(t, {"request", "got", "call", "access"})
         /\ threads'[t].stage = "between" /\ faults' \in {faults, faults + 1}
         /\ \/ /\ threads'[t].applied = threads[t].applied
               /\ \/ threads[t].call.name # "setModuleParameter"
                  \/ threads[t].access \notin SetAccesses
                  \/ ~Succeeds(threads'[t].reply)
            \/ threads'[t].applied = Append(threads[t].applied,
                                            threads[t].call)
  <1> DEFINE call  == threads[t].call
             asked == WindowsAccess(threads[t].access.get,
                                    WindowsMessage(threads[t].access)[2])
  <1>1. IsThread(threads[t]) /\ faults \in Nat
    BY DEF AccessTypeOK
  <1>2. threads[t].stage = "ioctl"
    BY DEF Ioctls
  <1>3. ASSUME NEW reply, Hears(t, reply),
               \/ call.name # "setModuleParameter"
               \/ threads[t].access \notin SetAccesses
               \/ ~Succeeds(reply),
               faults' \in {faults, faults + 1}
        PROVE  /\ OnlyMoves(t) /\ IsThread(threads'[t])
               /\ Keeps(t, {"request", "got", "call", "access", "applied"})
               /\ threads'[t].stage = "between"
               /\ \/ call.name # "setModuleParameter"
                  \/ threads[t].access \notin SetAccesses
                  \/ ~Succeeds(threads'[t].reply)
    BY <1>3, HearsEffect
  <1>4. CASE call.name \in {"ioctlGetPerf", "ioctlSetPerf"}
    <2>1. PICK state : PerfIoctl(t, state)
      BY <1>4 DEF Ioctls
    <2>2. ASSUME NEW truth, NEW reply,
                 threads' = [threads EXCEPT ![t] =
                   [@ EXCEPT !.stage = "between", !.truth = truth,
                             !.reply = reply]]
          PROVE  /\ OnlyMoves(t) /\ IsThread(threads'[t])
                 /\ Keeps(t, {"request", "got", "call", "access", "applied"})
                 /\ threads'[t].stage = "between"
      <3> DEFINE now == [threads[t] EXCEPT !.stage = "between",
                                           !.truth = truth, !.reply = reply]
      <3>1. OnlyMoves(t) /\ threads'[t] = now
        BY <2>2, Moved DEF AccessTypeOK
      <3>2. IsThread(now) /\ now.stage = "between"
            /\ \A f \in DOMAIN Idle \ {"stage", "reply", "truth"} :
                 now[f] = threads[t][f]
        BY <1>1, ThreadFields DEF IsThread, Stages
      <3> QED
        BY <3>1, <3>2, ThreadFields DEF Keeps
    <2>3. CASE /\ threads' = [threads EXCEPT ![t] = [@ EXCEPT
                    !.stage = "between", !.truth = Bytes(4, state),
                    !.reply = IoctlPayload(U32,
                                PerfBuffer(Success, Bytes(4, state)))]]
               /\ UNCHANGED faults
      BY <1>1, <1>2, <1>4, <2>2, <2>3 DEF Keeps
    <2>4. CASE /\ faults' = faults + 1
               /\ \E reply : Hears(t, reply)
      BY <1>1, <1>2, <1>3, <1>4, <2>4 DEF Keeps
    <2> QED
      BY <2>1, <2>3, <2>4 DEF PerfIoctl
  <1>5. CASE call.name \notin {"ioctlGetPerf", "ioctlSetPerf"}
    <2>1. ModuleIoctl(t, asked)
      BY <1>5 DEF Ioctls
    <2>2. asked.get = threads[t].access.get
      BY DEF WindowsAccess, AccessIn
    <2> HIDE DEF asked
    <2>3. CASE /\ asked.get
               /\ \E c \in Contents(threads[t].call, asked) :
                    /\ faults' = faults + c[2]
                    /\ Hears(t, WindowsPayload(
                         WindowsReply(asked, Success, Success, c[1])))
      <3>1. threads[t].access \notin SetAccesses
        BY <2>2, <2>3, SetAccess
      <3>2. faults' \in {faults, faults + 1} /\ \E reply : Hears(t, reply)
        BY <1>1, <2>3, ContentsCost
      <3> QED
        BY <1>2, <1>3, <3>1, <3>2 DEF Keeps
    <2>4. ASSUME NEW reply, UNCHANGED faults,
                 threads' = [threads EXCEPT
                   ![t].stage = "between", ![t].reply = reply,
                   ![t].applied = Append(@, threads[t].call)]
          PROVE  /\ OnlyMoves(t) /\ IsThread(threads'[t])
                 /\ Keeps(t, {"request", "got", "call", "access"})
                 /\ threads'[t].stage = "between"
                 /\ threads'[t].applied = Append(threads[t].applied,
                                                 threads[t].call)
      <3> DEFINE applied == Append(threads[t].applied, threads[t].call)
                 now == [threads[t] EXCEPT !.stage = "between",
                                           !.reply = reply,
                                           !.applied = applied]
      <3>1. IsSequence(applied)
        BY <1>1, AppendedSequence DEF IsThread
      <3>2. threads' = [threads EXCEPT ![t] = now]
        BY <1>1, <2>4, ThreadFields DEF AccessTypeOK, IsThread
      <3> HIDE DEF applied
      <3>3. OnlyMoves(t) /\ threads'[t] = now
        BY <3>2, Moved
      <3>4. IsThread(now) /\ now.stage = "between" /\ now.applied = applied
            /\ \A f \in DOMAIN Idle \ {"stage", "reply", "applied"} :
                 now[f] = threads[t][f]
        BY <1>1, <3>1, ThreadFields DEF IsThread, Stages
      <3> QED
        BY <3>3, <3>4, ThreadFields DEF Keeps, applied
    <2>5. ASSUME NEW reply \in {Throws("ModuleHandler")} \cup
                               {WindowsPayload(body) : body \in
                                                       BadReplies(asked)},
                 faults' = faults + 1, Hears(t, reply)
          PROVE  /\ OnlyMoves(t) /\ IsThread(threads'[t])
                 /\ Keeps(t, {"request", "got", "call", "access", "applied"})
                 /\ threads'[t].stage = "between"
                 /\ \/ threads[t].access \notin SetAccesses
                    \/ ~Succeeds(threads'[t].reply)
      <3>1. threads[t].access \in SetAccesses => ~Succeeds(reply)
        BY <2>5, RefusedSet DEF asked
      <3> QED
        BY <2>5, <3>1, HearsEffect
    <2>6. \/ /\ asked.get
             /\ \E c \in Contents(threads[t].call, asked) :
                  /\ faults' = faults + c[2]
                  /\ Hears(t, WindowsPayload(
                       WindowsReply(asked, Success, Success, c[1])))
          \/ /\ UNCHANGED faults
             /\ \E reply : threads' = [threads EXCEPT
                  ![t].stage = "between", ![t].reply = reply,
                  ![t].applied = Append(@, threads[t].call)]
          \/ /\ faults' = faults + 1
             /\ \E reply \in {Throws("ModuleHandler")} \cup
                             {WindowsPayload(body) : body \in
                                                     BadReplies(asked)} :
                  Hears(t, reply)
      BY <2>1 DEF ModuleIoctl
    <2> QED
      BY <1>1, <1>2, <2>3, <2>4, <2>5, <2>6 DEF Keeps
  <1> QED
    BY <1>4, <1>5

-----------------------------------------------------------------------------
(* The steps between two requests. *)
HandsOver ==
  \/ \E t \in Threads : Collects(t)
  \/ \E t \in Clients, r \in ClientRequests : Takes(t, r)
  \/ Begins \/ Stops \/ Ends

(* Between two requests only the thread, the phase and the count of the
   requests change. *)
LEMMA HandsOverEffect ==
  ASSUME AccessTypeOK, HandsOver
  PROVE  \E t \in Threads :
           /\ threads[t].stage \in {"idle", "answered"}
           /\ OnlyMoves(t)
           /\ \/ threads'[t] = Idle
              \/ \E r : /\ threads'[t] = Starting(r)
                        /\ r \in ClientRequests \/ r.name = "destroy"
           /\ phase # "dead"
           /\ phase' \in {"starting", "running", "stopping", "stopped"}
           /\ requests' \in Nat
           /\ UNCHANGED << platform, fw, stream, owner, votes, perfVotes,
                           lost, faults >>
  <1>1. ASSUME NEW t \in Threads, Collects(t)
        PROVE  /\ threads[t].stage = "answered"
               /\ OnlyMoves(t) /\ threads'[t] = Idle
               /\ phase # "dead" /\ phase' = phase /\ requests' = requests
               /\ UNCHANGED << platform, fw, stream, owner, votes, perfVotes,
                               lost, faults >>
    BY <1>1, Moved DEF Collects
  <1>2. ASSUME NEW t \in Clients, NEW r \in ClientRequests, Takes(t, r)
        PROVE  /\ threads[t].stage = "idle" /\ t \in Threads
               /\ OnlyMoves(t) /\ threads'[t] = Starting(r)
               /\ phase = "running" /\ phase' = phase
               /\ requests' = requests + 1
               /\ UNCHANGED << platform, fw, stream, owner, votes, perfVotes,
                               lost, faults >>
    BY <1>2, Moved DEF Takes, Starts, Threads
  <1>3. ASSUME Begins \/ Ends
        PROVE  /\ Main \in Threads /\ threads[Main].stage = "answered"
               /\ OnlyMoves(Main) /\ threads'[Main] = Idle
               /\ phase # "dead" /\ phase' \in {"running", "stopped"}
               /\ requests' = requests
               /\ UNCHANGED << platform, fw, stream, owner, votes, perfVotes,
                               lost, faults >>
    BY <1>3, Moved DEF Begins, Ends, Threads
  <1>4. ASSUME Stops
        PROVE  /\ Main \in Threads /\ threads[Main].stage = "idle"
               /\ OnlyMoves(Main)
               /\ threads'[Main] = Starting(Request("destroy"))
               /\ Request("destroy").name = "destroy"
               /\ phase # "dead" /\ phase' = "stopping"
               /\ requests' = requests
               /\ UNCHANGED << platform, fw, stream, owner, votes, perfVotes,
                               lost, faults >>
    BY <1>4, Moved DEF Stops, Starts, Threads, Request
  <1>5. /\ phase \in {"starting", "running", "stopping", "stopped", "dead"}
        /\ requests \in Nat
    BY DEF AccessTypeOK
  <1>6. CASE \E t \in Threads : Collects(t)
    BY <1>1, <1>5, <1>6
  <1>7. CASE \E t \in Clients, r \in ClientRequests : Takes(t, r)
    BY <1>2, <1>5, <1>7
  <1>8. CASE Begins \/ Ends
    BY <1>3, <1>5, <1>8
  <1>9. CASE Stops
    BY <1>4, <1>5, <1>9
  <1> QED
    BY <1>6, <1>7, <1>8, <1>9 DEF HandsOver

(* A thread that hands over is idle, or at the start of its request. *)
LEMMA HandedOver ==
  ASSUME NEW t, \/ threads'[t] = Idle
                \/ \E r : threads'[t] = Starting(r)
  PROVE  /\ IsThread(threads'[t])
         /\ threads'[t].stage \in {"idle", "between"}
  BY IdleIsThread

(* The steps of the system, for the proofs. *)
LEMMA Steps ==
  ASSUME Next
  PROVE  \/ \E t \in Threads :
              /\ phase # "dead"
              /\ \/ GoesOn(t) \/ Wakes(t) \/ Sleeps(t) \/ Votes(t)
                 \/ Sets(t) \/ Writes(t) \/ Reads(t) \/ Ioctls(t)
         \/ HandsOver
         \/ \E t \in Threads : Dies(t)
  BY DEF Next, ThreadStep, HandsOver

-----------------------------------------------------------------------------
(* The initial values. *)
LEMMA InitIsTyped == Init => AccessTypeOK
  <1> SUFFICES ASSUME Init
               PROVE  AccessTypeOK
    OBVIOUS
  <1>1. DOMAIN threads = Threads /\ \A t \in Threads : IsThread(threads[t])
    <2>1. IsThread(Idle) /\ IsThread(Starting(Request("construct")))
      BY IdleIsThread
    <2> QED
      BY <2>1 DEF Init
  <1>2. stream \in [open : BOOLEAN, sticky : BOOLEAN]
    BY DEF Init
  <1>3. /\ platform \in Platforms /\ phase = "starting" /\ owner = NoThread
        /\ votes = 0 /\ perfVotes = 0 /\ lost = FALSE
        /\ faults = 0 /\ requests = 0
    BY DEF Init
  <1>4. lost \in BOOLEAN
    BY <1>3, Zenon
  <1>5. votes \in Int /\ perfVotes \in Int /\ faults \in Nat /\ requests \in Nat
    BY <1>3
  <1>6. /\ owner \in Threads \cup {NoThread}
        /\ phase \in {"starting", "running", "stopping", "stopped", "dead"}
    BY <1>3
  <1> QED
    BY <1>1, <1>2, <1>3, <1>4, <1>5, <1>6, Zenon DEF AccessTypeOK

(* A command leaves the stream and the counts what they are. *)
LEMMA AfterWriteIsTyped ==
  ASSUME AccessTypeOK, NEW o, o.sticky \in BOOLEAN, o.cost \in {0, 1},
         o.delivered \in BOOLEAN, AfterWrite(o)
  PROVE  /\ stream' \in [open : BOOLEAN, sticky : BOOLEAN]
         /\ stream'.open = stream.open /\ stream'.sticky = o.sticky
         /\ lost' \in BOOLEAN /\ faults' \in Nat
         /\ faults' = faults + o.cost
         /\ lost' <=> lost \/ (Succeeds(o) /\ ~o.delivered)
  <1>1. stream' \in [open : BOOLEAN, sticky : BOOLEAN]
        /\ stream'.open = stream.open /\ stream'.sticky = o.sticky
    BY DEF AccessTypeOK, AfterWrite
  <1>2. lost' = (lost \/ (Succeeds(o) /\ ~o.delivered))
        /\ faults' = faults + o.cost
    BY DEF AfterWrite
  <1>3. lost' \in BOOLEAN
    BY <1>2, Zenon DEF AccessTypeOK, Succeeds
  <1>4. faults' \in Nat
    BY <1>2 DEF AccessTypeOK
  <1> QED
    BY <1>1, <1>2, <1>3, <1>4

(* A vote changes a count by an integer. *)
LEMMA VotesAreIntegers ==
  ASSUME NEW o, o.delivered \in BOOLEAN, NEW n \in Int, NEW delta \in Int
  PROVE  n + AsVote(delta, o) \in Int
  BY DEF AsVote

(* A command, however it ends, keeps the types of what it touches. *)
LEMMA CommandIsTyped ==
  ASSUME AccessTypeOK, NEW o,
         (\E size : o \in CommandWrite(size)) \/ o \in OpenErrors,
         AfterWrite(o)
  PROVE  /\ stream' \in [open : BOOLEAN, sticky : BOOLEAN]
         /\ lost' \in BOOLEAN /\ faults' \in Nat
         /\ \A n \in Int, delta \in {-1, 1} : n + AsVote(delta, o) \in Int
  <1>1. o.sticky \in BOOLEAN /\ o.cost \in {0, 1} /\ o.delivered \in BOOLEAN
    <2>1. CASE \E size : o \in CommandWrite(size)
      BY <2>1, WriteOutcomes, Zenon
    <2>2. CASE o \in OpenErrors
      <3>1. o.delivered = FALSE /\ o.sticky \in BOOLEAN /\ o.cost \in {0, 1}
        BY <2>2, OpenOutcomes, Zenon
      <3> QED
        BY <3>1
    <2> QED
      BY <2>1, <2>2
  <1>2. stream' \in [open : BOOLEAN, sticky : BOOLEAN]
    BY <1>1, AfterWriteIsTyped
  <1>4. lost' \in BOOLEAN
    BY <1>1, AfterWriteIsTyped
  <1>5. faults' \in Nat
    BY <1>1, AfterWriteIsTyped
  <1>3. ASSUME NEW n \in Int, NEW delta \in {-1, 1}
        PROVE  n + AsVote(delta, o) \in Int
    BY <1>1, VotesAreIntegers
  <1> QED
    BY <1>2, <1>3, <1>4, <1>5

(* Every step keeps the types. *)
LEMMA TypeIsKept == AccessTypeOK /\ [Next]_vars => AccessTypeOK'
  <1> SUFFICES ASSUME AccessTypeOK, [Next]_vars
               PROVE  AccessTypeOK'
    OBVIOUS
  <1>0. \A t, now : OnlyMoves(t) /\ IsThread(threads'[t]) =>
          DOMAIN threads' = Threads /\ \A u \in Threads : IsThread(threads'[u])
    BY DEF AccessTypeOK, OnlyMoves
  <1>1. ASSUME NEW t \in Threads, GoesOn(t)
        PROVE  AccessTypeOK'
    <2>1. UNCHANGED << platform, phase, fw, stream, owner, votes, perfVotes,
                       lost, faults, requests >>
      BY <1>1 DEF GoesOn
    <2> QED
      BY <1>0, <1>1, <2>1, GoesOnEffect DEF AccessTypeOK
  <1>2. ASSUME NEW t \in Threads, Wakes(t)
        PROVE  AccessTypeOK'
    <2>1. UNCHANGED << platform, phase, fw, owner, perfVotes, requests >>
      BY <1>2 DEF Wakes
    <2>2. PICK o \in CommandWrite(VoteSize) :
            AfterWrite(o) /\ votes' = votes + AsVote(1, o)
      BY <1>2, WakesEffect
    <2>3. /\ stream' \in [open : BOOLEAN, sticky : BOOLEAN]
          /\ lost' \in BOOLEAN /\ faults' \in Nat /\ votes' \in Int
      BY <2>2, CommandIsTyped DEF AccessTypeOK
    <2> QED
      BY <1>0, <1>2, <2>1, <2>3, WakesEffect DEF AccessTypeOK
  <1>3. ASSUME NEW t \in Threads, Sleeps(t)
        PROVE  AccessTypeOK'
    <2>1. UNCHANGED << platform, fw, owner, perfVotes, requests >>
      BY <1>3 DEF Sleeps
    <2>2. PICK o \in CommandWrite(VoteSize) :
            /\ AfterWrite(o) /\ votes' = votes + AsVote(-1, o)
            /\ IF Succeeds(o)
                 THEN OnlyMoves(t) /\ IsThread(threads'[t]) /\ UNCHANGED phase
                 ELSE phase' = "dead" /\ UNCHANGED threads
      BY <1>3, SleepsEffect
    <2>3. /\ stream' \in [open : BOOLEAN, sticky : BOOLEAN]
          /\ lost' \in BOOLEAN /\ faults' \in Nat /\ votes' \in Int
      BY <2>2, CommandIsTyped DEF AccessTypeOK
    <2> QED
      BY <1>0, <2>1, <2>2, <2>3 DEF AccessTypeOK
  <1>4. ASSUME NEW t \in Threads, Votes(t)
        PROVE  AccessTypeOK'
    <2>1. UNCHANGED << platform, phase, fw, owner, requests >>
      BY <1>4 DEF Votes
    <2>2. PICK o \in CommandWrite(VoteSize), delta \in {-1, 1} :
            /\ AfterWrite(o) /\ votes' = votes + AsVote(delta, o)
            /\ perfVotes' = perfVotes + AsVote(delta, o)
      BY <1>4, VotesEffect
    <2>3. /\ stream' \in [open : BOOLEAN, sticky : BOOLEAN]
          /\ lost' \in BOOLEAN /\ faults' \in Nat /\ votes' \in Int
          /\ perfVotes' \in Int
      BY <2>2, CommandIsTyped DEF AccessTypeOK
    <2> QED
      BY <1>0, <1>4, <2>1, <2>3, VotesEffect DEF AccessTypeOK
  <1>5. ASSUME NEW t \in Threads, Sets(t)
        PROVE  AccessTypeOK'
    <2>1. UNCHANGED << platform, phase, owner, votes, perfVotes, requests >>
      BY <1>5 DEF Sets
    <2>2. PICK size : \E o \in CommandWrite(size) : AfterWrite(o)
      BY <1>5, SetsEffect
    <2>3. /\ stream' \in [open : BOOLEAN, sticky : BOOLEAN]
          /\ lost' \in BOOLEAN /\ faults' \in Nat
      BY <2>2, CommandIsTyped
    <2> QED
      BY <1>0, <1>5, <2>1, <2>3, SetsEffect DEF AccessTypeOK
  <1>6. ASSUME NEW t \in Threads, Writes(t)
        PROVE  AccessTypeOK'
    <2>1. UNCHANGED << platform, phase, fw, votes, perfVotes, requests >>
      BY <1>6 DEF Writes
    <2>2. /\ stream' \in [open : BOOLEAN, sticky : BOOLEAN]
          /\ lost' \in BOOLEAN /\ faults' \in Nat
          /\ owner' \in Threads \cup {NoThread}
      <3>1. CASE \E o \in OpenErrors : AfterWrite(o) /\ UNCHANGED owner
        <4>1. PICK o \in OpenErrors : AfterWrite(o) /\ UNCHANGED owner
          BY <3>1
        <4> QED
          BY <4>1, CommandIsTyped DEF AccessTypeOK
      <3>2. CASE /\ stream' = [stream EXCEPT !.open = TRUE] /\ owner' = t
                 /\ UNCHANGED << lost, faults >>
        BY <3>2 DEF AccessTypeOK
      <3> QED
        BY <1>6, <3>1, <3>2, WritesEffect
    <2> QED
      BY <1>0, <1>6, <2>1, <2>2, WritesEffect DEF AccessTypeOK
  <1>7. ASSUME NEW t \in Threads, Reads(t)
        PROVE  AccessTypeOK'
    <2>1. UNCHANGED << platform, phase, fw, votes, perfVotes, lost, requests >>
      BY <1>7 DEF Reads
    <2>2. /\ stream' \in [open : BOOLEAN, sticky : BOOLEAN]
          /\ faults' \in Nat /\ owner' \in Threads \cup {NoThread}
      <3>1. /\ stream' \in [open : {FALSE}, sticky : BOOLEAN]
            /\ faults' \in {faults, faults + 1} /\ owner' = NoThread
        BY <1>7, ReadsEffect
      <3>2. stream' \in [open : BOOLEAN, sticky : BOOLEAN]
        BY <3>1
      <3>3. owner' \in Threads \cup {NoThread}
        BY <3>1
      <3>4. faults' \in Nat
        BY <3>1 DEF AccessTypeOK
      <3> QED
        BY <3>2, <3>3, <3>4
    <2> QED
      BY <1>0, <1>7, <2>1, <2>2, ReadsEffect DEF AccessTypeOK
  <1>8. ASSUME NEW t \in Threads, Ioctls(t)
        PROVE  AccessTypeOK'
    <2>1. UNCHANGED << platform, phase, stream, owner, votes, perfVotes,
                       lost, requests >>
      BY <1>8 DEF Ioctls
    <2> QED
      BY <1>0, <1>8, <2>1, IoctlsEffect DEF AccessTypeOK
  <1>9. ASSUME HandsOver
        PROVE  AccessTypeOK'
    BY <1>0, <1>9, HandsOverEffect, HandedOver DEF AccessTypeOK
  <1>10. ASSUME NEW t \in Threads, Dies(t)
         PROVE  AccessTypeOK'
    BY <1>10 DEF Dies, AccessTypeOK
  <1>11. CASE UNCHANGED vars
    BY <1>11 DEF vars, AccessTypeOK
  <1> QED
    BY <1>1, <1>2, <1>3, <1>4, <1>5, <1>6, <1>7, <1>8, <1>9, <1>10, <1>11,
       Steps

-----------------------------------------------------------------------------
(* The stages a thread goes through. *)
LEMMA StageAsked ==
  ASSUME AccessTypeOK, NEW t \in Threads, AsksNext(t)
  PROVE  threads'[t].stage \in {"answered", "ioctl", "vote", "wake"}
  BY StageOfACall DEF AsksNext, AccessTypeOK

(* A step that is not about the mutex. *)
LEMMA MutexLeftAlone ==
  ASSUME MutexIsHeld, NEW t \in Threads, OnlyMoves(t),
         threads[t].stage # "reading", threads'[t].stage # "reading",
         owner' = owner, stream'.open = stream.open
  PROVE  MutexIsHeld'
  BY DEF MutexIsHeld, OnlyMoves

(* A command that only writes leaves the file as open as it was. *)
LEMMA FileIsLeftAlone ==
  ASSUME AccessTypeOK, NEW o, AfterWrite(o)
  PROVE  stream'.open = stream.open
  BY DEF AccessTypeOK, AfterWrite

(* Every step keeps the correspondence of the mutex, the file and the threads. *)
LEMMA MutexIsKept == AccessTypeOK /\ MutexIsHeld /\ [Next]_vars => MutexIsHeld'
  <1> SUFFICES ASSUME AccessTypeOK, MutexIsHeld, [Next]_vars
               PROVE  MutexIsHeld'
    OBVIOUS
  <1>1. ASSUME NEW t \in Threads, GoesOn(t)
        PROVE  MutexIsHeld'
    <2>1. threads[t].stage = "between" /\ UNCHANGED << stream, owner >>
      BY <1>1 DEF GoesOn
    <2> QED
      BY <1>1, <2>1, GoesOnEffect, StageAsked, MutexLeftAlone
  <1>2. ASSUME NEW t \in Threads, Wakes(t)
        PROVE  MutexIsHeld'
    <2>1. threads[t].stage = "wake" /\ owner' = owner
      BY <1>2 DEF Wakes
    <2>2. OnlyMoves(t) /\ threads'[t].stage \in {"command", "between"}
          /\ \E o : AfterWrite(o)
      BY <1>2, WakesEffect
    <2> QED
      BY <2>1, <2>2, FileIsLeftAlone, MutexLeftAlone
  <1>3. ASSUME NEW t \in Threads, Sleeps(t)
        PROVE  MutexIsHeld'
    <2>1. threads[t].stage = "sleep" /\ owner' = owner
      BY <1>3 DEF Sleeps
    <2>2. /\ \/ OnlyMoves(t) /\ threads'[t].stage = "between"
             \/ UNCHANGED threads
          /\ \E o : AfterWrite(o)
      BY <1>3, SleepsEffect
    <2>3. stream'.open = stream.open
      BY <2>2, FileIsLeftAlone
    <2> QED
      BY <2>1, <2>2, <2>3, MutexLeftAlone DEF MutexIsHeld
  <1>4. ASSUME NEW t \in Threads, Votes(t)
        PROVE  MutexIsHeld'
    <2>1. threads[t].stage = "vote" /\ owner' = owner
      BY <1>4 DEF Votes
    <2>2. OnlyMoves(t) /\ threads'[t].stage = "between"
          /\ \E o : AfterWrite(o)
      BY <1>4, VotesEffect
    <2> QED
      BY <2>1, <2>2, FileIsLeftAlone, MutexLeftAlone
  <1>5. ASSUME NEW t \in Threads, Sets(t)
        PROVE  MutexIsHeld'
    <2>1. owner' = owner
      BY <1>5 DEF Sets
    <2>2. OnlyMoves(t) /\ threads[t].stage = "command"
          /\ threads'[t].stage = "sleep" /\ \E o : AfterWrite(o)
      BY <1>5, SetsEffect
    <2> QED
      BY <2>1, <2>2, FileIsLeftAlone, MutexLeftAlone
  <1>6. ASSUME NEW t \in Threads, Writes(t)
        PROVE  MutexIsHeld'
    <2>1. owner = NoThread
      BY <1>6 DEF Writes, MutexIsFree
    <2>2. OnlyMoves(t) /\ threads[t].stage = "command"
      BY <1>6, WritesEffect
    <2>3. CASE /\ \E o : AfterWrite(o)
               /\ owner' = owner /\ threads'[t].stage = "sleep"
      BY <2>2, <2>3, FileIsLeftAlone, MutexLeftAlone
    <2>4. CASE /\ stream' = [stream EXCEPT !.open = TRUE] /\ owner' = t
               /\ threads'[t].stage = "reading"
      <3>1. stream'.open = TRUE /\ owner' # NoThread
        BY <2>4, ThreadAssumption DEF AccessTypeOK
      <3>2. \A u \in Threads : threads[u].stage # "reading"
        BY <2>1, ThreadAssumption DEF MutexIsHeld
      <3> QED
        BY <2>2, <2>4, <3>1, <3>2 DEF MutexIsHeld, OnlyMoves
    <2> QED
      BY <1>6, <2>3, <2>4, WritesEffect
  <1>7. ASSUME NEW t \in Threads, Reads(t)
        PROVE  MutexIsHeld'
    <2>1. /\ threads[t].stage = "reading" /\ OnlyMoves(t)
          /\ threads'[t].stage = "sleep" /\ owner' = NoThread
          /\ stream'.open = FALSE
      BY <1>7, ReadsEffect
    <2> QED
      BY <2>1, ThreadAssumption DEF MutexIsHeld, OnlyMoves
  <1>8. ASSUME NEW t \in Threads, Ioctls(t)
        PROVE  MutexIsHeld'
    <2>1. UNCHANGED << stream, owner >>
      BY <1>8 DEF Ioctls
    <2> QED
      BY <1>8, <2>1, IoctlsEffect, MutexLeftAlone
  <1>9. ASSUME HandsOver
        PROVE  MutexIsHeld'
    <2>1. PICK t \in Threads :
            /\ threads[t].stage \in {"idle", "answered"} /\ OnlyMoves(t)
            /\ \/ threads'[t] = Idle
               \/ \E r : threads'[t] = Starting(r)
            /\ UNCHANGED << stream, owner >>
      BY <1>9, HandsOverEffect
    <2> QED
      BY <2>1, HandedOver, MutexLeftAlone
  <1>10. CASE UNCHANGED << threads, stream, owner >>
    BY <1>10 DEF MutexIsHeld
  <1> QED
    BY <1>1, <1>2, <1>3, <1>4, <1>5, <1>6, <1>7, <1>8, <1>9, <1>10,
       Steps DEF Dies, vars

(* Initially nobody has the mutex and the file is closed. *)
LEMMA MutexAtFirst == Init => MutexIsHeld
  <1> SUFFICES ASSUME Init
               PROVE  MutexIsHeld
    OBVIOUS
  <1>1. \A t \in Threads : threads[t].stage \in {"idle", "between"}
    BY IdleIsThread DEF Init
  <1>2. stream.open = FALSE /\ owner = NoThread
    BY DEF Init
  <1> QED
    BY <1>1, <1>2, ThreadAssumption DEF MutexIsHeld

(* The correspondence implies the exclusion. *)
LEMMA ExclusionOfCommands == MutexIsHeld => CommandsAreExclusive
  BY DEF MutexIsHeld, CommandsAreExclusive, MutexIsFree

-----------------------------------------------------------------------------
(* The threads that have a vote. *)
LEMMA AwakeIsFinite ==
  /\ IsFiniteSet(Awake) /\ Cardinality(Awake) \in Nat
  <1>1. IsFiniteSet(Threads)
    BY ThreadAssumption, FS_AddElement DEF Threads
  <1>2. IsFiniteSet(Awake)
    BY <1>1, FS_Subset DEF Awake
  <1> QED
    BY <1>2, FS_CardinalityType

(* The number of votes follows the thread that moves. *)
LEMMA AwakeCount ==
  ASSUME NEW t \in Threads, OnlyMoves(t)
  PROVE  /\ (IsAwake(t) <=> IsAwake(t)') =>
              Cardinality(Awake)' = Cardinality(Awake)
         /\ ~IsAwake(t) /\ IsAwake(t)' =>
              Cardinality(Awake)' = Cardinality(Awake) + 1
         /\ IsAwake(t) /\ ~IsAwake(t)' =>
              Cardinality(Awake)' = Cardinality(Awake) - 1
  <1>1. \A u \in Threads : u # t => (IsAwake(u) <=> IsAwake(u)')
    BY DEF IsAwake, OnlyMoves
  <1>2. CASE IsAwake(t) <=> IsAwake(t)'
    <2>1. Awake' = Awake
      BY <1>1, <1>2 DEF Awake
    <2> QED
      BY <1>2, <2>1
  <1>3. CASE ~IsAwake(t) /\ IsAwake(t)'
    <2>1. Awake' = Awake \cup {t} /\ t \notin Awake
      BY <1>1, <1>3 DEF Awake
    <2> QED
      BY <1>3, <2>1, AwakeIsFinite, FS_AddElement
  <1>4. CASE IsAwake(t) /\ ~IsAwake(t)'
    <2>1. Awake' = Awake \ {t} /\ t \in Awake
      BY <1>1, <1>4 DEF Awake
    <2> QED
      BY <1>4, <2>1, AwakeIsFinite, FS_RemoveElement
  <1> QED
    BY <1>2, <1>3, <1>4

(* A step that neither wakes nor lets sleep. *)
LEMMA VotesLeftAlone ==
  ASSUME VotesAreCounted, NEW t \in Threads, OnlyMoves(t),
         IsAwake(t) <=> IsAwake(t)',
         phase' # "dead" => phase # "dead", ~lost' => ~lost,
         votes' = votes, perfVotes' = perfVotes
  PROVE  VotesAreCounted'
  BY AwakeCount DEF VotesAreCounted

(* What was lost stays lost, and is lost by a success. *)
LEMMA LostIsNotFound ==
  ASSUME NEW o, AfterWrite(o)
  PROVE  (~lost') => ~lost /\ (Succeeds(o) => o.delivered)
  BY Zenon DEF AfterWrite

(* Every step keeps the count of the votes. *)
LEMMA CountIsKept ==
  AccessTypeOK /\ VotesAreCounted /\ [Next]_vars => VotesAreCounted'
  <1> SUFFICES ASSUME AccessTypeOK, VotesAreCounted, [Next]_vars
               PROVE  VotesAreCounted'
    OBVIOUS
  <1>0. votes \in Int /\ perfVotes \in Int /\ Cardinality(Awake) \in Nat
    BY AwakeIsFinite DEF AccessTypeOK
  <1>1. ASSUME NEW t \in Threads, GoesOn(t)
        PROVE  VotesAreCounted'
    <2>1. /\ threads[t].stage = "between"
          /\ UNCHANGED << phase, votes, perfVotes, lost >>
      BY <1>1 DEF GoesOn
    <2>2. /\ OnlyMoves(t)
          /\ threads'[t].stage \in {"answered", "ioctl", "vote", "wake"}
      BY <1>1, GoesOnEffect, StageAsked
    <2> QED
      BY <2>1, <2>2, VotesLeftAlone DEF IsAwake
  <1>2. ASSUME NEW t \in Threads, Wakes(t)
        PROVE  VotesAreCounted'
    <2>1. /\ threads[t].stage = "wake" /\ UNCHANGED << phase, perfVotes >>
      BY <1>2 DEF Wakes
    <2>2. PICK o \in CommandWrite(VoteSize) :
            /\ OnlyMoves(t) /\ AfterWrite(o) /\ votes' = votes + AsVote(1, o)
            /\ threads'[t].stage = IF Succeeds(o) THEN "command"
                                                  ELSE "between"
      BY <1>2, WakesEffect
    <2>3. ~IsAwake(t) /\ (IsAwake(t)' <=> Succeeds(o))
      BY <2>1, <2>2 DEF IsAwake
    <2>4. /\ o.delivered => Succeeds(o)
          /\ (~lost') => ~lost /\ (Succeeds(o) => o.delivered)
      BY <2>2, WriteOutcomes, LostIsNotFound, Zenon
    <2>5. CASE Succeeds(o) /\ ~lost'
      <3>1. votes' = votes + 1
        BY <2>2, <2>4, <2>5 DEF AsVote
      <3>2. Cardinality(Awake)' = Cardinality(Awake) + 1
        BY <2>2, <2>3, <2>5, AwakeCount
      <3> QED
        BY <1>0, <2>1, <2>4, <2>5, <3>1, <3>2 DEF VotesAreCounted
    <2>6. CASE ~Succeeds(o)
      <3>1. votes' = votes
        BY <1>0, <2>2, <2>4, <2>6 DEF AsVote
      <3> QED
        BY <2>1, <2>2, <2>3, <2>4, <2>6, <3>1, VotesLeftAlone
    <2> QED
      BY <2>5, <2>6 DEF VotesAreCounted
  <1>3. ASSUME NEW t \in Threads, Sleeps(t)
        PROVE  VotesAreCounted'
    <2>1. threads[t].stage = "sleep" /\ perfVotes' = perfVotes
      BY <1>3 DEF Sleeps
    <2>2. PICK o \in CommandWrite(VoteSize) :
            /\ AfterWrite(o) /\ votes' = votes + AsVote(-1, o)
            /\ IF Succeeds(o)
                 THEN /\ OnlyMoves(t) /\ threads'[t].stage = "between"
                      /\ phase' = phase
                 ELSE phase' = "dead"
      BY <1>3, SleepsEffect
    <2>3. (~lost') => ~lost /\ (Succeeds(o) => o.delivered)
      BY <2>2, LostIsNotFound
    <2>4. CASE Succeeds(o) /\ ~lost'
      <3>1. votes' = votes - 1
        BY <1>0, <2>2, <2>3, <2>4 DEF AsVote
      <3>2. Cardinality(Awake)' = Cardinality(Awake) - 1
        BY <2>1, <2>2, <2>4, AwakeCount DEF IsAwake
      <3> QED
        BY <1>0, <2>1, <2>2, <2>3, <2>4, <3>1, <3>2 DEF VotesAreCounted
    <2> QED
      BY <2>2, <2>4 DEF VotesAreCounted
  <1>4. ASSUME NEW t \in Threads, Votes(t)
        PROVE  VotesAreCounted'
    <2>1. threads[t].stage = "vote" /\ phase' = phase
      BY <1>4 DEF Votes
    <2>2. PICK o \in CommandWrite(VoteSize), delta \in {-1, 1} :
            /\ OnlyMoves(t) /\ threads'[t].stage = "between"
            /\ AfterWrite(o) /\ votes' = votes + AsVote(delta, o)
            /\ perfVotes' = perfVotes + AsVote(delta, o)
      BY <1>4, VotesEffect
    <2>3. Cardinality(Awake)' = Cardinality(Awake)
      BY <2>1, <2>2, AwakeCount DEF IsAwake
    <2>4. (~lost') => ~lost
      BY <2>2, LostIsNotFound
    <2>5. AsVote(delta, o) \in Int
      BY DEF AsVote
    <2> QED
      BY <1>0, <2>1, <2>2, <2>3, <2>4, <2>5 DEF VotesAreCounted
  <1>5. ASSUME NEW t \in Threads, Sets(t)
        PROVE  VotesAreCounted'
    <2>1. UNCHANGED << phase, votes, perfVotes >>
      BY <1>5 DEF Sets
    <2>2. /\ OnlyMoves(t) /\ threads[t].stage = "command"
          /\ threads'[t].stage = "sleep" /\ \E o : AfterWrite(o)
      BY <1>5, SetsEffect
    <2> QED
      BY <2>1, <2>2, LostIsNotFound, VotesLeftAlone DEF IsAwake
  <1>6. ASSUME NEW t \in Threads, Writes(t)
        PROVE  VotesAreCounted'
    <2>1. UNCHANGED << phase, votes, perfVotes >>
      BY <1>6 DEF Writes
    <2>2. /\ OnlyMoves(t) /\ threads[t].stage = "command"
          /\ threads'[t].stage \in {"sleep", "reading"}
          /\ \/ \E o : AfterWrite(o)
             \/ lost' = lost
      BY <1>6, WritesEffect
    <2> QED
      BY <2>1, <2>2, LostIsNotFound, VotesLeftAlone DEF IsAwake
  <1>7. ASSUME NEW t \in Threads, Reads(t)
        PROVE  VotesAreCounted'
    <2>1. UNCHANGED << phase, votes, perfVotes, lost >>
      BY <1>7 DEF Reads
    <2>2. /\ OnlyMoves(t) /\ threads[t].stage = "reading"
          /\ threads'[t].stage = "sleep"
      BY <1>7, ReadsEffect
    <2> QED
      BY <2>1, <2>2, VotesLeftAlone DEF IsAwake
  <1>8. ASSUME NEW t \in Threads, Ioctls(t)
        PROVE  VotesAreCounted'
    <2>1. UNCHANGED << phase, votes, perfVotes, lost >>
      BY <1>8 DEF Ioctls
    <2>2. /\ OnlyMoves(t) /\ threads[t].stage = "ioctl"
          /\ threads'[t].stage = "between"
      BY <1>8, IoctlsEffect
    <2> QED
      BY <2>1, <2>2, VotesLeftAlone DEF IsAwake
  <1>9. ASSUME HandsOver
        PROVE  VotesAreCounted'
    <2>1. PICK t \in Threads :
            /\ threads[t].stage \in {"idle", "answered"} /\ OnlyMoves(t)
            /\ \/ threads'[t] = Idle
               \/ \E r : threads'[t] = Starting(r)
            /\ phase # "dead" /\ UNCHANGED << votes, perfVotes, lost >>
      BY <1>9, HandsOverEffect
    <2>2. threads'[t].stage \in {"idle", "between"}
      BY <2>1, HandedOver
    <2> QED
      BY <2>1, <2>2, VotesLeftAlone DEF IsAwake
  <1>10. CASE phase' = "dead"
    BY <1>10 DEF VotesAreCounted
  <1>11. CASE UNCHANGED vars
    BY <1>11 DEF VotesAreCounted, Awake, IsAwake, vars
  <1> QED
    BY <1>1, <1>2, <1>3, <1>4, <1>5, <1>6, <1>7, <1>8, <1>9, <1>10, <1>11,
       Steps DEF Dies

(* Initially nobody votes. *)
LEMMA CountAtFirst == Init => VotesAreCounted
  <1> SUFFICES ASSUME Init
               PROVE  VotesAreCounted
    OBVIOUS
  <1>1. \A t \in Threads : threads[t].stage \in {"idle", "between"}
    BY IdleIsThread DEF Init
  <1>2. Awake = {}
    BY <1>1 DEF Awake, IsAwake
  <1> QED
    BY <1>2, FS_EmptySet DEF Init, VotesAreCounted

(* With no thread between two votes, the count is that of the perf service. *)
LEMMA VotesComeBack == AccessTypeOK /\ VotesAreCounted => AccessesReturnTheirVote
  <1> SUFFICES ASSUME AccessTypeOK, VotesAreCounted, phase # "dead", ~lost,
                      \A t \in Threads : threads[t].stage \in
                        {"idle", "between", "answered", "wake", "vote"}
               PROVE  votes = perfVotes
    BY DEF AccessesReturnTheirVote
  <1>1. Awake = {}
    BY DEF Awake, IsAwake
  <1> QED
    BY <1>1, FS_EmptySet DEF AccessTypeOK, VotesAreCounted

-----------------------------------------------------------------------------
(* The calls of a PUT. *)
LEMMA PutRequest ==
  ASSUME NEW r \in Puts
  PROVE  /\ r.name = "putModule" /\ IsSequence(r.payloads)
         /\ Len(r.payloads) \in Nat /\ Len(r.payloads) = Len(Children(r))
  <1>1. r.name = "putModule" /\ IsComplete(r)
    BY RequestAssumption DEF Puts
  <1>2. Len(r.payloads) \in Nat
    BY <1>1, AppendedSequence DEF IsComplete
  <1>3. Len(r.payloads) = Len(Children(r))
    BY <1>1, EmptySequence DEF IsComplete, Children
  <1> QED
    BY <1>1, <1>2, <1>3 DEF IsComplete

(* An answer is told from a call by its name. *)
LEMMA Answers ==
  /\ \A status : IsAnswer(Answer(status)) /\ Status(Answer(status)) = status
  /\ \A name : Call(name).name = name
  BY DEF IsAnswer, Answer, Status, Call

(* The next call of a PUT sets its next block, or it answers. *)
LEMMA PutCall ==
  ASSUME NEW r \in Puts, NEW got, IsSequence(got), NEW learnt,
         NEW call, call = NextCall(platform, learnt, r, got)
  PROVE  \/ /\ IsAnswer(call)
            /\ Status(call) = "200" =>
                 ~Failed(got) /\ Len(got) + 1 > Len(r.payloads)
         \/ /\ ~Failed(got) /\ Len(got) < Len(r.payloads)
            /\ call.name = "setModuleParameter"
            /\ call.payload = r.payloads[Len(got) + 1]
            /\ AccessOf(learnt, call) \in SetAccesses
  <1> DEFINE n == Len(got) + 1
  <1>1. Len(got) \in Nat
    BY AppendedSequence
  <1>2. call = Module(learnt, r, got)
    BY PutRequest DEF NextCall
  <1>3. CASE ~IsKnownModule(learnt, r)
    <2>1. call = Answer("404")
      BY <1>2, <1>3, PutRequest, Zenon DEF Module
    <2> QED
      BY <2>1, Answers
  <1>4. CASE IsKnownModule(learnt, r)
    <2>1. call = SetModuleControl(r, got)
      BY <1>2, <1>4, PutRequest DEF Module
    <2>2. CASE Failed(got)
      <3>1. call = Answer("500")
        BY <2>1, <2>2 DEF SetModuleControl
      <3> QED
        BY <3>1, Answers
    <2>3. CASE ~Failed(got) /\ n > Len(r.payloads)
      <3>1. call = Answer("200")
        BY <2>1, <2>3, PutRequest DEF SetModuleControl
      <3> QED
        BY <2>3, <3>1, Answers
    <2>4. CASE ~Failed(got) /\ n <= Len(r.payloads)
      <3> DEFINE set == [CallOf("setModuleParameter", r.id) EXCEPT
                           !.param   = Children(r)[n].param,
                           !.payload = r.payloads[n]]
      <3>1. call = IF IsSettable(Children(r)[n], r.payloads[n])
                     THEN set ELSE Answer("500")
        BY <2>1, <2>4, <1>1, PutRequest DEF SetModuleControl
      <3>2. CASE call = Answer("500")
        BY <3>2, Answers
      <3>3. CASE call = set
        <4>1. /\ call.name = "setModuleParameter"
              /\ call.payload = r.payloads[n]
              /\ call.module = r.id[1] /\ call.instance = r.id[2]
              /\ call.param = Children(r)[n].param
          BY <3>3 DEF CallOf, Call
        <4>2. AccessOf(learnt, call) =
                ConfigSet(r.id[1], r.id[2], Children(r)[n].param,
                          r.payloads[n])
          BY <4>1 DEF AccessOf
        <4>3. n \in 1 .. Len(Children(r))
          BY <1>1, <2>4, PutRequest
        <4>4. AccessOf(learnt, call) \in SetAccesses
          BY <4>2, <4>3 DEF SetAccesses
        <4>5. Len(got) < Len(r.payloads)
          BY <1>1, <2>4, PutRequest
        <4> QED
          BY <2>4, <4>1, <4>4, <4>5
      <3> QED
        BY <3>1, <3>2, <3>3
    <2> QED
      BY <1>1, <2>2, <2>3, <2>4, PutRequest
  <1> QED
    BY <1>3, <1>4

(* What a step leaves of the call that it is a step of. *)
LEMMA SettingIsKept ==
  ASSUME NEW t \in Threads, Keeps(t, {"request", "got", "call", "access"})
  PROVE  /\ IsSetting(threads'[t]) <=> IsSetting(threads[t])
         /\ Blocks(threads'[t]) = Blocks(threads[t])
         /\ threads'[t].request = threads[t].request
         /\ threads'[t].got = threads[t].got
         /\ threads'[t].call = threads[t].call
         /\ threads'[t].access = threads[t].access
  BY DEF Keeps, IsSetting, Blocks

(* A PUT asks for its next block, or answers: with 200 after the last one. *)
LEMMA PutAsksNext ==
  ASSUME AccessTypeOK, NEW t \in Threads, PutGoesOn(threads[t]), GoesOn(t),
         IsPut(threads[t])
  PROVE  /\ threads'[t].request = threads[t].request
         /\ threads[t].request \in Puts
         /\ IsSequence(threads'[t].got)
         /\ \/ /\ threads'[t].stage = "answered"
               /\ Status(threads'[t].call) = "200" =>
                    /\ ~Failed(threads'[t].got)
                    /\ Len(threads'[t].got) + 1 > Blocks(threads[t])
            \/ /\ threads'[t].stage \in {"wake", "ioctl"}
               /\ IsSetting(threads'[t]) /\ ~Failed(threads'[t].got)
  <1> DEFINE now == threads'[t]
             r   == threads[t].request
  <1>1. /\ IsThread(now) /\ now.request = r /\ AsksNext(t)
      BY GoesOnEffect DEF Keeps
  <1>2. r \in Puts /\ IsSequence(now.got)
    BY <1>1 DEF PutGoesOn, IsThread
  <1>3. PICK learnt :
          /\ now.call = NextCall(platform, learnt, r, now.got)
          /\ now.stage = StageOf(now.call)
          /\ IsDriverCall(now.call) => now.access = AccessOf(learnt, now.call)
    BY <1>1 DEF AsksNext
  <1> HIDE DEF now, r
  <1>4. CASE /\ IsAnswer(now.call)
             /\ Status(now.call) = "200" =>
                  ~Failed(now.got) /\ Len(now.got) + 1 > Len(r.payloads)
    <2>1. now.stage = "answered"
      BY <1>3, <1>4, StageOfACall DEF AccessTypeOK
    <2> QED
      BY <1>1, <1>2, <1>4, <2>1 DEF Blocks, now, r
  <1>5. CASE /\ ~Failed(now.got) /\ Len(now.got) < Len(r.payloads)
             /\ now.call.name = "setModuleParameter"
             /\ now.call.payload = r.payloads[Len(now.got) + 1]
             /\ AccessOf(learnt, now.call) \in SetAccesses
    <2>1. now.stage \in {"wake", "ioctl"}
      <3>1. ~IsAnswer(now.call) /\ now.call.name # "vote"
        BY <1>5 DEF IsAnswer
      <3> QED
        BY <1>3, <3>1, StageOfACall DEF AccessTypeOK
    <2>2. now.access = AccessOf(learnt, now.call)
      BY <1>3, <1>5 DEF IsDriverCall
    <2>3. IsSetting(now)
      BY <1>1, <1>5, <2>2, SetAccess DEF IsSetting, Blocks
    <2> QED
      BY <1>1, <1>2, <1>5, <2>1, <2>3 DEF now, r
  <1> QED
    BY <1>2, <1>3, <1>4, <1>5, PutCall

(* A PUT has but settings between its first and its last step. *)
LEMMA PutOfAStep ==
  ASSUME NEW t \in Threads, PutGoesOn(threads[t]),
         Keeps(t, {"request", "got", "call", "access"}),
         << threads[t].stage, threads'[t].stage >> \in
           { << "wake", "command" >>, << "wake", "between" >>,
             << "sleep", "between" >>, << "command", "sleep" >>,
             << "ioctl", "between" >> }
  PROVE  /\ PutGoesOn(threads'[t])
         /\ IsPut(threads'[t]) <=> IsPut(threads[t])
         /\ IsPut(threads[t]) =>
              IsSetting(threads[t]) /\ IsSetting(threads'[t])
  <1>1. /\ threads[t].stage \in {"wake", "command", "sleep", "ioctl"}
        /\ threads'[t].stage \in {"command", "between", "sleep"}
    OBVIOUS
  <1> QED
    BY <1>1, SettingIsKept DEF PutGoesOn, IsPut

(* A PUT starts with nothing applied. *)
LEMMA PutHandedOver ==
  ASSUME AccessTypeOK, NEW t \in Threads,
         \/ threads'[t] = Idle
         \/ \E r : /\ threads'[t] = Starting(r)
                   /\ r \in ClientRequests \/ r.name = "destroy"
  PROVE  PutGoesOn(threads'[t]) /\ PutIsInOrder(threads'[t])
  <1>1. CASE threads'[t] = Idle
    BY <1>1, IdleIsThread DEF PutGoesOn, PutIsInOrder, IsPut
  <1>2. ASSUME NEW r, threads'[t] = Starting(r),
               r \in ClientRequests \/ r.name = "destroy"
        PROVE  PutGoesOn(threads'[t]) /\ PutIsInOrder(threads'[t])
    <2> DEFINE now == threads'[t]
    <2>1. /\ now.stage = "between" /\ now.request = r
          /\ now.call = Call("none") /\ now.got = << >>
          /\ now.applied = << >>
      BY <1>2, IdleIsThread
    <2> HIDE DEF now
    <2>2. CASE ~IsPut(now)
      BY <2>2 DEF PutGoesOn, PutIsInOrder, now
    <2>3. CASE IsPut(now)
      <3>1. r \in Puts
        BY <1>2, <2>1, <2>3 DEF IsPut, Puts
      <3>2. PutGoesOn(now)
        BY <2>1, <3>1 DEF PutGoesOn
      <3>3. IsInOrder(now)
        BY <2>1, <3>1, PutRequest, EmptySequence DEF IsInOrder, Blocks
      <3>4. ~IsSetting(now)
        BY <2>1, Answers DEF IsSetting
      <3>5. Counted(now)
        BY <2>1, <3>4, EmptySequence DEF Counted
      <3> QED
        BY <2>1, <3>2, <3>3, <3>5 DEF PutIsInOrder, now
    <2> QED
      BY <2>2, <2>3
  <1> QED
    BY <1>1, <1>2

(* What holds of the thread that moves holds of all of them. *)
LEMMA EachThread ==
  ASSUME NEW t \in Threads, OnlyMoves(t)
  PROVE  /\ PutsGoOn /\ PutGoesOn(threads'[t]) => PutsGoOn'
         /\ PutsAreInOrder /\ (lost => lost') /\
              (~lost' => PutIsInOrder(threads'[t])) => PutsAreInOrder'
  BY DEF PutsGoOn, PutsAreInOrder, OnlyMoves

(* A set has one result more, which fails if its reply did. *)
LEMMA ResultOfASetting ==
  ASSUME AccessTypeOK, NEW t \in Threads, IsSetting(threads[t]), GoesOn(t)
  PROVE  LET got == threads'[t].got
         IN  /\ Len(got) = Len(threads[t].got) + 1
             /\ ~Failed(got) => Succeeds(threads[t].reply)
  <1> DEFINE thread == threads[t]
             result == Judged(thread, thread.reply)
  <1>1. thread.call.name = "setModuleParameter"
    BY DEF IsSetting
  <1>2. ResultOf(handler, thread.call, thread.reply) = thread.reply
    BY <1>1 DEF ResultOf
  <1>3. threads'[t].got = Append(thread.got, result)
    BY <1>1, <1>2, GoesOnEffect DEF HasOneResultMore
  <1>4. Succeeds(result) <=> Succeeds(thread.reply)
    BY DEF Judged, Succeeds
  <1>5. IsSequence(thread.got)
    BY DEF AccessTypeOK, IsThread
  <1> HIDE DEF thread, result
  <1> DEFINE got == Append(thread.got, result)
  <1>6. /\ Len(got) = Len(thread.got) + 1 /\ Len(thread.got) \in Nat
        /\ got[Len(got)] = result
    BY <1>5, AppendedSequence
  <1> HIDE DEF got
  <1>7. got # << >> /\ Last(got) = result
    <2>1. Len(got) # 0
      BY <1>6
    <2>2. got # << >>
      BY <2>1, EmptySequence
    <2>3. Last(got) = got[Len(got)]
      BY DEF Last
    <2> QED
      BY <1>6, <2>2, <2>3
  <1>8. ~Failed(got) => Succeeds(result)
    BY <1>7 DEF Failed
  <1> QED
    BY <1>3, <1>4, <1>6, <1>8 DEF got, thread

(* The result of a block that was applied is counted, and a 200 has them all. *)
LEMMA PutInOrderAfterAResult ==
  ASSUME AccessTypeOK, NEW t \in Threads, PutGoesOn(threads[t]),
         PutIsInOrder(threads[t]), GoesOn(t), IsPut(threads[t])
  PROVE  PutIsInOrder(threads'[t])
  <1> DEFINE thread == threads[t]
             now    == threads'[t]
  <1>1. /\ now.request = thread.request /\ now.applied = thread.applied
        /\ thread.stage = "between"
    BY GoesOnEffect DEF Keeps, GoesOn
  <1>2. IsInOrder(now) /\ Blocks(now) = Blocks(thread)
    BY <1>1 DEF PutIsInOrder, IsInOrder, Blocks
  <1>3. /\ Len(thread.applied) \in Nat /\ Len(thread.got) \in Nat
        /\ Blocks(thread) \in Nat
    BY AppendedSequence, PutRequest, PutAsksNext
       DEF AccessTypeOK, IsThread, Blocks
  <1>4. Counted(thread)
    BY DEF PutIsInOrder
  <1>5. /\ ~Failed(now.got) => Len(now.applied) = Len(now.got)
        /\ Len(now.got) <= Blocks(now)
        /\ Len(now.got) \in Nat
    <2>1. CASE IsSetting(thread)
      <3>1. /\ Len(now.got) = Len(thread.got) + 1
            /\ ~Failed(now.got) => Succeeds(thread.reply)
        BY <2>1, ResultOfASetting
      <3>2. Len(thread.got) < Blocks(thread)
        BY <2>1 DEF IsSetting
      <3>3. Succeeds(thread.reply) =>
              Len(thread.applied) = Len(thread.got) + 1
        BY <1>1, <1>4, <2>1 DEF Counted
      <3> QED
        BY <1>1, <1>2, <1>3, <3>1, <3>2, <3>3
    <2>2. CASE ~IsSetting(thread)
      <3>1. thread.call = Call("none")
        BY <1>1, <2>2 DEF PutGoesOn
      <3>2. now.got = << >>
        BY <3>1, Answers, GoesOnEffect DEF HasOneResultMore
      <3>3. Len(thread.applied) = 0
        BY <1>1, <1>4, <2>2 DEF Counted
      <3> QED
        BY <1>1, <1>2, <1>3, <3>2, <3>3, EmptySequence
    <2> QED
      BY <2>1, <2>2
  <1>6. \/ /\ now.stage = "answered"
           /\ Status(now.call) = "200" =>
                ~Failed(now.got) /\ Len(now.got) + 1 > Blocks(thread)
        \/ /\ now.stage \in {"wake", "ioctl"} /\ ~Failed(now.got)
    BY PutAsksNext
  <1> HIDE DEF now, thread
  <1>7. Counted(now)
    BY <1>5, <1>6 DEF Counted
  <1>8. now.stage = "answered" /\ Status(now.call) = "200"
          => Len(now.applied) = Blocks(now)
    BY <1>2, <1>3, <1>5, <1>6
  <1> QED
    BY <1>2, <1>7, <1>8 DEF PutIsInOrder, now

(* A step of a setting that applies its block, or not. *)
LEMMA PutInOrderAfterAStep ==
  ASSUME AccessTypeOK, NEW t \in Threads, PutGoesOn(threads[t]),
         PutIsInOrder(threads[t]), IsPut(threads[t]),
         IsThread(threads'[t]), IsPut(threads'[t]),
         Keeps(t, {"request", "got", "call", "access"}),
         IsSetting(threads[t]), IsSetting(threads'[t]),
         threads'[t].stage \in {"command", "between", "sleep"},
         \/ /\ threads'[t].applied = threads[t].applied
            /\ \/ threads'[t].stage = "command" /\ threads[t].stage = "wake"
               \/ /\ threads'[t].stage # "command"
                  /\ \/ ~Succeeds(threads'[t].reply)
                     \/ /\ threads[t].stage = "sleep"
                        /\ threads'[t].reply = threads[t].reply
         \/ /\ threads'[t].applied = Append(threads[t].applied,
                                            threads[t].call)
            /\ threads[t].stage \in {"command", "ioctl"}
            /\ threads'[t].stage # "command",
         threads[t].stage \in {"wake", "command", "sleep", "ioctl"}
  PROVE  PutIsInOrder(threads'[t])
  <1> DEFINE thread == threads[t]
             now    == threads'[t]
  <1>1. /\ Blocks(now) = Blocks(thread) /\ now.got = thread.got
        /\ now.request = thread.request
    BY SettingIsKept
  <1>2. /\ Len(thread.applied) \in Nat /\ Len(thread.got) \in Nat
        /\ IsSequence(thread.applied)
        /\ DOMAIN thread.applied = 1 .. Len(thread.applied)
    BY AppendedSequence DEF AccessTypeOK, IsThread
  <1>3. IsInOrder(thread) /\ Counted(thread) /\ Blocks(thread) \in Nat
    BY PutRequest DEF PutIsInOrder, PutGoesOn, Blocks
  <1>4. CASE now.applied = thread.applied
    <2>1. IsInOrder(now)
      BY <1>1, <1>3, <1>4 DEF IsInOrder
    <2>2. Len(thread.applied) \in {Len(thread.got), Len(thread.got) + 1}
      BY <1>3 DEF Counted
    <2>3. CASE now.stage = "command"
      <3>1. thread.stage \in {"wake", "command"}
        BY <2>3
      <3>2. Len(thread.applied) = Len(thread.got)
        BY <1>3, <3>1 DEF Counted
      <3> QED
        BY <1>1, <1>4, <2>1, <2>3, <3>2 DEF PutIsInOrder, Counted
    <2>4. CASE now.stage # "command"
      <3>1. \/ ~Succeeds(now.reply)
            \/ thread.stage = "sleep" /\ now.reply = thread.reply
            \/ Len(now.applied) = Len(thread.got) + 1
        <4>1. CASE now.applied = Append(thread.applied, thread.call)
          <5>1. Len(now.applied) = Len(thread.applied) + 1
            BY <1>2, <4>1, AppendedSequence
          <5> QED
            BY <1>2, <1>4, <5>1
        <4> QED
          BY <2>4, <4>1
      <3>2. Succeeds(now.reply) => Len(now.applied) = Len(thread.got) + 1
        BY <1>3, <1>4, <3>1 DEF Counted
      <3>3. now.stage \in {"between", "sleep"}
        BY <2>4
      <3> QED
        BY <1>1, <1>4, <2>1, <2>2, <3>2, <3>3 DEF PutIsInOrder, Counted
    <2> QED
      BY <2>3, <2>4
  <1>5. CASE /\ now.applied = Append(thread.applied, thread.call)
             /\ thread.stage \in {"command", "ioctl"}
             /\ now.stage # "command"
    <2>1. /\ Len(now.applied) = Len(thread.applied) + 1
          /\ IsSequence(now.applied)
          /\ \A i \in 1 .. Len(thread.applied) :
               now.applied[i] = thread.applied[i]
          /\ now.applied[Len(thread.applied) + 1] = thread.call
      BY <1>2, <1>5, AppendedSequence
    <2>2. DOMAIN now.applied = 1 .. Len(thread.applied) + 1
      BY <2>1, AppendedSequence
    <2>3. Len(thread.applied) = Len(thread.got)
      BY <1>3, <1>5 DEF Counted
    <2>4. /\ Len(thread.got) < Blocks(thread)
          /\ thread.call.payload =
               thread.request.payloads[Len(thread.got) + 1]
      BY DEF IsSetting
    <2>5. \A i \in DOMAIN now.applied :
            now.applied[i].payload = thread.request.payloads[i]
      <3> SUFFICES ASSUME NEW i \in 1 .. Len(thread.applied) + 1
                   PROVE  now.applied[i].payload = thread.request.payloads[i]
        BY <2>2
      <3>1. CASE i = Len(thread.applied) + 1
        BY <2>1, <2>3, <2>4, <3>1
      <3>2. CASE i \in 1 .. Len(thread.applied)
        BY <1>2, <1>3, <2>1, <3>2 DEF IsInOrder
      <3> QED
        BY <1>2, <3>1, <3>2
    <2>6. IsInOrder(now)
      BY <1>1, <1>2, <1>3, <2>1, <2>3, <2>4, <2>5 DEF IsInOrder
    <2>7. now.stage \in {"between", "sleep"}
      BY <1>5
    <2>8. Counted(now)
      BY <1>1, <2>1, <2>3, <2>7 DEF Counted
    <2> QED
      BY <2>6, <2>7, <2>8 DEF PutIsInOrder
  <1> QED
    BY <1>4, <1>5

(* Every step keeps the order of what is applied. *)
LEMMA PutsAreKept ==
  AccessTypeOK /\ PutsGoOn /\ PutsAreInOrder /\ [Next]_vars
    => PutsGoOn' /\ PutsAreInOrder'
  <1> SUFFICES ASSUME AccessTypeOK, PutsGoOn, PutsAreInOrder, [Next]_vars
               PROVE  PutsGoOn' /\ PutsAreInOrder'
    OBVIOUS
  <1>a. \A t \in Threads :
          /\ PutGoesOn(threads[t]) /\ IsThread(threads[t])
          /\ ~lost => PutIsInOrder(threads[t])
    BY DEF PutsGoOn, PutsAreInOrder, AccessTypeOK
  <1>1. ASSUME NEW t \in Threads, GoesOn(t)
        PROVE  PutsGoOn' /\ PutsAreInOrder'
    <2>1. lost' = lost /\ threads[t].stage = "between"
      BY <1>1 DEF GoesOn
    <2>2. OnlyMoves(t) /\ threads'[t].request = threads[t].request
      BY <1>1, GoesOnEffect DEF Keeps
    <2>3. CASE ~IsPut(threads[t])
      <3>1. ~IsPut(threads'[t])
        BY <2>1, <2>2, <2>3 DEF IsPut
      <3> QED
        BY <2>1, <2>2, <3>1, EachThread DEF PutGoesOn, PutIsInOrder
    <2>4. CASE IsPut(threads[t])
      <3>1. /\ threads[t].request \in Puts
            /\ threads'[t].stage \in {"answered", "wake", "ioctl"}
            /\ threads'[t].stage # "answered" => IsSetting(threads'[t])
        BY <1>1, <1>a, <2>4, PutAsksNext
      <3>2. PutGoesOn(threads'[t])
        BY <2>2, <3>1 DEF PutGoesOn
      <3>3. ~lost => PutIsInOrder(threads'[t])
        BY <1>1, <1>a, <2>4, PutInOrderAfterAResult
      <3> QED
        BY <2>1, <2>2, <3>2, <3>3, EachThread
    <2> QED
      BY <2>3, <2>4
  <1>b. ASSUME NEW t \in Threads, OnlyMoves(t), IsThread(threads'[t]),
               Keeps(t, {"request", "got", "call", "access"}),
               << threads[t].stage, threads'[t].stage >> \in
                 { << "wake", "command" >>, << "wake", "between" >>,
                   << "sleep", "between" >>, << "command", "sleep" >>,
                   << "ioctl", "between" >> },
               lost => lost',
               (~lost') /\ IsSetting(threads[t]) =>
                 \/ /\ threads'[t].applied = threads[t].applied
                    /\ \/ /\ threads'[t].stage = "command"
                          /\ threads[t].stage = "wake"
                       \/ /\ threads'[t].stage # "command"
                          /\ \/ ~Succeeds(threads'[t].reply)
                             \/ /\ threads[t].stage = "sleep"
                                /\ threads'[t].reply = threads[t].reply
                 \/ /\ threads'[t].applied = Append(threads[t].applied,
                                                    threads[t].call)
                    /\ threads[t].stage \in {"command", "ioctl"}
                    /\ threads'[t].stage # "command"
        PROVE  PutsGoOn' /\ PutsAreInOrder'
    <2>1. /\ PutGoesOn(threads'[t])
          /\ IsPut(threads'[t]) <=> IsPut(threads[t])
          /\ IsPut(threads[t]) =>
               IsSetting(threads[t]) /\ IsSetting(threads'[t])
      BY <1>a, <1>b, PutOfAStep
    <2>2. CASE ~IsPut(threads[t])
      BY <1>b, <2>1, <2>2, EachThread DEF PutIsInOrder
    <2>3. CASE IsPut(threads[t])
      <3>1. /\ threads'[t].stage \in {"command", "between", "sleep"}
            /\ threads[t].stage \in {"wake", "command", "sleep", "ioctl"}
        BY <1>b
      <3>2. ~lost' => PutIsInOrder(threads'[t])
        <4> SUFFICES ASSUME ~lost'
                     PROVE  PutIsInOrder(threads'[t])
          OBVIOUS
        <4>1. PutIsInOrder(threads[t])
          BY <1>a, <1>b
        <4> QED
          BY <1>a, <1>b, <2>1, <2>3, <3>1, <4>1, PutInOrderAfterAStep
      <3> QED
        BY <1>b, <2>1, <3>2, EachThread
    <2> QED
      BY <2>2, <2>3
  <1>2. ASSUME NEW t \in Threads, Wakes(t)
        PROVE  PutsGoOn' /\ PutsAreInOrder'
    <2>1. threads[t].stage = "wake"
      BY <1>2 DEF Wakes
    <2>2. /\ OnlyMoves(t) /\ IsThread(threads'[t])
          /\ Keeps(t, {"request", "got", "call", "access", "applied"})
          /\ \/ threads'[t].stage = "command"
             \/ threads'[t].stage = "between" /\ ~Succeeds(threads'[t].reply)
          /\ \E o : AfterWrite(o)
      BY <1>2, WakesEffect
    <2>3. lost => lost'
      BY <2>2, LostIsNotFound, Zenon
    <2> QED
      BY <1>b, <2>1, <2>2, <2>3 DEF Keeps
  <1>3. ASSUME NEW t \in Threads, Sleeps(t)
        PROVE  PutsGoOn' /\ PutsAreInOrder'
    <2>1. threads[t].stage = "sleep"
      BY <1>3 DEF Sleeps
    <2>2. /\ \E o : AfterWrite(o)
          /\ \/ /\ OnlyMoves(t) /\ IsThread(threads'[t])
                /\ Keeps(t, {"request", "got", "call", "access", "reply",
                             "applied"})
                /\ threads'[t].stage = "between"
             \/ UNCHANGED threads
      BY <1>3, SleepsEffect
    <2>3. lost => lost'
      BY <2>2, LostIsNotFound, Zenon
    <2>4. CASE UNCHANGED threads
      BY <2>3, <2>4 DEF PutsGoOn, PutsAreInOrder
    <2> QED
      BY <1>b, <2>1, <2>2, <2>3, <2>4 DEF Keeps
  <1>4. ASSUME NEW t \in Threads, Votes(t)
        PROVE  PutsGoOn' /\ PutsAreInOrder'
    <2>1. threads[t].stage = "vote"
      BY <1>4 DEF Votes
    <2>2. /\ OnlyMoves(t) /\ threads'[t].request = threads[t].request
          /\ \E o : AfterWrite(o)
      BY <1>4, VotesEffect DEF Keeps
    <2>3. lost => lost'
      BY <2>2, LostIsNotFound, Zenon
    <2>4. ~IsPut(threads'[t])
      BY <1>a, <2>1, <2>2 DEF PutGoesOn, IsPut
    <2> QED
      BY <2>2, <2>3, <2>4, EachThread DEF PutGoesOn, PutIsInOrder
  <1>5. ASSUME NEW t \in Threads, Sets(t)
        PROVE  PutsGoOn' /\ PutsAreInOrder'
    <2>0. PICK size :
            \E o \in CommandWrite(size) :
              /\ AfterWrite(o)
              /\ threads'[t].applied =
                   IF o.delivered THEN Append(threads[t].applied,
                                              threads[t].call)
                                  ELSE threads[t].applied
              /\ Succeeds(threads'[t].reply) <=> Succeeds(o)
      BY <1>5, SetsEffect
    <2>1. PICK o \in CommandWrite(size) :
            /\ AfterWrite(o)
            /\ threads'[t].applied =
                 IF o.delivered THEN Append(threads[t].applied,
                                            threads[t].call)
                                ELSE threads[t].applied
            /\ Succeeds(threads'[t].reply) <=> Succeeds(o)
      BY <2>0
    <2>2. /\ threads[t].stage = "command" /\ threads'[t].stage = "sleep"
          /\ OnlyMoves(t) /\ IsThread(threads'[t])
          /\ Keeps(t, {"request", "got", "call", "access"})
      BY <1>5, SetsEffect
    <2>3. (~lost') => ~lost /\ (Succeeds(o) => o.delivered)
      BY <2>1, LostIsNotFound
    <2>4. CASE o.delivered
      BY <1>b, <2>1, <2>2, <2>3, <2>4
    <2>5. CASE ~o.delivered
      BY <1>b, <2>1, <2>2, <2>3, <2>5
    <2> QED
      BY <2>4, <2>5
  <1>6. ASSUME NEW t \in Threads, Writes(t) \/ Reads(t)
        PROVE  PutsGoOn' /\ PutsAreInOrder'
    <2>1. /\ OnlyMoves(t) /\ threads'[t].request = threads[t].request
          /\ \/ threads[t].stage = "command" /\ threads[t].access.get
             \/ threads[t].stage = "reading"
      BY <1>6, WritesEffect, ReadsEffect DEF Keeps
    <2>2. lost => lost'
      <3>1. CASE Writes(t)
        <4>1. (\E o : AfterWrite(o)) \/ lost' = lost
          BY <3>1, WritesEffect
        <4> QED
          BY <4>1, LostIsNotFound, Zenon
      <3>2. CASE Reads(t)
        BY <3>2 DEF Reads
      <3> QED
        BY <1>6, <3>1, <3>2
    <2>3. ~IsPut(threads[t])
      BY <1>a, <2>1 DEF PutGoesOn, IsSetting
    <2>4. ~IsPut(threads'[t])
      BY <2>1, <2>3 DEF IsPut
    <2> QED
      BY <2>1, <2>2, <2>4, EachThread DEF PutGoesOn, PutIsInOrder
  <1>8. ASSUME NEW t \in Threads, Ioctls(t)
        PROVE  PutsGoOn' /\ PutsAreInOrder'
    <2>1. lost' = lost
      BY <1>8 DEF Ioctls
    <2>2. /\ threads[t].stage = "ioctl" /\ threads'[t].stage = "between"
          /\ OnlyMoves(t) /\ IsThread(threads'[t])
          /\ Keeps(t, {"request", "got", "call", "access"})
      BY <1>8, IoctlsEffect
    <2>3. \/ /\ threads'[t].applied = threads[t].applied
             /\ IsSetting(threads[t]) => ~Succeeds(threads'[t].reply)
          \/ threads'[t].applied = Append(threads[t].applied, threads[t].call)
      BY <1>8, IoctlsEffect DEF IsSetting
    <2> QED
      BY <1>b, <2>1, <2>2, <2>3
  <1>9. ASSUME HandsOver
        PROVE  PutsGoOn' /\ PutsAreInOrder'
    <2>1. PICK t \in Threads :
            /\ OnlyMoves(t) /\ lost' = lost
            /\ \/ threads'[t] = Idle
               \/ \E r : /\ threads'[t] = Starting(r)
                         /\ r \in ClientRequests \/ r.name = "destroy"
      BY <1>9, HandsOverEffect
    <2> QED
      BY <2>1, PutHandedOver, EachThread
  <1>10. CASE UNCHANGED << threads, lost >>
    BY <1>10 DEF PutsGoOn, PutsAreInOrder
  <1> QED
    BY <1>1, <1>2, <1>3, <1>4, <1>5, <1>6, <1>8, <1>9, <1>10,
       Steps DEF Dies, vars

(* Initially there is no PUT. *)
LEMMA PutsAtFirst == Init => PutsGoOn /\ PutsAreInOrder
  <1> SUFFICES ASSUME Init
               PROVE  PutsGoOn /\ PutsAreInOrder
    OBVIOUS
  <1>1. \A t \in Threads : ~IsPut(threads[t])
    <2>1. Request("construct").name = "construct"
      BY DEF Request
    <2> QED
      BY <2>1, IdleIsThread DEF Init, IsPut
  <1> QED
    BY <1>1 DEF PutsGoOn, PutGoesOn, PutsAreInOrder, PutIsInOrder

(* As many blocks as there are, in order, are the blocks of the request. *)
LEMMA OrderIsSuccess ==
  AccessTypeOK /\ PutsGoOn /\ PutsAreInOrder => SuccessMeansApplied
  <1> SUFFICES ASSUME AccessTypeOK, PutsGoOn, PutsAreInOrder,
                      NEW t \in Clients, Gave200(t),
                      threads[t].request.name = "putModule", ~lost
               PROVE  [i \in DOMAIN threads[t].applied |->
                         threads[t].applied[i].payload]
                        = threads[t].request.payloads
    BY DEF SuccessMeansApplied
  <1> DEFINE applied  == threads[t].applied
             payloads == threads[t].request.payloads
  <1>1. t \in Threads /\ IsThread(threads[t]) /\ IsPut(threads[t])
    BY DEF Threads, AccessTypeOK, Gave200, Answered, IsPut
  <1>2. /\ Len(applied) = Len(payloads)
        /\ \A i \in DOMAIN applied : applied[i].payload = payloads[i]
    BY <1>1 DEF PutsAreInOrder, PutIsInOrder, IsInOrder, Blocks,
                Gave200, Answered
  <1>3. IsSequence(applied) /\ IsSequence(payloads)
    BY <1>1, PutRequest DEF IsThread, PutsGoOn, PutGoesOn
  <1>4. DOMAIN applied = 1 .. Len(applied)
        /\ DOMAIN payloads = 1 .. Len(payloads)
    BY <1>3, AppendedSequence
  <1>5. payloads = [i \in 1 .. Len(payloads) |-> payloads[i]]
    BY <1>3, LenProperties DEF IsSequence
  <1> HIDE DEF applied, payloads
  <1> QED
    BY <1>2, <1>4, <1>5 DEF applied, payloads

-----------------------------------------------------------------------------
(* While nothing fails, a command that has the mutex does not either. *)
LEMMA CommandSucceeds ==
  ASSUME AccessTypeOK, MutexIsHeld, NoErrorOfOurOwn, MutexIsFree,
         NEW size, NEW o \in CommandWrite(size), AfterWrite(o),
         platform' = platform, platform' = "linux", faults' = 0
  PROVE  /\ platform = "linux" /\ faults = 0
         /\ Succeeds(o) /\ stream'.sticky = FALSE /\ ~lost'
  <1>1. /\ o.cost \in {0, 1} /\ faults' = faults + o.cost /\ faults \in Nat
    BY WriteOutcomes DEF AfterWrite, AccessTypeOK
  <1>2. platform = "linux" /\ faults = 0 /\ o.cost = 0
    BY <1>1
  <1>3. ~stream.sticky /\ ~lost
    BY <1>2 DEF NoErrorOfOurOwn
  <1>4. ~stream.open
    BY DEF MutexIsHeld, MutexIsFree
  <1>5. Succeeds(o) /\ o.sticky = FALSE /\ o.delivered
    BY <1>2, <1>3, <1>4, WriteOutcomes
  <1>6. stream'.sticky = o.sticky
    BY DEF AfterWrite, AccessTypeOK
  <1>7. ~lost'
    BY <1>3, <1>5, Zenon DEF AfterWrite
  <1> QED
    BY <1>2, <1>5, <1>6, <1>7

(* It is enough to look at the thread that moves. *)
LEMMA UntroubledIsKept ==
  ASSUME NoErrorOfOurOwn, NEW t \in Threads, OnlyMoves(t),
         platform' = platform,
         platform' = "linux" /\ faults' = 0 =>
           /\ faults = 0 /\ stream'.sticky = FALSE /\ ~lost'
           /\ IsUntroubled(threads[t]) => IsUntroubled(threads'[t])
  PROVE  NoErrorOfOurOwn'
  BY DEF NoErrorOfOurOwn, OnlyMoves

(* A step that keeps the results, and the reply unless it is a success. *)
LEMMA UntroubledStep ==
  ASSUME NEW t \in Threads, Keeps(t, {"got"}),
         threads'[t].stage # "ioctl",
         \/ Succeeds(threads'[t].reply)
         \/ threads'[t].reply = threads[t].reply
  PROVE  IsUntroubled(threads[t]) => IsUntroubled(threads'[t])
  BY DEF IsUntroubled, Keeps

(* A result with nothing to decode is the reply. *)
LEMMA UntroubledResult ==
  ASSUME AccessTypeOK, NEW t \in Threads, GoesOn(t), platform = "linux",
         IsUntroubled(threads[t])
  PROVE  IsUntroubled(threads'[t])
  <1> DEFINE thread == threads[t]
             got    == threads'[t].got
  <1>1. /\ threads'[t].reply = thread.reply
        /\ AsksNext(t) /\ HasOneResultMore(t)
    BY GoesOnEffect DEF Keeps
  <1>2. threads'[t].stage # "ioctl"
    BY <1>1, StageOfACall DEF AsksNext, AccessTypeOK
  <1>3. \A i \in DOMAIN got : got[i].of \in Undecoded => Succeeds(got[i])
    <2>1. CASE thread.call.name = "none"
      <3>1. got = << >>
        BY <1>1, <2>1 DEF HasOneResultMore
      <3> QED
        BY <3>1
    <2>2. CASE thread.call.name # "none"
      <3> DEFINE result == ResultOf(handler, thread.call, thread.reply)
                 judged == Judged(thread, result)
      <3>1. got = Append(thread.got, judged)
        BY <1>1, <2>2 DEF HasOneResultMore
      <3>2. judged.of \in Undecoded => Succeeds(judged)
        <4>1. judged.of = thread.call.name /\ judged.thrown = result.thrown
          BY DEF Judged
        <4>2. thread.call.name \in Undecoded => result = thread.reply
          BY DEF ResultOf, Undecoded
        <4>3. Succeeds(thread.reply)
          BY DEF IsUntroubled
        <4> HIDE DEF result, judged
        <4> QED
          BY <4>1, <4>2, <4>3 DEF Succeeds
      <3>3. IsSequence(thread.got)
        BY DEF AccessTypeOK, IsThread
      <3> HIDE DEF judged, result
      <3>4. /\ Len(thread.got) \in Nat
            /\ DOMAIN thread.got = 1 .. Len(thread.got)
            /\ DOMAIN got = 1 .. Len(thread.got) + 1
            /\ \A i \in 1 .. Len(thread.got) : got[i] = thread.got[i]
            /\ got[Len(thread.got) + 1] = judged
        BY <3>1, <3>3, AppendedSequence
      <3>5. \A i \in 1 .. Len(thread.got) :
              thread.got[i].of \in Undecoded => Succeeds(thread.got[i])
        BY <3>4 DEF IsUntroubled
      <3> QED
        BY <3>2, <3>4, <3>5
    <2> QED
      BY <2>1, <2>2
  <1> QED
    BY <1>1, <1>2, <1>3 DEF IsUntroubled

(* Every step keeps the absence of errors. *)
LEMMA NoErrorIsKept ==
  AccessTypeOK /\ MutexIsHeld /\ NoErrorOfOurOwn /\ [Next]_vars => NoErrorOfOurOwn'
  <1> SUFFICES ASSUME AccessTypeOK, MutexIsHeld, NoErrorOfOurOwn, [Next]_vars
               PROVE  NoErrorOfOurOwn'
    OBVIOUS
  <1>a. /\ stream \in [open : BOOLEAN, sticky : BOOLEAN] /\ faults \in Nat
        /\ platform = "linux" /\ faults = 0 =>
             ~stream.sticky /\ ~lost
             /\ \A t \in Threads : threads[t].stage # "ioctl"
    BY DEF AccessTypeOK, NoErrorOfOurOwn, IsUntroubled
  <1>1. ASSUME NEW t \in Threads, GoesOn(t)
        PROVE  NoErrorOfOurOwn'
    <2>1. UNCHANGED << platform, stream, lost, faults >>
      BY <1>1 DEF GoesOn
    <2> QED
      BY <1>a, <1>1, <2>1, GoesOnEffect, UntroubledResult, UntroubledIsKept
  <1>2. ASSUME NEW t \in Threads, Wakes(t)
        PROVE  NoErrorOfOurOwn'
    <2>1. platform' = platform /\ MutexIsFree
      BY <1>2 DEF Wakes
    <2>2. PICK o \in CommandWrite(VoteSize) :
            /\ AfterWrite(o)
            /\ Succeeds(o) => threads'[t].reply = threads[t].reply
      BY <1>2, WakesEffect
    <2>3. /\ OnlyMoves(t) /\ Keeps(t, {"got"})
          /\ threads'[t].stage \in {"command", "between"}
      BY <1>2, WakesEffect DEF Keeps
    <2> QED
      BY <2>1, <2>2, <2>3, CommandSucceeds, UntroubledStep, UntroubledIsKept
  <1>3. ASSUME NEW t \in Threads, Sleeps(t)
        PROVE  NoErrorOfOurOwn'
    <2>1. platform' = platform /\ MutexIsFree
      BY <1>3 DEF Sleeps
    <2>2. PICK o \in CommandWrite(VoteSize) :
            /\ AfterWrite(o)
            /\ Succeeds(o) =>
                 /\ OnlyMoves(t) /\ Keeps(t, {"got", "reply"})
                 /\ threads'[t].stage = "between"
            /\ ~Succeeds(o) => UNCHANGED threads
      BY <1>3, SleepsEffect DEF Keeps
    <2>3. CASE platform' = "linux" /\ faults' = 0
      BY <2>1, <2>2, <2>3, CommandSucceeds, UntroubledStep,
         UntroubledIsKept DEF Keeps
    <2> QED
      BY <2>3 DEF NoErrorOfOurOwn
  <1>4. ASSUME NEW t \in Threads, Votes(t)
        PROVE  NoErrorOfOurOwn'
    <2>1. platform' = platform /\ MutexIsFree
      BY <1>4 DEF Votes
    <2>2. PICK o \in CommandWrite(VoteSize) :
            AfterWrite(o) /\ (Succeeds(o) => threads'[t].reply = Nothing)
      BY <1>4, VotesEffect
    <2>3. /\ OnlyMoves(t) /\ Keeps(t, {"got"})
          /\ threads'[t].stage = "between"
      BY <1>4, VotesEffect DEF Keeps
    <2> QED
      BY <2>1, <2>2, <2>3, CommandSucceeds, UntroubledStep,
         UntroubledIsKept, RepliesSucceed
  <1>5. ASSUME NEW t \in Threads, Sets(t)
        PROVE  NoErrorOfOurOwn'
    <2>1. platform' = platform /\ MutexIsFree
      BY <1>5 DEF Sets
    <2>2. PICK size :
            \E o \in CommandWrite(size) :
              AfterWrite(o) /\ (Succeeds(threads'[t].reply) <=> Succeeds(o))
      BY <1>5, SetsEffect
    <2>3. /\ OnlyMoves(t) /\ Keeps(t, {"got"})
          /\ threads'[t].stage = "sleep"
      BY <1>5, SetsEffect DEF Keeps
    <2> QED
      BY <2>1, <2>2, <2>3, CommandSucceeds, UntroubledStep, UntroubledIsKept
  <1>6. ASSUME NEW t \in Threads, Writes(t)
        PROVE  NoErrorOfOurOwn'
    <2>1. platform' = platform /\ MutexIsFree
      BY <1>6 DEF Writes
    <2>2. ~stream.open
      BY <2>1 DEF MutexIsHeld, MutexIsFree
    <2>3. /\ OnlyMoves(t) /\ Keeps(t, {"got"})
          /\ threads'[t].stage \in {"sleep", "reading"}
      BY <1>6, WritesEffect DEF Keeps
    <2>4. CASE \E o \in OpenErrors : AfterWrite(o)
      <3>1. PICK o \in OpenErrors : AfterWrite(o)
        BY <2>4
      <3>2. faults' = faults + o.cost /\ o.cost \in {0, 1}
            /\ (o.cost = 0 => stream.sticky)
        BY <2>2, <3>1, OpenOutcomes DEF AfterWrite
      <3>3. ~(platform' = "linux" /\ faults' = 0)
        BY <1>a, <2>1, <3>2
      <3> QED
        BY <3>3 DEF NoErrorOfOurOwn
    <2>5. CASE /\ stream' = [stream EXCEPT !.open = TRUE]
               /\ threads'[t].reply = threads[t].reply
               /\ UNCHANGED << lost, faults >>
      <3>1. stream'.sticky = stream.sticky /\ stream.sticky \in BOOLEAN
        BY <1>a, <2>5
      <3> QED
        BY <1>a, <2>1, <2>3, <2>5, <3>1, UntroubledStep, UntroubledIsKept
    <2> QED
      BY <1>6, <2>4, <2>5, WritesEffect
  <1>7. ASSUME NEW t \in Threads, Reads(t)
        PROVE  NoErrorOfOurOwn'
    <2>1. platform' = platform /\ lost' = lost
      BY <1>7 DEF Reads
    <2>2. /\ OnlyMoves(t) /\ Keeps(t, {"got"})
          /\ threads'[t].stage = "sleep"
          /\ \/ faults' = faults + 1
             \/ /\ faults' = faults /\ Succeeds(threads'[t].reply)
                /\ stream'.sticky = stream.sticky
      BY <1>7, ReadsEffect DEF Keeps
    <2>3. CASE faults' = faults + 1
      BY <1>a, <2>3 DEF NoErrorOfOurOwn
    <2>4. CASE /\ faults' = faults /\ Succeeds(threads'[t].reply)
               /\ stream'.sticky = stream.sticky
      BY <1>a, <2>1, <2>2, <2>4, UntroubledStep, UntroubledIsKept
    <2> QED
      BY <2>2, <2>3, <2>4
  <1>8. ASSUME NEW t \in Threads, Ioctls(t)
        PROVE  NoErrorOfOurOwn'
    <2>1. platform' = platform
      BY <1>8 DEF Ioctls
    <2>2. threads[t].stage = "ioctl" /\ faults' \in {faults, faults + 1}
      BY <1>8, IoctlsEffect
    <2>3. ~(platform' = "linux" /\ faults' = 0)
      BY <1>a, <2>1, <2>2
    <2> QED
      BY <2>3 DEF NoErrorOfOurOwn
  <1>9. ASSUME HandsOver
        PROVE  NoErrorOfOurOwn'
    <2>1. PICK t \in Threads :
            /\ OnlyMoves(t)
            /\ \/ threads'[t] = Idle
               \/ \E r : threads'[t] = Starting(r)
            /\ UNCHANGED << platform, stream, lost, faults >>
      BY <1>9, HandsOverEffect
    <2>2. IsUntroubled(threads'[t])
      <3>1. /\ threads'[t].stage \in {"idle", "between"}
            /\ threads'[t].reply = Nothing /\ threads'[t].got = << >>
        BY <2>1, IdleIsThread DEF Idle
      <3> QED
        BY <3>1, RepliesSucceed DEF IsUntroubled
    <2> QED
      BY <1>a, <2>1, <2>2, UntroubledIsKept
  <1>10. CASE UNCHANGED << platform, stream, lost, faults, threads >>
    BY <1>10 DEF NoErrorOfOurOwn
  <1> QED
    BY <1>1, <1>2, <1>3, <1>4, <1>5, <1>6, <1>7, <1>8, <1>9, <1>10,
       Steps DEF Dies, vars

(* Initially nothing has failed. *)
LEMMA NoErrorAtFirst == Init => NoErrorOfOurOwn
  <1> SUFFICES ASSUME Init
               PROVE  NoErrorOfOurOwn
    OBVIOUS
  <1>1. /\ Idle.stage = "idle" /\ Idle.reply = Nothing /\ Idle.got = << >>
    BY DEF Idle
  <1>2. IsUntroubled(Idle) /\ IsUntroubled(Starting(Request("construct")))
    BY <1>1, IdleIsThread, RepliesSucceed DEF IsUntroubled
  <1>3. stream.sticky = FALSE /\ lost = FALSE
    BY DEF Init
  <1> QED
    BY <1>2, <1>3 DEF Init, NoErrorOfOurOwn

-----------------------------------------------------------------------------
(* The threads that reach the modules go through the stages of a request,  *)
(* a call and its commands, and the counts stay counts, whatever the codec *)
(* makes of the bytes.                                                     *)
THEOREM AccessIsTyped == Spec => []AccessTypeOK
  <1> QED
    BY InitIsTyped, TypeIsKept, PTL DEF Spec

(* mClientMutex: a command of debugfs that goes on is the only one, the    *)
(* file is open for that command only, and whoever gets the mutex finds it *)
(* closed, however the commands before it have failed.                     *)
THEOREM OneCommandAtATime == Spec => [](MutexIsHeld /\ CommandsAreExclusive)
  <1> QED
    BY InitIsTyped, TypeIsKept, MutexAtFirst, MutexIsKept,
       ExclusionOfCommands, PTL DEF Spec

(* AutoPreventFromSleeping: for any number of threads the count of the     *)
(* driver is that of the perf service and one for each access between its  *)
(* two votes, so that it is the perf service's own between accesses.       *)
THEOREM VotesAlwaysReturn == Spec => []AccessesReturnTheirVote
  <1> QED
    BY InitIsTyped, TypeIsKept, CountAtFirst, CountIsKept, VotesComeBack,
       PTL DEF Spec

(* ModuleParameterApplier and ModuleHandler: a PUT that is answered with   *)
(* 200 has given the firmware all of its blocks, in order and once, for    *)
(* any module and any number of blocks, whatever the other threads do, as  *)
(* long as no command was lost in the buffer of the debugfs stream.        *)
THEOREM SuccessAlwaysMeansApplied == Spec => []SuccessMeansApplied
  <1> QED
    BY InitIsTyped, TypeIsKept, PutsAtFirst, PutsAreKept, OrderIsSuccess,
       PTL DEF Spec

(* ModuleParameterApplier: what a PUT has applied, at every moment and     *)
(* whatever becomes of it, is the first of its blocks, as long as no       *)
(* command was lost in the buffer of the debugfs stream.                   *)
THEOREM PutsApplyTheFirstBlocks ==
  Spec => [](~lost => \A t \in Threads :
                        IsPut(threads[t]) => IsInOrder(threads[t]))
  <1>1. PutsAreInOrder => (~lost => \A t \in Threads :
                             IsPut(threads[t]) => IsInOrder(threads[t]))
    BY DEF PutsAreInOrder, PutIsInOrder
  <1> QED
    BY <1>1, InitIsTyped, TypeIsKept, PutsAtFirst, PutsAreKept, PTL DEF Spec

(* DebugFsEntryHandler: while the driver has not failed once, no command   *)
(* on Linux is refused and none is lost: what other threads do never makes *)
(* a request fail.  Of NoSpuriousErrors it is all that is not about what   *)
(* the codec makes of a reply.                                             *)
THEOREM CommandsFailWithTheDriverOnly == Spec => []NoErrorOfOurOwn
  <1> QED
    BY InitIsTyped, TypeIsKept, MutexAtFirst, MutexIsKept, NoErrorAtFirst,
       NoErrorIsKept, PTL DEF Spec

-----------------------------------------------------------------------------
(* The pool of the HTTP threads, and its streams. *)

(* A thread that streams was asked for a stream: with TypeOK and the         *)
(* correspondence of mutexes and threads, what the steps preserve.           *)
StreamsWereAsked == \A t \in HttpThreads : Streaming(t) => req[t].op = "stream"

PoolInv == TypeOK /\ StreamsWereAsked /\ StreamsAreExclusive

(* What a thread is asked for is in the set its operation names.             *)
LEMMA RequestsNameTheirObject ==
  ASSUME NEW r \in Requests \cup {NoRequest}
  PROVE  /\ r.op \in {"stream", "set", "none"}
         /\ r.op = "stream" => r.on \in Streams
         /\ r.op = "set" => r.on \in Services
  BY DEF Requests, NoRequest

(* What is left of a service takes its values however a call of it ends.     *)
ServicesTyped ==
  /\ active \in [Services -> BOOLEAN] /\ opened \in [Streams -> BOOLEAN]
  /\ queue \in [Streams -> {0, 1}]

LEMMA ServicesStayTyped ==
  ASSUME TypeOK, NEW v \in Services, Start(v) \/ Stop(v) \/ UNCHANGED serviceVars
  PROVE  ServicesTyped'
  <1>1. CASE UNCHANGED serviceVars
    BY <1>1 DEF TypeOK, ServicesTyped, serviceVars
  <1>2. CASE Start(v) \/ Stop(v)
    <2>1. /\ \E started \in BOOLEAN : active' = [active EXCEPT ![v] = started]
          /\ \E streams : Leave(v, streams)
      BY <1>2 DEF Start, Stop
    <2>2. active' \in [Services -> BOOLEAN]
      BY <2>1 DEF TypeOK
    <2>3. opened' \in [Streams -> BOOLEAN]
      <3>1. PICK streams : opened' = [s \in Streams |-> IF ServiceOf[s] = v THEN s \in streams
                                                                           ELSE opened[s]]
        BY <2>1 DEF Leave
      <3>2. ASSUME NEW s \in Streams
            PROVE  (IF ServiceOf[s] = v THEN s \in streams ELSE opened[s]) \in BOOLEAN
        <4>1. opened[s] \in BOOLEAN
          BY DEF TypeOK
        <4>2. (s \in streams) \in BOOLEAN
          OBVIOUS
        <4>3. CASE ServiceOf[s] = v
          BY <4>2, <4>3, Zenon
        <4>4. CASE ServiceOf[s] # v
          BY <4>1, <4>4, Zenon
        <4> QED
          BY <4>3, <4>4, Zenon
      <3> QED
        BY <3>1, <3>2, Zenon
    <2>4. queue' \in [Streams -> {0, 1}]
      BY <2>1 DEF Leave, TypeOK
    <2> QED
      BY <2>2, <2>3, <2>4 DEF ServicesTyped
  <1> QED
    BY <1>1, <1>2

(* Initially no thread streams and no mutex is held.                         *)
LEMMA PoolInitIsCorrect == AgentAssumption /\ AgentInit => PoolInv
  <1> SUFFICES ASSUME AgentAssumption, AgentInit PROVE PoolInv
    OBVIOUS
  <1>1. TypeOK
    BY DEF AgentInit, TypeOK, NoRequest
  <1>2. StreamsWereAsked
    BY DEF AgentInit, StreamsWereAsked, Streaming
  <1>3. StreamsAreExclusive
    BY DEF AgentInit, StreamsAreExclusive, Uses, Streaming, AgentAssumption
  <1> QED
    BY <1>1, <1>2, <1>3 DEF PoolInv

(* The end of a request releases the mutex that its thread held, and no      *)
(* other: Finish(t) is the tail of every step that ends a request.           *)
LEMMA PoolFinishIsCorrect ==
  ASSUME AgentAssumption, PoolInv, NEW t \in HttpThreads, Finish(t),
         ServicesTyped'
  PROVE  PoolInv'
  <1>1. TypeOK'
    BY DEF PoolInv, TypeOK, ServicesTyped, Finish, Goto
  <1>2. ASSUME NEW u \in HttpThreads, u # t
        PROVE  (Streaming(u))' = Streaming(u) /\ req'[u] = req[u]
    BY <1>2 DEF PoolInv, TypeOK, Finish, Goto, Streaming
  <1>3. ~(Streaming(t))'
    BY DEF PoolInv, TypeOK, Finish, Goto, Streaming
  <1>4. StreamsWereAsked'
    BY <1>2, <1>3 DEF PoolInv, StreamsWereAsked
  <1>5. ASSUME NEW s \in Streams, NEW u \in HttpThreads
        PROVE  (Uses(u, s))' <=> holder'[s] = u
    <2>1. holder'[s] = IF holder[s] = t THEN NoHolder ELSE holder[s]
      BY DEF Finish
    <2>2. CASE u = t
      BY <2>1, <2>2, <1>3 DEF Uses, AgentAssumption
    <2>3. CASE u # t
      <3>1. (Uses(u, s))' <=> Uses(u, s)
        BY <1>2, <2>3 DEF Uses, Stream
      <3>2. Uses(u, s) <=> holder[s] = u
        BY DEF PoolInv, StreamsAreExclusive
      <3> QED
        BY <2>1, <2>3, <3>1, <3>2 DEF AgentAssumption
    <2> QED
      BY <2>2, <2>3
  <1>6. StreamsAreExclusive'
    BY <1>5 DEF StreamsAreExclusive
  <1> QED
    BY <1>1, <1>4, <1>6 DEF PoolInv

(* A step that leaves the mutexes and the requests alone, and moves no       *)
(* thread into a stream or out of one, preserves the correspondence.         *)
LEMMA OtherPoolStepsAreCorrect ==
  ASSUME PoolInv, TypeOK', UNCHANGED holder,
         \A t \in HttpThreads : (Streaming(t))' = Streaming(t),
         \A t \in HttpThreads : Streaming(t) => req'[t] = req[t]
  PROVE  PoolInv'
  <1>1. StreamsWereAsked'
    BY DEF PoolInv, StreamsWereAsked
  <1>2. StreamsAreExclusive'
    BY DEF PoolInv, StreamsAreExclusive, Uses, Stream
  <1> QED
    BY <1>1, <1>2 DEF PoolInv

(* A thread takes the mutex of the stream it was asked for, which is free.   *)
LEMMA PoolAcquireIsCorrect ==
  ASSUME AgentAssumption, PoolInv, NEW t \in HttpThreads, Acquire(t)
  PROVE  PoolInv'
  <1>1. req[t].op = "stream" /\ Stream(t) \in Streams /\ pc[t] = "handle"
    <2>1. req[t] \in Requests \cup {NoRequest}
      BY DEF PoolInv, TypeOK
    <2> QED
      BY <2>1, RequestsNameTheirObject DEF Acquire, At, Stream
  <1>2. pc' \in [HttpThreads -> {"free", "handle", "header", "body", "receive", "enqueue"}]
        /\ pc' = [pc EXCEPT ![t] = pc'[t]] /\ pc'[t] \in {"header", "receive"}
    BY DEF PoolInv, TypeOK, Acquire, Goto
  <1>3. TypeOK'
    BY <1>1, <1>2 DEF PoolInv, TypeOK, Acquire, serviceVars
  <1>4. (Streaming(t))' /\ ~Streaming(t)
    BY <1>1, <1>2 DEF Streaming
  <1>5. ASSUME NEW u \in HttpThreads, u # t
        PROVE  (Streaming(u))' = Streaming(u)
    BY <1>2, <1>5 DEF PoolInv, TypeOK, Streaming
  <1>6. StreamsWereAsked'
    BY <1>1, <1>5 DEF PoolInv, StreamsWereAsked, Acquire
  <1>7. ASSUME NEW s \in Streams, NEW u \in HttpThreads
        PROVE  (Uses(u, s))' <=> holder'[s] = u
    <2>1. holder'[s] = IF s = Stream(t) THEN t ELSE holder[s]
      BY <1>1 DEF PoolInv, TypeOK, Acquire
    <2>2. Uses(u, s) <=> holder[s] = u
      BY DEF PoolInv, StreamsAreExclusive
    <2>3. CASE u = t
      BY <2>1, <2>2, <2>3, <1>4 DEF Uses, Stream, Acquire
    <2>4. CASE u # t
      <3>1. (Uses(u, s))' <=> Uses(u, s)
        BY <1>5, <2>4 DEF Uses, Stream, Acquire
      <3>2. s = Stream(t) => holder[s] # u
        BY DEF Acquire, AgentAssumption
      <3> QED
        BY <2>1, <2>2, <2>4, <3>1, <3>2
    <2> QED
      BY <2>3, <2>4
  <1>8. StreamsAreExclusive'
    BY <1>7 DEF StreamsAreExclusive
  <1> QED
    BY <1>3, <1>6, <1>8 DEF PoolInv

(* Every step of the threads, of the clients and of the main thread          *)
(* preserves the invariant.                                                  *)
LEMMA PoolNextIsCorrect ==
  AgentAssumption /\ PoolInv /\ [AgentNext]_(agentVars) => PoolInv'
  <1> SUFFICES ASSUME AgentAssumption, PoolInv, [AgentNext]_(agentVars)
     PROVE PoolInv'
    OBVIOUS
  <1>asked. ASSUME NEW t \in HttpThreads
            PROVE  /\ req[t].op = "stream" => Stream(t) \in Streams
                   /\ req[t].op = "set" => Stream(t) \in Services
    <2>1. req[t] \in Requests \cup {NoRequest}
      BY DEF PoolInv, TypeOK
    <2> QED
      BY <2>1, RequestsNameTheirObject DEF Stream
  <1>same. UNCHANGED serviceVars => ServicesTyped'
    BY DEF PoolInv, TypeOK, ServicesTyped, serviceVars
  <1>user. ASSUME NEW t \in HttpThreads, Streaming(t)
           PROVE  Stream(t) \in Streams
    BY <1>user, <1>asked DEF PoolInv, StreamsWereAsked
  <1>1. CASE UNCHANGED agentVars
    <2>1. TypeOK'
      BY <1>1 DEF PoolInv, TypeOK, agentVars, threadVars, serviceVars
    <2> QED
      BY <1>1, <2>1, OtherPoolStepsAreCorrect
         DEF agentVars, threadVars, Streaming
  <1>2. ASSUME NEW t \in HttpThreads, HttpThreadStep(t)
        PROVE  PoolInv'
    <2>1. CASE SetService(t)
      <3>1. Finish(t) /\ req[t].on \in Services
        BY <2>1, <1>asked DEF SetService, At, Stream
      <3>2. ServicesTyped'
        BY <2>1, <3>1, ServicesStayTyped DEF SetService, PoolInv
      <3> QED
        BY <3>1, <3>2, PoolFinishIsCorrect
    <2>2. CASE Acquire(t)
      BY <2>2, PoolAcquireIsCorrect
    <2>3. CASE SendLocked(t)
      BY <1>same, <2>3, PoolFinishIsCorrect DEF SendLocked
    <2>4. CASE SendHeader(t)
      <3>1. CASE Finish(t)
        BY <1>same, <2>4, <3>1, PoolFinishIsCorrect DEF SendHeader
      <3>2. CASE Goto(t, "body")
         /\ UNCHANGED <<mainPhase, req, connected, holder>>
        <4>1. TypeOK'
          BY <2>4, <3>2 DEF SendHeader, PoolInv, TypeOK, Goto, serviceVars
        <4>2. \A u \in HttpThreads : (Streaming(u))' = Streaming(u)
          BY <2>4, <3>2
             DEF SendHeader, PoolInv, TypeOK, Goto, Streaming
        <4> QED
          BY <3>2, <4>1, <4>2, OtherPoolStepsAreCorrect
      <3> QED
        BY <2>4, <3>1, <3>2 DEF SendHeader
    <2>5. CASE WriteBlock(t)
      <3>1. Stream(t) \in Streams
        BY <2>5, <1>user DEF WriteBlock, Streaming
      <3>2. ServicesTyped'
        BY <2>5, <3>1 DEF WriteBlock, PoolInv, TypeOK, ServicesTyped
      <3>3. CASE Finish(t)
        BY <3>2, <3>3, PoolFinishIsCorrect
      <3>4. CASE UNCHANGED <<mainPhase, threadVars, holder>>
        <4>1. TypeOK'
          BY <3>2, <3>4 DEF PoolInv, TypeOK, ServicesTyped, threadVars
        <4> QED
          BY <3>4, <4>1, OtherPoolStepsAreCorrect DEF threadVars, Streaming
      <3> QED
        BY <2>5, <3>3, <3>4 DEF WriteBlock
    <2>6. CASE EndBody(t)
      BY <1>same, <2>6, PoolFinishIsCorrect DEF EndBody
    <2>7. CASE Receive(t)
      <3>1. CASE Finish(t)
        BY <1>same, <2>7, <3>1, PoolFinishIsCorrect DEF Receive
      <3>2. CASE Goto(t, "enqueue")
         /\ UNCHANGED <<mainPhase, req, connected, holder>>
        <4>1. TypeOK'
          BY <2>7, <3>2 DEF Receive, PoolInv, TypeOK, Goto, serviceVars
        <4>2. \A u \in HttpThreads : (Streaming(u))' = Streaming(u)
          BY <2>7, <3>2
             DEF Receive, PoolInv, TypeOK, Goto, Streaming
        <4> QED
          BY <3>2, <4>1, <4>2, OtherPoolStepsAreCorrect
      <3> QED
        BY <2>7, <3>1, <3>2 DEF Receive
    <2>8. CASE Enqueue(t)
      <3>1. Stream(t) \in Streams
        BY <2>8, <1>user DEF Enqueue, Streaming
      <3>2. TypeOK'
        BY <2>8, <3>1 DEF Enqueue, PoolInv, TypeOK, Goto
      <3>3. \A u \in HttpThreads : (Streaming(u))' = Streaming(u)
        BY <2>8 DEF Enqueue, PoolInv, TypeOK, Goto, Streaming
      <3> QED
        BY <2>8, <3>2, <3>3, OtherPoolStepsAreCorrect DEF Enqueue
    <2> QED
      BY <1>2, <2>1, <2>2, <2>3, <2>4, <2>5, <2>6, <2>7, <2>8 DEF HttpThreadStep
  <1>3. ASSUME Environment
        PROVE  PoolInv'
    <2>1. ASSUME NEW t \in HttpThreads, Take(t)
          PROVE  PoolInv'
      <3>1. TypeOK'
        BY <2>1 DEF Take, PoolInv, TypeOK, Goto, serviceVars
      <3>2. \A u \in HttpThreads : (Streaming(u))' = Streaming(u)
        BY <2>1 DEF Take, PoolInv, TypeOK, Goto, Streaming
      <3>3. \A u \in HttpThreads : Streaming(u) => req'[u] = req[u]
        BY <2>1 DEF Take, PoolInv, TypeOK, Streaming
      <3> QED
        BY <2>1, <3>1, <3>2, <3>3, OtherPoolStepsAreCorrect DEF Take
    <2>2. ASSUME NEW t \in HttpThreads, Disconnect(t)
          PROVE  PoolInv'
      <3>1. TypeOK'
        BY <2>2 DEF Disconnect, PoolInv, TypeOK, serviceVars
      <3> QED
        BY <2>2, <3>1, OtherPoolStepsAreCorrect DEF Disconnect, Streaming
    <2>3. ASSUME NEW s \in Streams, Produce(s) \/ Inject(s)
          PROVE  PoolInv'
      <3>1. TypeOK'
        BY <2>3 DEF Produce, Inject, PoolInv, TypeOK, threadVars
      <3> QED
        BY <2>3, <3>1, OtherPoolStepsAreCorrect
           DEF Produce, Inject, threadVars, Streaming
    <2> QED
      BY <1>3, <2>1, <2>2, <2>3 DEF Environment
  <1>4. ASSUME MainThread
        PROVE  PoolInv'
    <2>1. ServicesTyped'
      <3>1. CASE StopSystem
        <4>1. LogService \in Services
          BY DEF AgentAssumption
        <4> QED
          BY <3>1, <4>1, ServicesStayTyped DEF StopSystem, PoolInv
      <3>2. CASE StopServer
        BY <1>same, <3>2 DEF StopServer
      <3>3. CASE Join
        BY <3>3 DEF Join, PoolInv, TypeOK, ServicesTyped
      <3> QED
        BY <1>4, <3>1, <3>2, <3>3 DEF MainThread
    <2>2. /\ mainPhase' \in {"stopping", "joining", "destroyed"}
          /\ UNCHANGED <<threadVars, holder>>
      BY <1>4 DEF MainThread, StopSystem, StopServer, Join
    <2>3. TypeOK'
      BY <2>1, <2>2 DEF PoolInv, TypeOK, ServicesTyped, threadVars
    <2> QED
      BY <2>2, <2>3, OtherPoolStepsAreCorrect DEF threadVars, Streaming
  <1> QED
    BY <1>1, <1>2, <1>3, <1>4 DEF AgentNext

(* A stream is written or read by the thread that holds its mutex and by no  *)
(* other, whatever clients ask for, leave or do to the services, and while   *)
(* the agent is destroyed: System::tryToAcquireResource() and the responses  *)
(* that own what it returns.                                                 *)
THEOREM StreamsAreAlwaysExclusive == AgentSpec => []StreamsAreExclusive
  <1>1. PoolInv => StreamsAreExclusive
    BY DEF PoolInv
  <1> QED
    BY AgentAssumption, PoolInitIsCorrect, PoolNextIsCorrect, <1>1, PTL DEF AgentSpec

(* The HTTP threads of the server are at no other place of a request, and    *)
(* hold no other stream, than those of the model; the mutexes, the services  *)
(* and the main thread take their values only (System, DebugAgent).          *)
THEOREM AgentIsTyped == AgentSpec => []TypeOK
  <1>1. PoolInv => TypeOK
    BY DEF PoolInv
  <1> QED
    BY AgentAssumption, PoolInitIsCorrect, PoolNextIsCorrect, <1>1, PTL DEF AgentSpec
-----------------------------------------------------------------------------
(* What AThreadGetsFree rests on: the pool is larger than what can be read.  *)
EnoughThreads ==
  /\ IsFiniteSet(HttpThreads) /\ IsFiniteSet(Streams)
  /\ Cardinality(Streams) < Cardinality(HttpThreads)

NotAllStream == \E t \in HttpThreads : ~Streaming(t)

\* Two threads do not stream the same stream, as its mutex has one holder.
LEMMA StreamsHaveOneThread ==
  ASSUME PoolInv, NEW t \in HttpThreads, NEW u \in HttpThreads,
         Streaming(t), Streaming(u), Stream(t) = Stream(u)
  PROVE  t = u
  <1>1. Stream(t) \in Streams
    BY RequestsNameTheirObject DEF PoolInv, TypeOK, StreamsWereAsked, Stream
  <1> QED
    BY <1>1 DEF PoolInv, StreamsAreExclusive, Uses

(* A pool with more threads than there are streams always has a thread that  *)
(* is not blocked in one, whatever is streamed and for however long: the     *)
(* mutexes turn the others away (SendLocked), and the request that stops a   *)
(* service gets through.                                                     *)
THEOREM PoolIsNeverUsedUp == EnoughThreads => (AgentSpec => []NotAllStream)
  <1> SUFFICES ASSUME EnoughThreads
               PROVE  AgentSpec => []NotAllStream
    OBVIOUS
  <1>1. ASSUME PoolInv, ~NotAllStream PROVE FALSE
    <2> DEFINE f == [t \in HttpThreads |-> Stream(t)]
    <2>1. \A t \in HttpThreads : Streaming(t)
      BY <1>1 DEF NotAllStream
    <2>2. \A t \in HttpThreads : Stream(t) \in Streams
      BY <1>1, <2>1, RequestsNameTheirObject
         DEF PoolInv, TypeOK, StreamsWereAsked, Stream
    <2>3. f \in [HttpThreads -> Streams]
      BY <2>2
    <2> HIDE DEF f
    <2>4. PICK t \in HttpThreads, u \in HttpThreads : t # u /\ f[t] = f[u]
      BY <2>3, FS_PigeonHole DEF EnoughThreads
    <2>5. Stream(t) = Stream(u)
      BY <2>4 DEF f
    <2> QED
      BY <1>1, <2>1, <2>4, <2>5, StreamsHaveOneThread
  <1> QED
    BY AgentAssumption, PoolInitIsCorrect, PoolNextIsCorrect, <1>1, PTL
    DEF AgentSpec

-----------------------------------------------------------------------------
(* Topology: the links between the pins of the modules.  Its recursive      *)
(* functions are loops over a sequence; what holds after i rounds is shown   *)
(* by induction on i, with a set of numbers for the predicate (UpTo).        *)

(* A non-empty set of natural numbers has a least element. *)
LEMMA LeastNumber ==
  ASSUME NEW T, T \subseteq Nat, T # {}
  PROVE  \E n \in T : \A m \in T : n <= m
  <1> DEFINE R == {ss \in Nat \X Nat : ss[1] < ss[2]}
  <1>1. R = OpToRel(<, Nat)
    BY DEF OpToRel
  <1>2. IsWellFoundedOn(R, Nat)
    BY ONLY <1>1, NatLessThanWellFounded, Zenon
  <1>3. PICK n \in T : \A m \in T : ~(<<m, n>> \in R)
    <2> HIDE DEF R
    <2> QED
      BY <1>2, WFMin
  <1>4. ASSUME NEW m \in T PROVE n <= m
    <2>1. <<m, n>> \notin R /\ <<m, n>> \in Nat \X Nat
      BY <1>3
    <2>2. ~(m < n)
      BY <2>1
    <2> QED
      BY <2>1, <2>2
  <1> QED
    BY <1>3, <1>4

(* What holds of 0 and is inherited from i - 1 by i holds up to n. *)
LEMMA UpTo ==
  ASSUME NEW n \in Nat, NEW T, 0 \in T, \A i \in 1 .. n : i - 1 \in T => i \in T
  PROVE  \A i \in 0 .. n : i \in T
  <1> DEFINE B == {i \in 0 .. n : i \notin T}
  <1> SUFFICES ASSUME B # {} PROVE FALSE
    OBVIOUS
  <1>1. PICK i \in B : \A m \in B : i <= m
    <2>1. B \subseteq Nat
      OBVIOUS
    <2> HIDE DEF B
    <2> QED
      BY <2>1, LeastNumber
  <1>2. i \in 1 .. n /\ i - 1 \in B
    OBVIOUS
  <1> QED
    BY <1>1, <1>2

(* The values of a loop that starts with base and whose round i makes       *)
(* step[i][s] of s, up to the round k.                                       *)
Loops(S, base, step, f, k) ==
  /\ f \in [0 .. k -> S] /\ f[0] = base
  /\ \A i \in 1 .. k : f[i] = step[i][f[i - 1]]

(* A loop that makes a value of S from a value of S can do n rounds. *)
LEMMA LoopExists ==
  ASSUME NEW S, NEW n \in Nat, NEW base \in S, NEW step \in [1 .. n -> [S -> S]]
  PROVE  \E f : Loops(S, base, step, f, n)
  <1> DEFINE T == {k \in 0 .. n : \E f : Loops(S, base, step, f, k)}
  <1>1. 0 \in T
    <2>1. Loops(S, base, step, [i \in 0 .. 0 |-> base], 0)
      BY DEF Loops
    <2> QED
      BY <2>1
  <1>2. ASSUME NEW k \in 1 .. n, k - 1 \in T PROVE k \in T
    <2>1. PICK f : Loops(S, base, step, f, k - 1)
      BY <1>2
    <2> DEFINE g == [i \in 0 .. k |-> IF i = k THEN step[k][f[k - 1]] ELSE f[i]]
    <2>2. f[k - 1] \in S /\ k \in Nat
      BY <2>1 DEF Loops
    <2>3. step[k][f[k - 1]] \in S
      BY <2>2
    <2>4. g \in [0 .. k -> S]
      BY <2>1, <2>2, <2>3 DEF Loops
    <2>5. g[0] = base
      BY <2>1, <2>2 DEF Loops
    <2>6. ASSUME NEW i \in 1 .. k PROVE g[i] = step[i][g[i - 1]]
      <3>1. g[i - 1] = f[i - 1]
        BY <2>2
      <3>2. CASE i = k
        BY <3>1, <3>2
      <3>3. CASE i # k
        BY <2>1, <2>2, <3>1, <3>3 DEF Loops
      <3> QED
        BY <3>2, <3>3
    <2>7. Loops(S, base, step, g, k)
      <3> HIDE DEF g
      <3> QED
        BY <2>4, <2>5, <2>6 DEF Loops
    <2> QED
      BY <2>2, <2>7
  <1>3. n \in T
    <2>1. \A i \in 0 .. n : i \in T
      <3> HIDE DEF T
      <3> QED
        BY <1>1, <1>2, UpTo
    <2> HIDE DEF T
    <2> QED
      BY <2>1
  <1> QED
    BY <1>3

(* What appending an element does to the elements of a sequence. *)
LEMMA RangeOfAppend ==
  ASSUME NEW S, NEW s \in Seq(S), NEW e \in S
  PROVE  /\ Append(s, e) \in Seq(S)
         /\ Range(Append(s, e)) = Range(s) \cup {e}
         /\ IsInjective(s) /\ e \notin Range(s) => IsInjective(Append(s, e))
  <1>1. /\ Append(s, e) \in Seq(S) /\ Len(Append(s, e)) = Len(s) + 1
        /\ \A i \in 1 .. Len(s) : Append(s, e)[i] = s[i]
        /\ Append(s, e)[Len(s) + 1] = e
    BY AppendProperties
  <1>2. DOMAIN s = 1 .. Len(s) /\ DOMAIN Append(s, e) = 1 .. Len(s) + 1
        /\ Len(s) \in Nat
    BY <1>1
  <1>3. Range(Append(s, e)) = Range(s) \cup {e}
    <2>1. Range(s) \cup {e} \subseteq Range(Append(s, e))
      BY <1>1, <1>2 DEF Range
    <2>2. ASSUME NEW i \in 1 .. Len(s) + 1
          PROVE  Append(s, e)[i] \in Range(s) \cup {e}
      BY <1>1, <1>2 DEF Range
    <2> QED
      BY <1>2, <2>1, <2>2 DEF Range
  <1>4. ASSUME IsInjective(s), e \notin Range(s) PROVE IsInjective(Append(s, e))
    BY <1>1, <1>2, <1>4 DEF IsInjective, Range
  <1> QED
    BY <1>1, <1>3, <1>4

(* What concatenation does to injectivity. *)
LEMMA InjectiveConcat ==
  ASSUME NEW S, NEW s \in Seq(S), NEW r \in Seq(S), IsInjective(s), IsInjective(r),
         Range(s) \cap Range(r) = {}
  PROVE  IsInjective(s \o r)
  <1>1. /\ s \o r \in Seq(S) /\ Len(s \o r) = Len(s) + Len(r)
        /\ \A i \in 1 .. Len(s) + Len(r) :
             (s \o r)[i] = IF i <= Len(s) THEN s[i] ELSE r[i - Len(s)]
    BY ConcatProperties
  <1>2. /\ DOMAIN (s \o r) = 1 .. Len(s) + Len(r)
        /\ DOMAIN s = 1 .. Len(s) /\ DOMAIN r = 1 .. Len(r)
        /\ Len(s) \in Nat /\ Len(r) \in Nat
    BY <1>1
  <1>3. ASSUME NEW i \in 1 .. Len(s) + Len(r), NEW j \in 1 .. Len(s) + Len(r),
               (s \o r)[i] = (s \o r)[j]
        PROVE  i = j
    <2>1. CASE i <= Len(s) /\ j <= Len(s)
      BY <1>1, <1>2, <1>3, <2>1 DEF IsInjective
    <2>2. CASE i > Len(s) /\ j > Len(s)
      <3>1. i - Len(s) \in 1 .. Len(r) /\ j - Len(s) \in 1 .. Len(r)
        BY <1>2, <2>2
      <3>2. r[i - Len(s)] = r[j - Len(s)]
        BY <1>1, <1>2, <1>3, <2>2
      <3>3. i - Len(s) = j - Len(s)
        BY <1>2, <3>1, <3>2 DEF IsInjective
      <3> QED
        BY <1>2, <3>3
    <2>3. CASE i <= Len(s) /\ j > Len(s)
      <3>1. j - Len(s) \in 1 .. Len(r) /\ s[i] = r[j - Len(s)] /\ i \in 1 .. Len(s)
        BY <1>1, <1>2, <1>3, <2>3
      <3> QED
        BY <1>2, <3>1 DEF Range
    <2>4. CASE i > Len(s) /\ j <= Len(s)
      <3>1. i - Len(s) \in 1 .. Len(r) /\ s[j] = r[i - Len(s)] /\ j \in 1 .. Len(s)
        BY <1>1, <1>2, <1>3, <2>4
      <3> QED
        BY <1>2, <3>1 DEF Range
    <2> QED
      BY <1>2, <2>1, <2>2, <2>3, <2>4
  <1> QED
    BY <1>2, <1>3 DEF IsInjective

(* The parts of a sequence before and after the place k. *)
AreAround(S, s, k, a, b) ==
  /\ a \in Seq(S) /\ Len(a) = k - 1 /\ \A i \in 1 .. k - 1 : a[i] = s[i]
  /\ b \in Seq(S) /\ Len(b) = Len(s) - k /\ \A i \in 1 .. Len(s) - k : b[i] = s[k + i]

LEMMA AroundAPlace ==
  ASSUME NEW S, NEW s \in Seq(S), NEW k \in 1 .. Len(s), NEW a, NEW b,
         AreAround(S, s, k, a, b)
  PROVE  /\ Range(a) \cup Range(b) \cup {s[k]} = Range(s)
         /\ IsInjective(s) => /\ IsInjective(a) /\ IsInjective(b)
                              /\ Range(a) \cap Range(b) = {}
                              /\ s[k] \notin Range(a) \cup Range(b)
  <1>0. /\ Len(s) \in Nat /\ k \in Int
        /\ DOMAIN s = 1 .. Len(s) /\ DOMAIN a = 1 .. k - 1 /\ DOMAIN b = 1 .. Len(s) - k
        /\ \A i \in 1 .. k - 1 : a[i] = s[i]
        /\ \A i \in 1 .. Len(s) - k : b[i] = s[k + i]
    BY DEF AreAround
  <1>1. Range(a) = {s[i] : i \in 1 .. k - 1}
    BY <1>0 DEF Range
  <1>2. Range(b) = {s[i] : i \in k + 1 .. Len(s)}
    <2>1. \A i \in k + 1 .. Len(s) : i - k \in 1 .. Len(s) - k /\ b[i - k] = s[i]
      BY <1>0
    <2>2. \A i \in 1 .. Len(s) - k : k + i \in k + 1 .. Len(s) /\ b[i] = s[k + i]
      BY <1>0
    <2>3. Range(b) = {b[i] : i \in 1 .. Len(s) - k}
      BY <1>0 DEF Range
    <2>4. Range(b) \subseteq {s[i] : i \in k + 1 .. Len(s)}
      BY <2>2, <2>3
    <2>5. ASSUME NEW i \in k + 1 .. Len(s) PROVE s[i] \in Range(b)
      BY <2>1, <2>3
    <2> QED
      BY <2>4, <2>5
  <1>3. Range(s) = {s[i] : i \in 1 .. Len(s)}
    BY <1>0 DEF Range
  <1>4. Range(a) \cup Range(b) \cup {s[k]} = Range(s)
    BY <1>0, <1>1, <1>2, <1>3
  <1>5. ASSUME IsInjective(s)
        PROVE  /\ IsInjective(a) /\ IsInjective(b) /\ Range(a) \cap Range(b) = {}
               /\ s[k] \notin Range(a) \cup Range(b)
    <2>1. \A i, j \in 1 .. Len(s) : s[i] = s[j] => i = j
      BY <1>0, <1>5 DEF IsInjective
    <2>2. IsInjective(a)
      BY <1>0, <2>1 DEF IsInjective
    <2>3. IsInjective(b)
      <3>1. ASSUME NEW i \in 1 .. Len(s) - k, NEW j \in 1 .. Len(s) - k, b[i] = b[j]
            PROVE  i = j
        <4>1. k + i \in 1 .. Len(s) /\ k + j \in 1 .. Len(s) /\ s[k + i] = s[k + j]
          BY <1>0, <3>1
        <4>2. k + i = k + j
          BY <2>1, <4>1
        <4> QED
          BY <1>0, <4>2
      <3> QED
        BY <1>0, <3>1 DEF IsInjective
    <2>4. Range(a) \cap Range(b) = {} /\ s[k] \notin Range(a) \cup Range(b)
      BY <1>0, <1>1, <1>2, <2>1
    <2> QED
      BY <2>2, <2>3, <2>4
  <1> QED
    BY <1>4, <1>5

(* What is left when the element at a place is removed. *)
LEMMA RangeOfRemoveAt ==
  ASSUME NEW S, NEW s \in Seq(S), NEW k \in 1 .. Len(s)
  PROVE  /\ RemoveAt(s, k) \in Seq(S)
         /\ Range(RemoveAt(s, k)) \cup {s[k]} = Range(s)
         /\ IsInjective(s) => /\ IsInjective(RemoveAt(s, k))
                              /\ s[k] \notin Range(RemoveAt(s, k))
  <1> DEFINE a == SubSeq(s, 1, k - 1)
             b == SubSeq(s, k + 1, Len(s))
  <1>0. Len(s) \in Nat /\ k \in Int /\ \A i \in 1 .. Len(s) : s[i] \in S
    OBVIOUS
  <1>1. a \in Seq(S) /\ Len(a) = k - 1 /\ \A i \in 1 .. k - 1 : a[i] = s[i]
    <2>1. \A i \in 1 .. k - 1 : s[i] \in S
      BY <1>0
    <2> QED
      BY <1>0, <2>1, SubSeqProperties
  <1>2. /\ b \in Seq(S) /\ Len(b) = Len(s) - k
        /\ \A i \in 1 .. Len(s) - k : b[i] = s[k + i]
    <2>1. \A i \in k + 1 .. Len(s) : s[i] \in S
      BY <1>0
    <2>2. k + 1 \in Int /\ Len(s) \in Int
      BY <1>0
    <2>3. /\ b \in Seq(S)
          /\ Len(b) = IF k + 1 <= Len(s) THEN Len(s) - (k + 1) + 1 ELSE 0
          /\ \A i \in 1 .. Len(s) - (k + 1) + 1 : b[i] = s[k + 1 + i - 1]
      BY <2>1, <2>2, SubSeqProperties
    <2> HIDE DEF b
    <2>4. Len(b) = Len(s) - k
      BY <1>0, <2>3
    <2>5. ASSUME NEW i \in 1 .. Len(s) - k PROVE b[i] = s[k + i]
      <3>1. Len(s) - (k + 1) + 1 = Len(s) - k /\ k + 1 + i - 1 = k + i
        BY <1>0
      <3> QED
        BY <2>3, <3>1
    <2> QED
      BY <2>3, <2>4, <2>5
  <1>3. RemoveAt(s, k) = a \o b
    BY DEF RemoveAt
  <1> HIDE DEF a, b
  <1>4. /\ Range(a) \cup Range(b) \cup {s[k]} = Range(s)
        /\ IsInjective(s) => /\ IsInjective(a) /\ IsInjective(b)
                             /\ Range(a) \cap Range(b) = {}
                             /\ s[k] \notin Range(a) \cup Range(b)
    <2>1. AreAround(S, s, k, a, b)
      BY <1>1, <1>2 DEF AreAround
    <2> QED
      BY <2>1, AroundAPlace
  <1>5. RemoveAt(s, k) \in Seq(S) /\ Range(RemoveAt(s, k)) = Range(a) \cup Range(b)
    BY <1>1, <1>2, <1>3, ConcatProperties, RangeConcatenation
  <1>6. IsInjective(s) => IsInjective(RemoveAt(s, k))
    BY <1>1, <1>2, <1>3, <1>4, InjectiveConcat
  <1> QED
    BY <1>4, <1>5, <1>6
-----------------------------------------------------------------------------
(* The pins of a module. *)

PinsFrom(m, queues, first, i) ==
  {<<m, j - 1>> : j \in {j \in first .. i : queues[j] # InvalidQueue}}

FirstPin(gateway) == IF gateway = NoGateway THEN 1 ELSE 2

(* addAllModuleOutputs(), addAllModuleInputs(): every pin but the one of a   *)
(* gateway and those without a queue, each once.                             *)
LEMMA PinsAreListedOnce ==
  ASSUME NEW m, NEW Q, NEW queues \in Seq(Q), NEW gateway
  PROVE  /\ Pins(m, queues, gateway) \in Seq({m} \X Nat)
         /\ IsInjective(Pins(m, queues, gateway))
         /\ Range(Pins(m, queues, gateway)) =
              PinsFrom(m, queues, FirstPin(gateway), Len(queues))
  <1> DEFINE n == Len(queues)
             first == FirstPin(gateway)
             P == {m} \X Nat
             S == Seq(P)
             Add(s, i) == IF i < first \/ queues[i] = InvalidQueue THEN s
                          ELSE Append(s, <<m, i - 1>>)
             step == [i \in 1 .. n |-> [s \in S |-> Add(s, i)]]
             Body(g) == [i \in 0 .. n |-> IF i = 0 THEN <<>> ELSE Add(g[i - 1], i)]
             f == CHOOSE g : g = Body(g)
  <1>0. n \in Nat /\ first \in {1, 2}
    BY DEF FirstPin
  <1>1. \A i \in 1 .. n : <<m, i - 1>> \in P
    BY <1>0
  <1>2. \A i \in 1 .. n : \A s \in S : Add(s, i) \in S
    BY <1>0, <1>1, AppendProperties
  <1>3. step \in [1 .. n -> [S -> S]]
    <2> HIDE DEF S, Add
    <2> QED
      BY <1>2
  <1>4. PICK p : Loops(S, <<>>, step, p, n)
    <2>1. <<>> \in S
      OBVIOUS
    <2> HIDE DEF S, step, n
    <2> QED
      BY <1>0, <1>3, <2>1, LoopExists
  <1>5. p = Body(p)
    <2>1. \A i \in 0 .. n : p[i] = IF i = 0 THEN <<>> ELSE Add(p[i - 1], i)
      <3>1. p[0] = <<>> /\ \A i \in 1 .. n : p[i] = step[i][p[i - 1]]
        BY <1>4 DEF Loops
      <3>2. \A i \in 1 .. n : p[i - 1] \in S
        <4> HIDE DEF S, step
        <4> QED
          BY <1>0, <1>4 DEF Loops
      <3>3. \A i \in 1 .. n : step[i][p[i - 1]] = Add(p[i - 1], i)
        <4> HIDE DEF S, Add
        <4> QED
          BY <3>2
      <3> HIDE DEF S, Add, step
      <3> QED
        BY <1>0, <3>1, <3>3
    <2> HIDE DEF S, Add
    <2> QED
      BY <1>4, <2>1 DEF Loops
  <1>6. f = Body(f)
    <2> HIDE DEF Body
    <2> QED
      BY <1>5
  <1>7. Pins(m, queues, gateway) = f[n]
    BY DEF Pins, FirstPin
  <1>8. f[0] = <<>> /\ \A i \in 1 .. n : f[i] = Add(f[i - 1], i)
    <2> HIDE DEF Add, f
    <2> QED
      BY <1>0, <1>6
  <1> DEFINE Holds(i) == /\ f[i] \in S /\ IsInjective(f[i])
                         /\ Range(f[i]) = PinsFrom(m, queues, first, i)
             T == {i \in 0 .. n : Holds(i)}
  <1>9. 0 \in T
    <2>1. f[0] = <<>> /\ <<>> \in S /\ DOMAIN <<>> = {}
      BY <1>8
    <2>2. IsInjective(<<>>) /\ Range(<<>>) = {}
      BY <2>1 DEF IsInjective, Range
    <2>3. PinsFrom(m, queues, first, 0) = {}
      BY <1>0 DEF PinsFrom
    <2>4. f[0] \in S /\ IsInjective(f[0]) /\ Range(f[0]) = {}
      <3> HIDE DEF f
      <3> QED
        BY <2>1, <2>2
    <2>5. Holds(0)
      <3> HIDE DEF f, S, first
      <3> QED
        BY <2>3, <2>4
    <2> HIDE DEF Holds, n
    <2> QED
      BY <1>0, <2>5
  <1>10. ASSUME NEW i \in 1 .. n, i - 1 \in T PROVE i \in T
    <2> DEFINE Earlier == PinsFrom(m, queues, first, i - 1)
               Now == PinsFrom(m, queues, first, i)
    <2>1. /\ f[i - 1] \in S /\ IsInjective(f[i - 1])
          /\ Range(f[i - 1]) = Earlier
      <3> HIDE DEF f, S, first
      <3> QED
        BY <1>10
    <2>2. f[i] = Add(f[i - 1], i)
      BY <1>8
    <2>3. CASE i < first \/ queues[i] = InvalidQueue
      <3>1. f[i] = f[i - 1]
        BY <2>2, <2>3
      <3>2. Now = Earlier
        <4>1. {j \in first .. i : queues[j] # InvalidQueue}
                = {j \in first .. i - 1 : queues[j] # InvalidQueue}
          BY <1>0, <2>3
        <4> QED
          BY <4>1 DEF PinsFrom
      <3> HIDE DEF f, S, first
      <3> QED
        BY <1>0, <2>1, <3>1, <3>2
    <2>4. CASE ~(i < first \/ queues[i] = InvalidQueue)
      <3> DEFINE e == <<m, i - 1>>
      <3>1. f[i] = Append(f[i - 1], e) /\ e \in P
        BY <1>1, <2>2, <2>4
      <3>2. Now = Earlier \cup {e}
        <4>1. {j \in first .. i : queues[j] # InvalidQueue}
                = {j \in first .. i - 1 : queues[j] # InvalidQueue} \cup {i}
          BY <1>0, <2>4
        <4> QED
          BY <4>1 DEF PinsFrom
      <3>3. e \notin Earlier
        <4>1. \A j \in first .. i - 1 : <<m, j - 1>> # <<m, i - 1>>
          BY <1>0
        <4> QED
          BY <4>1 DEF PinsFrom
      <3> HIDE DEF f, first, P, Earlier, Now, e
      <3>4. /\ f[i] \in S /\ IsInjective(f[i])
            /\ Range(f[i]) = Now
        BY <2>1, <3>1, <3>2, <3>3, RangeOfAppend
      <3> QED
        BY <1>0, <3>4 DEF Now
    <2> QED
      BY <2>3, <2>4
  <1>11. n \in T
    <2> HIDE DEF T, n
    <2>1. \A i \in 0 .. n : i \in T
      BY <1>0, <1>9, <1>10, UpTo
    <2> QED
      BY <1>0, <2>1
  <1> HIDE DEF f
  <1> QED
    BY <1>7, <1>11

-----------------------------------------------------------------------------
(* The unresolved pins and the links, while links are computed. *)

States(P) == [links : Seq([from : P, to : P]), outputs : Seq(P), inputs : Seq(P)]

Froms(s) == {l.from : l \in Range(s.links)}
Tos(s)   == {l.to : l \in Range(s.links)}

(* The outputs O and the inputs I are in a link or unresolved, and a link    *)
(* joins pins of one queue.                                                  *)
Covers(t, s, O, I) ==
  /\ Froms(s) \cup Range(s.outputs) = O /\ Tos(s) \cup Range(s.inputs) = I
  /\ \A l \in Range(s.links) : OutputQueue(t, l.from) = InputQueue(t, l.to)

(* No pin is in two places. *)
Once(s) ==
  /\ IsInjective(s.outputs) /\ Froms(s) \cap Range(s.outputs) = {}
  /\ IsInjective(s.inputs) /\ Tos(s) \cap Range(s.inputs) = {}
  /\ \A i, j \in DOMAIN s.links :
       i # j => s.links[i].from # s.links[j].from /\ s.links[i].to # s.links[j].to

(* What is unresolved cannot be linked. *)
Unmatched(t, s) ==
  \A o \in Range(s.outputs), p \in Range(s.inputs) : OutputQueue(t, o) # InputQueue(t, p)

(* The two outcomes of a round for an output: it stays unresolved, as no     *)
(* input has its queue, or it takes an input that has.                       *)
StaysAlone(t, s, o) ==
  /\ Connect(t, s, o) = [s EXCEPT !.outputs = Append(@, o)]
  /\ \A p \in Range(s.inputs) : OutputQueue(t, o) # InputQueue(t, p)

TakesInput(t, s, o, k) ==
  /\ Connect(t, s, o) = [s EXCEPT !.links = Append(@, [from |-> o, to |-> s.inputs[k]]),
                                  !.inputs = RemoveAt(@, k)]
  /\ OutputQueue(t, o) = InputQueue(t, s.inputs[k])

LEMMA OutputIsConnected ==
  ASSUME NEW t, NEW P, NEW s \in States(P), NEW o \in P
  PROVE  StaysAlone(t, s, o) \/ \E k \in 1 .. Len(s.inputs) : TakesInput(t, s, o, k)
  <1> DEFINE same == Attached(t, s, o)
             k == CHOOSE i \in same : \A j \in same : i <= j
  <1>0. s.inputs \in Seq(P) /\ DOMAIN s.inputs = 1 .. Len(s.inputs)
    BY DEF States
  <1>1. CASE same = {}
    <2>1. Connect(t, s, o) = [s EXCEPT !.outputs = Append(@, o)]
      BY <1>1 DEF Connect
    <2>2. \A p \in Range(s.inputs) : OutputQueue(t, o) # InputQueue(t, p)
      BY <1>1 DEF Attached, Range
    <2> QED
      BY <2>1, <2>2 DEF StaysAlone
  <1>2. CASE same # {}
    <2>1. Connect(t, s, o) = JoinPins(s, o, k)
      BY <1>2 DEF Connect
    <2>2. same \subseteq 1 .. Len(s.inputs)
      BY <1>0 DEF Attached
    <2>3. \E i \in same : \A j \in same : i <= j
      <3>1. same \subseteq Nat
        BY <2>2
      <3> HIDE DEF same
      <3> QED
        BY <1>2, <3>1, LeastNumber
    <2>4. k \in same
      <3> HIDE DEF same
      <3> QED
        BY <2>3
    <2> HIDE DEF k
    <2>5. OutputQueue(t, o) = InputQueue(t, s.inputs[k])
      BY <2>4 DEF Attached
    <2>6. TakesInput(t, s, o, k)
      BY <2>1, <2>5 DEF TakesInput, JoinPins
    <2> QED
      BY <2>2, <2>4, <2>6
  <1> QED
    BY <1>1, <1>2

LEMMA ConnectIsTyped ==
  ASSUME NEW t, NEW P, NEW s \in States(P), NEW o \in P
  PROVE  Connect(t, s, o) \in States(P)
  <1>0. /\ s.links \in Seq([from : P, to : P]) /\ s.outputs \in Seq(P) /\ s.inputs \in Seq(P)
    BY DEF States
  <1>1. CASE StaysAlone(t, s, o)
    <2>1. Append(s.outputs, o) \in Seq(P)
      BY <1>0, AppendProperties
    <2> QED
      BY <1>0, <1>1, <2>1 DEF StaysAlone, States
  <1>2. ASSUME NEW k \in 1 .. Len(s.inputs), TakesInput(t, s, o, k)
        PROVE  Connect(t, s, o) \in States(P)
    <2> DEFINE L == [from : P, to : P]
    <2>1. s.links \in Seq(L) /\ [from |-> o, to |-> s.inputs[k]] \in L
      BY <1>0
    <2>2. Append(s.links, [from |-> o, to |-> s.inputs[k]]) \in Seq(L)
      <3> HIDE DEF L
      <3> QED
        BY <2>1, AppendProperties
    <2>3. RemoveAt(s.inputs, k) \in Seq(P)
      BY <1>0, RangeOfRemoveAt
    <2> QED
      BY <1>0, <1>2, <2>2, <2>3 DEF TakesInput, States
  <1> QED
    BY <1>1, <1>2, OutputIsConnected

(* A round keeps what is known of the pins before it. *)
LEMMA ConnectKeeps ==
  ASSUME NEW t, NEW P, NEW s \in States(P), NEW o \in P, NEW O, NEW I, Covers(t, s, O, I)
  PROVE  /\ Connect(t, s, o) \in States(P)
         /\ Covers(t, Connect(t, s, o), O \cup {o}, I)
         /\ Once(s) /\ o \notin O => Once(Connect(t, s, o))
         /\ Unmatched(t, s) => Unmatched(t, Connect(t, s, o))
  <1> DEFINE r == Connect(t, s, o)
  <1>0. /\ s.links \in Seq([from : P, to : P]) /\ s.outputs \in Seq(P) /\ s.inputs \in Seq(P)
        /\ DOMAIN s = {"links", "outputs", "inputs"}
    BY DEF States
  <1>1. CASE StaysAlone(t, s, o)
    <2>1. r.links = s.links /\ r.outputs = Append(s.outputs, o) /\ r.inputs = s.inputs
      BY <1>1 DEF StaysAlone, States
    <2>2. /\ r.outputs \in Seq(P) /\ Range(r.outputs) = Range(s.outputs) \cup {o}
          /\ IsInjective(s.outputs) /\ o \notin Range(s.outputs) => IsInjective(r.outputs)
      BY <1>0, <2>1, RangeOfAppend
    <2>3. r \in States(P)
      BY ConnectIsTyped
    <2>4. Froms(r) = Froms(s) /\ Tos(r) = Tos(s)
      BY <2>1 DEF Froms, Tos
    <2> HIDE DEF r
    <2>5. Covers(t, r, O \cup {o}, I)
      BY <2>1, <2>2, <2>4 DEF Covers
    <2>6. Once(s) /\ o \notin O => Once(r)
      BY <2>1, <2>2, <2>4 DEF Covers, Once
    <2>7. Unmatched(t, s) => Unmatched(t, r)
      BY <1>1, <2>1, <2>2 DEF Unmatched, StaysAlone
    <2> QED
      BY <2>3, <2>5, <2>6, <2>7 DEF r
  <1>2. ASSUME NEW k \in 1 .. Len(s.inputs), TakesInput(t, s, o, k)
        PROVE  /\ r \in States(P) /\ Covers(t, r, O \cup {o}, I)
               /\ Once(s) /\ o \notin O => Once(r)
               /\ Unmatched(t, s) => Unmatched(t, r)
    <2> DEFINE p == s.inputs[k]
               l == [from |-> o, to |-> p]
    <2>1. /\ r.links = Append(s.links, l) /\ r.outputs = s.outputs
          /\ r.inputs = RemoveAt(s.inputs, k)
      BY <1>2 DEF TakesInput, States
    <2>2. p \in P /\ l \in [from : P, to : P]
      BY <1>0
    <2>3. /\ r.links \in Seq([from : P, to : P]) /\ Range(r.links) = Range(s.links) \cup {l}
      <3> HIDE DEF r, l
      <3> DEFINE L == [from : P, to : P]
      <3>1. s.links \in Seq(L) /\ l \in L /\ r.links = Append(s.links, l)
        BY <1>0, <2>1, <2>2
      <3> HIDE DEF L
      <3>2. r.links \in Seq(L) /\ Range(r.links) = Range(s.links) \cup {l}
        BY <3>1, RangeOfAppend
      <3> QED
        BY <3>2 DEF L
    <2>4. /\ r.inputs \in Seq(P) /\ Range(r.inputs) \cup {p} = Range(s.inputs)
          /\ IsInjective(s.inputs) => IsInjective(r.inputs) /\ p \notin Range(r.inputs)
      BY <1>0, <2>1, RangeOfRemoveAt
    <2>5. r \in States(P)
      BY ConnectIsTyped
    <2>6. Froms(r) = Froms(s) \cup {o} /\ Tos(r) = Tos(s) \cup {p}
      <3>1. l.from = o /\ l.to = p
        OBVIOUS
      <3> HIDE DEF r, l, p
      <3> QED
        BY <2>3, <3>1 DEF Froms, Tos
    <2>7. OutputQueue(t, l.from) = InputQueue(t, l.to)
      BY <1>2 DEF TakesInput
    <2>8. \A i \in DOMAIN s.links : s.links[i].from \in Froms(s) /\ s.links[i].to \in Tos(s)
      BY DEF Froms, Tos, Range
    <2>9. /\ DOMAIN r.links = 1 .. Len(s.links) + 1 /\ DOMAIN s.links = 1 .. Len(s.links)
          /\ \A i \in 1 .. Len(s.links) : r.links[i] = s.links[i]
          /\ r.links[Len(s.links) + 1] = l /\ Len(s.links) \in Nat
      BY <1>0, <2>1, <2>2, AppendProperties
    <2>10. l.from = o /\ l.to = p
      OBVIOUS
    <2> HIDE DEF r, l, p
    <2>11. Covers(t, r, O \cup {o}, I)
      BY <2>1, <2>3, <2>4, <2>6, <2>7 DEF Covers
    <2>12. ASSUME Once(s), o \notin O PROVE Once(r)
      <3>1. o \notin Froms(s) /\ o \notin Range(s.outputs)
        BY <2>12 DEF Covers
      <3>2. p \notin Tos(s)
        BY <2>4, <2>12 DEF Once
      <3>3. \A i, j \in DOMAIN r.links : i # j =>
              r.links[i].from # r.links[j].from /\ r.links[i].to # r.links[j].to
        <4> SUFFICES ASSUME NEW i \in DOMAIN r.links, NEW j \in DOMAIN r.links, i # j
                     PROVE  /\ r.links[i].from # r.links[j].from
                            /\ r.links[i].to # r.links[j].to
          OBVIOUS
        <4>1. CASE i \in DOMAIN s.links /\ j \in DOMAIN s.links
          BY <2>9, <2>12, <4>1 DEF Once
        <4>2. CASE i \in DOMAIN s.links /\ j \notin DOMAIN s.links
          <5>1. r.links[j] = l /\ r.links[i] = s.links[i]
            BY <2>9, <4>2
          <5> QED
            BY <2>8, <2>10, <3>1, <3>2, <4>2, <5>1
        <4>3. CASE i \notin DOMAIN s.links /\ j \in DOMAIN s.links
          <5>1. r.links[i] = l /\ r.links[j] = s.links[j]
            BY <2>9, <4>3
          <5> QED
            BY <2>8, <2>10, <3>1, <3>2, <4>3, <5>1
        <4>4. CASE i \notin DOMAIN s.links /\ j \notin DOMAIN s.links
          BY <2>9, <4>4
        <4> QED
          BY <4>1, <4>2, <4>3, <4>4
      <3>4. /\ IsInjective(r.outputs) /\ Froms(r) \cap Range(r.outputs) = {}
            /\ IsInjective(r.inputs) /\ Tos(r) \cap Range(r.inputs) = {}
        BY <2>1, <2>4, <2>6, <2>12, <3>1 DEF Once
      <3> QED
        BY <3>3, <3>4 DEF Once
    <2>13. Unmatched(t, s) => Unmatched(t, r)
      BY <2>1, <2>4 DEF Unmatched
    <2> QED
      BY <2>5, <2>11, <2>12, <2>13
  <1> HIDE DEF r
  <1>3. PICK k : StaysAlone(t, s, o) \/ (k \in 1 .. Len(s.inputs) /\ TakesInput(t, s, o, k))
    BY OutputIsConnected
  <1> QED
    BY <1>1, <1>2, <1>3 DEF r

Unlinked(outputs, inputs) == [links |-> <<>>, outputs |-> outputs, inputs |-> inputs]

(* What is covered before the first round. *)
LEMMA UnlinkedCovers ==
  ASSUME NEW t, NEW P, NEW outputs \in Seq(P), NEW inputs \in Seq(P)
  PROVE  /\ Unlinked(outputs, inputs) \in States(P)
         /\ Covers(t, Unlinked(outputs, inputs), Range(outputs), Range(inputs))
         /\ IsInjective(outputs) /\ IsInjective(inputs) => Once(Unlinked(outputs, inputs))
  <1> DEFINE u == Unlinked(outputs, inputs)
  <1>1. u.links = <<>> /\ u.outputs = outputs /\ u.inputs = inputs
    BY DEF Unlinked
  <1>2. u \in States(P)
    <2>1. <<>> \in Seq([from : P, to : P])
      OBVIOUS
    <2> QED
      BY <2>1 DEF Unlinked, States
  <1> HIDE DEF u
  <1>3. DOMAIN u.links = {} /\ Range(u.links) = {} /\ Froms(u) = {} /\ Tos(u) = {}
    BY <1>1 DEF Range, Froms, Tos
  <1>4. Covers(t, u, Range(outputs), Range(inputs))
    BY <1>1, <1>3 DEF Covers
  <1>5. IsInjective(outputs) /\ IsInjective(inputs) => Once(u)
    BY <1>1, <1>3 DEF Once
  <1> QED
    BY <1>2, <1>4, <1>5 DEF u

(* Match() is a loop over the outputs. *)
AreRounds(t, P, outputs, inputs, f) ==
  /\ \A i \in 0 .. Len(outputs) : f[i] \in States(P)
  /\ f[0] = Unlinked(<<>>, inputs)
  /\ \A i \in 1 .. Len(outputs) : f[i] = Connect(t, f[i - 1], outputs[i])
  /\ Match(t, outputs, inputs) = f[Len(outputs)]

LEMMA MatchIsALoop ==
  ASSUME NEW t, NEW P, NEW outputs \in Seq(P), NEW inputs \in Seq(P)
  PROVE  \E f : AreRounds(t, P, outputs, inputs, f)
  <1> DEFINE n == Len(outputs)
             S == States(P)
             base == Unlinked(<<>>, inputs)
             Round(s, i) == Connect(t, s, outputs[i])
             step == [i \in 1 .. n |-> [s \in S |-> Round(s, i)]]
             Body(g) == [i \in 0 .. n |-> IF i = 0 THEN base ELSE Round(g[i - 1], i)]
             f == CHOOSE g : g = Body(g)
  <1>0. n \in Nat /\ base \in S
    <2>1. <<>> \in Seq(P)
      OBVIOUS
    <2>2. Unlinked(<<>>, inputs) \in States(P)
      BY <2>1, UnlinkedCovers
    <2> QED
      BY <2>2
  <1>1. \A i \in 1 .. n : \A s \in S : Round(s, i) \in S
    BY ConnectIsTyped
  <1>2. step \in [1 .. n -> [S -> S]]
    <2> HIDE DEF S, Round
    <2> QED
      BY <1>1
  <1>3. PICK p : Loops(S, base, step, p, n)
    <2> HIDE DEF S, step, n, base
    <2> QED
      BY <1>0, <1>2, LoopExists
  <1>4. /\ p \in [0 .. n -> S] /\ p[0] = base
        /\ \A i \in 1 .. n : p[i] = Round(p[i - 1], i)
    <2>1. p \in [0 .. n -> S] /\ p[0] = base /\ \A i \in 1 .. n : p[i] = step[i][p[i - 1]]
      <3> HIDE DEF S, step, n, base
      <3> QED
        BY <1>3 DEF Loops
    <2>2. \A i \in 1 .. n : p[i - 1] \in S
      <3> HIDE DEF S, step, n
      <3> QED
        BY <1>0, <2>1
    <2>3. \A i \in 1 .. n : step[i][p[i - 1]] = Round(p[i - 1], i)
      <3> HIDE DEF S, Round, n
      <3> QED
        BY <2>2
    <2> HIDE DEF S, Round, step, n, base
    <2> QED
      BY <2>1, <2>3
  <1>5. p = Body(p)
    <2> HIDE DEF S, Round, n, base
    <2> QED
      BY <1>0, <1>4
  <1>6. f = Body(f)
    <2> HIDE DEF Body
    <2> QED
      BY <1>5
  <1>7. f[0] = base /\ \A i \in 1 .. n : f[i] = Round(f[i - 1], i)
    <2> HIDE DEF Round, f, n, base
    <2> QED
      BY <1>0, <1>6
  <1>8. Match(t, outputs, inputs) = f[n]
    BY DEF Match, Unlinked
  <1>9. \A i \in 0 .. n : f[i] \in S
    <2> DEFINE T == {i \in 0 .. n : f[i] \in S}
    <2> HIDE DEF f, S, Round, n, base
    <2>1. 0 \in T
      BY <1>0, <1>7
    <2>2. \A i \in 1 .. n : i - 1 \in T => i \in T
      BY <1>0, <1>1, <1>7
    <2>3. \A i \in 0 .. n : i \in T
      <3> HIDE DEF T
      <3> QED
        BY <1>0, <2>1, <2>2, UpTo
    <2> QED
      BY <2>3
  <1> HIDE DEF f
  <1>10. AreRounds(t, P, outputs, inputs, f)
    BY <1>7, <1>8, <1>9 DEF AreRounds
  <1> QED
    BY <1>10

(* computeModulesPairLink(), computeInterPipeLinks(): every output and every *)
(* input is linked or left, and what is left cannot be linked.               *)
LEMMA MatchCovers ==
  ASSUME NEW t, NEW P, NEW outputs \in Seq(P), NEW inputs \in Seq(P)
  PROVE  /\ Match(t, outputs, inputs) \in States(P)
         /\ Covers(t, Match(t, outputs, inputs), Range(outputs), Range(inputs))
         /\ IsInjective(outputs) /\ IsInjective(inputs) => Once(Match(t, outputs, inputs))
         /\ Unmatched(t, Match(t, outputs, inputs))
  <1> DEFINE n == Len(outputs)
             I == Range(inputs)
             Done(i) == {outputs[j] : j \in 1 .. i}
             Different == IsInjective(outputs) /\ IsInjective(inputs)
  <1>0. n \in Nat /\ DOMAIN outputs = 1 .. n
    OBVIOUS
  <1>6. PICK f : AreRounds(t, P, outputs, inputs, f)
    BY MatchIsALoop
  <1>1. /\ \A i \in 0 .. n : f[i] \in States(P)
        /\ f[0] = Unlinked(<<>>, inputs)
        /\ \A i \in 1 .. n : f[i] = Connect(t, f[i - 1], outputs[i])
        /\ Match(t, outputs, inputs) = f[n]
    BY <1>6 DEF AreRounds
  <1> DEFINE Holds(i) == /\ Covers(t, f[i], Done(i), I)
                         /\ Different => Once(f[i])
                         /\ Unmatched(t, f[i])
             T == {i \in 0 .. n : Holds(i)}
  <1>2. Holds(0)
    <2>1. /\ <<>> \in Seq(P) /\ Range(<<>>) = {} /\ IsInjective(<<>>)
      BY DEF Range, IsInjective
    <2>2. Done(0) = {}
      OBVIOUS
    <2>3. Covers(t, f[0], {}, I) /\ (Different => Once(f[0]))
      BY <1>1, <2>1, UnlinkedCovers
    <2>4. Unmatched(t, f[0])
      BY <1>1, <2>1 DEF Unmatched, Unlinked
    <2> HIDE DEF Done
    <2> QED
      BY <2>2, <2>3, <2>4
  <1>3. ASSUME NEW i \in 1 .. n, Holds(i - 1) PROVE Holds(i)
    <2>1. /\ f[i - 1] \in States(P) /\ outputs[i] \in P
          /\ f[i] = Connect(t, f[i - 1], outputs[i])
      BY <1>0, <1>1
    <2>2. Done(i) = Done(i - 1) \cup {outputs[i]}
      BY <1>0
    <2>3. IsInjective(outputs) => outputs[i] \notin Done(i - 1)
      BY <1>0 DEF IsInjective
    <2>4. Covers(t, f[i - 1], Done(i - 1), I)
      BY <1>3
    <2> HIDE DEF Done, I
    <2>5. /\ Covers(t, f[i], Done(i - 1) \cup {outputs[i]}, I)
          /\ Once(f[i - 1]) /\ outputs[i] \notin Done(i - 1) => Once(f[i])
          /\ Unmatched(t, f[i - 1]) => Unmatched(t, f[i])
      BY <2>1, <2>4, ConnectKeeps
    <2> QED
      BY <1>3, <2>2, <2>3, <2>5
  <1>4. Holds(n)
    <2>1. 0 \in T /\ \A i \in 1 .. n : i - 1 \in T => i \in T
      <3> HIDE DEF Holds, n
      <3> QED
        BY <1>0, <1>2, <1>3
    <2>2. \A i \in 0 .. n : i \in T
      <3> HIDE DEF T, n
      <3> QED
        BY <1>0, <2>1, UpTo
    <2> HIDE DEF Holds, n
    <2> QED
      BY <1>0, <2>2
  <1>5. Done(n) = Range(outputs)
    BY <1>0 DEF Range
  <1> HIDE DEF Done, I
  <1> QED
    BY <1>0, <1>1, <1>4, <1>5 DEF I

-----------------------------------------------------------------------------
(* Links and unresolved pins that come from two places. *)

Merged(s, r) == [links   |-> s.links \o r.links,
                 outputs |-> s.outputs \o r.outputs,
                 inputs  |-> s.inputs \o r.inputs]

(* No two links leave or reach one pin. *)
LinksApart(ls) ==
  \A i, j \in DOMAIN ls : i # j => ls[i].from # ls[j].from /\ ls[i].to # ls[j].to

LEMMA ConcatLinksApart ==
  ASSUME NEW L, NEW a \in Seq(L), NEW b \in Seq(L), LinksApart(a), LinksApart(b),
         \A k \in DOMAIN a, l \in DOMAIN b : a[k].from # b[l].from /\ a[k].to # b[l].to
  PROVE  LinksApart(a \o b)
  <1>1. /\ a \o b \in Seq(L) /\ Len(a \o b) = Len(a) + Len(b)
        /\ \A i \in 1 .. Len(a) + Len(b) :
             (a \o b)[i] = IF i <= Len(a) THEN a[i] ELSE b[i - Len(a)]
    BY ConcatProperties
  <1>2. /\ DOMAIN (a \o b) = 1 .. Len(a) + Len(b)
        /\ DOMAIN a = 1 .. Len(a) /\ DOMAIN b = 1 .. Len(b)
        /\ Len(a) \in Nat /\ Len(b) \in Nat
    BY <1>1
  <1> DEFINE c == a \o b
             n == Len(a)
             m == Len(b)
  <1>3. /\ n \in Nat /\ m \in Nat /\ DOMAIN a = 1 .. n /\ DOMAIN b = 1 .. m
        /\ DOMAIN c = 1 .. n + m
        /\ \A i \in 1 .. n + m : c[i] = IF i <= n THEN a[i] ELSE b[i - n]
    BY <1>1, <1>2
  <1> HIDE DEF c, n, m
  <1>4. \A i \in 1 .. n + m : \/ i \in 1 .. n /\ c[i] = a[i]
                              \/ i > n /\ i - n \in 1 .. m /\ c[i] = b[i - n]
    BY <1>3
  <1>5. ASSUME NEW i \in 1 .. n + m, NEW j \in 1 .. n + m, i # j
        PROVE  c[i].from # c[j].from /\ c[i].to # c[j].to
    <2>1. CASE i \in 1 .. n /\ c[i] = a[i] /\ j \in 1 .. n /\ c[j] = a[j]
      BY <1>3, <1>5, <2>1 DEF LinksApart
    <2>2. CASE /\ i > n /\ i - n \in 1 .. m /\ c[i] = b[i - n]
               /\ j > n /\ j - n \in 1 .. m /\ c[j] = b[j - n]
      <3>1. i - n # j - n
        BY <1>3, <1>5
      <3> QED
        BY <1>3, <2>2, <3>1 DEF LinksApart
    <2>3. CASE i \in 1 .. n /\ c[i] = a[i] /\ j - n \in 1 .. m /\ c[j] = b[j - n]
      BY <1>3, <2>3
    <2>4. CASE i - n \in 1 .. m /\ c[i] = b[i - n] /\ j \in 1 .. n /\ c[j] = a[j]
      BY <1>3, <2>4
    <2> QED
      BY <1>4, <2>1, <2>2, <2>3, <2>4
  <1> QED
    BY <1>3, <1>5 DEF LinksApart, c

LEMMA MergedCovers ==
  ASSUME NEW t, NEW P, NEW s \in States(P), NEW r \in States(P)
  PROVE  /\ Merged(s, r) \in States(P)
         /\ \A O, I, OO, II : Covers(t, s, O, I) /\ Covers(t, r, OO, II) =>
              /\ Covers(t, Merged(s, r), O \cup OO, I \cup II)
              /\ Once(s) /\ Once(r) /\ O \cap OO = {} /\ I \cap II = {} => Once(Merged(s, r))
  <1> DEFINE L == [from : P, to : P]
             u == Merged(s, r)
  <1>0. /\ s.links \in Seq(L) /\ s.outputs \in Seq(P) /\ s.inputs \in Seq(P)
        /\ r.links \in Seq(L) /\ r.outputs \in Seq(P) /\ r.inputs \in Seq(P)
    BY DEF States
  <1>1. /\ u.links = s.links \o r.links /\ u.outputs = s.outputs \o r.outputs
        /\ u.inputs = s.inputs \o r.inputs
    BY DEF Merged
  <1>2. u \in States(P)
    <2>1. /\ s.links \o r.links \in Seq(L) /\ s.outputs \o r.outputs \in Seq(P)
          /\ s.inputs \o r.inputs \in Seq(P)
      <3> HIDE DEF L
      <3> QED
        BY <1>0, ConcatProperties
    <2> QED
      BY <2>1 DEF Merged, States
  <1> HIDE DEF L, u
  <1>3. /\ Range(u.links) = Range(s.links) \cup Range(r.links)
        /\ Range(u.outputs) = Range(s.outputs) \cup Range(r.outputs)
        /\ Range(u.inputs) = Range(s.inputs) \cup Range(r.inputs)
    BY <1>0, <1>1, RangeConcatenation
  <1>4. Froms(u) = Froms(s) \cup Froms(r) /\ Tos(u) = Tos(s) \cup Tos(r)
    BY <1>3 DEF Froms, Tos
  <1>5. ASSUME NEW O, NEW I, NEW OO, NEW II, Covers(t, s, O, I), Covers(t, r, OO, II)
        PROVE  /\ Covers(t, u, O \cup OO, I \cup II)
               /\ Once(s) /\ Once(r) /\ O \cap OO = {} /\ I \cap II = {} => Once(u)
    <2>1. Covers(t, u, O \cup OO, I \cup II)
      BY <1>3, <1>4, <1>5 DEF Covers
    <2>2. ASSUME Once(s), Once(r), O \cap OO = {}, I \cap II = {} PROVE Once(u)
      <3>1. /\ Froms(s) \cup Range(s.outputs) = O /\ Froms(r) \cup Range(r.outputs) = OO
            /\ Tos(s) \cup Range(s.inputs) = I /\ Tos(r) \cup Range(r.inputs) = II
        BY <1>5 DEF Covers
      <3>2. /\ IsInjective(u.outputs) /\ IsInjective(u.inputs)
        BY <1>0, <1>1, <2>2, <3>1, InjectiveConcat DEF Once
      <3>3. Froms(u) \cap Range(u.outputs) = {} /\ Tos(u) \cap Range(u.inputs) = {}
        BY <1>3, <1>4, <2>2, <3>1 DEF Once
      <3>4. /\ LinksApart(s.links) /\ LinksApart(r.links)
            /\ \A k \in DOMAIN s.links, l \in DOMAIN r.links :
                 s.links[k].from # r.links[l].from /\ s.links[k].to # r.links[l].to
        <4>1. /\ \A k \in DOMAIN s.links : s.links[k].from \in Froms(s) /\ s.links[k].to \in Tos(s)
              /\ \A l \in DOMAIN r.links : r.links[l].from \in Froms(r) /\ r.links[l].to \in Tos(r)
          BY DEF Froms, Tos, Range
        <4>2. Froms(s) \cap Froms(r) = {} /\ Tos(s) \cap Tos(r) = {}
          BY <2>2, <3>1
        <4>3. LinksApart(s.links) /\ LinksApart(r.links)
          BY <2>2 DEF Once, LinksApart
        <4> QED
          BY <4>1, <4>2, <4>3
      <3>5. LinksApart(u.links)
        BY <1>0, <1>1, <3>4, ConcatLinksApart
      <3> QED
        BY <3>2, <3>3, <3>5 DEF Once, LinksApart
    <2> QED
      BY <2>1, <2>2
  <1> QED
    BY <1>2, <1>5 DEF u

-----------------------------------------------------------------------------
(* Modules and their pins. *)

OutputsOf(t, N) == UNION {Range(AddAllModuleOutputs(t, m)) : m \in N}
InputsOf(t, N)  == UNION {Range(AddAllModuleInputs(t, m)) : m \in N}

(* The firmware has told the pins of these modules. *)
HavePins(t, N, Queues) ==
  \A m \in N : t.modules[m].outputs \in Seq(Queues) /\ t.modules[m].inputs \in Seq(Queues)

LEMMA ModulesHaveTheirPins ==
  ASSUME NEW t, NEW Ids, NEW Queues, NEW m \in Ids, HavePins(t, Ids, Queues)
  PROVE  /\ AddAllModuleOutputs(t, m) \in Seq(Ids \X Nat)
         /\ AddAllModuleInputs(t, m) \in Seq(Ids \X Nat)
         /\ IsInjective(AddAllModuleOutputs(t, m)) /\ IsInjective(AddAllModuleInputs(t, m))
         /\ \A p \in Range(AddAllModuleOutputs(t, m)) : p[1] = m
         /\ \A p \in Range(AddAllModuleInputs(t, m)) : p[1] = m
  <1> DEFINE o == AddAllModuleOutputs(t, m)
             p == AddAllModuleInputs(t, m)
  <1>1. {m} \X Nat \subseteq Ids \X Nat
    OBVIOUS
  <1>2. o \in Seq({m} \X Nat) /\ IsInjective(o)
    BY PinsAreListedOnce DEF AddAllModuleOutputs, HavePins
  <1>3. p \in Seq({m} \X Nat) /\ IsInjective(p)
    BY PinsAreListedOnce DEF AddAllModuleInputs, HavePins
  <1> HIDE DEF o, p
  <1>4. o \in Seq(Ids \X Nat) /\ p \in Seq(Ids \X Nat)
    BY <1>1, <1>2, <1>3, SeqMonotonic
  <1>5. \A q \in {m} \X Nat : q[1] = m
    OBVIOUS
  <1>6. Range(o) \subseteq {m} \X Nat /\ Range(p) \subseteq {m} \X Nat
    BY <1>2, <1>3, RangeOfSeq
  <1> QED
    BY <1>2, <1>3, <1>4, <1>5, <1>6 DEF o, p

(* Two sets of modules that have none in common have no pin in common. *)
LEMMA PinsAreApart ==
  ASSUME NEW t, NEW Ids, NEW Queues, HavePins(t, Ids, Queues),
         NEW M \in SUBSET Ids, NEW N \in SUBSET Ids, M \cap N = {}
  PROVE  /\ OutputsOf(t, M) \cap OutputsOf(t, N) = {}
         /\ InputsOf(t, M) \cap InputsOf(t, N) = {}
  <1>0. \A m \in Ids : /\ \A p \in Range(AddAllModuleOutputs(t, m)) : p[1] = m
                       /\ \A p \in Range(AddAllModuleInputs(t, m)) : p[1] = m
    BY ModulesHaveTheirPins
  <1>1. ASSUME NEW K \in SUBSET Ids, NEW p \in OutputsOf(t, K) PROVE p[1] \in K
    BY <1>0 DEF OutputsOf
  <1>2. ASSUME NEW K \in SUBSET Ids, NEW p \in InputsOf(t, K) PROVE p[1] \in K
    BY <1>0 DEF InputsOf
  <1> QED
    BY <1>1, <1>2

(* A pair of modules: the outputs of the first and the inputs of the second. *)
LEMMA PairCovers ==
  ASSUME NEW t, NEW Ids, NEW Queues, HavePins(t, Ids, Queues),
         NEW s \in States(Ids \X Nat), NEW a \in Ids, NEW b \in Ids
  PROVE  /\ ComputeModulesPairLink(t, s, a, b) \in States(Ids \X Nat)
         /\ \A O, I : Covers(t, s, O, I) =>
              /\ Covers(t, ComputeModulesPairLink(t, s, a, b),
                        O \cup OutputsOf(t, {a}), I \cup InputsOf(t, {b}))
              /\ Once(s) /\ O \cap OutputsOf(t, {a}) = {} /\ I \cap InputsOf(t, {b}) = {} =>
                   Once(ComputeModulesPairLink(t, s, a, b))
  <1> DEFINE P == Ids \X Nat
             o == AddAllModuleOutputs(t, a)
             p == AddAllModuleInputs(t, b)
             r == Match(t, o, p)
  <1>1. o \in Seq(P) /\ p \in Seq(P) /\ IsInjective(o) /\ IsInjective(p)
    BY ModulesHaveTheirPins
  <1>2. OutputsOf(t, {a}) = Range(o) /\ InputsOf(t, {b}) = Range(p)
    BY DEF OutputsOf, InputsOf
  <1>3. ComputeModulesPairLink(t, s, a, b) = Merged(s, r)
    BY DEF ComputeModulesPairLink, Merged
  <1> HIDE DEF P, o, p
  <1>4. r \in States(P) /\ Covers(t, r, Range(o), Range(p)) /\ Once(r)
    BY <1>1, MatchCovers
  <1>5. s \in States(P)
    BY DEF P
  <1> HIDE DEF r
  <1>6. Merged(s, r) \in States(P)
    BY <1>4, <1>5, MergedCovers
  <1>7. ASSUME NEW O, NEW I, Covers(t, s, O, I)
        PROVE  /\ Covers(t, Merged(s, r), O \cup Range(o), I \cup Range(p))
               /\ Once(s) /\ O \cap Range(o) = {} /\ I \cap Range(p) = {} => Once(Merged(s, r))
    BY <1>4, <1>5, <1>7, MergedCovers
  <1> QED
    BY <1>2, <1>3, <1>6, <1>7 DEF P

(* The outputs of the modules M and the inputs of the modules N are in a     *)
(* link or unresolved.                                                       *)
Linked(t, s, M, N) == Covers(t, s, OutputsOf(t, M), InputsOf(t, N))

(* Linking a pair brings in the outputs of one and the inputs of the other.  *)
LEMMA PairLinks ==
  ASSUME NEW t, NEW Ids, NEW Queues, HavePins(t, Ids, Queues),
         NEW s \in States(Ids \X Nat), NEW a \in Ids, NEW b \in Ids,
         NEW M \in SUBSET Ids, NEW N \in SUBSET Ids, Linked(t, s, M, N)
  PROVE  /\ Linked(t, ComputeModulesPairLink(t, s, a, b), M \cup {a}, N \cup {b})
         /\ Once(s) /\ a \notin M /\ b \notin N => Once(ComputeModulesPairLink(t, s, a, b))
  <1> DEFINE u == ComputeModulesPairLink(t, s, a, b)
  <1>1. /\ Covers(t, u, OutputsOf(t, M) \cup OutputsOf(t, {a}), InputsOf(t, N) \cup InputsOf(t, {b}))
        /\ Once(s) /\ OutputsOf(t, M) \cap OutputsOf(t, {a}) = {}
                   /\ InputsOf(t, N) \cap InputsOf(t, {b}) = {} => Once(u)
    <2>1. Covers(t, s, OutputsOf(t, M), InputsOf(t, N))
      BY DEF Linked
    <2> QED
      BY <2>1, PairCovers
  <1> HIDE DEF u
  <1>2. Linked(t, u, M \cup {a}, N \cup {b})
    <2>1. /\ OutputsOf(t, M \cup {a}) = OutputsOf(t, M) \cup OutputsOf(t, {a})
          /\ InputsOf(t, N \cup {b}) = InputsOf(t, N) \cup InputsOf(t, {b})
      BY DEF OutputsOf, InputsOf
    <2> QED
      BY <1>1, <2>1 DEF Linked
  <1>3. a \notin M => OutputsOf(t, M) \cap OutputsOf(t, {a}) = {}
    <2>1. a \notin M => M \cap {a} = {} /\ {a} \in SUBSET Ids
      OBVIOUS
    <2> QED
      BY <2>1, PinsAreApart
  <1>4. b \notin N => InputsOf(t, N) \cap InputsOf(t, {b}) = {}
    <2>1. b \notin N => N \cap {b} = {} /\ {b} \in SUBSET Ids
      OBVIOUS
    <2> QED
      BY <2>1, PinsAreApart
  <1> QED
    BY <1>1, <1>2, <1>3, <1>4 DEF u

(* The ends of a pipe are unresolved first. *)
EndsOfPipe(t, s, ms) ==
  [links   |-> s.links,
   outputs |-> s.outputs \o AddAllModuleOutputs(t, Last(ms)),
   inputs  |-> s.inputs \o AddAllModuleInputs(t, Head(ms))]

LEMMA EndsOfPipeLink ==
  ASSUME NEW t, NEW Ids, NEW Queues, HavePins(t, Ids, Queues),
         NEW s \in States(Ids \X Nat), NEW ms \in Seq(Ids), ms # <<>>,
         NEW N \in SUBSET Ids, Linked(t, s, N, N)
  PROVE  /\ EndsOfPipe(t, s, ms) \in States(Ids \X Nat)
         /\ Linked(t, EndsOfPipe(t, s, ms), N \cup {ms[Len(ms)]}, N \cup {ms[1]})
         /\ Once(s) /\ ms[Len(ms)] \notin N /\ ms[1] \notin N => Once(EndsOfPipe(t, s, ms))
  <1> DEFINE P == Ids \X Nat
             a == ms[Len(ms)]
             b == ms[1]
             o == AddAllModuleOutputs(t, a)
             p == AddAllModuleInputs(t, b)
             r == Unlinked(o, p)
  <1>1. a \in Ids /\ b \in Ids /\ Head(ms) = b /\ Last(ms) = a
    BY DEF Last
  <1>2. o \in Seq(P) /\ p \in Seq(P) /\ IsInjective(o) /\ IsInjective(p)
    BY <1>1, ModulesHaveTheirPins
  <1>3. OutputsOf(t, {a}) = Range(o) /\ InputsOf(t, {b}) = Range(p)
    BY DEF OutputsOf, InputsOf
  <1>4. EndsOfPipe(t, s, ms) = Merged(s, r)
    <2>1. s.links \o <<>> = s.links
      <3>1. s.links \in Seq([from : P, to : P])
        BY DEF States
      <3> QED
        BY <3>1, ConcatEmptySeq
    <2> QED
      BY <1>1, <2>1 DEF EndsOfPipe, Merged, Unlinked
  <1> HIDE DEF P, o, p, a, b
  <1>5. r \in States(P) /\ Covers(t, r, Range(o), Range(p)) /\ Once(r)
    BY <1>2, UnlinkedCovers
  <1>6. s \in States(P) /\ Covers(t, s, OutputsOf(t, N), InputsOf(t, N))
    BY DEF P, Linked
  <1> HIDE DEF r
  <1>7. /\ Merged(s, r) \in States(P)
        /\ Covers(t, Merged(s, r), OutputsOf(t, N) \cup Range(o), InputsOf(t, N) \cup Range(p))
        /\ Once(s) /\ OutputsOf(t, N) \cap Range(o) = {} /\ InputsOf(t, N) \cap Range(p) = {} =>
             Once(Merged(s, r))
    BY <1>5, <1>6, MergedCovers
  <1>8. Linked(t, Merged(s, r), N \cup {a}, N \cup {b})
    <2>1. /\ OutputsOf(t, N \cup {a}) = OutputsOf(t, N) \cup OutputsOf(t, {a})
          /\ InputsOf(t, N \cup {b}) = InputsOf(t, N) \cup InputsOf(t, {b})
      BY DEF OutputsOf, InputsOf
    <2> QED
      BY <1>3, <1>7, <2>1 DEF Linked
  <1>9. a \notin N => OutputsOf(t, N) \cap Range(o) = {}
    <2>1. a \notin N => N \cap {a} = {} /\ {a} \in SUBSET Ids
      BY <1>1
    <2> QED
      BY <1>3, <2>1, PinsAreApart
  <1>10. b \notin N => InputsOf(t, N) \cap Range(p) = {}
    <2>1. b \notin N => N \cap {b} = {} /\ {b} \in SUBSET Ids
      BY <1>1
    <2> QED
      BY <1>3, <2>1, PinsAreApart
  <1> QED
    BY <1>4, <1>7, <1>8, <1>9, <1>10 DEF P, a, b

(* computeIntraPipeLinks() goes along the pairs of a pipe. *)
ArePairs(t, P, s, ms, f) ==
  /\ \A i \in 0 .. Len(ms) - 1 : f[i] \in States(P)
  /\ f[0] = EndsOfPipe(t, s, ms)
  /\ \A i \in 1 .. Len(ms) - 1 : f[i] = ComputeModulesPairLink(t, f[i - 1], ms[i], ms[i + 1])
  /\ ComputePipeLinks(t, s, ms) = f[Len(ms) - 1]

LEMMA PipeIsALoop ==
  ASSUME NEW t, NEW Ids, NEW Queues, HavePins(t, Ids, Queues),
         NEW s \in States(Ids \X Nat), NEW ms \in Seq(Ids), ms # <<>>,
         EndsOfPipe(t, s, ms) \in States(Ids \X Nat)
  PROVE  \E f : ArePairs(t, Ids \X Nat, s, ms, f)
  <1> DEFINE n == Len(ms) - 1
             S == States(Ids \X Nat)
             base == EndsOfPipe(t, s, ms)
             Round(u, i) == ComputeModulesPairLink(t, u, ms[i], ms[i + 1])
             step == [i \in 1 .. n |-> [u \in S |-> Round(u, i)]]
             Body(g) == [i \in 0 .. n |-> IF i = 0 THEN base ELSE Round(g[i - 1], i)]
             f == CHOOSE g : g = Body(g)
  <1>0. n \in Nat /\ base \in S /\ \A i \in 1 .. n : ms[i] \in Ids /\ ms[i + 1] \in Ids
    BY EmptySeq
  <1>1. \A i \in 1 .. n : \A u \in S : Round(u, i) \in S
    <2> HIDE DEF n
    <2> QED
      BY <1>0, PairCovers
  <1>2. step \in [1 .. n -> [S -> S]]
    <2> HIDE DEF S, Round
    <2> QED
      BY <1>1
  <1>3. PICK p : Loops(S, base, step, p, n)
    <2> HIDE DEF S, step, n, base
    <2> QED
      BY <1>0, <1>2, LoopExists
  <1>4. /\ p \in [0 .. n -> S] /\ p[0] = base
        /\ \A i \in 1 .. n : p[i] = Round(p[i - 1], i)
    <2>1. p \in [0 .. n -> S] /\ p[0] = base /\ \A i \in 1 .. n : p[i] = step[i][p[i - 1]]
      <3> HIDE DEF S, step, n, base
      <3> QED
        BY <1>3 DEF Loops
    <2>2. \A i \in 1 .. n : p[i - 1] \in S
      <3> HIDE DEF S, step, n
      <3> QED
        BY <1>0, <2>1
    <2>3. \A i \in 1 .. n : step[i][p[i - 1]] = Round(p[i - 1], i)
      <3> HIDE DEF S, Round, n
      <3> QED
        BY <2>2
    <2> HIDE DEF S, Round, step, n, base
    <2> QED
      BY <2>1, <2>3
  <1>5. p = Body(p)
    <2> HIDE DEF S, Round, n, base
    <2> QED
      BY <1>0, <1>4
  <1>6. f = Body(f)
    <2> HIDE DEF Body
    <2> QED
      BY <1>5
  <1>7. f[0] = base /\ \A i \in 1 .. n : f[i] = Round(f[i - 1], i)
    <2> HIDE DEF Round, f, n, base
    <2> QED
      BY <1>0, <1>6
  <1>8. ComputePipeLinks(t, s, ms) = f[n]
    BY DEF ComputePipeLinks, EndsOfPipe
  <1>9. \A i \in 0 .. n : f[i] \in S
    <2> DEFINE T == {i \in 0 .. n : f[i] \in S}
    <2> HIDE DEF f, S, Round, n, base
    <2>1. 0 \in T
      BY <1>0, <1>7
    <2>2. \A i \in 1 .. n : i - 1 \in T => i \in T
      BY <1>0, <1>1, <1>7
    <2>3. \A i \in 0 .. n : i \in T
      <3> HIDE DEF T
      <3> QED
        BY <1>0, <2>1, <2>2, UpTo
    <2> QED
      BY <2>3
  <1> HIDE DEF f
  <1>10. ArePairs(t, Ids \X Nat, s, ms, f)
    BY <1>7, <1>8, <1>9 DEF ArePairs
  <1> QED
    BY <1>10

(* A pipe: its modules join those whose pins are in a link or unresolved.    *)
LEMMA PipeLinks ==
  ASSUME NEW t, NEW Ids, NEW Queues, HavePins(t, Ids, Queues),
         NEW s \in States(Ids \X Nat), NEW ms \in Seq(Ids),
         NEW N \in SUBSET Ids, Linked(t, s, N, N)
  PROVE  /\ ComputePipeLinks(t, s, ms) \in States(Ids \X Nat)
         /\ Linked(t, ComputePipeLinks(t, s, ms), N \cup Range(ms), N \cup Range(ms))
         /\ Once(s) /\ IsInjective(ms) /\ N \cap Range(ms) = {} =>
              Once(ComputePipeLinks(t, s, ms))
  <1>1. CASE ms = <<>>
    <2>1. ComputePipeLinks(t, s, ms) = s /\ Range(ms) = {}
      BY <1>1 DEF ComputePipeLinks, Range
    <2> QED
      BY <2>1
  <1>2. CASE ms # <<>>
    <2> DEFINE P == Ids \X Nat
               n == Len(ms) - 1
               From(i) == N \cup {ms[Len(ms)]} \cup {ms[j] : j \in 1 .. i}
               To(i) == N \cup {ms[j] : j \in 1 .. i + 1}
               Fresh == Once(s) /\ IsInjective(ms) /\ N \cap Range(ms) = {}
    <2>1. n \in Nat /\ Len(ms) = n + 1 /\ DOMAIN ms = 1 .. n + 1
          /\ \A i \in 1 .. n + 1 : ms[i] \in Ids
      BY <1>2, EmptySeq
    <2>2. /\ EndsOfPipe(t, s, ms) \in States(P)
          /\ Linked(t, EndsOfPipe(t, s, ms), N \cup {ms[Len(ms)]}, N \cup {ms[1]})
          /\ Once(s) /\ ms[Len(ms)] \notin N /\ ms[1] \notin N => Once(EndsOfPipe(t, s, ms))
      BY <1>2, EndsOfPipeLink
    <2>3. PICK f : ArePairs(t, P, s, ms, f)
      BY <1>2, <2>2, PipeIsALoop
    <2>4. /\ \A i \in 0 .. n : f[i] \in States(P)
          /\ f[0] = EndsOfPipe(t, s, ms)
          /\ \A i \in 1 .. n : f[i] = ComputeModulesPairLink(t, f[i - 1], ms[i], ms[i + 1])
          /\ ComputePipeLinks(t, s, ms) = f[n]
      BY <2>3 DEF ArePairs
    <2>5. \A i \in 1 .. n + 1 : Fresh => ms[i] \notin N
      BY <2>1 DEF Range
    <2> DEFINE Holds(i) == Linked(t, f[i], From(i), To(i)) /\ (Fresh => Once(f[i]))
               T == {i \in 0 .. n : Holds(i)}
    <2>6. Holds(0)
      <3>1. From(0) = N \cup {ms[Len(ms)]} /\ To(0) = N \cup {ms[1]}
        OBVIOUS
      <3>2. Fresh => ms[Len(ms)] \notin N /\ ms[1] \notin N
        BY <2>1, <2>5
      <3> HIDE DEF From, To
      <3> QED
        BY <2>2, <2>4, <3>1, <3>2
    <2>7. ASSUME NEW i \in 1 .. n, Holds(i - 1) PROVE Holds(i)
      <3>1. /\ f[i - 1] \in States(P) /\ ms[i] \in Ids /\ ms[i + 1] \in Ids
            /\ f[i] = ComputeModulesPairLink(t, f[i - 1], ms[i], ms[i + 1])
        <4> HIDE DEF n
        <4>1. i - 1 \in 0 .. n /\ i \in 1 .. n + 1 /\ i + 1 \in 1 .. n + 1
          BY <2>1
        <4> QED
          BY <2>1, <2>4, <4>1
      <3>2. From(i) = From(i - 1) \cup {ms[i]} /\ To(i) = To(i - 1) \cup {ms[i + 1]}
        <4> HIDE DEF n
        <4>1. 1 .. i = (1 .. i - 1) \cup {i} /\ 1 .. i + 1 = (1 .. (i - 1) + 1) \cup {i + 1}
          BY <2>1
        <4> QED
          BY <4>1
      <3>3. From(i - 1) \in SUBSET Ids /\ To(i - 1) \in SUBSET Ids
        <4> HIDE DEF n
        <4> QED
          BY <2>1
      <3>4. Fresh => ms[i] \notin From(i - 1) /\ ms[i + 1] \notin To(i - 1)
        <4> SUFFICES ASSUME Fresh PROVE ms[i] \notin From(i - 1) /\ ms[i + 1] \notin To(i - 1)
          OBVIOUS
        <4>1. ms[i] \notin N /\ ms[i + 1] \notin N
          BY <2>1, <2>5
        <4>2. \A j \in 1 .. n + 1, k \in 1 .. n + 1 : ms[j] = ms[k] => j = k
          <5> HIDE DEF n
          <5> QED
            BY <2>1 DEF IsInjective
        <4> HIDE DEF n
        <4>3. /\ i \in 1 .. n + 1 /\ i + 1 \in 1 .. n + 1 /\ Len(ms) \in 1 .. n + 1
              /\ i # Len(ms) /\ \A j \in 1 .. i - 1 : j \in 1 .. n + 1 /\ j # i
              /\ \A j \in 1 .. (i - 1) + 1 : j \in 1 .. n + 1 /\ j # i + 1
          BY <2>1
        <4> QED
          BY <4>1, <4>2, <4>3
      <3>5. Linked(t, f[i - 1], From(i - 1), To(i - 1)) /\ (Fresh => Once(f[i - 1]))
        BY <2>7
      <3> HIDE DEF From, To, Fresh, n
      <3>6. /\ Linked(t, f[i], From(i - 1) \cup {ms[i]}, To(i - 1) \cup {ms[i + 1]})
            /\ Once(f[i - 1]) /\ ms[i] \notin From(i - 1) /\ ms[i + 1] \notin To(i - 1) =>
                 Once(f[i])
        <4> DEFINE u == f[i - 1]
                   a == ms[i]
                   b == ms[i + 1]
                   M == From(i - 1)
                   K == To(i - 1)
        <4>1. /\ u \in States(Ids \X Nat) /\ a \in Ids /\ b \in Ids
              /\ M \in SUBSET Ids /\ K \in SUBSET Ids /\ Linked(t, u, M, K)
              /\ f[i] = ComputeModulesPairLink(t, u, a, b)
          BY <3>1, <3>3, <3>5
        <4> HIDE DEF u, a, b, M, K
        <4>2. /\ Linked(t, ComputeModulesPairLink(t, u, a, b), M \cup {a}, K \cup {b})
              /\ Once(u) /\ a \notin M /\ b \notin K =>
                   Once(ComputeModulesPairLink(t, u, a, b))
          BY <4>1, PairLinks
        <4> QED
          BY <4>1, <4>2 DEF u, a, b, M, K
      <3> QED
        BY <3>2, <3>4, <3>5, <3>6
    <2>8. Holds(n)
      <3>1. 0 \in T /\ \A i \in 1 .. n : i - 1 \in T => i \in T
        <4> HIDE DEF Holds, n
        <4> QED
          BY <2>1, <2>6, <2>7
      <3>2. \A i \in 0 .. n : i \in T
        <4> HIDE DEF T, n
        <4> QED
          BY <2>1, <3>1, UpTo
      <3> HIDE DEF Holds, n
      <3> QED
        BY <2>1, <3>2
    <2>9. From(n) = N \cup Range(ms) /\ To(n) = N \cup Range(ms)
      <3>1. Range(ms) = {ms[j] : j \in 1 .. n + 1}
        BY <2>1 DEF Range
      <3>2. 1 .. n + 1 = (1 .. n) \cup {n + 1}
        BY <2>1
      <3> HIDE DEF n
      <3> QED
        BY <2>1, <3>1, <3>2
    <2>10. ComputePipeLinks(t, s, ms) = f[n] /\ f[n] \in States(Ids \X Nat)
      <3> HIDE DEF n
      <3>1. n \in 0 .. n
        BY <2>1
      <3> QED
        BY <2>4, <3>1
    <2>11. Linked(t, f[n], N \cup Range(ms), N \cup Range(ms)) /\ (Fresh => Once(f[n]))
      <3> HIDE DEF From, To, n, Fresh
      <3> QED
        BY <2>8, <2>9
    <2> QED
      BY <2>10, <2>11
  <1> QED
    BY <1>1, <1>2

-----------------------------------------------------------------------------

(* The topologies with these pipelines; their other fields do not matter.    *)
Topologies(Gateways, Pipes, Cores, Modules, Links) ==
  [gateways : Gateways, pipelines : Seq(Pipes), schedulers : Cores,
   modules : Modules, links : Links]

(* The pipelines of a topology list modules of Ids, and the firmware has told *)
(* the queues of their pins.                                                 *)
IsKnown(t, Ids, Queues) ==
  /\ \A i \in DOMAIN t.pipelines : t.pipelines[i].modules \in Seq(Ids)
  /\ HavePins(t, Ids, Queues)

(* States between two pipelines: the outputs and the inputs of the same      *)
(* modules are in them.                                                      *)
Balanced(t, Ids) == {s \in States(Ids \X Nat) : \E N \in SUBSET Ids : Linked(t, s, N, N)}

LEMMA NothingIsLinkedAtFirst ==
  ASSUME NEW t, NEW P
  PROVE  /\ Unlinked(<<>>, <<>>) \in States(P)
         /\ Linked(t, Unlinked(<<>>, <<>>), {}, {}) /\ Once(Unlinked(<<>>, <<>>))
  <1>1. <<>> \in Seq(P) /\ Range(<<>>) = {} /\ IsInjective(<<>>)
    BY DEF Range, IsInjective
  <1>2. OutputsOf(t, {}) = {} /\ InputsOf(t, {}) = {}
    BY DEF OutputsOf, InputsOf
  <1>3. /\ Unlinked(<<>>, <<>>) \in States(P)
        /\ Covers(t, Unlinked(<<>>, <<>>), {}, {}) /\ Once(Unlinked(<<>>, <<>>))
    BY <1>1, UnlinkedCovers
  <1> QED
    BY <1>2, <1>3 DEF Linked

(* computeIntraPipeLinks() goes along the pipelines. *)
ArePipes(t, P, f) ==
  /\ \A i \in 0 .. Len(t.pipelines) : f[i] \in States(P)
  /\ f[0] = Unlinked(<<>>, <<>>)
  /\ \A i \in 1 .. Len(t.pipelines) : f[i] = ComputePipeLinks(t, f[i - 1], t.pipelines[i].modules)
  /\ ComputeIntraPipeLinks(t) = f[Len(t.pipelines)]

LEMMA IntraIsALoop ==
  ASSUME NEW Gateways, NEW Pipes, NEW Cores, NEW Modules, NEW Links,
         NEW t \in Topologies(Gateways, Pipes, Cores, Modules, Links),
         NEW Ids, NEW Queues, IsKnown(t, Ids, Queues)
  PROVE  \E f : ArePipes(t, Ids \X Nat, f)
  <1> DEFINE n == Len(t.pipelines)
             S == Balanced(t, Ids)
             base == Unlinked(<<>>, <<>>)
             Round(u, i) == ComputePipeLinks(t, u, t.pipelines[i].modules)
             step == [i \in 1 .. n |-> [u \in S |-> Round(u, i)]]
             Body(g) == [i \in 0 .. n |-> IF i = 0 THEN base ELSE Round(g[i - 1], i)]
             f == CHOOSE g : g = Body(g)
  <1>0. n \in Nat /\ base \in S /\ \A i \in 1 .. n : t.pipelines[i].modules \in Seq(Ids)
    <2>1. n \in Nat /\ \A i \in 1 .. n : t.pipelines[i].modules \in Seq(Ids)
      BY DEF Topologies, IsKnown
    <2>2. base \in States(Ids \X Nat) /\ Linked(t, base, {}, {}) /\ {} \in SUBSET Ids
      BY NothingIsLinkedAtFirst
    <2> HIDE DEF base, n
    <2> QED
      BY <2>1, <2>2 DEF Balanced
  <1>1. \A i \in 1 .. n : \A u \in S : Round(u, i) \in S
    <2> TAKE i \in 1 .. n
    <2> TAKE u \in S
    <2> DEFINE ms == t.pipelines[i].modules
    <2>1. PICK N \in SUBSET Ids : Linked(t, u, N, N)
      BY DEF Balanced
    <2>2. ms \in Seq(Ids) /\ u \in States(Ids \X Nat) /\ HavePins(t, Ids, Queues)
      BY <1>0 DEF Balanced, IsKnown
    <2> HIDE DEF ms
    <2>3. /\ ComputePipeLinks(t, u, ms) \in States(Ids \X Nat)
          /\ Linked(t, ComputePipeLinks(t, u, ms), N \cup Range(ms), N \cup Range(ms))
      BY <2>1, <2>2, PipeLinks
    <2>4. N \cup Range(ms) \in SUBSET Ids
      BY <2>2, RangeOfSeq
    <2>5. ComputePipeLinks(t, u, ms) \in Balanced(t, Ids)
      BY <2>3, <2>4 DEF Balanced
    <2> QED
      BY <2>5 DEF ms
  <1>2. step \in [1 .. n -> [S -> S]]
    <2> HIDE DEF S, Round
    <2> QED
      BY <1>1
  <1>3. PICK p : Loops(S, base, step, p, n)
    <2> HIDE DEF S, step, n, base
    <2> QED
      BY <1>0, <1>2, LoopExists
  <1>4. /\ p \in [0 .. n -> S] /\ p[0] = base
        /\ \A i \in 1 .. n : p[i] = Round(p[i - 1], i)
    <2>1. p \in [0 .. n -> S] /\ p[0] = base /\ \A i \in 1 .. n : p[i] = step[i][p[i - 1]]
      <3> HIDE DEF S, step, n, base
      <3> QED
        BY <1>3 DEF Loops
    <2>2. \A i \in 1 .. n : p[i - 1] \in S
      <3> HIDE DEF S, step, n
      <3> QED
        BY <1>0, <2>1
    <2>3. \A i \in 1 .. n : step[i][p[i - 1]] = Round(p[i - 1], i)
      <3> HIDE DEF S, Round, n
      <3> QED
        BY <2>2
    <2> HIDE DEF S, Round, step, n, base
    <2> QED
      BY <2>1, <2>3
  <1>5. p = Body(p)
    <2> HIDE DEF S, Round, n, base
    <2> QED
      BY <1>0, <1>4
  <1>6. f = Body(f)
    <2> HIDE DEF Body
    <2> QED
      BY <1>5
  <1>7. f[0] = base /\ \A i \in 1 .. n : f[i] = Round(f[i - 1], i)
    <2> HIDE DEF Round, f, n, base
    <2> QED
      BY <1>0, <1>6
  <1>8. ComputeIntraPipeLinks(t) = f[n]
    BY DEF ComputeIntraPipeLinks, Unlinked
  <1>9. \A i \in 0 .. n : f[i] \in S
    <2> DEFINE T == {i \in 0 .. n : f[i] \in S}
    <2> HIDE DEF f, S, Round, n, base
    <2>1. 0 \in T
      BY <1>0, <1>7
    <2>2. \A i \in 1 .. n : i - 1 \in T => i \in T
      BY <1>0, <1>1, <1>7
    <2>3. \A i \in 0 .. n : i \in T
      <3> HIDE DEF T
      <3> QED
        BY <1>0, <2>1, <2>2, UpTo
    <2> QED
      BY <2>3
  <1> HIDE DEF f
  <1>10. \A i \in 0 .. n : f[i] \in States(Ids \X Nat)
    BY <1>9 DEF Balanced
  <1>11. ArePipes(t, Ids \X Nat, f)
    BY <1>7, <1>8, <1>10 DEF ArePipes
  <1> QED
    BY <1>11

(* Within the pipelines: every pin of a module they list is in a link or     *)
(* unresolved, in one place if the modules are listed once.                  *)
LEMMA IntraLinks ==
  ASSUME NEW Gateways, NEW Pipes, NEW Cores, NEW Modules, NEW Links,
         NEW t \in Topologies(Gateways, Pipes, Cores, Modules, Links),
         NEW Ids, NEW Queues, IsKnown(t, Ids, Queues)
  PROVE  /\ ComputeIntraPipeLinks(t) \in States(Ids \X Nat)
         /\ Linked(t, ComputeIntraPipeLinks(t), PipedModules(t), PipedModules(t))
         /\ ListedOnce(t) => Once(ComputeIntraPipeLinks(t))
  <1> DEFINE n == Len(t.pipelines)
             ms(i) == t.pipelines[i].modules
             Done(i) == UNION {Range(ms(j)) : j \in 1 .. i}
  <1>1. /\ n \in Nat /\ DOMAIN t.pipelines = 1 .. n
        /\ \A i \in 1 .. n : ms(i) \in Seq(Ids)
    BY DEF Topologies, IsKnown
  <1>2. PICK f : ArePipes(t, Ids \X Nat, f)
    BY IntraIsALoop
  <1>3. /\ \A i \in 0 .. n : f[i] \in States(Ids \X Nat)
        /\ f[0] = Unlinked(<<>>, <<>>)
        /\ \A i \in 1 .. n : f[i] = ComputePipeLinks(t, f[i - 1], ms(i))
        /\ ComputeIntraPipeLinks(t) = f[n]
    BY <1>2 DEF ArePipes
  <1> DEFINE Holds(i) == Linked(t, f[i], Done(i), Done(i)) /\ (ListedOnce(t) => Once(f[i]))
             T == {i \in 0 .. n : Holds(i)}
  <1>4. Holds(0)
    <2>1. Done(0) = {}
      OBVIOUS
    <2> HIDE DEF Done
    <2> QED
      BY <1>3, <2>1, NothingIsLinkedAtFirst
  <1>5. ASSUME NEW i \in 1 .. n, Holds(i - 1) PROVE Holds(i)
    <2> DEFINE m == ms(i)
               N == Done(i - 1)
               u == f[i - 1]
    <2>1. m \in Seq(Ids) /\ u \in States(Ids \X Nat) /\ f[i] = ComputePipeLinks(t, u, m)
      <3>1. i - 1 \in 0 .. n
        BY <1>1
      <3> HIDE DEF n, ms
      <3> QED
        BY <1>1, <1>3, <3>1
    <2>2. Done(i) = N \cup Range(m)
      <3>1. 1 .. i = (1 .. i - 1) \cup {i}
        BY <1>1
      <3> HIDE DEF ms
      <3> QED
        BY <3>1
    <2>3. N \in SUBSET Ids
      <3>1. \A j \in 1 .. i - 1 : ms(j) \in Seq(Ids)
        <4> HIDE DEF n, ms
        <4> QED
          BY <1>1
      <3>2. \A j \in 1 .. i - 1 : Range(ms(j)) \subseteq Ids
        <4> HIDE DEF ms
        <4> QED
          BY <3>1, RangeOfSeq
      <3> HIDE DEF ms
      <3> QED
        BY <3>2
    <2>4. ListedOnce(t) => IsInjective(m) /\ N \cap Range(m) = {}
      <3> SUFFICES ASSUME ListedOnce(t) PROVE IsInjective(m) /\ N \cap Range(m) = {}
        OBVIOUS
      <3>1. \A j \in 1 .. n, h \in 1 .. n : \A k \in DOMAIN ms(j), l \in DOMAIN ms(h) :
              ms(j)[k] = ms(h)[l] => j = h /\ k = l
        BY <1>1 DEF ListedOnce
      <3>2. i \in 1 .. n /\ \A j \in 1 .. i - 1 : j \in 1 .. n /\ j # i
        BY <1>1
      <3> HIDE DEF n, ms
      <3>3. IsInjective(m)
        BY <3>1, <3>2 DEF IsInjective
      <3>4. \A j \in 1 .. i - 1 : Range(ms(j)) \cap Range(m) = {}
        BY <3>1, <3>2 DEF Range
      <3> QED
        BY <3>3, <3>4
    <2>5. Linked(t, u, N, N) /\ (ListedOnce(t) => Once(u))
      BY <1>5
    <2> HIDE DEF m, N, u, Done
    <2>6. /\ Linked(t, f[i], N \cup Range(m), N \cup Range(m))
          /\ Once(u) /\ IsInjective(m) /\ N \cap Range(m) = {} => Once(f[i])
      <3>1. /\ Linked(t, ComputePipeLinks(t, u, m), N \cup Range(m), N \cup Range(m))
            /\ Once(u) /\ IsInjective(m) /\ N \cap Range(m) = {} =>
                 Once(ComputePipeLinks(t, u, m))
        BY <2>1, <2>3, <2>5, PipeLinks DEF IsKnown
      <3> QED
        BY <2>1, <3>1
    <2> QED
      BY <2>2, <2>4, <2>5, <2>6
  <1>6. Holds(n)
    <2>1. 0 \in T /\ \A i \in 1 .. n : i - 1 \in T => i \in T
      <3> HIDE DEF Holds, n
      <3> QED
        BY <1>1, <1>4, <1>5
    <2>2. \A i \in 0 .. n : i \in T
      <3> HIDE DEF T, n
      <3> QED
        BY <1>1, <2>1, UpTo
    <2> HIDE DEF Holds, n
    <2> QED
      BY <1>1, <2>2
  <1>7. Done(n) = PipedModules(t)
    <2>1. PipedModules(t) = UNION {Range(p.modules) : p \in {t.pipelines[i] : i \in 1 .. n}}
      <3> HIDE DEF n
      <3> QED
        BY <1>1 DEF PipedModules, Range
    <2> HIDE DEF n
    <2> QED
      BY <2>1
  <1>8. n \in 0 .. n
    BY <1>1
  <1> HIDE DEF Done, n, ms
  <1> QED
    BY <1>3, <1>6, <1>7, <1>8

(* Between the pipelines: what they leave unresolved is linked as far as the *)
(* queues allow.                                                             *)
LEMMA InterLinks ==
  ASSUME NEW t, NEW P, NEW s \in States(P), NEW O, NEW I, Covers(t, s, O, I)
  PROVE  /\ ComputeInterPipeLinks(t, s) \in States(P)
         /\ Covers(t, ComputeInterPipeLinks(t, s), O, I)
         /\ Once(s) => Once(ComputeInterPipeLinks(t, s))
         /\ Unmatched(t, ComputeInterPipeLinks(t, s))
  <1> DEFINE L == [from : P, to : P]
             found == Match(t, s.outputs, s.inputs)
             linked == [links |-> s.links, outputs |-> <<>>, inputs |-> <<>>]
             u == ComputeInterPipeLinks(t, s)
  <1>1. s.links \in Seq(L) /\ s.outputs \in Seq(P) /\ s.inputs \in Seq(P)
    BY DEF States
  <1>2. /\ found \in States(P)
        /\ Covers(t, found, Range(s.outputs), Range(s.inputs))
        /\ IsInjective(s.outputs) /\ IsInjective(s.inputs) => Once(found)
        /\ Unmatched(t, found)
    BY <1>1, MatchCovers
  <1>3. /\ linked \in States(P) /\ linked.links = s.links
        /\ linked.outputs = <<>> /\ linked.inputs = <<>>
    BY <1>1 DEF States
  <1>4. Covers(t, linked, Froms(s), Tos(s)) /\ (Once(s) => Once(linked))
    <2>1. Range(<<>>) = {} /\ IsInjective(<<>>)
      BY DEF Range, IsInjective
    <2>2. Froms(linked) = Froms(s) /\ Tos(linked) = Tos(s)
      BY <1>3 DEF Froms, Tos
    <2> HIDE DEF linked
    <2>3. Covers(t, linked, Froms(s), Tos(s))
      BY <1>3, <2>1, <2>2 DEF Covers
    <2>4. Once(s) => Once(linked)
      BY <1>3, <2>1, <2>2 DEF Once
    <2> QED
      BY <2>3, <2>4
  <1>5. u = Merged(linked, found)
    <2> HIDE DEF found
    <2>1. /\ <<>> \o found.outputs = found.outputs /\ <<>> \o found.inputs = found.inputs
      <3>1. found.outputs \in Seq(P) /\ found.inputs \in Seq(P)
        BY <1>2 DEF States
      <3> QED
        BY <3>1, ConcatEmptySeq
    <2>2. Merged(linked, found) = [links   |-> s.links \o found.links,
                                   outputs |-> found.outputs, inputs |-> found.inputs]
      BY <1>3, <2>1 DEF Merged
    <2>3. u = [links |-> s.links \o found.links, outputs |-> found.outputs, inputs |-> found.inputs]
      BY DEF ComputeInterPipeLinks, found
    <2> QED
      BY <2>2, <2>3
  <1> HIDE DEF found, linked, u
  <1>6. u \in States(P)
    BY <1>2, <1>3, <1>5, MergedCovers
  <1>7. Froms(s) \cup Range(s.outputs) = O /\ Tos(s) \cup Range(s.inputs) = I
    BY DEF Covers
  <1>8. /\ Covers(t, u, Froms(s) \cup Range(s.outputs), Tos(s) \cup Range(s.inputs))
        /\ Once(linked) /\ Once(found) /\ Froms(s) \cap Range(s.outputs) = {}
                        /\ Tos(s) \cap Range(s.inputs) = {} => Once(u)
    BY <1>2, <1>3, <1>4, <1>5, MergedCovers
  <1>9. Once(s) => Once(u)
    BY <1>2, <1>4, <1>8 DEF Once
  <1>10. Unmatched(t, u)
    <2>1. u.outputs = found.outputs /\ u.inputs = found.inputs
      BY <1>2 DEF ComputeInterPipeLinks, u, found
    <2> QED
      BY <1>2, <2>1 DEF Unmatched
  <1> QED
    BY <1>6, <1>7, <1>8, <1>9, <1>10 DEF u

(* computeLinks(), for every topology: a link joins an output and an input   *)
(* of one queue, no pin is left alone as long as one of its queue is on the  *)
(* other side, and no pin has two links when the firmware lists every module *)
(* once.                                                                     *)
THEOREM LinksMatchTheQueues ==
  ASSUME NEW Gateways, NEW Pipes, NEW Cores, NEW Modules, NEW Links,
         NEW t \in Topologies(Gateways, Pipes, Cores, Modules, Links),
         NEW Ids, NEW Queues, IsKnown(t, Ids, Queues)
  PROVE  /\ LinksJoinQueues(ComputeLinks(t))
         /\ NoQueueIsLeft(ComputeLinks(t))
         /\ ListedOnce(ComputeLinks(t)) => PinsAreUsedOnce(ComputeLinks(t))
  <1> DEFINE P == Ids \X Nat
             s == ComputeIntraPipeLinks(t)
             u == ComputeInterPipeLinks(t, s)
             v == ComputeLinks(t)
  <1>1. s \in States(P) /\ Covers(t, s, Outputs(t), Inputs(t)) /\ (ListedOnce(t) => Once(s))
    <2>1. /\ s \in States(P) /\ Linked(t, s, PipedModules(t), PipedModules(t))
          /\ ListedOnce(t) => Once(s)
      BY IntraLinks
    <2>2. /\ Outputs(t) = OutputsOf(t, PipedModules(t))
          /\ Inputs(t) = InputsOf(t, PipedModules(t))
      BY DEF Outputs, Inputs, OutputsOf, InputsOf
    <2> QED
      BY <2>1, <2>2 DEF Linked
  <1> HIDE DEF s
  <1>2. /\ Covers(t, u, Outputs(t), Inputs(t)) /\ Unmatched(t, u)
        /\ Once(s) => Once(u)
    BY <1>1, InterLinks
  <1>3. v.links = u.links /\ v.pipelines = t.pipelines /\ v.modules = t.modules
    BY DEF ComputeLinks, Topologies, s
  <1> HIDE DEF u, v
  <1>4. /\ Outputs(v) = Outputs(t) /\ Inputs(v) = Inputs(t) /\ (ListedOnce(v) = ListedOnce(t))
        /\ \A p : OutputQueue(v, p) = OutputQueue(t, p) /\ InputQueue(v, p) = InputQueue(t, p)
    BY <1>3 DEF Outputs, Inputs, PipedModules, AddAllModuleOutputs, AddAllModuleInputs,
                ListedOnce, OutputQueue, InputQueue
  <1>5. LinksJoinQueues(v)
    BY <1>2, <1>3, <1>4 DEF LinksJoinQueues, Covers, Froms, Tos
  <1>6. NoQueueIsLeft(v)
    <2> SUFFICES ASSUME NEW o \in Outputs(t), NEW p \in Inputs(t),
                        OutputQueue(t, o) = InputQueue(t, p)
                 PROVE  \E l \in Range(u.links) : l.from = o \/ l.to = p
      BY <1>3, <1>4 DEF NoQueueIsLeft
    <2>1. o \in Froms(u) \/ p \in Tos(u)
      BY <1>2 DEF Covers, Unmatched
    <2> QED
      BY <2>1 DEF Froms, Tos
  <1>7. ListedOnce(v) => PinsAreUsedOnce(v)
    BY <1>1, <1>2, <1>3, <1>4 DEF PinsAreUsedOnce, Once
  <1> QED
    BY <1>5, <1>6, <1>7 DEF v

-----------------------------------------------------------------------------
(* InstanceModel: what a refresh finds is a topology.                        *)

Configurations == Initial \cup Reconfigured

GatewayLists == {<<>>} \cup {c.gateways : c \in Configurations}
PipeProps    == UNION {{c.pipes[p] : p \in DOMAIN c.pipes} : c \in Configurations}
CoreProps    == UNION {{c.schedulers[i] : i \in 1 .. DspCoreCount} : c \in Configurations}
ModuleProps  == UNION {{c.modules[m] : m \in DOMAIN c.modules} : c \in Configurations}
ModuleIdsOf  == UNION {DOMAIN c.modules : c \in Configurations}
ModuleMaps   == UNION {[D -> ModuleProps] : D \in SUBSET ModuleIdsOf}

Fetchable == Topologies(GatewayLists, PipeProps, Seq(CoreProps), ModuleMaps, {<<>>})

(* Every module that a pipeline or a task names has been asked for, or is    *)
(* still to be.                                                              *)
AllAskedFor(t, left) == ModulesOf(t) \subseteq DOMAIN t.modules \cup left

(* The invariant: a refresh fetches a topology; when it asks for modules, it *)
(* misses none that is named; and what it leaves is the links of such a      *)
(* topology.                                                                 *)
FetchInv ==
  /\ firmware \in Configurations
  /\ query # "idle" => topology \in Fetchable
  /\ query = "cores" => todo \in Seq(1 .. DspCoreCount)
  /\ query = "modules" => todo \in Seq(ModulesOf(topology)) /\ AllAskedFor(topology, Range(todo))
  /\ query = "idle" => \/ topology = EmptyTopology
                       \/ \E t \in Fetchable : AllAskedFor(t, {}) /\ topology = ComputeLinks(t)

(* A topology with all its modules: its pipelines list modules whose pins    *)
(* are known.                                                                *)
LEMMA FetchedPipes ==
  ASSUME NEW t \in Fetchable, AllAskedFor(t, {})
  PROVE  /\ HavePins(t, PipedModules(t), UNION {Range(t.modules[m].outputs) \cup Range(t.modules[m].inputs) :
                                                 m \in DOMAIN t.modules})
         /\ \A i \in DOMAIN t.pipelines : t.pipelines[i].modules \in Seq(PipedModules(t))
  <1> DEFINE ps == t.pipelines
             N == PipedModules(t)
             Queues == UNION {Range(t.modules[m].outputs) \cup Range(t.modules[m].inputs) :
                                m \in DOMAIN t.modules}
  <1>1. ps \in Seq(PipeProps) /\ t.modules \in ModuleMaps
    BY DEF Fetchable, Topologies
  <1>2. \A p \in PipeProps : p.modules \in Seq(Range(p.modules))
    BY ConfigurationAssumption DEF PipeProps, Configurations, IsList
  <1>3. \A i \in DOMAIN ps : /\ ps[i].modules \in Seq(Range(ps[i].modules))
                             /\ Range(ps[i].modules) \subseteq N
    <2>1. \A i \in DOMAIN ps : ps[i] \in PipeProps /\ ps[i] \in Range(ps)
      BY <1>1 DEF Range
    <2>2. N = UNION {Range(p.modules) : p \in Range(ps)}
      BY DEF PipedModules
    <2> HIDE DEF ps, N
    <2> QED
      BY <1>2, <2>1, <2>2
  <1>4. \A i \in DOMAIN ps : ps[i].modules \in Seq(N)
    <2> HIDE DEF ps, N
    <2> QED
      BY <1>3, SeqMonotonic
  <1>5. N \subseteq DOMAIN t.modules
    <2>1. N \subseteq ModulesOf(t)
      BY DEF PipedModules, ModulesOf
    <2> QED
      BY <2>1 DEF AllAskedFor
  <1>6. \A m \in DOMAIN t.modules : t.modules[m] \in ModuleProps
    BY <1>1 DEF ModuleMaps
  <1>7. \A p \in ModuleProps : p.inputs \in Seq(Range(p.inputs)) /\ p.outputs \in Seq(Range(p.outputs))
    BY ConfigurationAssumption DEF ModuleProps, Configurations, IsList
  <1>8. ASSUME NEW m \in N PROVE t.modules[m].outputs \in Seq(Queues) /\ t.modules[m].inputs \in Seq(Queues)
    <2> DEFINE o == t.modules[m].outputs
               p == t.modules[m].inputs
    <2>1. o \in Seq(Range(o)) /\ p \in Seq(Range(p))
      BY <1>5, <1>6, <1>7
    <2>2. Range(o) \subseteq Queues /\ Range(p) \subseteq Queues
      BY <1>5
    <2> HIDE DEF o, p, Queues
    <2>3. o \in Seq(Queues) /\ p \in Seq(Queues)
      BY <2>1, <2>2, SeqMonotonic
    <2> QED
      BY <2>3 DEF o, p
  <1>9. HavePins(t, N, Queues)
    <2> HIDE DEF N, Queues
    <2> QED
      BY <1>8 DEF HavePins
  <1> QED
    BY <1>4, <1>9

(* What each answer adds to the topology keeps it one, and leaves the other  *)
(* fields alone.                                                             *)
LEMMA FieldsAreKept ==
  ASSUME NEW t \in Fetchable
  PROVE  /\ \A x \in GatewayLists : [t EXCEPT !.gateways = x] \in Fetchable
         /\ \A x \in Seq(PipeProps) : [t EXCEPT !.pipelines = x] \in Fetchable
         /\ \A x \in Seq(CoreProps) : [t EXCEPT !.schedulers = x] \in Fetchable
         /\ \A x \in ModuleMaps : /\ [t EXCEPT !.modules = x] \in Fetchable
                                  /\ [t EXCEPT !.modules = x].modules = x
                                  /\ ModulesOf([t EXCEPT !.modules = x]) = ModulesOf(t)
  <1> USE DEF Fetchable, Topologies
  <1>1. \A x \in GatewayLists : [t EXCEPT !.gateways = x] \in Fetchable
    OBVIOUS
  <1>2. \A x \in Seq(PipeProps) : [t EXCEPT !.pipelines = x] \in Fetchable
    OBVIOUS
  <1>3. \A x \in Seq(CoreProps) : [t EXCEPT !.schedulers = x] \in Fetchable
    OBVIOUS
  <1>4. ASSUME NEW x \in ModuleMaps
        PROVE  /\ [t EXCEPT !.modules = x] \in Fetchable
               /\ [t EXCEPT !.modules = x].modules = x
               /\ ModulesOf([t EXCEPT !.modules = x]) = ModulesOf(t)
    <2>1. /\ [t EXCEPT !.modules = x] \in Fetchable
          /\ [t EXCEPT !.modules = x].modules = x
          /\ [t EXCEPT !.modules = x].pipelines = t.pipelines
          /\ [t EXCEPT !.modules = x].schedulers = t.schedulers
      OBVIOUS
    <2> QED
      BY <2>1 DEF ModulesOf
  <1> QED
    BY <1>1, <1>2, <1>3, <1>4

(* The parts of a configuration. *)
LEMMA PartsOfTheFirmware ==
  ASSUME firmware \in Configurations
  PROVE  /\ firmware.gateways \in GatewayLists
         /\ \A p \in DOMAIN firmware.pipes : firmware.pipes[p] \in PipeProps
         /\ \A i \in 1 .. DspCoreCount : firmware.schedulers[i] \in CoreProps
         /\ \A m \in DOMAIN firmware.modules : m \in ModuleIdsOf /\ firmware.modules[m] \in ModuleProps
  BY DEF GatewayLists, PipeProps, CoreProps, ModuleProps, ModuleIdsOf

(* Facts about finite sets: those of a sequence, and of the values of a      *)
(* function over a finite set.                                               *)
LEMMA RangeIsFinite ==
  ASSUME NEW S, NEW s \in Seq(S)
  PROVE  IsFiniteSet(Range(s))
  <1>1. DOMAIN s = 1 .. Len(s) /\ Len(s) \in Nat
    OBVIOUS
  <1>2. s \in Surjection(DOMAIN s, Range(s))
    BY <1>1 DEF Surjection, Range
  <1>3. IsFiniteSet(DOMAIN s)
    BY <1>1, FS_Interval
  <1> QED
    BY <1>2, <1>3, FS_Surjection

LEMMA UnionOfValuesIsFinite ==
  ASSUME NEW D, IsFiniteSet(D), NEW F, DOMAIN F = D, F \in [D -> Range(F)],
         \A x \in D : IsFiniteSet(F[x])
  PROVE  IsFiniteSet(UNION {F[x] : x \in D})
  <1> DEFINE V == {F[x] : x \in D}
  <1>1. F \in Surjection(D, V)
    BY DEF Surjection, Range
  <1>2. IsFiniteSet(V)
    BY <1>1, FS_Surjection
  <1> QED
    BY <1>2, FS_UNION

(* A finite set as a sequence: nothing is added and nothing is lost. *)
LEMMA SetAsSequence ==
  ASSUME NEW S, IsFiniteSet(S)
  PROVE  SetToSeq(S) \in Seq(S) /\ Range(SetToSeq(S)) = S
  <1> DEFINE n == Cardinality(S)
             f == SetToSeq(S)
             R == Range(f)
  <1>1. n \in Nat /\ ExistsBijection(1 .. n, S)
    BY FS_CardinalityType
  <1>2. PICK b \in [1 .. n -> S] : IsInjective(b)
    BY <1>1 DEF ExistsBijection, Bijection, Injection
  <1>3. f \in [1 .. n -> S] /\ IsInjective(f)
    BY <1>2 DEF SetToSeq
  <1> HIDE DEF f, n
  <1>4. f \in Surjection(1 .. n, R) /\ f \in Injection(1 .. n, R)
    BY <1>3 DEF Surjection, Injection, Range
  <1>5. IsFiniteSet(1 .. n) /\ Cardinality(1 .. n) = n
    BY <1>1, FS_Interval
  <1>6. Cardinality(R) = n
    BY <1>4, <1>5, FS_Surjection
  <1>7. R \in SUBSET S
    BY <1>3 DEF Range
  <1>8. R = S
    BY <1>6, <1>7, FS_Subset DEF n
  <1>9. f \in Seq(S)
    BY <1>1, <1>3
  <1> QED
    BY <1>8, <1>9 DEF f

(* A fetched topology names finitely many modules. *)
LEMMA FinitelyManyModules ==
  ASSUME NEW t \in Fetchable
  PROVE  IsFiniteSet(ModulesOf(t))
  <1> DEFINE schedulers == UNION {Range(core) : core \in Range(t.schedulers)}
             tasks == UNION {Range(s.tasks) : s \in schedulers}
             A == UNION {Range(p.modules) : p \in Range(t.pipelines)}
             B == UNION {Range(k.modules) : k \in tasks}
  <1>1. t.pipelines \in Seq(PipeProps) /\ t.schedulers \in Seq(CoreProps)
    BY DEF Fetchable, Topologies
  <1>2. \A p \in PipeProps : p.modules \in Seq(Range(p.modules))
    BY ConfigurationAssumption DEF PipeProps, Configurations, IsList
  <1>3. \A core \in CoreProps :
          /\ core \in Seq(Range(core))
          /\ \A s \in Range(core) : /\ s.tasks \in Seq(Range(s.tasks))
                                    /\ \A k \in Range(s.tasks) : k.modules \in Seq(Range(k.modules))
    BY ConfigurationAssumption DEF CoreProps, Configurations, IsList
  <1>4. /\ IsFiniteSet(Range(t.pipelines)) /\ Range(t.pipelines) \subseteq PipeProps
        /\ IsFiniteSet(Range(t.schedulers)) /\ Range(t.schedulers) \subseteq CoreProps
    BY <1>1, RangeIsFinite, RangeOfSeq
  <1>5. IsFiniteSet(A)
    <2> DEFINE D == Range(t.pipelines)
               F == [p \in D |-> Range(p.modules)]
    <2>1. \A p \in D : IsFiniteSet(F[p])
      BY <1>2, <1>4, RangeIsFinite
    <2>2. DOMAIN F = D /\ F \in [D -> Range(F)]
      BY DEF Range
    <2>3. A = UNION {F[p] : p \in D}
      OBVIOUS
    <2> HIDE DEF F, D, A
    <2> QED
      BY <1>4, <2>1, <2>2, <2>3, UnionOfValuesIsFinite DEF D
  <1>6. /\ IsFiniteSet(schedulers)
        /\ \A s \in schedulers : /\ s.tasks \in Seq(Range(s.tasks))
                                 /\ \A k \in Range(s.tasks) : k.modules \in Seq(Range(k.modules))
    <2> DEFINE D == Range(t.schedulers)
               F == [core \in D |-> Range(core)]
    <2>1. \A core \in D : IsFiniteSet(F[core])
      BY <1>3, <1>4, RangeIsFinite
    <2>2. DOMAIN F = D /\ F \in [D -> Range(F)]
      BY DEF Range
    <2>3. schedulers = UNION {F[core] : core \in D}
      OBVIOUS
    <2>4. \A s \in schedulers : \E core \in CoreProps : s \in Range(core)
      BY <1>4
    <2> HIDE DEF F, D, schedulers
    <2>5. IsFiniteSet(schedulers)
      BY <1>4, <2>1, <2>2, <2>3, UnionOfValuesIsFinite DEF D
    <2> QED
      BY <1>3, <2>4, <2>5
  <1>7. IsFiniteSet(tasks) /\ \A k \in tasks : k.modules \in Seq(Range(k.modules))
    <2> DEFINE F == [s \in schedulers |-> Range(s.tasks)]
    <2> HIDE DEF schedulers
    <2>1. \A s \in schedulers : IsFiniteSet(F[s])
      BY <1>6, RangeIsFinite
    <2>2. DOMAIN F = schedulers /\ F \in [schedulers -> Range(F)]
      BY DEF Range
    <2>3. tasks = UNION {F[s] : s \in schedulers}
      OBVIOUS
    <2>4. \A k \in tasks : \E s \in schedulers : k \in Range(s.tasks)
      OBVIOUS
    <2> HIDE DEF F, tasks
    <2>5. IsFiniteSet(tasks)
      BY <1>6, <2>1, <2>2, <2>3, UnionOfValuesIsFinite
    <2> QED
      BY <1>6, <2>4, <2>5
  <1>8. IsFiniteSet(B)
    <2> DEFINE F == [k \in tasks |-> Range(k.modules)]
    <2> HIDE DEF tasks
    <2>1. \A k \in tasks : IsFiniteSet(F[k])
      BY <1>7, RangeIsFinite
    <2>2. DOMAIN F = tasks /\ F \in [tasks -> Range(F)]
      BY DEF Range
    <2>3. B = UNION {F[k] : k \in tasks}
      OBVIOUS
    <2> HIDE DEF F, B
    <2> QED
      BY <1>7, <2>1, <2>2, <2>3, UnionOfValuesIsFinite
  <1>9. ModulesOf(t) = A \cup B
    BY DEF ModulesOf
  <1> HIDE DEF A, B
  <1> QED
    BY <1>5, <1>8, <1>9, FS_Union

LEMMA NothingIsFetchedAtFirst == EmptyTopology \in Fetchable
  <1>1. <<>> \in Seq(PipeProps) /\ <<>> \in Seq(CoreProps)
    OBVIOUS
  <1>2. <<>> \in ModuleMaps
    <2>1. <<>> \in [{} -> ModuleProps] /\ {} \in SUBSET ModuleIdsOf
      OBVIOUS
    <2> QED
      BY <2>1 DEF ModuleMaps
  <1> QED
    BY <1>1, <1>2 DEF EmptyTopology, Fetchable, Topologies, GatewayLists

LEMMA RefreshInitFetches == RefreshInit => FetchInv
  BY DEF RefreshInit, FetchInv, Configurations

LEMMA InvalidateFetches == FetchInv /\ Invalidate => FetchInv'
  BY DEF FetchInv, Invalidate

(* An answer is recorded; the module queries are checked at their own step. *)
LEMMA FetchedIsKept ==
  ASSUME NEW t \in Fetchable, NEW next \in {"pipelines", "props", "cores", "modules"}, NEW left,
         FetchInv, Fetched(t, next, left),
         next = "cores" => left \in Seq(1 .. DspCoreCount),
         next = "modules" => left \in Seq(ModulesOf(t)) /\ AllAskedFor(t, Range(left))
  PROVE  FetchInv'
  BY DEF FetchInv, Fetched

LEMMA StepFetches == FetchInv /\ [RefreshNext]_refreshVars => FetchInv'
  <1> SUFFICES ASSUME FetchInv, [RefreshNext]_refreshVars PROVE FetchInv'
    OBVIOUS
  <1>0. firmware \in Configurations /\ (query # "idle" => topology \in Fetchable)
    BY DEF FetchInv
  <1>1. CASE Refresh
    BY <1>1, NothingIsFetchedAtFirst DEF FetchInv, Refresh
  <1>2. CASE GetGatewaysInfo
    <2>1. [topology EXCEPT !.gateways = firmware.gateways] \in Fetchable
      BY <1>0, <1>2, FieldsAreKept, PartsOfTheFirmware DEF GetGatewaysInfo
    <2>2. Fetched([topology EXCEPT !.gateways = firmware.gateways], "pipelines", <<>>)
      BY <1>2 DEF GetGatewaysInfo
    <2> QED
      BY <2>1, <2>2, FetchedIsKept
  <1>3. CASE GetPipelineIdList
    <2>1. topology \in Fetchable
      BY <1>0, <1>3 DEF GetPipelineIdList
    <2>2. Invalidate \/ Fetched(topology, "props", Ascending(DOMAIN firmware.pipes))
      BY <1>3 DEF GetPipelineIdList
    <2> QED
      BY <2>1, <2>2, FetchedIsKept, InvalidateFetches
  <1>4. CASE GetPipelineProps
    <2>1. CASE Head(todo) \notin DOMAIN firmware.pipes
      BY <1>4, <2>1, InvalidateFetches DEF GetPipelineProps
    <2>2. CASE Head(todo) \in DOMAIN firmware.pipes
      <3> DEFINE ps == Append(topology.pipelines, firmware.pipes[Head(todo)])
      <3>1. topology \in Fetchable
        BY <1>0, <1>4 DEF GetPipelineProps
      <3>2. topology.pipelines \in Seq(PipeProps)
        BY <3>1 DEF Fetchable, Topologies
      <3>3. firmware.pipes[Head(todo)] \in PipeProps
        BY <1>0, <2>2, PartsOfTheFirmware
      <3>4. ps \in Seq(PipeProps)
        BY <3>2, <3>3, AppendProperties
      <3>5. Fetched([topology EXCEPT !.pipelines = ps], "props", Tail(todo))
        BY <1>4, <2>2 DEF GetPipelineProps
      <3> HIDE DEF ps
      <3>6. [topology EXCEPT !.pipelines = ps] \in Fetchable
        BY <3>1, <3>4, FieldsAreKept
      <3> QED
        BY <3>5, <3>6, FetchedIsKept
    <2> QED
      BY <2>1, <2>2
  <1>5. CASE SortPipelines
    <2> DEFINE ps == topology.pipelines
               n == Len(ps)
    <2>1. topology \in Fetchable
      BY <1>0, <1>5 DEF SortPipelines
    <2>2. ps \in Seq(PipeProps) /\ DOMAIN ps = 1 .. n /\ n \in Nat
      BY <2>1 DEF Fetchable, Topologies
    <2>3. PICK order \in SetToSeqs(DOMAIN ps) :
            Fetched([topology EXCEPT !.pipelines = Mapped(order, LAMBDA i : ps[i])], "cores",
                    [i \in 1 .. DspCoreCount |-> i])
      BY <1>5 DEF SortPipelines
    <2> DEFINE sorted == Mapped(order, LAMBDA i : ps[i])
    <2>4. Cardinality(1 .. n) = n
      BY <2>2, FS_Interval
    <2>5. order \in [1 .. n -> 1 .. n]
      <3> HIDE DEF n, ps
      <3> QED
        BY <2>2, <2>4 DEF SetToSeqs
    <2>6. sorted \in [1 .. n -> PipeProps]
      <3>1. sorted = [i \in 1 .. n |-> ps[order[i]]]
        <4> HIDE DEF n, ps
        <4> QED
          BY <2>5 DEF Mapped
      <3>2. \A i \in 1 .. n : ps[i] \in PipeProps
        <4> HIDE DEF n
        <4> QED
          BY <2>2
      <3> HIDE DEF n, ps, sorted
      <3> QED
        BY <2>5, <3>1, <3>2
    <2>7. sorted \in Seq(PipeProps)
      <3> HIDE DEF n, ps, sorted
      <3> QED
        BY <2>2, <2>6, IsASeq
    <2>8. [i \in 1 .. DspCoreCount |-> i] \in Seq(1 .. DspCoreCount)
      BY CoreAssumption, IsASeq
    <2> HIDE DEF sorted
    <2>9. [topology EXCEPT !.pipelines = sorted] \in Fetchable
      BY <2>1, <2>7, FieldsAreKept
    <2> QED
      BY <2>3, <2>8, <2>9, FetchedIsKept DEF sorted
  <1>6. CASE GetSchedulersInfo
    <2> DEFINE cs == Append(topology.schedulers, firmware.schedulers[Head(todo)])
    <2>1. topology \in Fetchable /\ todo \in Seq(1 .. DspCoreCount) /\ todo # <<>>
      BY <1>6 DEF GetSchedulersInfo, FetchInv
    <2>2. Head(todo) \in 1 .. DspCoreCount /\ Tail(todo) \in Seq(1 .. DspCoreCount)
      BY <2>1, HeadTailProperties
    <2>3. firmware.schedulers[Head(todo)] \in CoreProps
      BY <1>0, <2>2, PartsOfTheFirmware
    <2>4. topology.schedulers \in Seq(CoreProps)
      BY <2>1 DEF Fetchable, Topologies
    <2>5. cs \in Seq(CoreProps)
      BY <2>3, <2>4, AppendProperties
    <2>6. Fetched([topology EXCEPT !.schedulers = cs], "cores", Tail(todo))
      BY <1>6 DEF GetSchedulersInfo
    <2> HIDE DEF cs
    <2>7. [topology EXCEPT !.schedulers = cs] \in Fetchable
      BY <2>1, <2>5, FieldsAreKept
    <2> QED
      BY <2>2, <2>6, <2>7, FetchedIsKept
  <1>7. CASE CollectModules
    <2>1. topology \in Fetchable
      BY <1>0, <1>7 DEF CollectModules
    <2>2. /\ SetToSeq(ModulesOf(topology)) \in Seq(ModulesOf(topology))
          /\ Range(SetToSeq(ModulesOf(topology))) = ModulesOf(topology)
      BY <2>1, FinitelyManyModules, SetAsSequence
    <2>3. AllAskedFor(topology, Range(SetToSeq(ModulesOf(topology))))
      BY <2>2 DEF AllAskedFor
    <2>4. Fetched(topology, "modules", SetToSeq(ModulesOf(topology)))
      BY <1>7 DEF CollectModules
    <2> QED
      BY <2>1, <2>2, <2>3, <2>4, FetchedIsKept
  <1>8. CASE GetModuleInstanceProps
    <2>1. CASE Head(todo) \notin DOMAIN firmware.modules
      BY <1>8, <2>1, InvalidateFetches DEF GetModuleInstanceProps
    <2>2. CASE Head(todo) \in DOMAIN firmware.modules
      <3> DEFINE h == Head(todo)
                 D == DOMAIN topology.modules
                 ms == [m \in D \cup {h} |-> IF m = h THEN firmware.modules[m] ELSE topology.modules[m]]
      <3>1. /\ topology \in Fetchable /\ todo \in Seq(ModulesOf(topology)) /\ todo # <<>>
            /\ AllAskedFor(topology, Range(todo))
        BY <1>8 DEF GetModuleInstanceProps, FetchInv
      <3>2. topology.modules \in [D -> ModuleProps] /\ D \in SUBSET ModuleIdsOf
        BY <3>1 DEF Fetchable, Topologies, ModuleMaps
      <3>3. h \in ModuleIdsOf /\ firmware.modules[h] \in ModuleProps
        BY <1>0, <2>2, PartsOfTheFirmware
      <3>4. DOMAIN ms = D \cup {h} /\ ms \in ModuleMaps
        <4>1. ms \in [D \cup {h} -> ModuleProps]
          BY <3>2, <3>3
        <4>2. D \cup {h} \in SUBSET ModuleIdsOf
          BY <3>2, <3>3
        <4> HIDE DEF ms, D, h
        <4> QED
          BY <4>1, <4>2 DEF ModuleMaps
      <3>5. Fetched([topology EXCEPT !.modules = ms], "modules", Tail(todo))
        BY <1>8, <2>2 DEF GetModuleInstanceProps
      <3>6. /\ Tail(todo) \in Seq(ModulesOf(topology))
            /\ Range(todo) \subseteq {h} \cup Range(Tail(todo))
        <4>1. /\ Tail(todo) \in Seq(ModulesOf(topology)) /\ Len(Tail(todo)) = Len(todo) - 1
              /\ \A i \in 1 .. Len(Tail(todo)) : Tail(todo)[i] = todo[i + 1]
          BY <3>1, HeadTailProperties
        <4>2. /\ DOMAIN todo = 1 .. Len(todo) /\ Len(todo) \in Nat /\ h = todo[1]
              /\ DOMAIN Tail(todo) = 1 .. Len(todo) - 1
          BY <3>1, <4>1
        <4>3. ASSUME NEW i \in 2 .. Len(todo) PROVE todo[i] \in Range(Tail(todo))
          <5>1. i - 1 \in 1 .. Len(todo) - 1 /\ todo[i] = Tail(todo)[i - 1]
            BY <4>1, <4>2
          <5> QED
            BY <4>2, <5>1 DEF Range
        <4>4. \A i \in 1 .. Len(todo) : i = 1 \/ i \in 2 .. Len(todo)
          BY <4>2
        <4> HIDE DEF h
        <4> QED
          BY <4>1, <4>2, <4>3, <4>4 DEF Range
      <3> HIDE DEF ms, h, D
      <3>7. /\ [topology EXCEPT !.modules = ms] \in Fetchable
            /\ [topology EXCEPT !.modules = ms].modules = ms
            /\ ModulesOf([topology EXCEPT !.modules = ms]) = ModulesOf(topology)
        BY <3>1, <3>4, FieldsAreKept
      <3>8. AllAskedFor([topology EXCEPT !.modules = ms], Range(Tail(todo)))
        BY <3>1, <3>4, <3>6, <3>7 DEF AllAskedFor, D
      <3> QED
        BY <3>5, <3>6, <3>7, <3>8, FetchedIsKept
    <2> QED
      BY <2>1, <2>2
  <1>9. CASE Convert
    <2> DEFINE found == ComputeLinks(topology)
    <2>1. Thrown(found) \in {"nothing", "ConverterException", "ModuleHandlerException"}
      BY DEF Thrown
    <2>2. topology \in Fetchable /\ AllAskedFor(topology, {})
      <3>1. Range(<<>>) = {}
        BY DEF Range
      <3> QED
        BY <1>9, <3>1 DEF Convert, FetchInv
    <2>3. CASE Thrown(found) = "nothing"
      <3>1. query' = "idle" /\ topology' = ComputeLinks(topology) /\ firmware' = firmware
        BY <1>9, <2>3 DEF Convert
      <3> QED
        BY <1>0, <2>2, <3>1 DEF FetchInv
    <2>4. CASE Thrown(found) = "ConverterException"
      BY <1>9, <2>4, InvalidateFetches DEF Convert
    <2>5. CASE Thrown(found) = "ModuleHandlerException"
      <3>1. query' = "idle" /\ topology' = EmptyTopology /\ firmware' = firmware
        BY <1>9, <2>5 DEF Convert
      <3> QED
        BY <1>0, <3>1 DEF FetchInv
    <2> QED
      BY <2>1, <2>3, <2>4, <2>5
  <1>10. CASE QueryFails
    BY <1>10, InvalidateFetches DEF QueryFails
  <1>11. CASE Reconfigure
    BY <1>11 DEF Reconfigure, FetchInv, Configurations
  <1>12. CASE UNCHANGED refreshVars
    BY <1>12 DEF FetchInv, refreshVars
  <1> QED
    BY <1>1, <1>2, <1>3, <1>4, <1>5, <1>6, <1>7, <1>8, <1>9, <1>10, <1>11, <1>12 DEF RefreshNext

(* The links of what a refresh has found: those of a topology of which every *)
(* module is known.                                                          *)
LEMMA FoundLinksMatch == FetchInv => LinksMatchQueues
  <1> SUFFICES ASSUME FetchInv, query = "idle"
               PROVE  /\ LinksJoinQueues(topology) /\ NoQueueIsLeft(topology)
                      /\ ListedOnce(topology) => PinsAreUsedOnce(topology)
    BY DEF LinksMatchQueues
  <1>1. CASE topology = EmptyTopology
    <2>1. topology.links = <<>> /\ topology.pipelines = <<>> /\ Range(<<>>) = {} /\ DOMAIN <<>> = {}
      BY <1>1 DEF EmptyTopology, Range
    <2>2. Outputs(topology) = {}
      BY <2>1 DEF Outputs, PipedModules
    <2> QED
      BY <2>1, <2>2 DEF LinksJoinQueues, NoQueueIsLeft, PinsAreUsedOnce
  <1>2. CASE \E t \in Fetchable : AllAskedFor(t, {}) /\ topology = ComputeLinks(t)
    <2>1. PICK t \in Fetchable : AllAskedFor(t, {}) /\ topology = ComputeLinks(t)
      BY <1>2
    <2> DEFINE Queues == UNION {Range(t.modules[m].outputs) \cup Range(t.modules[m].inputs) :
                                  m \in DOMAIN t.modules}
    <2>2. IsKnown(t, PipedModules(t), Queues)
      BY <2>1, FetchedPipes DEF IsKnown
    <2>3. t \in Topologies(GatewayLists, PipeProps, Seq(CoreProps), ModuleMaps, {<<>>})
      BY DEF Fetchable
    <2> HIDE DEF Queues
    <2> QED
      BY <2>1, <2>2, <2>3, LinksMatchTheQueues
  <1> QED
    BY <1>1, <1>2 DEF FetchInv

(* Whatever the firmware runs and whenever it fails, the topology that a     *)
(* refresh (RefreshSubsystemResource, System::getTopology) leaves has links  *)
(* that join an output and an input of one queue; no queue has both an       *)
(* output and an input left over, and no pin has two links when no module is *)
(* listed twice.                                                             *)
THEOREM FoundLinksAlwaysMatch == RefreshSpec => []LinksMatchQueues
  <1>1. FetchInv => LinksMatchQueues
    BY FoundLinksMatch
  <1> QED
    BY <1>1, RefreshInitFetches, StepFetches, PTL DEF RefreshSpec

(* What the topology knows of modules and cores, query by query: no module   *)
(* before all are named, then only named ones; every core before the modules. *)
NamedInv ==
  /\ query \in {"gateways", "pipelines", "props", "cores"} => DOMAIN topology.modules = {}
  /\ query = "cores" => todo # <<>> \/ topology.schedulers # <<>>
  /\ query = "modules" => /\ DOMAIN topology.modules \subseteq ModulesOf(topology)
                          /\ topology.schedulers # <<>>

LEMMA OtherFieldsAreKept ==
  ASSUME NEW t \in Fetchable
  PROVE  /\ \A x : /\ [t EXCEPT !.gateways = x].modules = t.modules
                   /\ [t EXCEPT !.pipelines = x].modules = t.modules
                   /\ [t EXCEPT !.schedulers = x].modules = t.modules
                   /\ [t EXCEPT !.schedulers = x].schedulers = x
                   /\ [t EXCEPT !.modules = x].schedulers = t.schedulers
                   /\ [t EXCEPT !.modules = x].modules = x
                   /\ ModulesOf([t EXCEPT !.modules = x]) = ModulesOf(t)
  <1>1. ASSUME NEW x
        PROVE  /\ [t EXCEPT !.gateways = x].modules = t.modules
               /\ [t EXCEPT !.pipelines = x].modules = t.modules
               /\ [t EXCEPT !.schedulers = x].modules = t.modules
               /\ [t EXCEPT !.schedulers = x].schedulers = x
               /\ [t EXCEPT !.modules = x].schedulers = t.schedulers
               /\ [t EXCEPT !.modules = x].modules = x
               /\ [t EXCEPT !.modules = x].pipelines = t.pipelines
    BY DEF Fetchable, Topologies
  <1> QED
    BY <1>1 DEF ModulesOf

LEMMA StepNames == FetchInv /\ NamedInv /\ [RefreshNext]_refreshVars => NamedInv'
  <1> SUFFICES ASSUME FetchInv, NamedInv, [RefreshNext]_refreshVars PROVE NamedInv'
    OBVIOUS
  <1>0. query # "idle" => topology \in Fetchable
    BY DEF FetchInv
  <1>13. Invalidate => NamedInv'
    BY DEF Invalidate, NamedInv
  <1>1. CASE Refresh
    <2>1. DOMAIN <<>> = {}
      OBVIOUS
    <2> QED
      BY <1>1, <2>1 DEF NamedInv, Refresh, EmptyTopology
  <1>2. CASE GetGatewaysInfo
    <2>1. /\ DOMAIN topology.modules = {}
          /\ topology' = [topology EXCEPT !.gateways = firmware.gateways] /\ query' = "pipelines"
      BY <1>2 DEF GetGatewaysInfo, Fetched, NamedInv
    <2>2. topology'.modules = topology.modules
      BY <1>0, <1>2, <2>1, OtherFieldsAreKept DEF GetGatewaysInfo
    <2> QED
      BY <2>1, <2>2 DEF NamedInv
  <1>3. CASE GetPipelineIdList
    BY <1>3, <1>13 DEF GetPipelineIdList, Fetched, NamedInv
  <1>4. CASE GetPipelineProps
    <2>1. CASE Invalidate
      BY <1>13, <2>1
    <2>2. CASE Fetched([topology EXCEPT !.pipelines = Append(topology.pipelines, firmware.pipes[Head(todo)])],
                       "props", Tail(todo))
      <3>1. /\ DOMAIN topology.modules = {} /\ query' = "props"
            /\ topology' = [topology EXCEPT !.pipelines =
                              Append(topology.pipelines, firmware.pipes[Head(todo)])]
        BY <1>4, <2>2 DEF GetPipelineProps, Fetched, NamedInv
      <3>2. topology'.modules = topology.modules
        BY <1>0, <1>4, <3>1, OtherFieldsAreKept DEF GetPipelineProps
      <3> QED
        BY <3>1, <3>2 DEF NamedInv
    <2> QED
      BY <1>4, <2>1, <2>2 DEF GetPipelineProps
  <1>5. CASE SortPipelines
    <2>1. PICK sorted : Fetched([topology EXCEPT !.pipelines = sorted], "cores",
                                [i \in 1 .. DspCoreCount |-> i])
      BY <1>5 DEF SortPipelines
    <2>2. /\ DOMAIN topology.modules = {} /\ query' = "cores"
          /\ topology' = [topology EXCEPT !.pipelines = sorted]
          /\ todo' = [i \in 1 .. DspCoreCount |-> i]
      BY <1>5, <2>1 DEF SortPipelines, Fetched, NamedInv
    <2>3. topology'.modules = topology.modules
      BY <1>0, <1>5, <2>2, OtherFieldsAreKept DEF SortPipelines
    <2>4. [i \in 1 .. DspCoreCount |-> i] # <<>>
      <3>1. 1 \in DOMAIN [i \in 1 .. DspCoreCount |-> i]
        BY CoreAssumption
      <3> QED
        BY <3>1
    <2> QED
      BY <2>2, <2>3, <2>4 DEF NamedInv
  <1>6. CASE GetSchedulersInfo
    <2>1. topology \in Fetchable /\ topology.schedulers \in Seq(CoreProps)
      BY <1>0, <1>6 DEF GetSchedulersInfo, Fetchable, Topologies
    <2> DEFINE cs == Append(topology.schedulers, firmware.schedulers[Head(todo)])
    <2>2. /\ DOMAIN topology.modules = {} /\ query' = "cores"
          /\ topology' = [topology EXCEPT !.schedulers = cs]
      BY <1>6 DEF GetSchedulersInfo, Fetched, NamedInv
    <2>3. cs # <<>>
      <3>1. DOMAIN cs = 1 .. Len(topology.schedulers) + 1 /\ Len(topology.schedulers) \in Nat
        BY <2>1
      <3>2. Len(topology.schedulers) + 1 \in DOMAIN cs
        BY <3>1
      <3> QED
        BY <3>2
    <2> HIDE DEF cs
    <2>4. topology'.modules = topology.modules /\ topology'.schedulers = cs
      BY <2>1, <2>2, OtherFieldsAreKept
    <2> QED
      BY <2>2, <2>3, <2>4 DEF NamedInv
  <1>7. CASE CollectModules
    <2>1. /\ DOMAIN topology.modules = {} /\ topology.schedulers # <<>>
          /\ topology' = topology /\ query' = "modules"
      BY <1>7 DEF CollectModules, Fetched, NamedInv
    <2> QED
      BY <2>1 DEF NamedInv
  <1>8. CASE GetModuleInstanceProps
    <2>1. CASE Invalidate
      BY <1>13, <2>1
    <2>2. CASE ~Invalidate
      <3> DEFINE D == DOMAIN topology.modules \cup {Head(todo)}
                 ms == [m \in D |-> IF m = Head(todo) THEN firmware.modules[m] ELSE topology.modules[m]]
      <3>1. /\ query' = "modules" /\ query = "modules" /\ todo # <<>>
            /\ topology' = [topology EXCEPT !.modules = ms]
        BY <1>8, <2>2 DEF GetModuleInstanceProps, Fetched
      <3>2. /\ topology \in Fetchable /\ todo \in Seq(ModulesOf(topology))
            /\ DOMAIN topology.modules \subseteq ModulesOf(topology) /\ topology.schedulers # <<>>
        BY <3>1 DEF FetchInv, NamedInv
      <3>3. Head(todo) \in ModulesOf(topology)
        BY <3>1, <3>2, HeadTailProperties
      <3>4. DOMAIN ms = D
        OBVIOUS
      <3> HIDE DEF ms
      <3>5. /\ topology'.modules = ms /\ topology'.schedulers = topology.schedulers
            /\ ModulesOf(topology') = ModulesOf(topology)
        BY <3>1, <3>2, OtherFieldsAreKept
      <3> QED
        BY <3>1, <3>2, <3>3, <3>4, <3>5 DEF NamedInv
    <2> QED
      BY <2>1, <2>2
  <1>9. CASE Convert
    <2>1. Thrown(ComputeLinks(topology)) \in {"nothing", "ConverterException", "ModuleHandlerException"}
      BY DEF Thrown
    <2>2. query' = "idle"
      BY <1>9, <2>1 DEF Convert, Invalidate
    <2> QED
      BY <2>2 DEF NamedInv
  <1>10. CASE QueryFails
    BY <1>10, <1>13 DEF QueryFails
  <1>11. CASE Reconfigure
    BY <1>11 DEF Reconfigure, NamedInv
  <1>12. CASE UNCHANGED refreshVars
    BY <1>12 DEF NamedInv, refreshVars
  <1> QED
    BY <1>1, <1>2, <1>3, <1>4, <1>5, <1>6, <1>7, <1>8, <1>9, <1>10, <1>11, <1>12 DEF RefreshNext

(* A set of module instance ids has a first one. *)
LEMMA FirstModule ==
  ASSUME NEW S \in SUBSET (Nat \X Nat), S # {}
  PROVE  \E m \in S : \A other \in S \ {m} : Precedes(m, other)
  <1> DEFINE A == {p[1] : p \in S}
  <1>1. A \in SUBSET Nat /\ A # {}
    OBVIOUS
  <1> HIDE DEF A
  <1>2. PICK a \in A : \A x \in A : a <= x
    BY <1>1, LeastNumber
  <1> DEFINE B == {p[2] : p \in {q \in S : q[1] = a}}
  <1>3. B \in SUBSET Nat /\ B # {}
    BY <1>2 DEF A
  <1> HIDE DEF B
  <1>4. PICK b \in B : \A x \in B : b <= x
    BY <1>3, LeastNumber
  <1>5. PICK m \in S : m[1] = a /\ m[2] = b
    BY <1>4 DEF B
  <1>6. ASSUME NEW other \in S \ {m} PROVE Precedes(m, other)
    <2>1. other[1] \in A /\ a \in Nat /\ b \in Nat /\ other[1] \in Nat /\ other[2] \in Nat
      BY <1>1, <1>2, <1>3, <1>4 DEF A
    <2>2. CASE other[1] = a
      <3>1. other[2] \in B
        BY <2>2 DEF B
      <3>2. other[2] # b
        BY <1>5, <2>2
      <3> QED
        BY <1>4, <1>5, <2>1, <2>2, <3>1, <3>2 DEF Precedes
    <2>3. CASE other[1] # a
      BY <1>2, <1>5, <2>1, <2>3 DEF Precedes
    <2> QED
      BY <2>2, <2>3
  <1> QED
    BY <1>6

(* The exception of the module handler is about a module that a pipeline or  *)
(* a task names.                                                             *)
LEMMA UnknownModuleIsNamed ==
  ASSUME NEW t \in Fetchable, Thrown(ComputeLinks(t)) = "ModuleHandlerException"
  PROVE  \E m \in DOMAIN t.modules : ~HasModuleEntry(m[1])
  <1> DEFINE found == ComputeLinks(t)
             failing == {m \in DOMAIN found.modules :
                           ~ /\ HasModuleEntry(m[1])
                             /\ FindGatewayTypeName(found.modules[m].inputGateway)
                             /\ FindGatewayTypeName(found.modules[m].outputGateway)}
             first == CHOOSE m \in failing : \A other \in failing \ {m} : Precedes(m, other)
  <1>1. found.modules = t.modules
    BY DEF ComputeLinks, Fetchable, Topologies
  <1>2. failing # {} /\ ~HasModuleEntry(first[1])
    BY DEF Thrown
  <1>3. DOMAIN t.modules \in SUBSET (Nat \X Nat)
    <2>1. DOMAIN t.modules \subseteq ModuleIdsOf
      BY DEF Fetchable, Topologies, ModuleMaps
    <2>2. ModuleIdsOf \subseteq Nat \X Nat
      BY ConfigurationAssumption DEF ModuleIdsOf, Configurations
    <2> QED
      BY <2>1, <2>2
  <1>4. failing \in SUBSET (Nat \X Nat) /\ failing \subseteq DOMAIN t.modules
    BY <1>1, <1>3
  <1> HIDE DEF failing
  <1>5. \E m \in failing : \A other \in failing \ {m} : Precedes(m, other)
    BY <1>2, <1>4, FirstModule
  <1>6. first \in failing
    BY <1>5
  <1> QED
    BY <1>2, <1>4, <1>6

(* Whatever query of a refresh fails, and when what the firmware told cannot *)
(* be converted, RefreshSubsystemResource::handlePost() leaves no model, and *)
(* not the one of an earlier topology; if it succeeds it leaves the model of *)
(* the topology it has just fetched.  Only an exception of the module        *)
(* handler, about a module that is not among the entries read at start,      *)
(* leaves the earlier model.                                                 *)
THEOREM FailedRefreshesClear == RefreshSpec => FailedRefreshClears
  <1> DEFINE Clears ==
        (query # "idle" /\ query' = "idle") =>
          \/ model' = NoModel
          \/ topology' # EmptyTopology /\ model' = CreateModel(topology')
          \/ \E m \in ModulesOf(topology) : ~HasModuleEntry(m[1])
  <1>1. FetchInv /\ NamedInv /\ [RefreshNext]_refreshVars => Clears
    <2> SUFFICES ASSUME FetchInv, NamedInv, [RefreshNext]_refreshVars,
                        query # "idle", query' = "idle", model' # NoModel
                 PROVE  \/ topology' # EmptyTopology /\ model' = CreateModel(topology')
                        \/ \E m \in ModulesOf(topology) : ~HasModuleEntry(m[1])
      OBVIOUS
    <2>1. Convert
      BY DEF RefreshNext, Refresh, GetGatewaysInfo, GetPipelineIdList, GetPipelineProps,
             SortPipelines, GetSchedulersInfo, CollectModules, GetModuleInstanceProps,
             QueryFails, Reconfigure, Fetched, Invalidate, refreshVars
    <2>2. /\ topology \in Fetchable /\ DOMAIN topology.modules \subseteq ModulesOf(topology)
          /\ topology.schedulers # <<>>
      BY <2>1 DEF Convert, FetchInv, NamedInv
    <2>3. Thrown(ComputeLinks(topology)) \in {"nothing", "ConverterException", "ModuleHandlerException"}
      BY DEF Thrown
    <2>4. CASE Thrown(ComputeLinks(topology)) = "nothing"
      <3>1. topology' = ComputeLinks(topology) /\ model' = CreateModel(topology')
        BY <2>1, <2>4 DEF Convert
      <3>2. ComputeLinks(topology).schedulers = topology.schedulers
        BY <2>2 DEF ComputeLinks, Fetchable, Topologies
      <3>3. EmptyTopology.schedulers = <<>>
        BY DEF EmptyTopology
      <3> QED
        BY <2>2, <3>1, <3>2, <3>3
    <2>5. CASE Thrown(ComputeLinks(topology)) = "ConverterException"
      BY <2>1, <2>5 DEF Convert, Invalidate
    <2>6. CASE Thrown(ComputeLinks(topology)) = "ModuleHandlerException"
      BY <2>2, <2>6, UnknownModuleIsNamed
    <2> QED
      BY <2>3, <2>4, <2>5, <2>6
  <1>2. RefreshInit => NamedInv
    BY DEF RefreshInit, NamedInv
  <1>3. RefreshSpec => [][Clears]_refreshVars
    <2> HIDE DEF Clears
    <2> QED
      BY <1>1, <1>2, RefreshInitFetches, StepFetches, StepNames, PTL DEF RefreshSpec
  <1> QED
    BY <1>3 DEF FailedRefreshClears

-----------------------------------------------------------------------------
(* A topology from which the references to modules and gateways resolve: it  *)
(* has the modules that pipelines and tasks name and no other, they are      *)
(* among the entries read at start, and every gateway is of a known type.    *)
IsWhole(t) ==
  /\ DOMAIN t.modules = ModulesOf(t)
  /\ \A m \in DOMAIN t.modules : /\ HasModuleEntry(m[1])
                                 /\ FindGatewayTypeName(t.modules[m].inputGateway)
                                 /\ FindGatewayTypeName(t.modules[m].outputGateway)
  /\ \A g \in Range(t.gateways) : FindGatewayTypeName(g)

WholeInv == query = "idle" => IsWhole(topology)

(* The empty topology names nothing. *)
LEMMA NothingIsWhole == IsWhole(EmptyTopology)
  <1>1. Range(<<>>) = {} /\ DOMAIN <<>> = {}
    BY DEF Range
  <1>2. /\ EmptyTopology.modules = <<>> /\ EmptyTopology.pipelines = <<>>
        /\ EmptyTopology.schedulers = <<>> /\ EmptyTopology.gateways = <<>>
    BY DEF EmptyTopology
  <1>3. ModulesOf(EmptyTopology) = {}
    BY <1>1, <1>2 DEF ModulesOf
  <1> QED
    BY <1>1, <1>2, <1>3 DEF IsWhole

(* computeLinks() leaves everything but the links as it was. *)
LEMMA LinksOnly ==
  ASSUME NEW t \in Fetchable
  PROVE  /\ ComputeLinks(t).modules = t.modules /\ ComputeLinks(t).gateways = t.gateways
         /\ ModulesOf(ComputeLinks(t)) = ModulesOf(t)
  <1>1. /\ ComputeLinks(t).modules = t.modules /\ ComputeLinks(t).gateways = t.gateways
        /\ ComputeLinks(t).pipelines = t.pipelines /\ ComputeLinks(t).schedulers = t.schedulers
    BY DEF ComputeLinks, Fetchable, Topologies
  <1> QED
    BY <1>1 DEF ModulesOf

(* A topology that is converted is whole, for it has the modules it names,   *)
(* and those it does not know make the converter throw.                      *)
LEMMA ConvertedIsWhole ==
  ASSUME FetchInv, NamedInv, Convert, Thrown(ComputeLinks(topology)) = "nothing"
  PROVE  IsWhole(topology')
  <1> DEFINE found == ComputeLinks(topology)
  <1>1. /\ topology \in Fetchable /\ AllAskedFor(topology, {})
        /\ DOMAIN topology.modules \subseteq ModulesOf(topology) /\ topology' = found
    <2>1. Range(<<>>) = {}
      BY DEF Range
    <2> QED
      BY <2>1 DEF Convert, FetchInv, NamedInv
  <1>2. DOMAIN found.modules = ModulesOf(found)
    BY <1>1, LinksOnly DEF AllAskedFor
  <1> HIDE DEF found
  <1>3. /\ \A g \in Range(found.gateways) : FindGatewayTypeName(g)
        /\ \A m \in DOMAIN found.modules : /\ HasModuleEntry(m[1])
                                           /\ FindGatewayTypeName(found.modules[m].inputGateway)
                                           /\ FindGatewayTypeName(found.modules[m].outputGateway)
    <2>1. Thrown(found) = "nothing"
      BY DEF found
    <2> DEFINE failing == {m \in DOMAIN found.modules :
                             ~ /\ HasModuleEntry(m[1])
                               /\ FindGatewayTypeName(found.modules[m].inputGateway)
                               /\ FindGatewayTypeName(found.modules[m].outputGateway)}
    <2>2. ~(\E g \in Range(found.gateways) : ~FindGatewayTypeName(g)) /\ failing = {}
      BY <2>1 DEF Thrown
    <2> QED
      BY <2>2
  <1> QED
    BY <1>1, <1>2, <1>3 DEF IsWhole

LEMMA StepIsWhole == FetchInv /\ NamedInv /\ WholeInv /\ [RefreshNext]_refreshVars => WholeInv'
  <1> SUFFICES ASSUME FetchInv, NamedInv, WholeInv, [RefreshNext]_refreshVars, query' = "idle"
               PROVE  IsWhole(topology)'
    BY DEF WholeInv
  <1>1. CASE topology' = EmptyTopology
    <2>1. IsWhole(topology)' <=> IsWhole(topology')
      BY DEF IsWhole, ModulesOf, HasModuleEntry, FindGatewayTypeName
    <2> QED
      BY <1>1, <2>1, NothingIsWhole
  <1>2. CASE Convert /\ Thrown(ComputeLinks(topology)) = "nothing"
    <2>1. IsWhole(topology)' <=> IsWhole(topology')
      BY DEF IsWhole, ModulesOf, HasModuleEntry, FindGatewayTypeName
    <2> QED
      BY <1>2, <2>1, ConvertedIsWhole
  <1>3. CASE query = "idle" /\ topology' = topology
    BY <1>3 DEF WholeInv
  <1>4. \/ topology' = EmptyTopology
        \/ Convert /\ Thrown(ComputeLinks(topology)) = "nothing"
        \/ query = "idle" /\ topology' = topology
    <2>1. CASE Convert
      <3>1. Thrown(ComputeLinks(topology)) \in {"nothing", "ConverterException", "ModuleHandlerException"}
        BY DEF Thrown
      <3> QED
        BY <2>1, <3>1 DEF Convert, Invalidate
    <2>2. CASE ~Convert
      BY <2>2 DEF RefreshNext, Refresh, GetGatewaysInfo, GetPipelineIdList, GetPipelineProps,
             SortPipelines, GetSchedulersInfo, CollectModules, GetModuleInstanceProps,
             QueryFails, Reconfigure, Fetched, Invalidate, refreshVars
    <2> QED
      BY <2>1, <2>2
  <1> QED
    BY <1>1, <1>2, <1>3, <1>4

(* Whatever changes or fails between two queries, the topology that a        *)
(* refresh leaves (System::getTopology, InstanceModelConverter) has the      *)
(* module instances that its pipelines and tasks name and no other, each of  *)
(* a known module, and gateways of known types only: no reference to a       *)
(* module leads nowhere, and no name is asked for that there is not.         *)
THEOREM TopologyIsAlwaysWhole == RefreshSpec => []WholeInv
  <1>1. RefreshInit => NamedInv /\ WholeInv
    BY NothingIsWhole DEF RefreshInit, NamedInv, WholeInv
  <1> QED
    BY <1>1, RefreshInitFetches, StepFetches, StepNames, StepIsWhole, PTL DEF RefreshSpec
================================================================================
