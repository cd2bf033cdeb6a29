# A TLA+ model of the FDK debug agent

The FDK tool debug agent is an HTTP server in front of the audio DSP of Intel
platforms. Clients read the DSP's log, extract and inject audio at probe points,
read performance counters and walk the topology of the firmware. The agent runs on
Linux (compress devices, ALSA controls, debugfs) and on Windows (ioctls, trace
sessions). Nothing it keeps survives a restart, so the hard part is not recovery: it
is the hand-over between HTTP threads, the threads that serve the DSP, and the thread
that starts or stops a service while both are at work; and it is the trust the agent
puts in what the driver and the firmware send it.

Paths below are relative to `src/components/`; `cAVS/...` headers are under
`cAVS/include/cAVS`, sources under `cAVS/src`.

## 1. Inventory

| component | state | operations | hard behaviour | what makes it correct |
|---|---|---|---|---|
| `Util/BlockingQueue.hpp` | open flag, elements, their total size, a condition variable | `open close add remove clear` | `remove()` waits once, without a loop; one notification for each element | size never drifts, no lost wake-up, FIFO, `close()` releases everybody |
| `Util/RingBuffer.hpp` | open flag, buffer, two positions, two condition variables | blocking and non-blocking read and write, `open close clear` | partial transfers, wrapping, wake-ups in the middle of a request | a stream of bytes, no lost wake-up, `close()` releases everybody |
| `Linux/Logger.cpp` | producers, devices, log queue, votes against core sleep | start, stop, shutdown, `readLogBlock` | stop/poll handshake with a single wait; starts that fail halfway | the stop ends, threads gone, votes balanced but for a failed withdrawal, sessions not mixed |
| `ProbeInjector.hpp`, `Linux/Probe/InjectionOutputStream.hpp` | input ring, device, the injector thread | start, stop, inject | the same handshake; ring cleared while its thread still runs | whole samples, the stop ends, writers released |
| `ProbeService.cpp`, `Linux/Prober.cpp`, `ProbeExtractor.hpp` | configurations, maps of control ids, queues, extractor, injectors | configure, start, stop, dequeue | every step of a start may fail; configuration edited during a session | the session is wired as configured; a stop closes what was opened |
| `Windows/ProberStateMachine.cpp`, `ProberBackend.cpp`, `EventHandle.hpp` | the driver's four states, event handles, streams | start, stop | each ioctl may fail; an auto-reset event raised by two parties | a start ends Active or Idle; threads stop; queues match the driver |
| `Windows/Logger.cpp`, `RealTimeWppClient.cpp`, `WppController.cpp`, `WppConsumer.cpp` | trace session, producer thread, log queue | start, stop | stop before, during or after the session starts | the producer is joined, no session is orphaned, the log has an end |
| `System.cpp`, `DebugAgent.cpp`, `Rest/Server.cpp` | stream mutexes, order of destruction, a bounded pool of threads | acquire a stream, stop, destroy | HTTP threads blocked in queues while the agent ends | one user per stream, a thread gets free, the agent can be taken down |
| `Perf`, `PerfService`, `CorePower` | state in the firmware, votes | set state, read, wake a core | the second of two calls fails; a vote around each access | every access withdraws its vote |
| `ModuleHandler`, devices, driver messages | caches filled once, one file handler | one query or setting per call | sizes and counts sent by the firmware; commands in three parts under one mutex | an answer is what the firmware holds, or an error |
| `Topology`, converters, `InstanceModel` | the shared instance model | refresh, `computeLinks`, read | queries one after the other while the firmware changes; greedy matching of pins | references resolve, links are a matching of queues, a failed refresh leaves no old model |
| `Tlv`, `DspFw` types, `Util` byte streams | none that is shared | parse, serialise | lengths and counts, lists cut short | round trips; nothing is invented |
| `IfdkObjects`, `ParameterSerializer` | none that is shared | XML out and in | two visitors written apart | what is served can be read back |
| `Resources`, parameter appliers | none of their own | requests | an error in the middle of a sequence of accesses | success means applied |
| `Rest/Dispatcher.cpp`, `ServerRequestHandling.cpp` | the table of resources | resolve, handle | errors after the header | the stream of a request is given back |
| `Util` driver rings | two positions and a mapped buffer | read, write | modulo at each use, parts of zero bytes | no byte lost or repeated |
| `TestFramework`, `FunctionalTests` | scripts of expected commands | 23 scenarios on both systems | order of commands over whole sessions | the model issues the commands the scripts expect |

`PROJECT.json` has a row for each component, the ones that are not modelled too, and the
hazards of the code at the lines where they bite.

How they interact: an HTTP thread calls a *resource*, which calls `System`, which owns
one `Driver` with a `Logger`, a `Prober`, a `Perf` and the `ModuleHandler`. A service that
is started makes *active objects* (a `LogProducer` for each core, one `ProbeExtractor`, a
`ProbeInjector` for each injection probe), each with a thread on a device. Active objects
and HTTP threads only meet in the two queue classes. A service is stopped by destroying
its active objects, and then closing the queues: every destructor has to wake its thread
out of a device and join it. Everything else is a conversation: a resource or an applier
makes one call of the `ModuleHandler` after another, each of which is one message to the
driver and one answer.

## 2. Modules

```
threads and services                        conversations with the firmware

ElementQueue (promise) <== BlockingQueue    DspFw -- Tlv -- ModuleHandler
   |  used by LinuxLogger, WindowsLogger      \--- DriverMessages --/ |
BytePipe (promise) <== RingBuffer              \                   Requests
   |  used by ProbeInjection                    ByteStream         /      \
WppClient (promise) <== WindowsLogger           |   |   ModuleAccess   ServiceRequests
LinuxProber    WindowsProber    Agent           |   |        |            /        \
                                                | MCModuleAccess    Resources   MockedDevices
Topology -- InstanceConverter --\               |                        \        /
            TypeConverter ------ InstanceModel  \---------------------- FunctionalTests
IfdkXml WITH InstanceSchema | TypeSchema
```

`<==` is a refinement (`BlockingQueue!ImplementsElementQueue`,
`RingBuffer!ImplementsBytePipe`, `WindowsLogger!ImplementsWppClient`); `--` is `EXTENDS`;
"used by" is an `INSTANCE` whose actions are composed with those of the user. The proofs
of a module `M` are in `M_proofs`: `BlockingQueue`, `RingBuffer`, `LinuxLogger`, `ProbeInjection`,
`LinuxProber`, `WindowsLogger` and `WindowsProber` have one. What the HTTP threads share is in
`HttpThreads_proofs`: the streams (Agent), the accesses to the firmware (ModuleAccess) and the
instance model (Topology, InstanceModel). `SizedSequences` is the sum of the sizes of the
elements of a queue.

Throughout, what the code does while it holds a mutex is one action, and a wait on a
condition variable, a poll, a join or the gap between two critical sections is where an
action ends. Names are those of the code. `step` is where the thread that holds the
mutex of a service is; variables marked *history* are read by properties only. An
operator marked *Fault* or *Mutant* is a plausible bug, used by no specification:
replacing the definition it goes with must violate the property that `mutants` names.

Threads and services:

- **BlockingQueue** has `pc[c]` for each consumer: out of `remove()`, in
  `mCondVar.wait()`, notified, or stopped by the failed assertion. `Remove` is the call up
  to its return or its wait, `Resume` what follows the wait. `Quiescent` asks that nobody
  opens or clears the queue under a consumer.
- **RingBuffer** keeps positions that grow, as the code does, and copies in one or two
  parts; `MaxPosition` is the bound of the runs. A blocking call is one action up to its
  wait and one for each wake-up.
- **LinuxLogger** is `Logger::setParameters` and `stop` step by step, one production
  thread for each core (`thread`), the device it polls, and the queue of
  `BlockingQueue`. `mCondVar` of the handshake has one waiter: `waitBlocked` and
  `wokenBlocked` of `step` stand for it. `faulty` is a history variable: has a start, a
  device or a wake-up gone wrong so far? `stuck` is one too: the votes whose withdrawal
  failed (`Abandon`, `CloseDevice`), or was never sent because `std::async()` threw;
  `MaxStuck` bounds it, 2 in the run, one for each core.
- **ProbeInjection** is the same handshake in its other form (`InjectionOutputStream`
  restarts its device by itself), between a `RingBuffer` and a device that asks for
  samples. `thread` is the injector's place, or that of the constructor that pre-fills
  the device.
- **LinuxProber** is `ProbeService` and `linux::Prober`: the configuration clients edit,
  the maps from probes to control ids, opening and closing of the queues in the order
  of the probes, with a failure at each step: one that `setState()` catches is undone, one
  that it does not (`Escape`) leaves everything as it is, `MaxEscapes` times at most. The
  map of probe points is one variable while the loop fills it (`probePointMap`), one in the
  extractor (`mProbePointMap`) and one in an extractor that an escape has left, until the
  assignment of its successor destroys it (`replaced`). Its queues are sequences of packets,
  each with the parity of its session.
- **WindowsProber** is the walk of `ProberStateMachine` through the driver's states,
  every ioctl of which may fail, `startStreaming` and `stopStreaming`, and for each
  stream the thread that waits for an auto-reset event (`signaled`) and looks at
  `mStopped` after it.
- **WindowsLogger** is `windows::Logger` with its producer thread, the stop request and
  the handle of `WppController` (each under its own mutex, hence each its own step),
  `ProcessTrace`, and the queue the thread opens and closes itself. `WppClient` is what
  the comment of `WppClient::stop()` promises.
- **Agent** is the pool of HTTP threads with what they hold: a request acquires the mutex
  of its stream, writes or reads blocks, loses its client, or starts and stops the service
  that feeds the stream; `~DebugAgent()` takes it down meanwhile. A service is reduced to
  what its own module shows: which queues a start, a stop or a failure of one leaves open
  (`opened`), which is not the same as being `active`: a log start that fails after it has
  opened the queue leaves it to its readers, with no producer (`Start`). The log is that of
  Linux; on Windows its thread opens and closes the queue, and `stop()` closes it always.

Conversations with the firmware:

- **DspFw**, **ByteStream**, **Tlv**: what a type of the firmware looks like in a buffer,
  as a *layout* that is read and written by one pair of operators; a read has its
  destination as an argument because the code reads into existing objects (a list cut
  short leaves a half-filled one). The TLV dictionaries are tables of tags. That pair, the
  codec, is a constant of DspFw; ByteStream defines it by recursion over layouts, and
  the configurations of the runs that need bytes name its operators. So the modules between
  DspFw and ModuleAccess can be reasoned about whatever the codec does.
- **DriverMessages**: how an access to a parameter is wrapped for the two drivers, and
  unwrapped, field by field, with the checks the code makes and the ones it does not.
- **ModuleHandler**: each method as two pure functions, the access it makes and what it
  returns or throws for an answer. **Requests**: what each resource and applier does, call
  after call. **ModuleAccess** is the state machine over them: threads, the mutex of the
  debugfs handler, the sticky error bits of its stream, the votes, a firmware that
  answers, and a fault that may hit any message.
- **Topology**, **InstanceConverter**, **TypeConverter**: `computeLinks()` and the two
  converters as operators on the data of the firmware. **IfdkXml** is the four
  visitors of `IfdkObjects` for any schema (`MaxDepth` bounds the levels of an object), **InstanceSchema** and **TypeSchema** are the
  classes, as tables. **InstanceModel** is the refresh: a query, a change of the firmware,
  another query.
- **ServiceRequests** extends Requests to the log and probe services, down to the rings
  the Windows driver shares (`ReadAvailable`, `UnsafeWrite`).
- **Resources** is what an HTTP request becomes before it reaches a service, and what is
  shown of the outcome: the first route whose nodes match the URI (`Routes`), the verbs a
  resource has, the applier its type is dispatched to and the kinds and instances that
  applier accepts, the texts an XML document has to hold, and the rows of the answers. A URI
  is the sequence of its nodes, a document a function from its elements to their texts, and
  what is shown a sequence of rows of texts, so that markup and order of elements are left
  out, but not the conversions of numbers, names and enumerations.
- **MockedDevices** is the scripts of the test framework and **FunctionalTests** its sample
  firmware and the scenarios of the repository's own functional tests, played against the
  model command by command.

## 3. Runs

| run | instance | what it shows |
|---|---|---|
| MCBlockingQueue | 3 consumers; elements of 1, 2 and 4 bytes in a budget of 3; spurious wake-ups, re-opening and clearing at any time | `Accounting`, `NoLostWakeup`, `ImplementsElementQueue` |
| MCRingBuffer | ring of 2 bytes, contents and requests of 0 to 3, 4 bytes in a session | `ImplementsBytePipe`; `BlockedForAReason`: no lost wake-up but the one of `clear()` |
| LinuxLogger | 2 cores, queue of 2 blocks, failing starts, devices and wake-ups, 2 votes that cannot be withdrawn | the handshake never asserts until something fails, each vote is that of a producer or of a withdrawal that failed, blocks of two sessions do not mix, stops return and release readers |
| MCProbeInjection | samples of 2 bytes, ring of 3, device of 4 | whole samples, nothing left by a stop, the stop ends, writers get out |
| MCLinuxProber | 2 probes, one of them with a reader, 2 extraction controls, 1 injection control, a failure at each step, one exception that escapes | an active session has all it asks for, and only that unless an exception has escaped (`SessionIsWired`); `NoForeignPackets` until then; `ReaderReleased` |
| MCLinuxProberRestart | a reader for each probe, a start of a started service, no escape | violation of `StopClosesQueues` (section 6) |
| MCWindowsProber | 2 probes, three sessions, an ioctl failing in each call | a start is all or nothing, streams match the driver, every call returns |
| WindowsLogger | queue of 2 blocks, each ioctl and trace function failing | no orphan session, readers get an end, stops return, `ImplementsWppClient` |
| MCAgent | 3 threads, the log and an injection stream, starts and stops that fail at each place | one user per stream, a thread gets free, clients that left are dropped, and nothing but a thread that waits for ever at an open queue keeps the agent from ending (`OnlyOpenQueuesKeepTheAgent`) |
| MCInstanceModel | 2 cores, 3 pipelines, 4 modules, 162 layouts of queues, a module that moves to another pipeline; 1 change, 2 refreshes, any query failing | references resolve, parents match children, links match queues, what is served reads back, its types are announced, a failed refresh clears |
| MCModuleAccess | 2 clients with 2 requests each, 1 fault in any message, both systems, a consistent firmware whose counted instance has an input pin, one where it has none, and one that is inconsistent | no error without a cause, and no end of the process but at the missing pin (section 6); answers are those of the firmware, success means applied, votes are returned |
| FunctionalTests | the 23 functional tests of the repository, and on both systems a session of requests that are refused | the model gives the devices, byte for byte and in order, the commands the tests script, and each request the status and the texts they expect |

Bounds. Two producers are needed for a start that fails after the first one and for a
stop that visits one device while the other produces; a third adds only permutations.
Three consumers are needed for a notified one, a waiting one and one that comes in
between. A queue of two blocks can be empty, full and in between. A ring that does not
hold a whole number of samples, and a request larger than the ring, are in the
instances; the ring is small enough to wrap twice below `MaxPosition`. Two probes may
ask for the same point, for more controls than there are, and for different purposes.
In WindowsProber one ioctl fails in each call, at any place, and any number of calls
may fail: two failures in one call leave an extractor that the next start replaces while
it runs, and sessions with two injectors move running objects in a vector; both are
out of scope. In Agent three threads stand against two streams: one is left, as one is
in the code while streams are fewer than threads (section 6). In InstanceModel one
change (`MaxChanges`) can fall between any two queries of either of two refreshes
(`MaxRefreshes`), so that a refresh mixes two firmwares and the next one does not;
queues of the layouts may be shared by two outputs, loop within a module or be invalid.
In ModuleAccess one fault (`MaxFaults`: a refused command, an answer one byte short or
long, or of the wrong size) meets each message of each request, alone and with the
messages of another client in between; `StreamBuffer` lies between the sizes of the
messages: some writes fail at once, others only when they are flushed. FunctionalTests
has no choice but the order of its devices: the run is a conformance test of `Resources`,
`Requests`, `ServiceRequests`, `ModuleHandler`, `DriverMessages`, `Tlv` and `DspFw` with
what the repository's authors wrote down about them. `MaxNumber` bounds the texts that are
taken for a number, above every number the tests send. The two sessions that are not the
repository's (`RefusedRequests`) meet each error of `Resources` before and after a refresh:
the tests of the repository hardly reach them. Where a test compares documents the run
compares rows of texts; the budgets and the memory of the page of the subsystem, which are
fractions and tables, the formats of pins, and the hashes and segments of modules are not
shown.

`CHECK_DEADLOCK FALSE` stands where an assertion of the code may abort the process (the
behaviour ends there), where the agent ends (Agent), and where the bounds on requests,
changes and refreshes run out (ModuleAccess, InstanceModel).

Fairness. A thread that has been notified gets its mutex, the holder of a service's
mutex goes on, a thread whose poll or event is ready runs: weak fairness on those steps,
which is what the schedulers of both systems give to runnable threads. Nothing forces a
client to start, stop, read or inject, a device to produce data, or the driver to raise an
event. In Agent the HTTP threads are scheduled, a shutdown that began goes on, and a read from a silent client ends by the receive time-out of
the HTTP library. Release by `close()` is checked where the queues are used (LinuxLogger,
ProbeInjection, LinuxProber, WindowsLogger); the runs of the queue classes by themselves check
safety and refinement. ModuleAccess has no liveness property: `ENABLED` of its actions on
bytes is too costly for TLC, and a command ends when the driver answers.

## 4. Proofs

TLAPS checks, for all values of the constants under the named assumptions:

- `BlockingQueue_proofs!TotalSizeAppend` and its lemmas: what appending to and taking from
  a queue does to the total size of its elements. `TotalSize` is a recursive function on
  the prefixes of a sequence; with no induction theorem at hand, that the sums of two
  sequences with a common prefix agree follows from a least counterexample
  (`LeastOfSet`).
- `BlockingQueue_proofs!SizeIsExact`: `[](TypeOK /\ Accounting)`. The invariant is
  `TypeOK` with `Accounting`; both are needed, since `addLocked()` compares the
  running size and `removeLocked()` subtracts from it.
- `BlockingQueue_proofs!WakeupsSuffice`: no lost wake-up. The step that matters is a
  consumer that takes an element without having waited: the number of notified threads
  is unchanged and the queue is shorter.
- `BlockingQueue_proofs!SoleConsumerIsSafe`: the assertion of `remove()` holds when
  there is one consumer, no spurious wake-up and nobody opens or clears the queue under
  it. The last condition is what the Linux log service does not ensure (section 6).
- `BlockingQueue_proofs!QueueImplementsPromise`: the queue implements `ElementQueue`;
  every step is a step of the FIFO, or a stutter (a wait, a wake-up).
- `RingBuffer_proofs!PositionsStayInStep`: the positions never part by more than the
  size of the ring and every copy stays inside it. `TypeOK` is not inductive as it
  stands: what a blocked call has still to transfer bounds the indexes of its content.
- `RingBuffer_proofs!NoLostNotification`: with one thread on each side, a sleeping
  thread sleeps for the reason it waits for, or because `clear()` freed room under it.
- `LinuxLogger_proofs!VotesStayBalanced`: `[]VotesBalanced`: one vote for each producer in
  the list and one for each withdrawal that failed (`stuck`), and no other, whatever step of a
  start or a stop fails. It does not say that the votes balance when a withdrawal fails: they
  do not, as the code never tries it again. The property speaks of the moments between two
  calls only; the invariant `VoteInv` counts the votes at every step, as those of the producers
  whose device is not closed yet (`Voting`), and needs what the lists hold on the way
  (`ListInv`).
- `LinuxLogger_proofs!HandshakeHolds`: `[](StopNeverAsserts /\ WaitIsAnswered)` until a
  step fails. `HandshakeInv` says why one wait without a loop is enough: the stopper stops
  the device before it waits and closes it after, and releases its mutex in no other
  place, so a thread that has been out of the poll cannot enter it again meanwhile. The
  case that carries the proof is `CheckDevice` by the thread that is waited for.
- `LinuxLogger_proofs!LogQueueKeepsItsPromise`: every behaviour of the logger is, seen from
  its queue, one of `BlockingQueue` (`LogStep`: each action calls one operation of the queue,
  or none), and what is proved of that module holds here too: the theorems of
  `BlockingQueue_proofs` are cited through `INSTANCE`. `WindowsLogger_proofs` has the same.
  `LoggerIsTyped` adds the variables of the logger to those of its queue.
- `LinuxLogger_proofs!SessionsDoNotMix`: while a session runs, the blocks in the queue were
  fetched in it (`BlocksInv`). That a block fetched in a session is one of its own needs the
  other half, `NoOldProducer`: no thread of an earlier session is left when the queue is
  cleared for the next. `ThreadInv` relates the threads to the list of producers and to the
  step of the stop that joins them.
- `WindowsLogger_proofs!ReadersAlwaysGetAnEnd`: a reader waits only while a thread is there
  that will close the queue, because the thread opens the queue itself and closes it last
  (`OpenInv`).
- `RingBuffer_proofs!RingIsABytePipe`: the ring implements `BytePipe`. The content of the
  pipe is the one of the ring from the consumer's position to the producer's, each byte at
  its position modulo the size (`At`, `From`); `WriteAppends` and `ReadTakes` say that a
  copy in two parts appends to it or takes from its front, and `SlotFurther` that two
  positions less than a buffer apart are two places.
- `ProbeInjection_proofs!InputIsABytePipe`: seen from its ring, every behaviour of an injection
  probe is one of `RingBuffer`, hence of `BytePipe`. The invariants of the ring and of the
  injector's copies hold each other up (`InjectionInv`): a copy asks for no more than the ring
  may hold, which makes it one of the requests the ring is proved for.
  `InjectionIsTyped` follows.
- `ProbeInjection_proofs!SamplesStayWhole`: the consumer's position is a number of whole samples
  (`AlignedInv`), because what the injector has counted is (`CopyInv`); the arithmetic is in
  `WholeCount`. `StopAlwaysLeavesNothing`: `StopInv` says what the holder of the mutex of
  the service has done at each step of a start and of a stop; that no writer sleeps on a
  closed ring comes from `RingBuffer_proofs`.
- `LinuxProber_proofs!SessionIsAlwaysWired`, `PacketsAreNeverForeign` and
  `StopAlwaysClosesQueues`, while nobody starts a started service
  (`~ReconfigureWhileActive`; the run MCLinuxProberRestart shows that the third needs it).
  The invariant has four parts: from the writing of the mixer controls to the end of the
  session the maps are those of the cached configuration (`MapsInv`); while the loops of
  `startStreaming()` run, the probes they have passed have what they ask for (`WiredInv`),
  whatever was open before; as long as no exception has escaped, nothing is there that the
  maps do not know, and nothing at all between sessions (`ExactInv`); packets are of the
  session and of their point (`PacketsInv`), as long as no extractor survives the start
  that made it. So the first theorem holds after an escape too, for what a session must
  have; that it has nothing else, and the other two theorems, are stated with
  `escapes = 0`: they are false of the code otherwise (section 6). That a session has as many rings as
  injection probes rests on the control ids being different: each counts the probes before
  its own, so they grow with the probe (`ControlIdsGrow`).
- `LinuxProber_proofs!ProberIsTyped` needs no such condition: in a service that is started
  twice the queues may be the wrong ones, but they exist. The check of `setProbesConfig()`
  on the numbers of probes is what bounds the control ids (`ControlIdsExist`), also those
  of a loop that a failing control cut short, and a reader that holds one whose probe has
  lost it meanwhile still holds one that exists (`ReadersTyped`).
- `WindowsLogger_proofs!SessionHasAnOwner`: no trace session is left without a thread that
  consumes it, unless `StopTrace` refused. `HandleInv` relates the handle to the place of the
  producer; `ProducerInv` says what the mutex of the stop request has decided.
- `WindowsLogger_proofs!ClientKeepsItsPromise`: the client implements `WppClient`; the
  lemmas on the stop and on the start of the controller are the two sides of the race.
- `WindowsLogger_proofs!StopIsNeverLost`: a client that was told to stop has no handle and
  gets none (`StopTakesTheHandle`), so that a joined thread that is still in
  `ProcessTrace()` is there for a `StopTrace` that failed.
- `WindowsProber_proofs!StartIsAlwaysAllOrNothing` and `StreamsAlwaysMatchDriver`: the
  invariant follows the walk (`MachineInv`: where the driver may be at each step of a
  start, of a stop, and of a stop after a failure) and says what exists at each place
  of it (`StreamsInv`: nothing, everything, or what the loop has made so far).
  `DriverAlwaysHasTheSession` adds that the configuration the driver was given and the one
  the streams are made from, looked at at two times, are the same. `ProberIsTyped` adds the
  types that walk does not need.
- `WindowsProber_proofs!StopIsNeverLost`: `stopWait()` sets `mStopped` and then raises an event
  that resets itself and that the driver raises too. `StopIsSeen` is inductive as it stands:
  between the two writes the thread may have consumed an event of the driver, after them it
  is past its wait or finds the event raised.
- `HttpThreads_proofs!StreamsAreAlwaysExclusive`: a stream is used by the thread that holds
  its mutex. What has to be added is that a thread inside a request has asked for the
  stream it uses (`StreamsWereAsked`); the case that matters is `Finish`, which every
  request goes through whether it ended, threw or lost its client.
  `AgentIsTyped` is the type invariant.
- `HttpThreads_proofs!PoolIsNeverUsedUp`: if there are more threads than streams
  (`EnoughThreads`; with all eight probes the default pool of the server does not have them,
  section 6), some thread streams nothing. If all did, two would use one stream
  (`FS_PigeonHole`), which its mutex forbids.
- `HttpThreads_proofs!OneCommandAtATime`: the mutex of the debugfs file is held by the thread
  that has written its message and not read its reply, and then only the file is open
  (`MutexIsHeld`, `CommandsAreExclusive`). `AccessIsTyped` is the type invariant: the stages of
  a thread and the sequences it carries, for any codec.
- `HttpThreads_proofs!VotesAlwaysReturn`: `[]AccessesReturnTheirVote`. `VotesAreCounted` counts
  them at every moment: the votes of the perf service, and one for each thread between the two
  votes of an access, as long as no command was lost in the buffer of the stream.
- `HttpThreads_proofs!SuccessAlwaysMeansApplied` and `PutsApplyTheFirstBlocks`: a PUT of several
  blocks goes on with the next one only after a success, so that what it has applied is at
  every moment a prefix of its blocks (`PutsGoOn`, `PutsAreInOrder`) and all of them when it is
  answered with a success, as long as no command was lost in the buffer of the debugfs stream
  (`lost`). Of the codec the proof needs only that it tells an error of a set from a success
  (`IoctlAssumption`), and of a request that it has a value for each block of its module
  (`RequestAssumption`).
- `HttpThreads_proofs!CommandsFailWithTheDriverOnly`: on Linux no command is refused or lost
  while the driver has not failed (`NoErrorOfOurOwn`): the sticky error bits of the stream are
  those of a failure, never of two threads that met in the file. It is the part of
  `NoSpuriousErrors` that is not about bytes.
- `HttpThreads_proofs!LinksMatchTheQueues`: what `computeLinks()` makes of any topology. Its
  loops are recursive functions over a sequence. `UpTo`, which rests on the least of a set of
  rounds (`LeastNumber`), stands for the induction that is not at hand: with it `LoopExists`
  shows that there is such a function, and an invariant of a round is one of the loop. The
  invariant is the same for the three nested loops: the pins seen so far are in a link or
  unresolved (`Covers`), and in one place (`Once`). What the pairs of a pipeline leave may still
  share queues; that it does not at the end (`Unmatched`) is the work of
  `computeInterPipeLinks()`, which goes over all of it.
- `HttpThreads_proofs!FoundLinksAlwaysMatch`: `[]LinksMatchQueues`. It needs of the refresh that
  when the links are computed every module a pipeline or a task lists has been asked for, and
  has answered, though the firmware changes between two queries (`FetchInv`, checked by TLC
  before it was proved); a pin of a module that had not would have no queue to look at, and
  `getModuleInstance()` would throw what nobody catches.
- `HttpThreads_proofs!FailedRefreshesClear`: the action property `FailedRefreshClears`.
  `NamedInv` says that a refresh knows no module that was not named in it; so an exception of
  the module handler, which keeps the previous model, is about a module of this firmware
  (`UnknownModuleIsNamed`). That `createSubsystem()` meets a first failing module, whose
  kind of failure decides, is `FirstModule`.
- `HttpThreads_proofs!TopologyIsAlwaysWhole`: the topology a refresh leaves has the modules its
  pipelines and tasks name and no other, and knows the type of each (`WholeInv`, checked by TLC
  too): the part of `ReferencesResolve` that is about modules, from `FetchInv` and `NamedInv`.

With these every safety property that the runs of the threads and services check is also
proved. What is assumed of the constants: sets of consumers, cores and probes are finite;
sizes of rings and samples are positive, budgets numbers; the null pointer that ends a log is
none of its blocks; no thread is the sign that nobody holds a mutex (`ThreadAssumption`,
`AgentAssumption`); the codec gives the layouts the sizes the build asserts
(`LayoutAssumption`); what the firmware lists is a sequence where the code has a vector
(`ConfigurationAssumption`) and there is a core (`CoreAssumption`); and, where
the theorem says so, there is one thread at most on each side of the ring
(`NoLostNotification`), nobody starts a started probe service and no exception escapes from a
start (`StopAlwaysClosesQueues`), or there are more threads than streams
(`PoolIsNeverUsedUp`).

Attempts that failed told something about the model. A refresh that a change of the firmware
cuts in two can list one module in two pipelines, and then a pin has two links: the property
says so now (`ListedOnce`), and the run has a layout where it happens. Such a refresh can also
make a task of two cores out of one, with other modules in each (`NamedTwice`).

Left to TLC:

- liveness: no proof of fairness or `ENABLED` is possible here. The theorems `HandshakeHolds`,
  `StopIsNeverLost` of both Windows services, `PoolIsNeverUsedUp` and those on lost wake-ups
  are the safety it rests on;
- `NoSpuriousErrors` and `AnswersAreTrue` of ModuleAccess: that what one side of the codec
  writes the other reads is an induction over layouts, and `ByteStream` is where it would be;
- `ReadsBack` of InstanceModel, an induction over the depth of XML trees, and
  `ReferencesResolve`, `ParentsMatchChildren` and `TypesAreAnnounced`, which speak of the
  objects `IfdkXml` makes by the same recursion over the classes, listed by `SortSeq`, a
  definition the prover does not expand;
- FunctionalTests, which is a finite list of scenarios.

## 5. What is not modelled

- `Main` and `LogGrabber`: the parsing of command lines, and a client of the REST API. That
  the application may end the agent at any time is an action of Agent.
- Text: formats of log blocks, the markup of HTML pages and of XML documents, wording, URIs as
  strings, XPath queries, the layout of the IFDK stream headers.
- Libraries: Poco's server (but for its pool of threads and its time-out), the parameter
  framework (its element tree is shared state without a mutex), PugiXML, regular expressions,
  ALSA and the compress library (external actions of the models that use them), the
  search of the sound card and of the Windows device.
- Data races on the maps of `linux::Prober` and on the cached configuration of
  `ProberBackend` (both are read outside the mutex they are written under), and object
  lifetimes inside destructors (`mCopyBuffer` of `ProbeInjector` goes before its thread
  is joined; a vector of injectors moves running ones when it grows).
- Two clients that start or stop the probe service at once: `ProbeService::setState()` sets the
  configuration under one mutex and the state under another. What a second start does to a
  session is in MCLinuxProberRestart.
- `linux::ExtractionInputStream`, whose handshake is the one of the log producer, and
  `FileWppClient`, which replays a file and cannot be interrupted.
- The unit tests. The functional tests are (FunctionalTests), but for the XML documents of
  types, instances and structures of parameters they compare.

## 6. Where the code and its documents disagree

One run ends in a counterexample, quoted in `findings`: a start of a started probe
service replaces the maps a stop needs (MCLinuxProberRestart).

Definitions that TLC refutes and no run holds; each is marked in its module, and checking it as an
invariant or a property in the run of that module shows the trace:

| definition | what happens |
|---|---|
| `BlockingQueue!QueueNotEmptyAfterWait`, `LinuxLogger!ReaderNeverAsserts` | a reader woken by a stop meets the queue of the next session, open and empty: the assertion of `remove()` (`BlockingQueue.hpp:175`) fails. So it does with several consumers, which the class comment allows |
| `LinuxLogger!NoUseAfterClose` | a log producer between two polls looks at a device that the stop has closed (`Linux/Logger.cpp:297`) |
| `ProbeInjection!CloseNeverAsserts` | an injector restarts a device that is being stopped: `close()` aborts (`InjectionOutputStream.hpp:94`) |
| `ProbeInjection!ReadsWhatItCounted` | `~ProbeInjector()` clears the ring between what its thread counts and what it reads (`ProbeInjector.hpp:88`, `:130`) |
| `WindowsProber!FailedStartReturnsToIdle` | a start that could not make its streams reports success and goes on to Active (`ProberBackend.cpp:330`), where `CavsTest.cpp:1084` says Idle |
| `Agent!ShutdownFinishes` | `mSystem.stop()` does not unblock a reader of an active probe service, nor one of a log whose failed start has left the queue open, and the destructor of the server joins it for ever (`DebugAgent.cpp:169`) |
| `ModuleAccess!ConfigIsTrustworthy` | a reply of the wrong contents makes a module handler whose entries are said to be "guaranteed to be valid" |
| `ModuleAccess!WriteErrorsAreDeviceExceptions` | a debugfs stream reports an error as `std::ios_base::failure` (`DebugFsEntryHandler.cpp:45`), not as the `Device::Exception` of `Device.hpp:66` |

Seen while modelling, and part of the model unless marked with (*):

- Log and probes on Linux. A failing start of the log leaves the queue open, one producer
  running and the level already set, and `stop()` does nothing for its reader; a device that refuses to
  stop can make the assertion of `stopLogDevice()` fail; `readBlocking()` on a closed
  ring returns nothing although its comment lets a reader finish; a closed input ring
  refuses the provisioning that `ProbeInjector` describes, and what
  `enqueueInjectionBlock()` returns is ignored (`System.cpp:110`); bytes written between the
  clearing and the closing of an injection ring are heard in the next session; a control id
  found before a reconfiguration may be that of another probe; the message on too many probes
  adds a number to a pointer (*).
- Starts of the probes on Linux that are not undone. `setState()` stops what a start has begun
  only for a `Prober::Exception` (`Linux/Prober.cpp:99`). What the search of the devices throws
  about the file system (`AudioProcfsHelper.hpp:148`, not caught at `Prober.cpp:272` and
  `:310`), what a failing `getBufferSize()` throws in the constructor of an injector, and a thread
  that cannot be launched pass it: queues, rings, extractor and injectors stay, in a service that
  counts as stopped, so that `setState(false)` returns early. A reader of such a queue waits
  until a later session has it in its maps and stops; the next start replaces the extractor only
  after its successor has cleared the queues, so that a packet of the old one may come after.
  (`Escape` of LinuxProber; ProbeInjection, the module of one ring, has no such start. That
  such an injector and the next one may then share a ring is in neither.)
- Windows. After a stop that failed halfway the driver stays Owned or Allocated, and the next
  session runs with the previous configuration; the log queue is not cleared between
  sessions.
- Votes. A withdrawal that fails in the log leaves its core awake for good:
  `allowCoreToSleepNoExcept()` drops the error (`CorePower.hpp:81`), `allowCoreToSleep()` of a
  failing start throws (`Linux/Logger.cpp:254`, `:261`), and a failing `std::async()` (`:235`)
  leaves vote and running device, for the destructor is not run. `Perf.cpp:51` casts and withdraws votes on the target state, not on the
  transition: Stopped to Disabled withdraws one that was never cast, and the functional
  tests script it. `linux::Perf::setState()` checks, then acts, under no mutex.
- Errors that escape. `PerfService::Exception` derives from `Perf::Exception`, so the
  catch in `~PerfService` matches nothing the calls raise (`PerfService.cpp:48`, then
  `std::terminate`) and two catches of its applier do not either; catches of
  `System::Exception` in `ProbeEndPointParameterApplier.cpp:119`, `ModuleParameterApplier.cpp:333`
  and `BaseModelConverter.cpp:105` stand where `ModuleHandler::Exception` comes;
  `Topology::Exception` is not caught by `getTopology()`; after one failed debugfs open
  every later command throws, and the vote in a destructor then ends the process
  (`CorePower.hpp:65`).
- Sizes that are trusted. `computeBudget()` takes the first input pin of an instance that
  may have none (`PerfService.cpp:66`), as some in the sample topology of the tests have
  none: the page of the subsystem then takes the null pointer. `NoSpuriousErrors` exempts that
  request (`TakesAMissingPin`), and says that without a fault nothing else ends the process.
  It also divides by an unchecked size (*); the size in a
  Linux reply is not compared with the buffer; an instance id is cut to 8 bits; a repeated
  compound TLV tag appends to the vector of the first, and a repeated tag that is too short
  corrupts a value that stays valid; `createCore` indexes `scheduler_info[0]` after it checked
  another container.
- Requests. An error in the middle of a PUT of several blocks leaves the earlier ones
  applied, and two such PUTs can interleave (`ModuleParameterApplier.cpp:127`); the
  subsystem is served with a system parent that its deserializer rejects
  (`InstanceModelConverter.cpp:103`); `PplProps::operator==` compares `ll_tasks` twice (*).
- Threads. Eight probes and the log are 17 streams, against the 16 threads of Poco's default
  pool: `AThreadGetsFree` holds as long as there are more threads than streams.
- Tests. On Linux the log tests script no level for the end of the agent: the mocked device
  notes a mismatch, `Logger::stop()` swallows the exception, and the tests pass.
  `CommandsAreThoseExpected` allows exactly that.

## 7. Plan

Done: the two queues with their promises and proofs; both loggers and both probers with
proofs; injection; the agent and its streams, with proofs; the model of the system, with
proofs of its links and of its failures; the accesses to the firmware, with proofs of all that
does not depend on the bytes; the conformance of the model with the functional tests.

Next, modules: two clients of the probe service and the maps they race on; the buffer of
`ExtractionInputStream` with the packets it may cut.
