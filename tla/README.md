# Verification of lua-toolkit

lua-toolkit embeds a debug server in a program that runs Lua scripts. A client
(an editor) connects over TCP, speaks the Debug Adapter Protocol (DAP), sets
breakpoints, and while the script is stopped in a hook it inspects the Lua stack
and tells the script how to go on. This directory models that server in TLA+,
checks the models with TLC and proves theorems about them with TLAPS.

## Inventory

Paths are relative to `src/src/`. "Hard" names the behaviour a test would hardly
reach; the list with lines is `hazards` in `PROJECT.json`.

| Component | State | Operations | Interacts with |
|---|---|---|---|
| `InplaceExecutionScheduler` (`debug/inplaceexecutionscheduler.*`) | `_invocations`, `_isClosed` under a mutex, auto-reset event `_signal` | `scheduleInvocation`, `dispose`, `Execute` | the Lua thread runs `Execute`; the session's coroutine schedules and disposes |
| `DebugSessionImpl` (`debug/debugsession.cpp`) | `_stoppedState` (scheduler, provider, `continueMode`), `_isClosed`, `_seqId` | coroutine `Run` (one command of DAP per turn), `StopExecution` on the Lua thread, `NextSeqId` | message stream, controller, scheduler |
| `LuaDebugSessionController` (`debug/luadebugsessioncontroller.cpp`) | sources, breakpoint tables, id counters, step predicate, start mode, weak session reference, `_isActive` | `SetBreakpoints`, `SetFunctionBreakpoints`, `ConfigureLaunch/Attach`, `ConfigurationDone`, `EnableDebug`, `DisableDebug`, hook `ExecuteDebugger` | called by `Run`; calls `StopExecution` from the hook |
| `LuaStackTraceProvider` (`debug/luastacktraceprovider.*`) | frames, a tree of variables grown on demand, reference ids | `GetStackTrace`, `GetScopes`, `GetVariables` | run by the Lua thread inside a stop |
| `HttpStream` (`remoting/httpstream.*`) | inbound buffer, size of the last packet | `AppendBytes`, `GetNextPacket`, `ReadHttpPacket`, `SendHttpJsonPacket` | the connection |
| `DapMessageStream` (`debug/dapmessagestream.cpp`) | an `HttpStream` | `GetDapMessage`, `SendDapMessage` | `Run` and `StopExecution` |
| `RemoteController` (`remotecontroller.cpp`) | none | `Run` accepts clients, `SpawnClientSession` does a handshake and starts a session | network, session |
| adapter protocol (`debug/adapterprotocol.cpp`, `.h`) | none | data types and their serialization | all |

What is hard, and what makes each part correct:

* **Scheduler.** Two threads, and signals that merge in an auto-reset event. No
  invocation may be lost, repeated, reordered or slept on, and a dispose must end
  `Execute`.
* **Session.** `Run` and the Lua thread share `_stoppedState` without a lock: what
  keeps them apart is the protocol, that is, the order in which the client asks.
  Every command must be carried out in the stop it was given for, no `Assert` may
  fail, no thread may be left in a stop nobody can end, every request must be
  answered; and when the client closes the connection or sends nonsense, it must be known
  what is left behind.
* **Controller.** The tables are replaced source by source while the program runs;
  step predicates stand for frames by comparing depths, and outlive what they were
  made for; a field of `lua_Debug` is read before it is filled in.
* **Stack trace provider.** Entries hold no Lua value: each is read again along the
  path of keys that leads to it, and keys are converted on the way (numbers to `int`,
  strings to C strings). Entries are evaluated once and on demand, in any order, over
  tables that may hold each other. Reference ids start again in each stop.
* **Streams.** Packets arrive in pieces of any size; the last packet stays in the
  buffer until the next read; what arrives behind the handshake belongs to the
  session, which reads with another buffer.

## Modules

| Module | Stands for |
|---|---|
| `ExecutionQueue` | abstract: an in-order queue that finishes only when closed and empty |
| `InplaceExecutionScheduler` | the scheduler; one action per critical section of `Execute` |
| `StopProtocol` | abstract: each stop is ended by one command given in it |
| `StopDecision` | abstract: a program stops only for a breakpoint that is set or a step that is pending |
| `DebugSession` | client, `Run`, Lua thread and (by `INSTANCE`) the scheduler of the current stop |
| `LuaDebugSessionController` | breakpoint tables, hook and step predicates over a Lua stack with coroutines |
| `PacketStream` | abstract: packets are read in order, once each, and then the end |
| `HttpStream` | one reader of a connection: its buffer, its last packet, its await |
| `RemoteController` | one accepted client: the handshake's reader and the session's on one connection (two instances of `HttpStream`) |
| `LuaStackTraceProvider`, `MCStackTrace` | frames, scopes and variables of one stop; the programs to show in its runs |
| `SchedulerProofs`, `SessionProofs`, `WaitingClientProofs`, `DisconnectProofs`, `ControllerProofs`, `StreamProofs`, `RemoteProofs`, `StackTraceProofs` | theorems |

Interacting parts are joined in two ways. `DebugSession` contains the scheduler as an
instance, and `RemoteController` two readers; there the steps of both sides are in one
model. The controller is joined through `StopDecision`, which says when a program may
stop: `DebugSession` takes that much of the controller as its own steps (`HitBreakpoint`,
`HitStep`, `LeaveStop`), and `LuaDebugSessionController` is shown to implement it. That a
step outlives the stop it ended in is part of what the code does, and a finding.
The session in turn sees its connection as FIFO queues of requests, which is what
`PacketStream` promises and `RemoteController` implements. What the connection needs of
the session, that `Run` comes back from each message (`RunReturns`), is what
`DebugSession` shows of a client that waits.

An operator whose comment says *Mutant* is a plausible mistake in the definition it
is named after; no model uses it.

### Scheduler

`Execute` is cut where another thread can get in: `TakeState` (the locked part and
the branch on its result, which reads only locals), `InvokeNext` (one turn of the
loop) and `Wait`. `scheduleInvocation` and `dispose` are one step each: what they
change they change under the lock, and the waiter looks only under the lock.
`Wait` needs the signal and consumes it. `scheduled`, `invoked` and `overlapped`
are history variables; `overlapped` is set when a close and unfinished work meet.

Callers may do anything. The abstract queue is live, so the code implements it only
where no close overlaps work: `ImplementsLiveQueue == (<>overlapped) \/ Queue!Progress`.

### Session

`Run` is a program counter: `read`, `handle`, then for an inspection `schedule` and
`await`, for a resume or a disconnect `dispose`, then `respond`. The cuts are where
the Lua thread can change what `Run` reads next: `_stoppedState` is tested in
`handle` and used in `schedule` or `dispose`, a step later. The Lua thread goes
`running`, `hit` (decided to stop), `stop` (holds the session), `announce`,
`execute`. `ExecuteInvokes` answers the awaited request, so it moves `Run` as well.
An `Assert` that fails, a use of the empty `_stoppedState` and a `Halt` set `fault`, after
which nothing happens. A response or an event written after the client closed its
connection may throw, and `SendHttpJsonPacket` then halts (`Writing`).

`Run` is over in one of two ways (`Over`): `done`, or `thrown` by a message that it
cannot read, outside its `try` (`ReadThrows`). What a request throws inside the `try`
is answered, and closes the session (`HandleThrows`, `ExecuteInvokes`). In all of these the
stop, if there is one, is left as it is.

The client is external: it waits for each response, asks about a stop only while
it shows one, and disconnects from a stop after it removed its breakpoints, unless
`ClientMay` gives it one of four liberties (`pipeline`, `disconnectArmed`, `vanish`,
`malformed`).

Message bodies are abstracted: a request is its command, its number, the stop the
client was showing and, for breakpoints, whether any are left. A client with `malformed`
may send one that cannot be read instead.

### Controller

A vector of breakpoints is the set of its entries: they are appended with ever
greater ids, so the first match is the one with the least id. Equal sources share
an entry of `_sources`, whose id is its position. The Lua stack is a sequence of
frames; the program calls, reaches a line, or leaves any number of frames (a return,
a yield or an error), and the hook runs in the same step, because all it reads of the
tables it reads in one critical section. `read` is whether `ar->source`, which
nobody has filled in yet, happens not to be null.

The hook measures depth with `lua_getstack`, which sees the running coroutine only.
So every frame has a `bottom`, the place where the stack of its coroutine begins, and
`Depth` counts from there. A C function that resumes a coroutine begins a new bottom.
A coroutine that has yielded is resumed as a new one: nothing of the controller could
tell the two apart, for its tables and predicates do not name coroutines.

A response lists ids and no line, because the code assigns the field to itself
(`Listed`): what a client knows of its breakpoints is the lines of its own request in the
order of the ids (`Told`).

The mark of a frame, `requested`, `answered`, `lastMode` and `event` are history: no guard
reads them.

### Streams

A byte is its place in the packet it belongs to, so a read that is off by one byte, in
the wrong packet or out of order is seen. `HttpStream` has one action for each point at
which `ReadHttpPacket` can be: called (`ReadHttpPacket`, which pops the last packet and
looks for the next), resumed with a chunk (`AppendBytes`, of any size) or with the end
(`Eof`). What `HttpParser` finds (a whole header, its `Content-Length`) is external.
`PopLastPacketBytes` uses `memcpy` although its ranges overlap when more is left than
the packet was long; the outcome is a choice between copying from either end
(`CopyOrders`).

`RemoteController` is `SpawnClientSession` cut at its awaits, with a client that may
send ahead of the answer to its handshake (`eager`) and leave out `Content-Length`
(`noLength`), and that may close the connection at any byte. `DapMessageStream` is a
reader of its own on the same connection. Between two reads `Run` works on what it has
read, ends by it, or halts in a write to a connection that was closed (`SessionHalts`).
`arriving`, `early` and `pipelined` are history.

### Stack trace provider

One provider lives as long as one stop, in which the program does not move, so `stack`
and `heap` never change; each run starts from every program of `Stacks` and `Heaps`. The
reference id of an entry is its position in `variables`. `GetVariables` is the whole
handler: the children are chosen by filter, and each is evaluated (`GetVariable`), which
reads its value along its path (`ValueIn`) and adds entries for its own children. The
children of an entry are the entries that have it as their parent, in the order they were
made (`InOrder`). What is recursive in the code is a recursive function of the positions of
entries (`ValueIn`) or of requests (`GetEach`), so that it can be proved about. `Shown` and
`CString` are the two conversions of a key. Scopes, values that are no tables and
keys that are neither numbers nor strings are kept as far as they decide which entries
there are.

## Runs

| Run | Distinct states | Shows |
|---|---|---|
| `scheduler_any` | 628 | for any callers: in order, once, never asleep on work; asleep through a close only if the close overlapped work, and otherwise live: everything is run and `Execute` returns after the dispose |
| `session_orderly` | 24,697 | for a client that waits and disconnects from a quiet stop: no fault, the client sees its stop, every request meets its stop, no thread stranded, numbers unique, `StopProtocol` (with its liveness) implemented, every request answered |
| `session_careless` | 204,035 | for a client that may vanish or send nonsense: types, the scheduler holds only what is awaited, `Run` comes back from every await; the loss of the session or of a thread has one of the causes the code has, and a disconnect is none of them |
| `controller_tables` | 785,526 | requests for two sources and for functions, interleaved with the program: tables, requests, ids and stops agree |
| `controller_steps` | 2,727,336 | depths and lines are a faithful stand-in for the frames of one coroutine in `next` and `stepOut` |
| `remote_stream` | 379,183 | two readers on one connection: the session reads exactly the packets behind the handshake, unless the client was eager, pipelined or left out a length; `memcpy` overlaps only for a client that pipelines or leaves out a length; if `Run` comes back from each message, every packet that arrives is read and every closed connection ends its coroutine |
| `stack_trace` | 397,376 | in whatever order the client explores: paths lead through tables, answers are true and stay true, counts are those of the answers |
| `session_disconnect` | violation | a disconnect from a running program with a breakpoint ends in `Assert(session)` |
| `session_pipelined` | violation | a successful `continue` that never resumes the program |
| `controller_missed` | violation | a line with a verified breakpoint is passed |
| `controller_stale_step` | violation | a `continue` is cut short by a step that ended long ago |
| `stack_source` | violation | a frame is shown with the source of another |

**Bounds.** Three invocations are enough for one in the batch, one in the queue and
one to come. A session of eight requests holds a start, breakpoints set and
cleared, two stops with an inspection, a resume and a disconnect; two stops let a
request, a mode or a signal of one meet the other. The careless client needs fewer
requests, as each of its liberties bites at once. Two sources with two lines and
three ids let a request replace another source's entries, its own, or none. Four
frames leave a caller of the caller, a call made by a callee, and a coroutine of two
frames resumed by a caller of its own. Four packets are the handshake, a packet being
popped, one that is left over behind it and one on its way; headers of two bytes and
bodies of none or three give chunks that cut a header, end it, or cut a body, and more
left over than the packet before was long, also when it is a body that no
`Content-Length` announced. Two tables that may hold each other or
themselves make every path cyclic; five keys are a number, one that becomes the same
`int`, a string, one cut at a NUL and a key with no name; stacks have a second Lua frame,
a C function, and another file. Every bound is a constant in a guard (`MaxRequests`,
`MaxStops`, `MaxRequest`, `MaxId`, `MaxDepth`, `MaxPackets`, `MaxVariables`).
Deadlock is not checked: a session that has ended, a connection that is closed and a
stopped program whose user does nothing are all meant to rest, and the bounds end every
run.

**Fairness.** `WF` of `Run`, of the Lua thread inside a stop (`Stopping`) and of its
start, and of the client's reading: the threads of the process are scheduled and a
connection that is open delivers. `WF` of `Proceeds` in `RemoteController`: the handshake,
and `Run` while it reads, go on when what they await is there. How long `Run` works on what
it has read is not the connection's to say, so coming back to reading is not part of it:
`EveryPacketRead` and `ConnectionEnds` hold if `Run` does come back (`RunReturns`).
`session_careless` shows that it does for a client that waits, whatever else it does; a
client that pipelines may leave it in an await for ever (finding 2). None for what the client sends, for closing the
connection or for the program reaching a breakpoint. In the scheduler, `WF` of `Execute`
only: nobody has to call it.

## Proofs

`SchedulerProofs`, for every set of invocations and whatever callers do:

* `TypeCorrect`, `InOrderOnce`, `NoInvocationMissed`, `CloseMissed`. The last two are
  not inductive: that an unset signal means an empty queue has to be known at every
  place `Execute` can be. The invariant adds `SignalledWork` (work in the queue is
  signalled unless `Execute` is on its way to take it) and `CleanClose` (the same for a close
  that overlapped nothing).
* `ImplementsTheQueue`: every step is a step of `ExecutionQueue` or a stutter, with the
  batch and the queue together as what is pending.

`SessionProofs`, for every set of commands and liberties, number of requests and of
stops:

* `SessionTypeCorrect`: types, which are not obvious here: the Lua thread moves `Run`
  out of an await, so that `Run` has a request to answer when it does needs that
  the scheduler holds nothing but the awaited invocation.
* `InvocationIsAwaited`: `ScheduledIsAwaited`. The invariant `AnyClientInv` adds
  `StopShape` (`_stoppedState` is set exactly while the Lua thread is in a stop),
  `WorkIsAwaited`, and `StartedOnce`: `configurationDone` is sent, read and handled
  once, before the program runs. Without the last one the program could be started
  anew in the middle of a stop.
* `NumbersAreUnique`: `SeqUnique`. The invariant `Numbered` keeps the number a response has
  taken apart from those on their way, and all of them below the next.

`WaitingClientProofs`, for every client that waits for its responses and disconnects
only from a quiet stop (`Waits`: neither `pipeline` nor `disconnectArmed`; it may
vanish and send what throws):

* `ShownStopIsTrue` (`ClientSeesItsStop`), `RequestInItsStop` (`RequestMeetsItsStop`),
  `NoAssertOfTheSessionFails`, and `KeepsTheStopProtocol`, the safety part of
  `ImplementsStopProtocol`. None of them is inductive, because what keeps `Run` and the Lua
  thread apart is spread over the client, two queues and two threads. `WaitingInv`
  says where each piece is: `OneRequest` (at most one request is unanswered, and it
  is in the queue, in `Run`, or answered on its way back), `StartOrder` (`launch` or
  `attach` once, `configurationDone` after it), `ModeFirst` (a stop is closed only
  after its mode is set, and `Execute` returns only when closed), `ToldStopIsOpen` (a stop
  the client shows, or is about to be shown, is this one and still open) and
  `RequestFits` (what `Run` is handling belongs to that stop).
* `Waits` is needed: without it `session_pipelined` violates the liveness of a command,
  and `session_disconnect` reaches an `Assert`.

`DisconnectProofs`, on top of that, is about how a session ends:

* `LossHasACause` (`SessionLossHasACause`) for every client that waits. `Farewell` says what
  a disconnect leaves behind: no breakpoint, no step, and a program that is in the stop
  the client left from or runs; the stop is closed once the request has been carried out.
  `Closing` says that a session which closes otherwise has just answered a request that
  failed, and that `Run` is over only by a closed session, the end of the connection or a
  message that it could not read.
* `NothingFails` (`NoFault`) and `NoneIsStranded` (`NotStranded`) for a client with no liberty,
  to whom none of these can happen (`Causes`).

`ControllerProofs`, for all sources, lines, names, requests and stacks:

* `TypeCorrect`, `TablesAnswer` (`TablesMatchAnswers`), `IdsAreUnique`, `LinesStopWhereAsked`, `StepsStayOut`,
  `StepsAreNotMissed`. The tables need that a source has one entry, that every breakpoint
  belongs to an entry and that ids are at most `_bpId` (`TablesOK`). That depths stand for
  frames is `BottomsOK` and `MarksOK`: while a predicate is pending, the frame it was taken
  from is at its depth and the callers in its coroutine are less deep; calls, returns,
  resumes and errors add and drop frames only at the end, so nothing else is. The least
  id of a set exists because the numbers are well-founded (`FirstIsOne`).
* `ImplementsTheDecision`: every step is a step of `StopDecision` or a stutter.

`StreamProofs`, for every length of headers, bodies and chunks, every number of packets
and every client:

* `TypeCorrect`, and `HandshakeIsAllItTakes` (`HandshakeTakesItsOwn`): as long as the client
  has not sent more than its handshake, all the bytes in the handshake's buffer and on the
  wire together are no more than the handshake is long (`ReaderBound`), and the packet
  the reader finds can only be the handshake.

`RemoteProofs`, on top of that, gives every byte a position in all that the client sent.
`Flow` says that the wire holds the bytes from the position up to which it was read, and
that the packets that arrive are those which end within it; `SessionFlow` that the session's
buffer holds the bytes before that position, and that behind the last packet in it begins the
next packet the session has not read. A move by `memcpy` that overlaps, or a body that has no
length, ends that; so does a handshake that is no longer alone, after which only "the next
packet or a later one" is left. A whole packet found at the front of the buffer is
therefore the next one, unchanged (`WholePacket`), and one that has arrived is found
(`SeenWhenWhole`).

* `OverlapHasACause` (`OverlapIsPipelined`): while a client does not pipeline, the buffer
  holds nothing behind the last packet when it is popped.
* `ImplementsTheStream` (`ImplementsStream`): every step is a step of `PacketStream` or a
  stutter. `NothingLeft` is what the end needs: a packet that has arrived whole would have
  been read before the reader awaited more.

`StackTraceProofs`, for all stacks, heaps, conversions of keys, ranges of lines and bounds
on the entries:

* `FramesOfOneSource` (`OneSourceShownTrue`): the program does not move in a stop, so the
  frames always are those of its stack, made from the `lua_Debug` of the hook (`FramesInv`);
  a line of a Lua function survives the conversion to `unsigned`.
* `TypeCorrect`, `PathsLead` (`PathsAreTables`), `CountsAreKept` (`CountsMatch`),
  `AnswersTellTheTruth` (`AnswersAreTrue`). None of them is inductive: the path to an entry
  leads through entries made by other requests, and an answer is about children which
  entered the tree when their parent was told. `IInv` says what the tree is: every entry is
  a scope, a local or a child of a table, and made after its parent (`Shaped`); the parent of
  a key is a table (`OfTables`); a scope has its visible locals, a variable that was told
  has its named keys and was told with its value and its numbers of children (`Complete`).
  Beside the tree, a scope is that of its frame (`ScopesInv`), and the last answer is still
  what would be answered now, all of it told (`AnswerInv`). TLC checked `IInv` on
  `stack_trace` before it was proved.
* `ShownIsKept` (`ShownNeverChanges`): each request only `Explores`: it adds entries, none
  of them a child of a scope or of a variable that was told before, and tells variables
  that were not. `GetVariable` is shown to do so once (`GetVariableKeepsTree`), then a whole
  request (`GetEachKeepsTree`), then a scope (`WithScopeKeepsTree`).
* What the recursion along a path computes is proved by induction: because a parent has a
  lower position than its children, there is a function that satisfies the recursion
  (`SolutionExists`), `ValueIn` is one (`ValueOfEach`), and all of them agree when more
  entries are made (`ValueStays`). The induction is over a set of numbers (`Induction`, from
  the well-foundedness of `<`), which keeps it first-order; that a table may contain itself
  does not matter, for the path to an entry is finite all the same.

The only assumptions are the named ones on the constants (`ConstantsAssumption`,
`ControllerAssumption`, `RemoteAssumption`, `ProviderAssumption`); TLC evaluates them in the runs.

**Only model-checked.** All liveness (`AcceptedIsInvoked`, `ImplementsLiveQueue`,
`EveryRequestAnswered`, `RunReturns`, `EveryPacketRead`, `ConnectionEnds`, the fairness of `StopProtocol`):
neither fairness nor `ENABLED` is in the prover's reach. Every invariant and every action
property that a passing run checks is a theorem.

## Findings

1. *A disconnect leaves the hook behind* (`session_disconnect`). `Disconnect()` is
   empty and the call of `DisableDebug` is commented out; `Run` ends, the session is
   destroyed, and the next breakpoint or pending step fails `Assert(session)`.
2. *A close is lost* (`session_pipelined`). A `continue` followed at once by a
   `stackTrace`: one wait consumes both signals, one take sees the invocation and the
   close together, the invocation is run and `Execute` waits again. The `continue` was
   answered with success. `CloseMissedOnlyByOverlap` says this is the only way, and
   `session_orderly` that a client which waits never meets it.
3. *A breakpoint is missed* (`controller_missed`). `ar->source` is tested before
   `lua_getinfo` has filled it in. `StopsWhereAsked` says there is no other way.
4. *A step outlives its stop* (`controller_stale_step`). The predicate is reset only
   when it fires.
5. *A frame is shown with the source of another* (`stack_source`). `lua_getinfo` is asked
   for the name and the line of each frame, and the source is read out of what the hook
   obtained for the innermost one: a caller in another file is shown at its own line of
   the wrong file. `OneSourceShownTrue` says that this is all that goes wrong.

Read off the code and built into the models, with no run of their own:

* Every other end of `Run` has the same price as a disconnect: a client that closes its
  connection (`ReadEof`), a message that throws outside the `try` (`ReadThrows`), a request
  that throws inside it (`HandleThrows`). None of them removes the hook or ends a stop, so a
  running program meets `Assert(session)` and a stopped one is stranded.
  `SessionLossHasACause` says that there is no further cause.
* `bp.line = bp.line` leaves the line of each breakpoint out of a response (`Listed`), of
  which `adapterprotocol.h:571` says that it is included.
* A number key is cut to an `int` and a string key at its first NUL, and the value is looked
  up by what is left (`ChildValue`): 1.5 is listed as 1, with the value of 1 or `nil`.
  `AnswersAreTrue` says that no other key shows a wrong value.
* Where `ar->source` was null, `ar->what`, which `strcmp` reads, may not have been filled in
  either.

What follows from the code and is written into the properties as a condition, because
nothing in the repository says otherwise: bytes that a client sends before the answer to
its handshake may end in the handshake's reader and are lost (`HandshakeTakesItsOwn`), a
client that pipelines, or sends a body it does not announce, makes `memcpy` overlap
(`OverlapIsPipelined`), and a `next` over a resume may stop inside the coroutine (`StepStaysOut`).

## Not modelled

* Formatting, JSON, logging, and the fields of DAP bodies no state depends on. Of
  `adapterprotocol.h` the records that the other parts read are mapped; the
  serialization of `adapterprotocol.cpp` has no state.
* `GetThreads`, `PauseIsRequested` and `GetCommandsStream` answer constants.
* Metatables (an `__index` or `__len` that runs code while a value is shown), the text of
  values and the names of frames. `startFrame`, `levels`, `start` and `count` are ignored by
  the code, so the model has none.
* Several controllers on one Lua state, which overwrite each other in
  `__lua_DebuggerSession`: who shares a state is up to the application.
* `RemoteController::Run`, which accepts clients for ever, beyond one client: they share
  nothing. The code under `#if 0`.
* Wrap-around of the 32-bit counters.
* `HttpParser`, the network and the coroutine library, which are not in the repository:
  external, as far as the code uses them.

## Plan

1. *Done:* scheduler, session, stop protocol; proofs for every caller and client.
2. *Done:* controller with coroutines, as a `StopDecision`; proofs.
3. *Done:* streams, handshake and `PacketStream`; stack trace provider.
4. *Done:* how a session ends, by a disconnect, an exception or a closed connection,
   proved for every client that waits.
5. *Done:* the streams proved: the handshake, the overlap of `memcpy`, `PacketStream`;
   the sources of frames.
6. *Done:* the stack trace provider proved: the tree of entries, paths, counts, answers.
7. Left: the session and the controller in one model without `StopDecision` between
   them, to state when a breakpoint may be hit before the response that names it.
