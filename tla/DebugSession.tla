---------------------------- MODULE DebugSession ----------------------------
(***************************************************************************)
(* One debug session: the client, the coroutine DebugSessionImpl::Run that *)
(* answers it, and the Lua thread, which enters StopExecution from the     *)
(* hook and works there as an InplaceExecutionScheduler until Run resumes  *)
(* it.  Run and the Lua thread share _stoppedState without a lock.         *)
(*                                                                         *)
(* An Assert of the code that fails, a use of the empty optional           *)
(* _stoppedState and a Halt end the behaviour in a state that names them   *)
(* (fault).                                                                *)
(***************************************************************************)
EXTENDS Naturals, Sequences

CONSTANTS
    Commands,       \* the commands this client uses
    ClientMay,      \* the liberties this client takes, see Liberties
    MaxRequests,    \* bound: requests a client sends
    MaxStops        \* bound: times the program stops

StartModes == [launch |-> "Launch", attach |-> "Attach"]

ModeOf == [continue |-> "Continue", next |-> "Step",
           stepIn |-> "StepIn", stepOut |-> "StepOut"]

Resume      == DOMAIN ModeOf
Inspect     == {"stackTrace", "scopes", "variables"}
Arm         == {"setBreakpoints", "setFunctionBreakpoints"}
NoEffect    == {"threads", "pause"}
AllCommands == DOMAIN StartModes \cup Resume \cup Inspect \cup Arm \cup NoEffect
                 \cup {"configurationDone", "disconnect"}

\* pipeline: does not wait for a response before the next request;
\* disconnectArmed: disconnects whenever it likes, also from a running program
\* with breakpoints or a step pending; vanish: closes the connection without a
\* disconnect; malformed: sends arguments or ids the adapter rejects, or a message
\* it cannot read.
Liberties == {"pipeline", "disconnectArmed", "vanish", "malformed"}

ASSUME ConstantsAssumption ==
    /\ Commands \subseteq AllCommands
    /\ ClientMay \subseteq Liberties
    /\ MaxRequests \in Nat
    /\ MaxStops \in Nat

RequestIds == 1 .. MaxRequests
Stops      == 0 .. MaxStops     \* 0: no stop
Modes      == {ModeOf[c] : c \in Resume} \cup {"Stopped"}
Request    == [cmd : AllCommands, id : RequestIds, stop : Stops, on : BOOLEAN]
NoRequest  == [cmd |-> "none", id |-> 0, stop |-> 0, on |-> FALSE]
Response   == [kind : {"response"}, seq : Nat, request : Request, ok : BOOLEAN]
Stopped    == [kind : {"stopped"}, seq : Nat, stop : Stops]
Faults     == {"startMode", "noStop", "alreadyResumed", "emptyStop",
               "noSession", "alreadyStopped", "noMode", "halted"}

\* Run is over: it has returned, or an exception has left it.
Over == {"done", "thrown"}

VARIABLES
    \* the client and the two directions of the connection
    clientPhase,    \* which of launch, configurationDone, disconnect it sent
    clientStop,     \* the stop it shows to its user
    sent, answered, \* how many requests it sent and saw answered
    eof,            \* it closed the connection
    toAdapter, toClient,
    \* DebugSessionImpl::Run
    runPc,          \* where the coroutine is
    request,        \* the request it handles
    responseSeq, responseOk,
    seqId,          \* _seqId
    sessionClosed,  \* _isClosed
    \* shared by Run and the Lua thread
    stopped,        \* whether _stoppedState holds a value
    continueMode,   \* _stoppedState->continueMode
    \* the controller and the Lua thread
    startMode,      \* _startMode
    armed,          \* which kinds of breakpoint are set
    stepping,       \* whether _debugStepPredicate is set
    luaPc,          \* where the Lua thread is
    stopNo,         \* how many times it has stopped
    fault,
    \* the scheduler of the current stop, or what is left of the last one
    invocations, isClosed, signal, executePc, batch,
    scheduled, invoked, overlapped

S == INSTANCE InplaceExecutionScheduler WITH Invocations <- RequestIds

clientVars == <<clientPhase, clientStop, sent, answered, eof>>
runVars    == <<runPc, request, responseSeq, responseOk, sessionClosed>>
stopVars   == <<stopped, continueMode>>
schedulerVars == <<invocations, isClosed, signal, executePc, batch,
                   scheduled, invoked, overlapped>>
luaVars    == <<startMode, armed, stepping, luaPc, stopNo>>
vars == <<clientVars, toAdapter, toClient, runVars, seqId, stopVars, luaVars,
          fault, schedulerVars>>

TypeOK ==
    /\ clientPhase \in {"new", "launched", "started", "disconnected"}
    /\ clientStop \in Stops
    /\ sent \in 0 .. MaxRequests
    /\ answered \in Nat
    /\ eof \in BOOLEAN
    /\ toAdapter \in Seq(Request)
    /\ toClient \in Seq(Response \cup Stopped)
    /\ runPc \in {"read", "handle", "schedule", "await", "dispose", "respond"} \cup Over
    /\ request \in Request \cup {NoRequest}
    /\ runPc \in {"handle", "schedule", "await", "dispose", "respond"}
         => request \in Request
    /\ responseSeq \in Nat
    /\ responseOk \in BOOLEAN
    /\ seqId \in Nat
    /\ sessionClosed \in BOOLEAN
    /\ stopped \in BOOLEAN
    /\ continueMode \in Modes \cup {"none"}
    /\ startMode \in {"Unknown", "Launch", "Attach"}
    /\ armed \subseteq Arm
    /\ stepping \in BOOLEAN
    /\ luaPc \in {"idle", "starting", "running", "hit", "stop", "announce", "execute"}
    /\ stopNo \in Stops
    /\ fault \in Faults \cup {"none"}
    /\ S!TypeOK

Init ==
    /\ clientPhase = "new" /\ clientStop = 0 /\ sent = 0 /\ answered = 0
    /\ eof = FALSE
    /\ toAdapter = <<>> /\ toClient = <<>>
    /\ runPc = "read" /\ request = NoRequest
    /\ responseSeq = 0 /\ responseOk = TRUE
    /\ seqId = 1
    /\ sessionClosed = FALSE
    /\ stopped = FALSE /\ continueMode = "none"
    /\ startMode = "Unknown" /\ armed = {} /\ stepping = FALSE
    /\ luaPc = "idle" /\ stopNo = 0
    /\ fault = "none"
    /\ S!Init

----------------------------------------------------------------------------
(* The client.  Not part of the repository: what a DAP client does.         *)

\* A fault is the last thing that happens.
Connected == fault = "none" /\ ~eof

MayPipeline == "pipeline" \in ClientMay

\* A client that knows a breakpoint or a step could still fire disconnects only
\* from a stop, after it removed the breakpoints and the step has ended.
DisconnectIsQuiet == clientStop # 0 /\ armed = {} /\ ~stepping

MaySend(cmd) ==
    \/ cmd \in DOMAIN StartModes /\ clientPhase = "new"
    \/ cmd = "configurationDone" /\ clientPhase = "launched"
    \/ cmd \in Arm \cup NoEffect /\ clientPhase \in {"launched", "started"}
    \/ cmd \in Inspect \cup Resume /\ clientStop # 0 /\ clientPhase = "started"
    \/ /\ cmd = "disconnect"
       /\ clientPhase = "started"
       /\ DisconnectIsQuiet \/ "disconnectArmed" \in ClientMay

PhaseAfter(cmd) ==
    IF cmd \in DOMAIN StartModes THEN "launched"
    ELSE IF cmd = "configurationDone" THEN "started"
    ELSE IF cmd = "disconnect" THEN "disconnected"
    ELSE clientPhase

ClientSend(cmd, on) ==
    /\ Connected
    /\ sent < MaxRequests
    /\ answered = sent \/ (MayPipeline /\ sent < answered + 2)
    /\ MaySend(cmd)
    /\ cmd \notin Arm => on
    /\ toAdapter' = Append(toAdapter,
                           [cmd |-> cmd, id |-> sent + 1, stop |-> clientStop, on |-> on])
    /\ sent' = sent + 1
    /\ clientPhase' = PhaseAfter(cmd)
    /\ clientStop' = IF cmd \in Resume \cup {"disconnect"} /\ ~MayPipeline
                     THEN 0 ELSE clientStop
    /\ UNCHANGED <<answered, eof, toClient, runVars, seqId, stopVars, luaVars, fault, schedulerVars>>

ClientReceive ==
    /\ Connected
    /\ toClient # <<>>
    /\ toClient' = Tail(toClient)
    /\ LET m == Head(toClient) IN
         \/ /\ m.kind = "stopped"
            /\ clientStop' = m.stop
            /\ UNCHANGED answered
         \/ /\ m.kind = "response"
            /\ answered' = answered + 1
            /\ clientStop' = IF m.request.cmd \in Resume /\ m.request.stop = clientStop
                             THEN 0 ELSE clientStop
    /\ UNCHANGED <<clientPhase, sent, eof, toAdapter, runVars, seqId, stopVars,
                   luaVars, fault, schedulerVars>>

ClientVanish ==
    /\ "vanish" \in ClientMay
    /\ Connected
    /\ eof' = TRUE
    /\ UNCHANGED <<clientPhase, clientStop, sent, answered, toAdapter, toClient,
                   runVars, seqId, stopVars, luaVars, fault, schedulerVars>>

----------------------------------------------------------------------------
(* DebugSessionImpl::Run.  An action goes from one point where the Lua       *)
(* thread can change what the coroutine sees to the next.                    *)

\* An Assert: when f names one that fails, the program ends in that fault.
Asserting(f, step) ==
    \/ /\ f = "none"
       /\ step
       /\ UNCHANGED fault
    \/ /\ f # "none"
       /\ fault' = f
       /\ UNCHANGED <<clientVars, toAdapter, toClient, runVars, seqId, stopVars,
                      luaVars, schedulerVars>>

RunAt(pc) == fault = "none" /\ runPc = pc

\* SendDapMessage: a write to a connection the client has closed may throw, and
\* what it throws ends in Halt.
Writing(step) == \E f \in {"none"} \cup (IF eof THEN {"halted"} ELSE {}) : Asserting(f, step)

NextSeqId == seqId' = seqId + 1

\* GetDapMessage returns a request, and the response takes its number at once.
ReadRequest ==
    /\ RunAt("read")
    /\ toAdapter # <<>>
    /\ request' = Head(toAdapter)
    /\ toAdapter' = Tail(toAdapter)
    /\ responseSeq' = seqId
    /\ responseOk' = TRUE
    /\ NextSeqId
    /\ runPc' = "handle"
    /\ UNCHANGED <<clientVars, toClient, sessionClosed, stopVars, luaVars, fault, schedulerVars>>

\* What arrives is no JSON, has no type or is no request: nothing catches what that
\* throws, so Run is left without a response and whatever is stopped stays so.  (A
\* message of another type is passed over.)
ReadThrows ==
    /\ "malformed" \in ClientMay
    /\ RunAt("read")
    /\ toAdapter # <<>>
    /\ toAdapter' = Tail(toAdapter)
    /\ runPc' = "thrown"
    /\ UNCHANGED <<clientVars, toClient, request, responseSeq, responseOk, seqId,
                   sessionClosed, stopVars, luaVars, fault, schedulerVars>>

\* Mutant of ReadEof: the end of the connection is taken for a request.
ReadEof_NoBreak ==
    /\ RunAt("read")
    /\ toAdapter = <<>>
    /\ eof
    /\ runPc' = "handle"
    /\ UNCHANGED <<clientVars, toAdapter, toClient, request, responseSeq, responseOk,
                   seqId, sessionClosed, stopVars, luaVars, fault, schedulerVars>>

\* GetDapMessage returns nothing: the connection is closed and Run ends.
ReadEof ==
    /\ RunAt("read")
    /\ toAdapter = <<>>
    /\ eof
    /\ runPc' = "done"
    /\ UNCHANGED <<clientVars, toAdapter, toClient, request, responseSeq, responseOk,
                   seqId, sessionClosed, stopVars, luaVars, fault, schedulerVars>>

Handling(cmds) == RunAt("handle") /\ request.cmd \in cmds

\* LuaDebugSessionController::ConfigureLaunch and ConfigureAttach.
HandleStart ==
    /\ Handling(DOMAIN StartModes)
    /\ Asserting(IF startMode # "Unknown" THEN "startMode" ELSE "none",
         /\ startMode' = StartModes[request.cmd]
         /\ runPc' = "respond"
         /\ UNCHANGED <<clientVars, toAdapter, toClient, request, responseSeq, responseOk,
                        sessionClosed, seqId, stopVars, armed, stepping, luaPc, stopNo,
                        schedulerVars>>)

\* ConfigurationDone detaches Start(), which the application implements.
HandleConfigurationDone ==
    /\ Handling({"configurationDone"})
    /\ Asserting(IF startMode = "Unknown" THEN "startMode" ELSE "none",
         /\ luaPc' = "starting"
         /\ runPc' = "respond"
         /\ UNCHANGED <<clientVars, toAdapter, toClient, request, responseSeq, responseOk,
                        sessionClosed, seqId, stopVars, startMode, armed, stepping,
                        stopNo, schedulerVars>>)

\* SetBreakpoints and SetFunctionBreakpoints replace the set they name; here a
\* set is empty or not.
HandleArm ==
    /\ Handling(Arm)
    /\ armed' = IF request.on THEN armed \cup {request.cmd} ELSE armed \ {request.cmd}
    /\ runPc' = "respond"
    /\ UNCHANGED <<clientVars, toAdapter, toClient, request, responseSeq, responseOk,
                   sessionClosed, seqId, stopVars, startMode, stepping, luaPc, stopNo,
                   fault, schedulerVars>>

\* threads answers a constant; pause, like any unknown command, does nothing.
HandleNoEffect ==
    /\ Handling(NoEffect)
    /\ runPc' = "respond"
    /\ UNCHANGED <<clientVars, toAdapter, toClient, request, responseSeq, responseOk,
                   sessionClosed, seqId, stopVars, luaVars, fault, schedulerVars>>

\* Assert(_stoppedState), then the arguments are read.
HandleInspect ==
    /\ Handling(Inspect)
    /\ Asserting(IF ~stopped THEN "noStop" ELSE "none",
         /\ runPc' = "schedule"
         /\ UNCHANGED <<clientVars, toAdapter, toClient, request, responseSeq, responseOk,
                        sessionClosed, seqId, stopVars, luaVars, schedulerVars>>)

\* Mutant of ScheduleInspect: the response does not wait for the invocation.
ScheduleInspect_NoAwait ==
    /\ RunAt("schedule")
    /\ Asserting(IF ~stopped THEN "emptyStop" ELSE "none",
         /\ S!ScheduleInvocation(request.id)
         /\ runPc' = "respond"
         /\ UNCHANGED <<clientVars, toAdapter, toClient, request, responseSeq, responseOk,
                        sessionClosed, seqId, stopVars, luaVars>>)

\* Async::run on _stoppedState->scheduler; Run awaits its result.
ScheduleInspect ==
    /\ RunAt("schedule")
    /\ Asserting(IF ~stopped THEN "emptyStop" ELSE "none",
         /\ S!ScheduleInvocation(request.id)
         /\ runPc' = "await"
         /\ UNCHANGED <<clientVars, toAdapter, toClient, request, responseSeq, responseOk,
                        sessionClosed, seqId, stopVars, luaVars>>)

ResumeFault == IF ~stopped THEN "noStop"
               ELSE IF continueMode # "none" THEN "alreadyResumed" ELSE "none"

\* Mutant of HandleResume: the scheduler is not disposed.
HandleResume_NoDispose ==
    /\ Handling(Resume)
    /\ Asserting(ResumeFault,
         /\ continueMode' = ModeOf[request.cmd]
         /\ runPc' = "respond"
         /\ UNCHANGED <<clientVars, toAdapter, toClient, request, responseSeq, responseOk,
                        sessionClosed, seqId, stopped, luaVars, schedulerVars>>)

\* continue, next, stepIn and stepOut: the two Asserts and the mode, ...
HandleResume ==
    /\ Handling(Resume)
    /\ Asserting(ResumeFault,
         /\ continueMode' = ModeOf[request.cmd]
         /\ runPc' = "dispose"
         /\ UNCHANGED <<clientVars, toAdapter, toClient, request, responseSeq, responseOk,
                        sessionClosed, seqId, stopped, luaVars, schedulerVars>>)

\* Mutant of HandleDisconnect: a stopped program is left stopped.
HandleDisconnect_NoDispose ==
    /\ Handling({"disconnect"})
    /\ sessionClosed' = TRUE
    /\ continueMode' = IF stopped THEN "Stopped" ELSE continueMode
    /\ runPc' = "respond"
    /\ UNCHANGED <<clientVars, toAdapter, toClient, request, responseSeq, responseOk,
                   seqId, stopped, luaVars, fault, schedulerVars>>

\* disconnect: a stop is ended with the mode Stopped, whatever mode it had.
\* The controller's Disconnect does nothing.
HandleDisconnect ==
    /\ Handling({"disconnect"})
    /\ sessionClosed' = TRUE
    /\ continueMode' = IF stopped THEN "Stopped" ELSE continueMode
    /\ runPc' = IF stopped THEN "dispose" ELSE "respond"
    /\ UNCHANGED <<clientVars, toAdapter, toClient, request, responseSeq, responseOk,
                   seqId, stopped, luaVars, fault, schedulerVars>>

\* ... and _stoppedState->scheduler.dispose(), which reads the optional again.
DisposeStop ==
    /\ RunAt("dispose")
    /\ Asserting(IF ~stopped THEN "emptyStop" ELSE "none",
         /\ S!Dispose
         /\ runPc' = "respond"
         /\ UNCHANGED <<clientVars, toAdapter, toClient, request, responseSeq, responseOk,
                        sessionClosed, seqId, stopVars, luaVars>>)

\* A conversion of the arguments throws: the catch closes the session.
HandleThrows ==
    /\ "malformed" \in ClientMay
    /\ Handling(Arm \cup Inspect)
    /\ request.cmd \in Inspect => stopped
    /\ sessionClosed' = TRUE
    /\ responseOk' = FALSE
    /\ runPc' = "respond"
    /\ UNCHANGED <<clientVars, toAdapter, toClient, request, responseSeq, seqId,
                   stopVars, luaVars, fault, schedulerVars>>

\* Mutant of SendResponse: a session that was closed ends before it responds.
SendResponse_OnlyOpen ==
    /\ RunAt("respond")
    /\ Writing(
         /\ toClient' = IF sessionClosed THEN toClient
                        ELSE Append(toClient, [kind |-> "response", seq |-> responseSeq,
                                         request |-> request, ok |-> responseOk])
         /\ runPc' = IF sessionClosed THEN "done" ELSE "read"
         /\ UNCHANGED <<clientVars, toAdapter, request, responseSeq, responseOk, seqId,
                        sessionClosed, stopVars, luaVars, schedulerVars>>)

SendResponse ==
    /\ RunAt("respond")
    /\ Writing(
         /\ toClient' = Append(toClient, [kind |-> "response", seq |-> responseSeq,
                                          request |-> request, ok |-> responseOk])
         /\ runPc' = IF sessionClosed THEN "done" ELSE "read"
         /\ UNCHANGED <<clientVars, toAdapter, request, responseSeq, responseOk, seqId,
                        sessionClosed, stopVars, luaVars, schedulerVars>>)

Run ==
    \/ ReadRequest \/ ReadThrows \/ ReadEof
    \/ HandleStart \/ HandleConfigurationDone \/ HandleArm \/ HandleNoEffect
    \/ HandleInspect \/ ScheduleInspect \/ HandleResume \/ HandleDisconnect
    \/ DisposeStop \/ HandleThrows \/ SendResponse

----------------------------------------------------------------------------
(* The Lua thread.                                                          *)

LuaAt(pc) == fault = "none" /\ luaPc = pc

\* The application's Start() enables the debugger: EnableDebug sets the hook.
StartProgram ==
    /\ LuaAt("starting")
    /\ luaPc' = "running"
    /\ UNCHANGED <<clientVars, toAdapter, toClient, runVars, seqId, stopVars,
                   startMode, armed, stepping, stopNo, fault, schedulerVars>>

\* ExecuteDebugger up to its decision to stop.  Bound: MaxStops.
HitBreakpoint ==
    /\ LuaAt("running")
    /\ stopNo < MaxStops
    /\ armed # {}
    /\ luaPc' = "hit"
    /\ UNCHANGED <<clientVars, toAdapter, toClient, runVars, seqId, stopVars,
                   startMode, armed, stepping, stopNo, fault, schedulerVars>>

HitStep ==
    /\ LuaAt("running")
    /\ stopNo < MaxStops
    /\ stepping
    /\ stepping' = FALSE
    /\ luaPc' = "hit"
    /\ UNCHANGED <<clientVars, toAdapter, toClient, runVars, seqId, stopVars,
                   startMode, armed, stopNo, fault, schedulerVars>>

\* _sessionRef.acquire(): the weak reference is empty once Run is over.
AcquireSession ==
    /\ LuaAt("hit")
    /\ Asserting(IF runPc \in Over THEN "noSession" ELSE "none",
         /\ luaPc' = "stop"
         /\ UNCHANGED <<clientVars, toAdapter, toClient, runVars, seqId, stopVars,
                        startMode, armed, stepping, stopNo, schedulerVars>>)

\* Mutant of EnterStop: the mode of the previous stop survives.
EnterStop_KeepsMode ==
    /\ LuaAt("stop")
    /\ Asserting(IF stopped THEN "alreadyStopped" ELSE "none",
         /\ stopped' = TRUE
         /\ continueMode' = continueMode
         /\ stopNo' = stopNo + 1
         /\ S!Create
         /\ luaPc' = "announce"
         /\ UNCHANGED <<clientVars, toAdapter, toClient, runVars, seqId,
                        startMode, armed, stepping>>)

\* StopExecution: a fresh scheduler and _stoppedState.
EnterStop ==
    /\ LuaAt("stop")
    /\ Asserting(IF stopped THEN "alreadyStopped" ELSE "none",
         /\ stopped' = TRUE
         /\ continueMode' = "none"
         /\ stopNo' = stopNo + 1
         /\ S!Create
         /\ luaPc' = "announce"
         /\ UNCHANGED <<clientVars, toAdapter, toClient, runVars, seqId,
                        startMode, armed, stepping>>)

\* Mutant of Announce: the number of the event is read, not taken.
Announce_NoFetch ==
    /\ LuaAt("announce")
    /\ Writing(
         /\ toClient' = Append(toClient, [kind |-> "stopped", seq |-> seqId, stop |-> stopNo])
         /\ UNCHANGED seqId
         /\ luaPc' = "execute"
         /\ UNCHANGED <<clientVars, toAdapter, runVars, stopVars, startMode, armed,
                        stepping, stopNo, schedulerVars>>)

\* The stopped event is numbered and its send detached; a write that throws is put
\* here, where it begins.
Announce ==
    /\ LuaAt("announce")
    /\ Writing(
         /\ toClient' = Append(toClient, [kind |-> "stopped", seq |-> seqId, stop |-> stopNo])
         /\ NextSeqId
         /\ luaPc' = "execute"
         /\ UNCHANGED <<clientVars, toAdapter, runVars, stopVars, startMode, armed,
                        stepping, stopNo, schedulerVars>>)

\* scheduler->Execute()
ExecuteIdles ==
    /\ LuaAt("execute")
    /\ S!TakeState \/ S!Wait
    /\ UNCHANGED <<clientVars, toAdapter, toClient, runVars, seqId, stopVars, luaVars, fault>>

\* The invocation answers the request Run awaits, or throws into it.
ExecuteInvokes ==
    /\ LuaAt("execute")
    /\ S!InvokeNext
    /\ runPc' = "respond"
    /\ \E ok \in IF "malformed" \in ClientMay THEN BOOLEAN ELSE {TRUE} :
         /\ responseOk' = ok
         /\ sessionClosed' = (sessionClosed \/ ~ok)
    /\ UNCHANGED <<clientVars, toAdapter, toClient, request, responseSeq, seqId,
                   stopVars, luaVars, fault>>

\* Mutant of LeaveStop: _stoppedState is not reset.
LeaveStop_KeepsStop ==
    /\ LuaAt("execute")
    /\ executePc = "returned"
    /\ Asserting(IF ~stopped \/ continueMode = "none" THEN "noMode" ELSE "none",
         /\ stopped' = TRUE
         /\ \E outermost \in BOOLEAN :
              stepping' = (\/ stepping
                           \/ continueMode \in {"Step", "StepIn"}
                           \/ continueMode = "StepOut" /\ ~outermost)
         /\ luaPc' = "running"
         /\ UNCHANGED <<clientVars, toAdapter, toClient, runVars, seqId, continueMode,
                        startMode, armed, stopNo, schedulerVars>>)

\* Mutant of LeaveStop: the stop ends as soon as a mode is set.
LeaveStop_OnMode ==
    /\ LuaAt("execute")
    /\ continueMode # "none"
    /\ Asserting(IF ~stopped \/ continueMode = "none" THEN "noMode" ELSE "none",
         /\ stopped' = FALSE
         /\ \E outermost \in BOOLEAN :
              stepping' = (\/ stepping
                           \/ continueMode \in {"Step", "StepIn"}
                           \/ continueMode = "StepOut" /\ ~outermost)
         /\ luaPc' = "running"
         /\ UNCHANGED <<clientVars, toAdapter, toClient, runVars, seqId, continueMode,
                        startMode, armed, stopNo, schedulerVars>>)

\* Execute() has returned: the mode is read and _stoppedState reset, then the
\* controller installs a step predicate.  Continue and Stopped leave the one
\* there is; at depth 0 (outermost) stepOut installs none.
LeaveStop ==
    /\ LuaAt("execute")
    /\ executePc = "returned"
    /\ Asserting(IF ~stopped \/ continueMode = "none" THEN "noMode" ELSE "none",
         /\ stopped' = FALSE
         /\ \E outermost \in BOOLEAN :
              stepping' = (\/ stepping
                           \/ continueMode \in {"Step", "StepIn"}
                           \/ continueMode = "StepOut" /\ ~outermost)
         /\ luaPc' = "running"
         /\ UNCHANGED <<clientVars, toAdapter, toClient, runVars, seqId, continueMode,
                        startMode, armed, stopNo, schedulerVars>>)

Stopping == \/ AcquireSession \/ EnterStop \/ Announce
            \/ ExecuteIdles \/ ExecuteInvokes \/ LeaveStop

Lua == StartProgram \/ HitBreakpoint \/ HitStep \/ Stopping

Client == \/ \E cmd \in Commands, on \in BOOLEAN : ClientSend(cmd, on)
          \/ ClientReceive \/ ClientVanish

Next == Client \/ Run \/ Lua

\* The threads of the adapter keep running and the connection delivers; the
\* client need not send, and the program need not stop.
Fairness ==
    /\ WF_vars(Run)
    /\ WF_vars(Stopping)
    /\ WF_vars(StartProgram)
    /\ WF_vars(ClientReceive)

Spec == Init /\ [][Next]_vars /\ Fairness

----------------------------------------------------------------------------
(* Properties for every client.                                             *)

\* The scheduler of a stop holds at most the one invocation Run awaits, so the
\* result of an invocation always answers the request it was made for.
ScheduledIsAwaited ==
    luaPc = "execute" /\ batch \o invocations # <<>>
        => runPc = "await" /\ batch \o invocations = <<request.id>>

\* Two messages of the adapter never carry the same number, though the Lua
\* thread and Run take them concurrently.
SeqUnique ==
    LET taken == {toClient[i].seq : i \in DOMAIN toClient} IN
      /\ \A i, j \in DOMAIN toClient : toClient[i].seq = toClient[j].seq => i = j
      /\ runPc \notin {"read"} \cup Over => responseSeq \notin taken

----------------------------------------------------------------------------
(* Properties for a client that waits for each response.                    *)

\* No Assert of the session or the controller fails and the empty
\* _stoppedState is never used.
NoFault == fault = "none"

\* What the client shows its user is true: while it shows a stop, the program
\* is held in that stop and nothing has ended it.
ClientSeesItsStop ==
    clientStop # 0 => stopped /\ stopNo = clientStop /\ continueMode = "none"

\* A request about a stop is carried out in that stop, never in a later one.
RequestMeetsItsStop ==
    /\ runPc \in {"schedule", "await", "dispose"} => stopped /\ request.stop = stopNo
    /\ runPc \in {"schedule", "await"} => ~isClosed

\* The Lua thread is, or is about to be, in a stop that only a request ends.
Captive == \/ luaPc \in {"hit", "stop", "announce"}
           \/ luaPc = "execute" /\ ~isClosed

\* When Run is over no thread is left in a stop that nobody can end.
NotStranded == runPc \in Over => ~Captive

\* The Lua thread is stranded or finds no session only after the client closed the
\* connection, sent a message that could not be read or a request that failed: not
\* after a disconnect.  The program halts in a write only when the client closed the
\* connection, and no other Assert fails.
SessionLossHasACause ==
    /\ fault \in {"none", "noSession", "halted"}
    /\ fault = "halted" => eof
    /\ fault = "noSession" \/ (runPc \in Over /\ Captive)
         => eof \/ runPc = "thrown" \/ ~responseOk

\* Run comes back from every await, also when the client closes the connection
\* during one or sends what fails: it reads again, or it is over.
RunReturns == []<>(runPc \in {"read"} \cup Over \/ fault # "none")

\* Each stop is ended by one command, given in that stop, and a command does
\* end it.
Protocol == INSTANCE StopProtocol WITH
    held <- stopped, stop <- stopNo, mode <- continueMode
ImplementsStopProtocol == Protocol!Spec

\* Every request is answered.
EveryRequestAnswered ==
    \A k \in RequestIds : sent >= k ~> (answered >= k \/ fault # "none" \/ eof)

----------------------------------------------------------------------------
(* Statements of the repository that do not hold for every client.          *)

\* Assert(session) in ExecuteDebugger: a program that stops finds its session.
HookFindsSession == fault # "noSession"

\* A response with success TRUE means that the request was successful: after a
\* successful continue or step the program leaves the stop.
SuccessfulResumeResumes ==
    \A n \in 1 .. MaxStops :
        (\E i \in DOMAIN toClient :
            /\ toClient[i].kind = "response"
            /\ toClient[i].ok
            /\ toClient[i].request.cmd \in Resume
            /\ toClient[i].request.stop = n)
        ~> (stopNo > n \/ ~stopped \/ fault # "none")
=============================================================================
