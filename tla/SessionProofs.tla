--------------------------- MODULE SessionProofs ---------------------------
(***************************************************************************)
(* Theorems about DebugSession for every client, whatever liberties it     *)
(* takes, and every number of requests and of stops.  What holds only for  *)
(* a client that waits is in WaitingClientProofs and DisconnectProofs.     *)
(***************************************************************************)
EXTENDS DebugSession, TLAPS

----------------------------------------------------------------------------
(* Every client.                                                            *)

\* _stoppedState holds a value exactly while the Lua thread is in
\* StopExecution, and a thread about to enter it is within the bound.
StopShape ==
    /\ stopped <=> luaPc \in {"announce", "execute"}
    /\ luaPc \in {"hit", "stop"} => stopNo < MaxStops

\* What the scheduler of the present stop holds is the one invocation awaited.
WorkIsAwaited ==
    stopped /\ (batch # <<>> \/ invocations # <<>>) =>
        /\ runPc = "await"
        /\ \/ batch = <<request.id>> /\ invocations = <<>>
           \/ batch = <<>> /\ invocations = <<request.id>>

\* configurationDone is under way at most once, and only before the program
\* was started.
IsStart(r) == r.cmd = "configurationDone"
HandlesStart == runPc = "handle" /\ IsStart(request)

StartedOnce ==
    /\ \A i \in 1 .. Len(toAdapter) : IsStart(toAdapter[i]) =>
         /\ luaPc = "idle"
         /\ clientPhase \notin {"new", "launched"}
         /\ ~HandlesStart
         /\ \A j \in 1 .. Len(toAdapter) : IsStart(toAdapter[j]) => i = j
    /\ HandlesStart => luaPc = "idle"
    /\ clientPhase \in {"new", "launched"} => luaPc = "idle" /\ ~HandlesStart

AnyClientInv == TypeOK /\ StartedOnce /\ StopShape /\ WorkIsAwaited

\* A response is sent, or its write halts the program.
LEMMA SendResponseOutcome ==
    ASSUME SendResponse
    PROVE  /\ RunAt("respond")
           /\ UNCHANGED <<clientVars, toAdapter, request, responseSeq, responseOk, seqId,
                          sessionClosed, stopVars, luaVars, schedulerVars>>
           /\ \/ /\ toClient' = Append(toClient, [kind |-> "response", seq |-> responseSeq,
                                                request |-> request, ok |-> responseOk])
                 /\ runPc' = IF sessionClosed THEN "done" ELSE "read"
                 /\ UNCHANGED fault
              \/ eof /\ fault' = "halted" /\ UNCHANGED <<toClient, runPc>>
BY DEF SendResponse, Writing, Asserting, runVars

\* So is a stopped event.
LEMMA AnnounceOutcome ==
    ASSUME Announce
    PROVE  /\ LuaAt("announce")
           /\ UNCHANGED <<clientVars, toAdapter, runVars, stopVars, startMode, armed, stepping,
                          stopNo, schedulerVars>>
           /\ \/ /\ toClient' = Append(toClient, [kind |-> "stopped", seq |-> seqId,
                                                stop |-> stopNo])
                 /\ NextSeqId
                 /\ luaPc' = "execute"
                 /\ UNCHANGED fault
              \/ eof /\ fault' = "halted" /\ UNCHANGED <<toClient, seqId, luaPc>>
BY DEF Announce, Writing, Asserting, luaVars

\* The scheduler's types survive its operations and steps of others.
LEMMA SchedulerKeepsType ==
    ASSUME S!TypeOK,
           \/ S!Create
           \/ \E i \in RequestIds : S!ScheduleInvocation(i)
           \/ S!Dispose \/ S!TakeState \/ S!InvokeNext \/ S!Wait
           \/ UNCHANGED schedulerVars
    PROVE  S!TypeOK'
<1>. USE DEF S!TypeOK
<1>1. CASE S!Create
  <2>1. <<>> \in Seq(RequestIds)
    OBVIOUS
  <2>2. /\ isClosed' = FALSE /\ signal' = FALSE /\ overlapped' = FALSE
        /\ executePc' = "take" /\ batch' = <<>>
    BY <1>1 DEF S!Create
  <2>3. /\ invocations' \in Seq(RequestIds) /\ batch' \in Seq(RequestIds)
        /\ scheduled' \in Seq(RequestIds) /\ invoked' \in Seq(RequestIds)
    BY <1>1, <2>1, Zenon DEF S!Create
  <2>. QED  BY <2>2, <2>3
<1>2. CASE \E i \in RequestIds : S!ScheduleInvocation(i)
  BY <1>2 DEF S!ScheduleInvocation
<1>3. CASE S!Dispose
  BY <1>3 DEF S!Dispose
<1>4. CASE S!TakeState
  BY <1>4 DEF S!TakeState
<1>5. CASE S!InvokeNext
  BY <1>5 DEF S!InvokeNext
<1>6. CASE S!Wait
  BY <1>6 DEF S!Wait
<1>7. CASE UNCHANGED schedulerVars
  BY <1>7 DEF schedulerVars
<1>. QED  BY <1>1, <1>2, <1>3, <1>4, <1>5, <1>6, <1>7

\* So they survive every step of the session.
LEMMA StepKeepsSchedulerType ==
    ASSUME TypeOK, Next
    PROVE  S!TypeOK'
<1>. USE DEF LuaAt, RunAt, Handling, Asserting
<1>1. CASE Client
  <2>1. UNCHANGED schedulerVars
    BY <1>1 DEF Client, ClientSend, ClientReceive, ClientVanish
  <2>. QED  BY <2>1, SchedulerKeepsType DEF TypeOK
<1>2. CASE Run
  <2>1. CASE ScheduleInspect
    <3>1. request.id \in RequestIds
      BY <2>1 DEF ScheduleInspect, TypeOK, Request
    <3>2. S!ScheduleInvocation(request.id) \/ UNCHANGED schedulerVars
      BY <2>1 DEF ScheduleInspect
    <3>. QED  BY <3>1, <3>2, SchedulerKeepsType DEF TypeOK
  <2>2. CASE DisposeStop
    <3>1. S!Dispose \/ UNCHANGED schedulerVars
      BY <2>2 DEF DisposeStop
    <3>. QED  BY <3>1, SchedulerKeepsType DEF TypeOK
  <2>3. CASE ~ScheduleInspect /\ ~DisposeStop
    <3>1. UNCHANGED schedulerVars
      BY <1>2, <2>3, SendResponseOutcome DEF Run, ReadRequest, ReadThrows, ReadEof,
         HandleStart, HandleConfigurationDone,
         HandleArm, HandleNoEffect, HandleInspect, HandleResume, HandleDisconnect,
         HandleThrows
    <3>. QED  BY <3>1, SchedulerKeepsType DEF TypeOK
  <2>. QED  BY <2>1, <2>2, <2>3
<1>3. CASE Lua
  <2>1. CASE EnterStop
    <3>1. S!Create \/ UNCHANGED schedulerVars
      BY <2>1 DEF EnterStop
    <3>. QED  BY <3>1, SchedulerKeepsType DEF TypeOK
  <2>2. CASE ExecuteIdles
    BY <2>2, SchedulerKeepsType DEF ExecuteIdles, TypeOK
  <2>3. CASE ExecuteInvokes
    BY <2>3, SchedulerKeepsType DEF ExecuteInvokes, TypeOK
  <2>4. CASE StartProgram \/ HitBreakpoint \/ HitStep \/ AcquireSession \/ Announce
              \/ LeaveStop
    <3>1. UNCHANGED schedulerVars
      BY <2>4, AnnounceOutcome DEF StartProgram, HitBreakpoint, HitStep, AcquireSession,
         LeaveStop
    <3>. QED  BY <3>1, SchedulerKeepsType DEF TypeOK
  <2>. QED  BY <1>3, <2>1, <2>2, <2>3, <2>4 DEF Lua, Stopping
<1>. QED  BY <1>1, <1>2, <1>3 DEF Next

\* A request the client makes up is well formed.
LEMMA SentRequest ==
    ASSUME ConstantsAssumption, TypeOK,
           NEW cmd \in Commands, NEW on \in BOOLEAN, ClientSend(cmd, on)
    PROVE  /\ [cmd |-> cmd, id |-> sent + 1, stop |-> clientStop, on |-> on] \in Request
           /\ TypeOK'
<1>. USE DEF ConstantsAssumption, ClientSend, Connected, clientVars, runVars, stopVars,
             luaVars
<1>1. [cmd |-> cmd, id |-> sent + 1, stop |-> clientStop, on |-> on] \in Request
  BY DEF TypeOK, Request, RequestIds, Stops
<1>2. toAdapter' \in Seq(Request)
  BY <1>1 DEF TypeOK
<1>3. clientStop' \in Stops
  BY DEF TypeOK, Stops
<1>4. sent' \in 0 .. MaxRequests
  BY DEF TypeOK
<1>5. clientPhase' \in {"new", "launched", "started", "disconnected"}
  BY DEF PhaseAfter, TypeOK
<1>6. S!TypeOK'
  BY StepKeepsSchedulerType DEF Next, Client
<1>. QED  BY <1>1, <1>2, <1>3, <1>4, <1>5, <1>6 DEF TypeOK

\* Steps of the client preserve the types.
LEMMA ClientKeepsType ==
    ASSUME ConstantsAssumption, TypeOK, Client
    PROVE  TypeOK'
<1>. USE DEF clientVars, runVars, stopVars, luaVars
<1>s. S!TypeOK'
  BY StepKeepsSchedulerType DEF Next
<1>1. ASSUME NEW cmd \in Commands, NEW on \in BOOLEAN, ClientSend(cmd, on)
      PROVE  TypeOK'
  BY <1>1, SentRequest
<1>2. CASE ClientReceive
  <2>. USE <1>2 DEF ClientReceive
  <2>1. Head(toClient) \in Response \cup Stopped /\ toClient' \in Seq(Response \cup Stopped)
    BY DEF TypeOK
  <2>2. clientStop' \in Stops /\ answered' \in Nat
    BY <2>1 DEF TypeOK, Response, Stopped, Stops
  <2>. QED  BY <1>s, <2>1, <2>2 DEF TypeOK
<1>3. CASE ClientVanish
  BY <1>s, <1>3 DEF ClientVanish, TypeOK
<1>. QED  BY <1>1, <1>2, <1>3 DEF Client

\* Steps of Run preserve the types.
LEMMA RunKeepsType ==
    ASSUME ConstantsAssumption, TypeOK, Run
    PROVE  TypeOK'
<1>s. S!TypeOK'
  BY StepKeepsSchedulerType DEF Next
<1>. USE DEF clientVars, runVars, stopVars, luaVars, RunAt, Handling, Asserting
<1>1. CASE ReadRequest
  <2>1. Head(toAdapter) \in Request /\ Tail(toAdapter) \in Seq(Request)
    BY <1>1 DEF ReadRequest, TypeOK
  <2>. QED  BY <1>s, <1>1, <2>1 DEF ReadRequest, NextSeqId, TypeOK
<1>2. CASE ReadEof
  BY <1>s, <1>2 DEF ReadEof, TypeOK, Over
<1>14. CASE ReadThrows
  <2>1. Tail(toAdapter) \in Seq(Request)
    BY <1>14 DEF ReadThrows, TypeOK
  <2>2. /\ toAdapter' = Tail(toAdapter) /\ runPc' = "thrown"
        /\ UNCHANGED <<clientVars, toClient, request, responseSeq, responseOk, seqId,
                       sessionClosed, stopVars, luaVars, fault>>
    BY <1>14, Zenon DEF ReadThrows
  <2>. QED  BY <1>s, <2>1, <2>2 DEF TypeOK, Over
<1>3. CASE HandleStart
  BY <1>s, <1>3 DEF HandleStart, StartModes, TypeOK, Faults
<1>4. CASE HandleConfigurationDone
  BY <1>s, <1>4 DEF HandleConfigurationDone, TypeOK, Faults
<1>5. CASE HandleArm
  <2>1. armed' \subseteq Arm
    BY <1>5 DEF HandleArm, TypeOK
  <2>. QED  BY <1>s, <1>5, <2>1 DEF HandleArm, TypeOK
<1>6. CASE HandleNoEffect
  BY <1>s, <1>6 DEF HandleNoEffect, TypeOK
<1>7. CASE HandleInspect
  BY <1>s, <1>7 DEF HandleInspect, TypeOK, Faults
<1>8. CASE ScheduleInspect
  <2>1. request.id \in RequestIds
    BY <1>8 DEF ScheduleInspect, TypeOK, Request
  <2>. QED  BY <1>s, <1>8, <2>1 DEF ScheduleInspect, TypeOK, Faults
<1>9. CASE HandleResume
  <2>1. ModeOf[request.cmd] \in Modes
    BY <1>9 DEF HandleResume, Modes
  <2>2. ResumeFault \in Faults \cup {"none"}
    BY DEF ResumeFault, Faults
  <2>. QED  BY <1>s, <1>9, <2>1, <2>2 DEF HandleResume, TypeOK
<1>10. CASE HandleDisconnect
  BY <1>s, <1>10 DEF HandleDisconnect, Modes, TypeOK
<1>11. CASE DisposeStop
  BY <1>s, <1>11 DEF DisposeStop, TypeOK, Faults
<1>12. CASE HandleThrows
  <2>1. /\ runPc' = "respond" /\ request \in Request
        /\ UNCHANGED <<clientVars, toAdapter, toClient, request, responseSeq, seqId, stopVars,
                       luaVars, fault>>
    BY <1>12 DEF HandleThrows, TypeOK
  <2>2. sessionClosed' \in BOOLEAN /\ responseOk' \in BOOLEAN
    BY <1>12 DEF HandleThrows
  <2>. QED  BY <1>s, <2>1, <2>2 DEF TypeOK
<1>13. CASE SendResponse
  <2>. DEFINE r == [kind |-> "response", seq |-> responseSeq, request |-> request,
                    ok |-> responseOk]
  <2>1. r \in Response
    BY <1>13, SendResponseOutcome DEF TypeOK, Response
  <2>2. toClient' = Append(toClient, r) \/ UNCHANGED toClient
    BY <1>13, SendResponseOutcome
  <2>3. toClient' \in Seq(Response \cup Stopped)
    BY <2>1, <2>2 DEF TypeOK
  <2>. QED  BY <1>s, <1>13, <2>3, SendResponseOutcome DEF TypeOK, Over, Faults
<1>. QED  BY <1>1, <1>2, <1>3, <1>4, <1>5, <1>6, <1>7, <1>8, <1>9, <1>10, <1>11, <1>12,
             <1>13, <1>14 DEF Run

\* Steps of the Lua thread preserve the types.
LEMMA LuaKeepsType ==
    ASSUME ConstantsAssumption, AnyClientInv, Lua
    PROVE  TypeOK'
<1>. USE DEF clientVars, runVars, stopVars, luaVars, LuaAt, Asserting,
             AnyClientInv
<1>s. S!TypeOK'
  BY StepKeepsSchedulerType DEF Next
<1>1. CASE StartProgram
  BY <1>s, <1>1 DEF StartProgram, TypeOK
<1>8. CASE HitBreakpoint
  BY <1>s, <1>8 DEF HitBreakpoint, TypeOK
<1>9. CASE HitStep
  <2>1. /\ luaPc' = "hit" /\ stepping' = FALSE
        /\ UNCHANGED <<clientVars, toAdapter, toClient, runVars, seqId, stopVars,
                       startMode, armed, stopNo, fault>>
    BY <1>9, Zenon DEF HitStep
  <2>2. stepping' \in BOOLEAN
    BY <2>1
  <2>. QED  BY <1>s, <2>1, <2>2 DEF TypeOK
<1>2. CASE AcquireSession
  BY <1>s, <1>2 DEF AcquireSession, TypeOK, Faults
<1>3. CASE EnterStop
  <2>1. stopNo + 1 \in Stops
    BY <1>3 DEF EnterStop, StopShape, TypeOK, Stops, ConstantsAssumption
  <2>. QED  BY <1>s, <1>3, <2>1 DEF EnterStop, TypeOK, Faults
<1>4. CASE Announce
  <2>. DEFINE m == [kind |-> "stopped", seq |-> seqId, stop |-> stopNo]
  <2>1. m \in Stopped
    BY DEF TypeOK, Stopped
  <2>2. toClient' = Append(toClient, m) \/ UNCHANGED toClient
    BY <1>4, AnnounceOutcome
  <2>3. toClient' \in Seq(Response \cup Stopped)
    BY <2>1, <2>2 DEF TypeOK
  <2>. QED  BY <1>s, <1>4, <2>3, AnnounceOutcome DEF NextSeqId, TypeOK, Faults
<1>5. CASE ExecuteIdles
  BY <1>s, <1>5 DEF ExecuteIdles, TypeOK
<1>6. CASE ExecuteInvokes
  <2>1. runPc = "await" /\ request \in Request
    BY <1>6 DEF ExecuteInvokes, S!InvokeNext, StopShape, WorkIsAwaited, TypeOK, S!TypeOK
  <2>. QED  BY <1>s, <1>6, <2>1 DEF ExecuteInvokes, TypeOK
<1>7. CASE LeaveStop
  BY <1>s, <1>7 DEF LeaveStop, TypeOK, Faults
<1>. QED  BY <1>1, <1>2, <1>3, <1>4, <1>5, <1>6, <1>7, <1>8, <1>9 DEF Lua, Stopping

\* Steps of the client touch nothing of a stop.
LEMMA ClientKeepsStop ==
    ASSUME StopShape, WorkIsAwaited, Client
    PROVE  StopShape' /\ WorkIsAwaited'
<1>1. UNCHANGED <<stopVars, luaVars, runVars, schedulerVars>>
  BY DEF Client, ClientSend, ClientReceive, ClientVanish
<1>. QED  BY <1>1 DEF stopVars, luaVars, runVars, schedulerVars, StopShape, WorkIsAwaited

\* Run enters an await only with its invocation, and leaves it only when the
\* Lua thread has run it.
LEMMA RunKeepsStop ==
    ASSUME AnyClientInv, Run
    PROVE  StopShape' /\ WorkIsAwaited'
<1>. USE DEF AnyClientInv, RunAt, Handling, Asserting, clientVars, runVars, stopVars, luaVars,
             schedulerVars
<1>1. CASE ScheduleInspect
  <2>1. CASE UNCHANGED <<runVars, stopVars, luaVars, schedulerVars>>
    BY <2>1 DEF StopShape, WorkIsAwaited
  <2>2. CASE /\ stopped /\ runPc = "schedule" /\ runPc' = "await"
             /\ invocations' = Append(invocations, request.id)
             /\ UNCHANGED <<batch, request, stopVars, luaVars>>
    <3>1. batch = <<>> /\ invocations = <<>>
      BY <2>2 DEF WorkIsAwaited
    <3>2. invocations' = <<request.id>>
      BY <2>2, <3>1
    <3>. QED  BY <2>2, <3>1, <3>2 DEF StopShape, WorkIsAwaited
  <2>. QED  BY <1>1, <2>1, <2>2 DEF ScheduleInspect, S!ScheduleInvocation
<1>2. CASE HandleConfigurationDone
  BY <1>2 DEF HandleConfigurationDone, StartedOnce, HandlesStart, IsStart, StopShape,
     WorkIsAwaited
<1>3. CASE ~ScheduleInspect /\ ~HandleConfigurationDone
  <2>1. /\ runPc # "await"
        /\ UNCHANGED <<stopped, luaPc, stopNo, batch, invocations>>
    BY <1>3, SendResponseOutcome DEF Run, ReadRequest, ReadThrows, ReadEof, HandleStart,
       HandleArm, HandleNoEffect,
       HandleInspect, HandleResume, HandleDisconnect, DisposeStop, S!Dispose, HandleThrows
  <2>. QED  BY <2>1 DEF StopShape, WorkIsAwaited
<1>. QED  BY <1>1, <1>2, <1>3

\* Every step of the Lua thread keeps the stop in shape.
LEMMA LuaKeepsStop ==
    ASSUME AnyClientInv, Lua
    PROVE  StopShape' /\ WorkIsAwaited'
<1>. USE DEF AnyClientInv, LuaAt, Asserting, clientVars, runVars, stopVars, luaVars,
             schedulerVars
<1>1. CASE StartProgram
  BY <1>1 DEF StartProgram, StopShape, WorkIsAwaited
<1>2. CASE HitBreakpoint
  BY <1>2 DEF HitBreakpoint, StopShape, WorkIsAwaited
<1>3. CASE HitStep
  <2>1. /\ luaPc = "running" /\ luaPc' = "hit" /\ stopNo < MaxStops
        /\ UNCHANGED <<stopped, stopNo>>
    BY <1>3, Zenon DEF HitStep
  <2>2. ~stopped /\ ~stopped'
    BY <2>1 DEF StopShape
  <2>. QED  BY <2>1, <2>2 DEF StopShape, WorkIsAwaited
<1>4. CASE AcquireSession
  BY <1>4 DEF AcquireSession, StopShape, WorkIsAwaited
<1>5. CASE EnterStop
  BY <1>5 DEF EnterStop, S!Create, StopShape, WorkIsAwaited
<1>6. CASE Announce
  BY <1>6, AnnounceOutcome DEF StopShape, WorkIsAwaited
<1>7. CASE ExecuteIdles
  <2>1. StopShape'
    BY <1>7 DEF ExecuteIdles, StopShape
  <2>2. executePc = "take" => batch = <<>>
    BY DEF TypeOK, S!TypeOK
  <2>3. WorkIsAwaited'
    BY <1>7, <2>2 DEF ExecuteIdles, S!TakeState, S!Wait, WorkIsAwaited
  <2>. QED  BY <2>1, <2>3
<1>8. CASE ExecuteInvokes
  <2>1. StopShape'
    BY <1>8 DEF ExecuteInvokes, StopShape
  <2>2. batch # <<>>
    BY <1>8 DEF ExecuteInvokes, S!InvokeNext, TypeOK, S!TypeOK
  <2>3. stopped
    BY <1>8 DEF ExecuteInvokes, StopShape
  <2>4. batch = <<request.id>> /\ invocations = <<>>
    BY <2>2, <2>3 DEF WorkIsAwaited
  <2>5. batch' = <<>> /\ invocations' = <<>>
    BY <1>8, <2>4 DEF ExecuteInvokes, S!InvokeNext
  <2>. QED  BY <2>1, <2>5 DEF WorkIsAwaited
<1>9. CASE LeaveStop
  BY <1>9 DEF LeaveStop, StopShape, WorkIsAwaited
<1>. QED  BY <1>1, <1>2, <1>3, <1>4, <1>5, <1>6, <1>7, <1>8, <1>9 DEF Lua, Stopping

\* configurationDone is sent once, read once and handled once.
LEMMA StepKeepsStartedOnce ==
    ASSUME ConstantsAssumption, AnyClientInv, Next
    PROVE  StartedOnce'
<1>. USE DEF AnyClientInv, RunAt, LuaAt, Handling, Asserting, clientVars, runVars, stopVars,
             luaVars
<1>1. ASSUME NEW cmd \in Commands, NEW on \in BOOLEAN, ClientSend(cmd, on)
      PROVE  StartedOnce'
  <2>. DEFINE r == [cmd |-> cmd, id |-> sent + 1, stop |-> clientStop, on |-> on]
  <2>1. toAdapter' = Append(toAdapter, r)
    BY <1>1 DEF ClientSend
  <2>2. toAdapter \in Seq(Request)
    BY DEF TypeOK
  <2>3. /\ Len(toAdapter') = Len(toAdapter) + 1
        /\ \A i \in 1 .. Len(toAdapter) : toAdapter'[i] = toAdapter[i]
        /\ toAdapter'[Len(toAdapter) + 1] = r
    BY <2>1, <2>2
  <2>4. UNCHANGED <<luaPc, runPc, request>>
    BY <1>1 DEF ClientSend
  <2>5. CASE cmd = "configurationDone"
    <3>1. clientPhase = "launched" /\ clientPhase' = "started"
      BY <1>1, <2>5 DEF ClientSend, PhaseAfter, MaySend, StartModes, Arm, NoEffect, Inspect,
         Resume,
         ModeOf
    <3>. QED  BY <2>2, <2>3, <2>4, <2>5, <3>1 DEF StartedOnce, HandlesStart, IsStart
  <2>6. CASE cmd # "configurationDone"
    <3>1. \/ clientPhase' = clientPhase
          \/ clientPhase' = "launched" /\ clientPhase = "new"
          \/ clientPhase' = "disconnected" /\ clientPhase = "started"
      <4>1. CASE cmd \in DOMAIN StartModes
        <5>1. cmd \in {"launch", "attach"}
          BY <4>1 DEF StartModes
        <5>2. MaySend(cmd) => clientPhase = "new"
          BY <5>1 DEF MaySend, Arm, NoEffect, Inspect, Resume, ModeOf
        <5>. QED  BY <1>1, <4>1, <5>2 DEF ClientSend, PhaseAfter
      <4>2. CASE cmd = "disconnect"
        <5>1. MaySend(cmd) => clientPhase = "started"
          BY <4>2 DEF MaySend, StartModes, Arm, NoEffect, Inspect, Resume, ModeOf
        <5>2. cmd \notin DOMAIN StartModes
          BY <4>2 DEF StartModes
        <5>. QED  BY <1>1, <2>6, <4>2, <5>1, <5>2 DEF ClientSend, PhaseAfter
      <4>3. CASE cmd \notin DOMAIN StartModes /\ cmd # "disconnect"
        BY <1>1, <2>6, <4>3 DEF ClientSend, PhaseAfter
      <4>. QED  BY <4>1, <4>2, <4>3
    <3>. QED  BY <2>2, <2>3, <2>4, <2>6, <3>1 DEF StartedOnce, HandlesStart, IsStart
  <2>. QED  BY <2>5, <2>6
<1>2. CASE ClientReceive \/ ClientVanish
  BY <1>2 DEF ClientReceive, ClientVanish, StartedOnce, HandlesStart
<1>3. CASE ReadRequest
  <2>1. /\ toAdapter \in Seq(Request) /\ toAdapter # <<>>
        /\ toAdapter' = Tail(toAdapter) /\ request' = Head(toAdapter)
        /\ UNCHANGED <<luaPc, clientPhase>>
    BY <1>3 DEF ReadRequest, TypeOK
  <2>2. /\ Len(toAdapter') = Len(toAdapter) - 1
        /\ \A i \in 1 .. Len(toAdapter') : toAdapter'[i] = toAdapter[i + 1]
        /\ request' = toAdapter[1]
        /\ Len(toAdapter) \in Nat \ {0}
    BY <2>1
  <2>. QED  BY <2>1, <2>2 DEF StartedOnce, HandlesStart, IsStart
<1>4. CASE HandleConfigurationDone
  BY <1>4 DEF HandleConfigurationDone, StartedOnce, HandlesStart, IsStart
<1>7. CASE ReadThrows
  <2>1. /\ toAdapter \in Seq(Request) /\ toAdapter # <<>>
        /\ toAdapter' = Tail(toAdapter) /\ runPc' = "thrown"
        /\ UNCHANGED <<luaPc, clientPhase>>
    BY <1>7 DEF ReadThrows, TypeOK
  <2>2. /\ Len(toAdapter') = Len(toAdapter) - 1
        /\ \A i \in 1 .. Len(toAdapter') : toAdapter'[i] = toAdapter[i + 1]
        /\ Len(toAdapter) \in Nat \ {0}
    BY <2>1
  <2>. QED  BY <2>1, <2>2 DEF StartedOnce, HandlesStart, IsStart
<1>5. CASE Run /\ ~ReadRequest /\ ~ReadThrows /\ ~HandleConfigurationDone
  <2>1. /\ UNCHANGED <<toAdapter, clientPhase, luaPc, request>>
        /\ runPc' = "handle" => runPc = "handle"
    BY <1>5, SendResponseOutcome DEF Run, ReadEof, HandleStart, HandleArm, HandleNoEffect,
       HandleInspect,
       ScheduleInspect, HandleResume, HandleDisconnect, DisposeStop, HandleThrows
  <2>. QED  BY <2>1 DEF StartedOnce, HandlesStart
<1>6. CASE Lua
  <2>1. /\ luaPc # "idle"
        /\ UNCHANGED <<toAdapter, clientPhase, request>>
        /\ runPc' = "handle" => runPc = "handle"
        /\ luaPc' # "idle"
    BY <1>6, AnnounceOutcome DEF Lua, Stopping, StartProgram, HitBreakpoint, HitStep,
       AcquireSession, EnterStop, ExecuteIdles, ExecuteInvokes, LeaveStop
  <2>. QED  BY <2>1 DEF StartedOnce, HandlesStart
<1>. QED  BY <1>1, <1>2, <1>3, <1>4, <1>5, <1>6, <1>7 DEF Next, Client

\* Nothing else changes the session.
LEMMA StutterKeepsAnyClientInv == AnyClientInv /\ UNCHANGED vars => AnyClientInv'
<1>. SUFFICES ASSUME AnyClientInv, UNCHANGED vars
              PROVE  AnyClientInv'
  OBVIOUS
<1>. USE DEF vars, clientVars, runVars, stopVars, luaVars, schedulerVars, AnyClientInv
<1>1. S!TypeOK'
  BY SchedulerKeepsType DEF TypeOK
<1>2. TypeOK'
  BY <1>1 DEF TypeOK
<1>3. StartedOnce' /\ StopShape' /\ WorkIsAwaited'
  BY DEF StartedOnce, HandlesStart, IsStart, StopShape, WorkIsAwaited
<1>. QED  BY <1>2, <1>3

\* The initial states.
LEMMA InitAnyClientInv == ConstantsAssumption /\ Init => AnyClientInv
<1>. SUFFICES ASSUME ConstantsAssumption, Init
              PROVE  AnyClientInv
  OBVIOUS
<1>1. <<>> \in Seq(RequestIds) /\ <<>> \in Seq(Request) /\ <<>> \in Seq(Response \cup Stopped)
  OBVIOUS
<1>2. S!TypeOK
  <2>1. /\ isClosed = FALSE /\ signal = FALSE /\ overlapped = FALSE
        /\ executePc = "take" /\ batch = <<>>
    BY DEF Init, S!Init
  <2>2. /\ invocations \in Seq(RequestIds) /\ batch \in Seq(RequestIds)
        /\ scheduled \in Seq(RequestIds) /\ invoked \in Seq(RequestIds)
    BY <1>1, Zenon DEF Init, S!Init
  <2>. QED  BY <2>1, <2>2 DEF S!TypeOK
<1>3. toAdapter \in Seq(Request) /\ toClient \in Seq(Response \cup Stopped)
  BY <1>1, Zenon DEF Init
<1>4. TypeOK
  <2>1. clientStop \in Stops /\ stopNo \in Stops /\ sent \in 0 .. MaxRequests
        /\ answered \in Nat /\ responseSeq \in Nat /\ seqId \in Nat
    BY DEF Init, ConstantsAssumption, Stops
  <2>2. request \in Request \cup {NoRequest} /\ runPc = "read" /\ armed \subseteq Arm
    BY DEF Init
  <2>3. /\ clientPhase = "new" /\ eof = FALSE /\ responseOk = TRUE
        /\ sessionClosed = FALSE /\ stopped = FALSE /\ stepping = FALSE
        /\ continueMode = "none" /\ startMode = "Unknown" /\ luaPc = "idle"
        /\ fault = "none"
    BY DEF Init
  <2>. QED  BY <1>2, <1>3, <2>1, <2>2, <2>3 DEF TypeOK
<1>5. StartedOnce /\ StopShape /\ WorkIsAwaited
  BY DEF Init, StartedOnce, HandlesStart, StopShape, WorkIsAwaited
<1>. QED  BY <1>4, <1>5 DEF AnyClientInv

\* Whatever the client does, the invariant holds.
THEOREM AnyClientInvariant == Spec => []AnyClientInv
<1>1. AnyClientInv /\ Next => AnyClientInv'
  BY ConstantsAssumption, ClientKeepsType, RunKeepsType, LuaKeepsType, ClientKeepsStop,
     RunKeepsStop, LuaKeepsStop, StepKeepsStartedOnce
     DEF AnyClientInv, Next
<1>2. AnyClientInv /\ [Next]_vars => AnyClientInv'
  BY <1>1, StutterKeepsAnyClientInv
<1>. QED  BY <1>2, ConstantsAssumption, InitAnyClientInv, PTL DEF Spec

\* The session's variables keep their types for every client.
THEOREM SessionTypeCorrect == Spec => []TypeOK
<1>1. AnyClientInv => TypeOK
  BY DEF AnyClientInv
<1>. QED  BY <1>1, AnyClientInvariant, PTL

\* For every client, an invocation that the Lua thread is to run is the one
\* Run awaits for the request it is handling.
THEOREM InvocationIsAwaited == Spec => []ScheduledIsAwaited
<1>1. AnyClientInv => ScheduledIsAwaited
  <2>. SUFFICES ASSUME AnyClientInv, luaPc = "execute", batch \o invocations # <<>>
                PROVE  runPc = "await" /\ batch \o invocations = <<request.id>>
    BY DEF ScheduledIsAwaited
  <2>1. batch # <<>> \/ invocations # <<>>
    OBVIOUS
  <2>2. stopped
    BY DEF AnyClientInv, StopShape
  <2>3. \A x : <<x>> \o <<>> = <<x>> /\ <<>> \o <<x>> = <<x>>
    OBVIOUS
  <2>4. /\ runPc = "await"
        /\ \/ batch = <<request.id>> /\ invocations = <<>>
           \/ batch = <<>> /\ invocations = <<request.id>>
    BY <2>1, <2>2 DEF AnyClientInv, WorkIsAwaited
  <2>. QED  BY <2>3, <2>4, Zenon
<1>. QED  BY <1>1, AnyClientInvariant, PTL

----------------------------------------------------------------------------
(* The numbers of messages.                                                 *)

\* Numbers on their way to the client, and the one the response took when its request
\* was read, are different and below the next one.
Numbered ==
    /\ \A i \in 1 .. Len(toClient) : toClient[i].seq < seqId
    /\ \A i, j \in 1 .. Len(toClient) : toClient[i].seq = toClient[j].seq => i = j
    /\ runPc \notin {"read"} \cup Over =>
         /\ responseSeq < seqId
         /\ \A i \in 1 .. Len(toClient) : toClient[i].seq # responseSeq

\* Only four steps take a number or move a message.
LEMMA OthersTakeNoNumber ==
    ASSUME AnyClientInv, [Next]_vars
    PROVE  \/ ClientReceive \/ ReadRequest \/ SendResponse \/ Announce
           \/ /\ UNCHANGED <<toClient, seqId, responseSeq>>
              /\ runPc' \notin {"read"} \cup Over => runPc \notin {"read"} \cup Over
<1>. USE DEF clientVars, runVars, stopVars, luaVars, schedulerVars, RunAt, LuaAt, Handling,
             Asserting
<1>1. CASE Client
  BY <1>1 DEF Client, ClientSend, ClientVanish
<1>2. CASE Run
  BY <1>2 DEF Run, ReadThrows, ReadEof, HandleStart, HandleConfigurationDone, HandleArm,
              HandleNoEffect, HandleInspect, ScheduleInspect, HandleResume, HandleDisconnect,
              DisposeStop, HandleThrows, Over
<1>3. CASE Lua
  <2>1. CASE ExecuteInvokes
    <3>1. luaPc = "execute" /\ S!InvokeNext /\ UNCHANGED <<toClient, seqId, responseSeq>>
      BY <2>1, Zenon DEF ExecuteInvokes
    <3>2. stopped /\ batch # <<>>
      BY <3>1 DEF AnyClientInv, StopShape, TypeOK, S!TypeOK, S!InvokeNext
    <3>3. runPc = "await"
      BY <3>2 DEF AnyClientInv, WorkIsAwaited
    <3>. QED  BY <3>1, <3>3 DEF Over
  <2>2. CASE ~ExecuteInvokes
    BY <1>3, <2>2 DEF Lua, Stopping, StartProgram, HitBreakpoint, HitStep, AcquireSession,
                      EnterStop, ExecuteIdles, LeaveStop
  <2>. QED  BY <2>1, <2>2
<1>4. CASE UNCHANGED vars
  BY <1>4 DEF vars
<1>. QED  BY <1>1, <1>2, <1>3, <1>4 DEF Next

\* Each step keeps the numbers apart.
LEMMA StepKeepsNumbers ==
    ASSUME AnyClientInv, Numbered, [Next]_vars
    PROVE  Numbered'
<1>1. /\ toClient \in Seq(Response \cup Stopped) /\ seqId \in Nat /\ responseSeq \in Nat
      /\ \A i \in 1 .. Len(toClient) : toClient[i].seq \in Nat
  BY DEF AnyClientInv, TypeOK, Response, Stopped
<1>2. CASE ClientReceive
  <2>1. toClient # <<>> /\ toClient' = Tail(toClient) /\ UNCHANGED <<seqId, responseSeq, runPc>>
    BY <1>2 DEF ClientReceive, runVars
  <2>2. /\ Len(toClient') = Len(toClient) - 1 /\ Len(toClient) \in Nat
        /\ \A i \in 1 .. Len(toClient') : toClient'[i] = toClient[i + 1]
    BY <1>1, <2>1
  <2>. QED  BY <1>1, <2>1, <2>2 DEF Numbered
<1>3. CASE ReadRequest
  <2>1. responseSeq' = seqId /\ seqId' = seqId + 1 /\ UNCHANGED toClient
    BY <1>3 DEF ReadRequest, NextSeqId
  <2>. QED  BY <1>1, <2>1 DEF Numbered
<1>4. CASE SendResponse
  <2>. DEFINE m == [kind |-> "response", seq |-> responseSeq, request |-> request,
                    ok |-> responseOk]
  <2>0. CASE UNCHANGED <<toClient, runPc>>
    BY <1>4, <2>0, SendResponseOutcome DEF Numbered
  <2>1. CASE /\ runPc = "respond" /\ runPc' \in {"read", "done"}
             /\ toClient' = Append(toClient, m) /\ UNCHANGED seqId
   <3>2. /\ Len(toClient') = Len(toClient) + 1 /\ toClient'[Len(toClient) + 1] = m
        /\ \A i \in 1 .. Len(toClient) : toClient'[i] = toClient[i]
      BY <1>1, <2>1
   <3>3. m.seq = responseSeq
      OBVIOUS
   <3>. HIDE DEF m
   <3>. QED  BY <1>1, <2>1, <3>2, <3>3 DEF Numbered, Over
  <2>. QED  BY <1>4, <2>0, <2>1, SendResponseOutcome DEF RunAt
<1>5. CASE Announce
  <2>. DEFINE m == [kind |-> "stopped", seq |-> seqId, stop |-> stopNo]
  <2>0. CASE UNCHANGED <<toClient, seqId, responseSeq, runPc>>
    BY <2>0 DEF Numbered
  <2>1. CASE /\ toClient' = Append(toClient, m) /\ seqId' = seqId + 1
             /\ UNCHANGED <<responseSeq, runPc>>
   <3>2. /\ Len(toClient') = Len(toClient) + 1 /\ toClient'[Len(toClient) + 1] = m
        /\ \A i \in 1 .. Len(toClient) : toClient'[i] = toClient[i]
      BY <1>1, <2>1
   <3>3. m.seq = seqId
      OBVIOUS
   <3>. HIDE DEF m
   <3>. QED  BY <1>1, <2>1, <3>2, <3>3 DEF Numbered
  <2>. QED  BY <1>5, <2>0, <2>1, AnnounceOutcome DEF NextSeqId, runVars
<1>6. CASE /\ UNCHANGED <<toClient, seqId, responseSeq>>
           /\ runPc' \notin {"read"} \cup Over => runPc \notin {"read"} \cup Over
  BY <1>6 DEF Numbered
<1>. QED  BY <1>2, <1>3, <1>4, <1>5, <1>6, OthersTakeNoNumber

\* Whatever the client does, no two messages on their way carry the same number, though
\* Run takes one for a response long before it sends it and the Lua thread takes others
\* meanwhile.
THEOREM NumbersAreUnique == Spec => []SeqUnique
<1>1. Init => Numbered
  BY DEF Init, Numbered
<1>2. AnyClientInv /\ Numbered => SeqUnique
  <2>. SUFFICES ASSUME AnyClientInv, Numbered
                PROVE  SeqUnique
    OBVIOUS
  <2>1. DOMAIN toClient = 1 .. Len(toClient)
    BY DEF AnyClientInv, TypeOK
  <2>. QED  BY <2>1 DEF Numbered, SeqUnique
<1>. QED  BY <1>1, <1>2, StepKeepsNumbers, AnyClientInvariant, PTL DEF Spec
=============================================================================
