-------------------------- MODULE DisconnectProofs --------------------------
(***************************************************************************)
(* Theorems about how a session of DebugSession ends: for a client that    *)
(* waits for each response and disconnects from a quiet stop, and then for *)
(* one that takes no liberty at all.                                       *)
(***************************************************************************)
EXTENDS WaitingClientProofs

\* A client that has disconnected did so from a quiet stop: the program is in that
\* stop or runs on with no breakpoint and no step left, and the request closes the
\* stop when it is carried out.  One that cannot be read never is.
Farewell ==
    /\ Pending /\ Asked.cmd = "disconnect" => clientPhase = "disconnected"
    /\ clientPhase = "disconnected" =>
         /\ armed = {} /\ ~stepping
         /\ luaPc \in {"execute", "running"}
         /\ luaPc = "execute" => continueMode \in {"none", "Stopped"}
         /\ Pending => Asked.cmd = "disconnect"
         /\ runPc \notin {"schedule", "await"}
         /\ luaPc = "execute" /\ ~Pending /\ runPc \notin {"dispose", "thrown"} => isClosed

\* The disconnect of the client has been carried out, or is being so.
Parted == clientPhase = "disconnected" /\ ~Pending /\ runPc # "thrown"

\* Without a disconnect a session closes by a request that failed, and Run ends by
\* that, by a disconnect, by the end of the connection or by a message it cannot read.
Closing ==
    /\ sessionClosed /\ ~Parted => ~responseOk /\ runPc \in {"respond", "done"}
    /\ runPc = "done" => eof \/ sessionClosed
    /\ fault = "noSession" => runPc \in Over /\ ~Parted

\* Nothing happens that the client does not cause.
Causes ==
    /\ eof => "vanish" \in ClientMay
    /\ ~responseOk => "malformed" \in ClientMay
    /\ runPc = "thrown" => "malformed" \in ClientMay
    /\ fault = "halted" => eof

EndInv == Farewell /\ Closing /\ Causes

----------------------------------------------------------------------------
(* The client.                                                              *)

\* A step that leaves all of this alone, but perhaps the Lua thread before the
\* client has disconnected.
LEMMA ElsewhereKeepsEnd ==
    ASSUME EndInv,
           UNCHANGED <<clientPhase, toAdapter, request, runPc, sessionClosed, responseOk, eof,
                       fault>>,
           clientPhase = "disconnected"
             => UNCHANGED <<armed, stepping, luaPc, continueMode, isClosed>>
    PROVE  EndInv'
<1>1. UNCHANGED <<Pending, Asked, Parted>>
  BY DEF Pending, Asked, Parted
<1>2. Farewell'
  BY <1>1 DEF EndInv, Farewell
<1>3. Closing' /\ Causes'
  BY <1>1 DEF EndInv, Closing, Causes
<1>. QED  BY <1>2, <1>3 DEF EndInv

\* An Assert that fails, but that of a hook which finds no session.
LEMMA FaultKeepsEnd ==
    ASSUME EndInv, fault' # "noSession", fault' = "halted" => eof,
           UNCHANGED <<clientVars, toAdapter, runVars, stopVars, luaVars, schedulerVars>>
    PROVE  EndInv'
<1>. USE DEF clientVars, runVars, stopVars, luaVars, schedulerVars
<1>1. UNCHANGED <<Pending, Asked, Parted>>
  BY DEF Pending, Asked, Parted
<1>2. Farewell'
  BY <1>1 DEF EndInv, Farewell
<1>3. Closing' /\ Causes'
  BY <1>1 DEF EndInv, Closing, Causes
<1>. QED  BY <1>2, <1>3 DEF EndInv

\* A client that disconnects does so from an open stop.
LEMMA SendKeepsEnd ==
    ASSUME Waits, WaitingInv, EndInv, NEW cmd \in Commands, NEW on \in BOOLEAN,
           ClientSend(cmd, on)
    PROVE  EndInv'
<1>. DEFINE r == [cmd |-> cmd, id |-> sent + 1, stop |-> clientStop, on |-> on]
<1>. USE DEF clientVars, runVars, stopVars, luaVars, schedulerVars
<1>0. sent = answered
  BY DEF ClientSend, Waits, MayPipeline
<1>1. /\ MaySend(cmd)
      /\ toAdapter' = Append(toAdapter, r)
      /\ clientPhase' = PhaseAfter(cmd)
      /\ UNCHANGED <<eof, runPc, request, sessionClosed, responseOk, armed, stepping, luaPc,
                     continueMode, isClosed, fault>>
  BY DEF ClientSend
<1>2. fault = "none"
  BY DEF ClientSend, Connected
<1>3. toAdapter = <<>> /\ runPc \notin Busy /\ ~Pending
  BY <1>0 DEF WaitingInv, OneRequest, Pending, Busy
<1>4. toAdapter' # <<>> /\ Head(toAdapter') = r
  BY <1>1, <1>3
<1>5. Pending' /\ Asked' = r /\ ~Parted'
  BY <1>4 DEF Pending, Asked, Parted
<1>6. /\ clientPhase # "disconnected"
      /\ clientPhase' = "disconnected" => cmd = "disconnect"
      /\ cmd = "disconnect" => clientPhase' = "disconnected" /\ DisconnectIsQuiet
  <2>1. clientPhase # "disconnected"
    BY <1>1 DEF MaySend
  <2>2. clientPhase' = "disconnected" => cmd = "disconnect"
    BY <1>1, <2>1 DEF PhaseAfter
  <2>3. cmd = "disconnect" => clientPhase' = "disconnected"
    BY <1>1, Disjoint DEF PhaseAfter
  <2>4. cmd = "disconnect" => DisconnectIsQuiet
    BY <1>1, Disjoint DEF MaySend, Waits, Arm, NoEffect, Inspect
  <2>. QED  BY <2>1, <2>2, <2>3, <2>4
<1>7. cmd = "disconnect" => armed = {} /\ ~stepping /\ Open
  BY <1>6 DEF DisconnectIsQuiet, WaitingInv, ToldStopIsOpen
<1>8. Farewell'
  BY <1>1, <1>3, <1>5, <1>6, <1>7 DEF Farewell, Open, Busy
<1>9. Closing'
  BY <1>1, <1>2, <1>5, <1>6 DEF EndInv, Closing, Parted
<1>10. Causes'
  BY <1>1 DEF EndInv, Causes
<1>. QED  BY <1>8, <1>9, <1>10 DEF EndInv

\* Receiving and vanishing.
LEMMA ClientKeepsEnd ==
    ASSUME EndInv, ClientReceive \/ ClientVanish \/ UNCHANGED vars
    PROVE  EndInv'
<1>. USE DEF clientVars, runVars, stopVars, luaVars, schedulerVars
<1>1. CASE ClientReceive
  BY <1>1, ElsewhereKeepsEnd DEF ClientReceive
<1>2. CASE ClientVanish
  <2>1. /\ eof' = TRUE /\ "vanish" \in ClientMay
        /\ UNCHANGED <<clientPhase, toAdapter, request, runPc, sessionClosed, responseOk, fault,
                       armed, stepping, luaPc, continueMode, isClosed>>
    BY <1>2 DEF ClientVanish
  <2>2. UNCHANGED <<Pending, Asked, Parted>>
    BY <2>1 DEF Pending, Asked, Parted
  <2>3. Farewell'
    BY <2>1, <2>2 DEF EndInv, Farewell
  <2>4. Closing' /\ Causes'
    BY <2>1, <2>2 DEF EndInv, Closing, Causes
  <2>. QED  BY <2>3, <2>4 DEF EndInv
<1>3. CASE UNCHANGED vars
  BY <1>3, ElsewhereKeepsEnd DEF vars
<1>. QED  BY <1>1, <1>2, <1>3

----------------------------------------------------------------------------
(* Run.                                                                     *)

\* Taking a request from the connection, or its end.
LEMMA ReadKeepsEnd ==
    ASSUME WaitingInv, EndInv, ReadRequest \/ ReadThrows \/ ReadEof
    PROVE  EndInv'
<1>. USE DEF clientVars, stopVars, luaVars, schedulerVars
<1>1. /\ UNCHANGED <<clientPhase, eof, sessionClosed, armed, stepping, luaPc, continueMode,
                     isClosed, fault>>
      /\ runPc = "read" /\ fault = "none"
  BY DEF ReadRequest, ReadThrows, ReadEof, RunAt
<1>2. CASE ReadRequest
  <2>1. /\ toAdapter # <<>> /\ request' = Head(toAdapter) /\ toAdapter' = Tail(toAdapter)
        /\ responseOk' = TRUE /\ runPc' = "handle"
    BY <1>2 DEF ReadRequest
  <2>2. toAdapter \in Seq(Request) /\ Len(toAdapter) = 1
    BY <2>1 DEF WaitingInv, OneRequest, AnyClientInv, TypeOK
  <2>3. toAdapter' = <<>>
    BY <2>1, <2>2
  <2>4. Pending /\ Pending' /\ Asked' = Asked /\ ~Parted /\ ~Parted'
    BY <2>1, <2>3 DEF Pending, Asked, Parted
  <2>5. ~sessionClosed
    BY <1>1, <2>4 DEF EndInv, Closing
  <2>6. Farewell'
    BY <1>1, <2>1, <2>4 DEF EndInv, Farewell
  <2>7. Closing' /\ Causes'
    BY <1>1, <2>1, <2>5 DEF EndInv, Closing, Causes
  <2>. QED  BY <2>6, <2>7 DEF EndInv
<1>3. CASE ReadThrows
  <2>1. /\ toAdapter # <<>> /\ toAdapter' = Tail(toAdapter)
        /\ runPc' = "thrown" /\ "malformed" \in ClientMay
        /\ UNCHANGED responseOk
    BY <1>3 DEF ReadThrows
  <2>2. toAdapter \in Seq(Request) /\ Len(toAdapter) = 1
    BY <2>1 DEF WaitingInv, OneRequest, AnyClientInv, TypeOK
  <2>3. toAdapter' = <<>>
    BY <2>1, <2>2
  <2>4. Pending /\ ~Pending' /\ ~Parted /\ ~Parted'
    BY <2>1, <2>3 DEF Pending, Parted
  <2>5. ~sessionClosed
    BY <1>1, <2>4 DEF EndInv, Closing
  <2>6. Farewell'
    BY <1>1, <2>1, <2>4 DEF EndInv, Farewell
  <2>7. Closing' /\ Causes'
    BY <1>1, <2>1, <2>4, <2>5 DEF EndInv, Closing, Causes
  <2>. QED  BY <2>6, <2>7 DEF EndInv
<1>4. CASE ReadEof
  <2>1. /\ toAdapter = <<>> /\ eof /\ runPc' = "done"
        /\ UNCHANGED <<toAdapter, request, responseOk>>
    BY <1>4 DEF ReadEof
  <2>2. ~Pending /\ ~Pending' /\ Asked' = Asked /\ Parted' = Parted
    BY <1>1, <2>1 DEF Pending, Asked, Parted
  <2>3. Farewell'
    BY <1>1, <2>1, <2>2 DEF EndInv, Farewell
  <2>4. Closing' /\ Causes'
    BY <1>1, <2>1, <2>2 DEF EndInv, Closing, Causes
  <2>. QED  BY <2>3, <2>4 DEF EndInv
<1>. QED  BY <1>2, <1>4, <1>3

\* While Run works on anything but a disconnect, the client has not disconnected
\* and the session is not closed.
LEMMA BusyIsOpen ==
    ASSUME WaitingInv, EndInv,
           \/ runPc = "handle" /\ request.cmd # "disconnect"
           \/ runPc \in {"schedule", "await"}
    PROVE  clientPhase # "disconnected" /\ ~sessionClosed
<1>1. Asked = request /\ (runPc = "handle" <=> Pending)
  BY BusyRun DEF Busy
<1>2. clientPhase # "disconnected"
  BY <1>1 DEF EndInv, Farewell
<1>. QED  BY <1>2 DEF EndInv, Closing, Parted

\* A step of such work, whatever it does to the program.
LEMMA WorkKeepsEnd ==
    ASSUME WaitingInv, EndInv, fault = "none",
           \/ runPc = "handle" /\ request.cmd # "disconnect"
           \/ runPc \in {"schedule", "await"},
           runPc' \in {"schedule", "await", "dispose", "respond"},
           responseOk' \in BOOLEAN,
           ~responseOk' => ~responseOk \/ "malformed" \in ClientMay,
           sessionClosed' => ~responseOk' /\ runPc' = "respond",
           UNCHANGED <<clientPhase, toAdapter, request, eof, fault>>
    PROVE  EndInv'
<1>1. toAdapter = <<>> /\ clientPhase # "disconnected"
  BY BusyRun, BusyIsOpen DEF Busy
<1>2. ~Pending' /\ ~Parted'
  BY <1>1 DEF Pending, Parted
<1>3. Farewell'
  BY <1>1, <1>2 DEF Farewell
<1>4. Closing' /\ Causes'
  BY <1>1, <1>2 DEF EndInv, Closing, Causes
<1>. QED  BY <1>3, <1>4 DEF EndInv

\* Requests that leave the session as it is.
LEMMA HandleKeepsEnd ==
    ASSUME WaitingInv, EndInv,
           \/ HandleStart \/ HandleConfigurationDone \/ HandleArm \/ HandleNoEffect
           \/ HandleInspect \/ ScheduleInspect \/ HandleResume
    PROVE  EndInv'
<1>. USE DEF RunAt, Handling, Asserting
<1>1. /\ fault = "none"
      /\ \/ runPc = "handle" /\ request.cmd # "disconnect"
         \/ runPc = "schedule"
  BY Disjoint DEF HandleStart, HandleConfigurationDone, HandleArm, HandleNoEffect,
                  HandleInspect, ScheduleInspect, HandleResume, Arm, NoEffect, Inspect
<1>2. \/ /\ fault' \notin {"noSession", "halted"}
         /\ UNCHANGED <<clientVars, toAdapter, runVars, stopVars, luaVars, schedulerVars>>
      \/ /\ UNCHANGED fault
         /\ runPc' \in {"schedule", "await", "dispose", "respond"}
         /\ UNCHANGED <<clientPhase, toAdapter, request, eof, responseOk, sessionClosed>>
  <2>1. CASE HandleStart
    BY <2>1 DEF HandleStart, clientVars
  <2>2. CASE HandleConfigurationDone
    BY <2>2 DEF HandleConfigurationDone, clientVars
  <2>3. CASE HandleArm \/ HandleNoEffect
    BY <2>3 DEF HandleArm, HandleNoEffect, clientVars
  <2>4. CASE HandleInspect
    BY <2>4 DEF HandleInspect, clientVars
  <2>5. CASE ScheduleInspect
    BY <2>5 DEF ScheduleInspect, clientVars
  <2>6. CASE HandleResume
    BY <2>6 DEF HandleResume, ResumeFault, clientVars
  <2>. QED  BY <2>1, <2>2, <2>3, <2>4, <2>5, <2>6
<1>3. ~sessionClosed /\ responseOk \in BOOLEAN
  BY <1>1, BusyIsOpen DEF WaitingInv, AnyClientInv, TypeOK
<1>. QED  BY <1>1, <1>2, <1>3, FaultKeepsEnd, WorkKeepsEnd

\* A request that fails closes the session, and says so.
LEMMA ThrowKeepsEnd ==
    ASSUME WaitingInv, EndInv, HandleThrows
    PROVE  EndInv'
<1>1. /\ fault = "none" /\ runPc = "handle" /\ request.cmd # "disconnect"
      /\ responseOk' = FALSE /\ runPc' = "respond" /\ "malformed" \in ClientMay
      /\ UNCHANGED <<clientPhase, toAdapter, request, eof, fault>>
  BY DEF HandleThrows, RunAt, Handling, Arm, Inspect, clientVars
<1>. QED  BY <1>1, WorkKeepsEnd

\* A disconnect finds the stop of the client and marks it as over, ...
LEMMA DisconnectKeepsEnd ==
    ASSUME WaitingInv, EndInv, HandleDisconnect
    PROVE  EndInv'
<1>. USE DEF clientVars, luaVars, schedulerVars
<1>1. /\ fault = "none" /\ runPc = "handle" /\ request.cmd = "disconnect"
      /\ sessionClosed' = TRUE
  BY DEF HandleDisconnect, RunAt, Handling
<1>2. stopped /\ toAdapter = <<>> /\ Pending /\ Asked = request
  BY <1>1, EndingMeetsOpenStop, BusyRun DEF Busy, Ending
<1>3. /\ continueMode' = "Stopped" /\ runPc' = "dispose"
      /\ UNCHANGED <<clientPhase, toAdapter, request, eof, responseOk, armed, stepping, luaPc,
                     isClosed, fault>>
  BY <1>2 DEF HandleDisconnect
<1>4. clientPhase = "disconnected"
  BY <1>1, <1>2 DEF EndInv, Farewell
<1>5. ~Pending' /\ Parted'
  BY <1>2, <1>3, <1>4 DEF Pending, Parted
<1>6. Farewell'
  BY <1>3, <1>4, <1>5 DEF EndInv, Farewell
<1>7. Closing' /\ Causes'
  BY <1>1, <1>3, <1>5 DEF EndInv, Closing, Causes
<1>. QED  BY <1>6, <1>7 DEF EndInv

\* ... and disposing the scheduler closes it.
LEMMA DisposeKeepsEnd ==
    ASSUME WaitingInv, EndInv, DisposeStop
    PROVE  EndInv'
<1>. USE DEF clientVars, luaVars
<1>1. fault = "none" /\ runPc = "dispose"
  BY DEF DisposeStop, RunAt
<1>2. CASE fault' # "none"
  <2>1. /\ fault' \notin {"noSession", "halted"}
        /\ UNCHANGED <<clientVars, toAdapter, runVars, stopVars, luaVars, schedulerVars>>
    BY <1>1, <1>2 DEF DisposeStop, Asserting
  <2>. QED  BY <2>1, FaultKeepsEnd
<1>3. CASE fault' = "none"
  <2>1. /\ runPc' = "respond" /\ isClosed' = TRUE
        /\ UNCHANGED <<clientPhase, toAdapter, request, eof, responseOk, sessionClosed, armed,
                       stepping, luaPc, continueMode, fault>>
    BY <1>1, <1>3 DEF DisposeStop, Asserting, S!Dispose, stopVars
  <2>2. ~Pending /\ ~Pending' /\ Asked' = Asked /\ Parted' = Parted
    BY <1>1, <2>1, BusyRun DEF Busy, Pending, Asked, Parted
  <2>3. Farewell'
    BY <2>1, <2>2 DEF EndInv, Farewell
  <2>4. Closing' /\ Causes'
    BY <1>1, <2>1, <2>2 DEF EndInv, Closing, Causes
  <2>. QED  BY <2>3, <2>4 DEF EndInv
<1>. QED  BY <1>2, <1>3

\* Run ends after the response of a session that is closed.
LEMMA RespondKeepsEnd ==
    ASSUME WaitingInv, EndInv, SendResponse
    PROVE  EndInv'
<1>. USE DEF clientVars, luaVars, stopVars, schedulerVars
<1>1. CASE fault' = "halted" /\ eof
           /\ UNCHANGED <<clientVars, toAdapter, runVars, stopVars, luaVars, schedulerVars>>
  BY <1>1, FaultKeepsEnd
<1>2. CASE /\ runPc' = IF sessionClosed THEN "done" ELSE "read"
           /\ UNCHANGED <<clientPhase, toAdapter, request, eof, responseOk, sessionClosed, armed,
                          stepping, luaPc, continueMode, isClosed, fault>>
  <2>1. fault = "none" /\ runPc = "respond"
    BY DEF SendResponse, RunAt
  <2>2. ~Pending /\ ~Pending' /\ Asked' = Asked /\ Parted' = Parted
    BY <1>2, <2>1, BusyRun DEF Busy, Pending, Asked, Parted
  <2>3. Farewell'
    BY <1>2, <2>1, <2>2 DEF EndInv, Farewell
  <2>4. Closing' /\ Causes'
    BY <1>2, <2>1, <2>2 DEF EndInv, Closing, Causes
  <2>. QED  BY <2>3, <2>4 DEF EndInv
<1>. QED  BY <1>1, <1>2, SendResponseOutcome DEF runVars

----------------------------------------------------------------------------
(* The Lua thread.                                                          *)

\* A program whose client has disconnected neither stops again nor steps; one that
\* stops with no session has lost it in another way.
LEMMA LuaKeepsEnd ==
    ASSUME WaitingInv, EndInv, Lua
    PROVE  EndInv'
<1>. USE DEF clientVars, LuaAt
<1>1. CASE StartProgram \/ HitBreakpoint \/ HitStep \/ EnterStop \/ Announce
  <2>1. clientPhase # "disconnected"
    BY <1>1 DEF StartProgram, HitBreakpoint, HitStep, EnterStop, Announce, EndInv, Farewell
  <2>2. \/ UNCHANGED <<clientPhase, toAdapter, request, runPc, sessionClosed, responseOk, eof,
                       fault>>
        \/ /\ fault' # "noSession" /\ (fault' = "halted" => eof)
           /\ UNCHANGED <<clientVars, toAdapter, runVars, stopVars, luaVars, schedulerVars>>
    <3>1. CASE StartProgram \/ HitBreakpoint \/ HitStep
      BY <3>1 DEF StartProgram, HitBreakpoint, HitStep, runVars
    <3>3. CASE Announce
      BY <3>3, AnnounceOutcome DEF runVars, luaVars
    <3>2. CASE EnterStop
      BY <3>2 DEF EnterStop, Asserting, runVars
    <3>. QED  BY <1>1, <3>1, <3>2, <3>3
  <2>. QED  BY <2>1, <2>2, ElsewhereKeepsEnd, FaultKeepsEnd
<1>2. CASE AcquireSession
  <2>1. luaPc = "hit" /\ clientPhase # "disconnected" /\ fault = "none"
    BY <1>2 DEF AcquireSession, EndInv, Farewell
  <2>2. /\ UNCHANGED <<clientPhase, toAdapter, request, runPc, sessionClosed, responseOk, eof>>
        /\ fault' = fault \/ (fault' = "noSession" /\ runPc \in Over)
    BY <1>2, <2>1 DEF AcquireSession, Asserting, runVars
  <2>3. UNCHANGED <<Pending, Asked, Parted>> /\ ~Parted
    BY <2>1, <2>2 DEF Pending, Asked, Parted
  <2>4. Farewell'
    BY <2>1, <2>2, <2>3 DEF EndInv, Farewell
  <2>5. Closing' /\ Causes'
    BY <2>1, <2>2, <2>3 DEF EndInv, Closing, Causes
  <2>. QED  BY <2>4, <2>5 DEF EndInv
<1>3. CASE ExecuteIdles
  <2>1. /\ UNCHANGED <<clientPhase, toAdapter, request, runPc, sessionClosed, responseOk, eof,
                       fault, armed, stepping, luaPc, continueMode>>
        /\ S!TakeState \/ S!Wait
    BY <1>3 DEF ExecuteIdles, runVars, luaVars, stopVars
  <2>2. UNCHANGED isClosed
    BY <2>1 DEF S!TakeState, S!Wait
  <2>. QED  BY <2>1, <2>2, ElsewhereKeepsEnd
<1>4. CASE ExecuteInvokes
  <2>1. /\ fault = "none" /\ luaPc = "execute"
        /\ runPc' = "respond" /\ responseOk' \in BOOLEAN
        /\ ~responseOk' => "malformed" \in ClientMay
        /\ sessionClosed' = (sessionClosed \/ ~responseOk')
        /\ UNCHANGED <<clientPhase, toAdapter, request, eof, fault>>
    <3>1. PICK ok \in IF "malformed" \in ClientMay THEN BOOLEAN ELSE {TRUE} :
             responseOk' = ok /\ sessionClosed' = (sessionClosed \/ ~ok)
      BY <1>4 DEF ExecuteInvokes
    <3>2. ok \in BOOLEAN /\ (~ok => "malformed" \in ClientMay)
      BY <3>1
    <3>3. /\ fault = "none" /\ luaPc = "execute" /\ runPc' = "respond"
          /\ UNCHANGED <<clientPhase, toAdapter, request, eof, fault>>
      BY <1>4 DEF ExecuteInvokes
    <3>. QED  BY <3>1, <3>2, <3>3, Zenon
  <2>2. runPc = "await"
    <3>1. S!InvokeNext /\ stopped
      BY <1>4, <2>1 DEF ExecuteInvokes, WaitingInv, AnyClientInv, StopShape
    <3>2. batch # <<>>
      BY <3>1 DEF S!InvokeNext, WaitingInv, AnyClientInv, TypeOK, S!TypeOK
    <3>. QED  BY <3>1, <3>2 DEF WaitingInv, AnyClientInv, WorkIsAwaited
  <2>3. ~sessionClosed
    BY <2>2, BusyIsOpen
  <2>. QED  BY <2>1, <2>2, <2>3, WorkKeepsEnd
<1>5. CASE LeaveStop
  <2>1. fault = "none" /\ luaPc = "execute" /\ executePc = "returned"
    BY <1>5 DEF LeaveStop
  <2>2. CASE fault' # "none"
    <3>1. /\ fault' \notin {"noSession", "halted"}
          /\ UNCHANGED <<clientVars, toAdapter, runVars, stopVars, luaVars, schedulerVars>>
      BY <1>5, <2>1, <2>2 DEF LeaveStop, Asserting
    <3>. QED  BY <3>1, FaultKeepsEnd
  <2>3. CASE fault' = "none"
    <3>1. /\ luaPc' = "running"
          /\ \E outermost \in BOOLEAN :
               stepping' = (\/ stepping
                            \/ continueMode \in {"Step", "StepIn"}
                            \/ continueMode = "StepOut" /\ ~outermost)
          /\ UNCHANGED <<clientPhase, toAdapter, request, runPc, sessionClosed, responseOk, eof,
                         fault, armed, continueMode>>
      BY <1>5, <2>1, <2>3 DEF LeaveStop, Asserting, runVars
    <3>2. UNCHANGED <<Pending, Asked, Parted>>
      BY <3>1 DEF Pending, Asked, Parted
    <3>3. clientPhase = "disconnected" => ~stepping'
      BY <2>1, <3>1 DEF WaitingInv, ModeFirst, EndInv, Farewell
    <3>4. Farewell'
      BY <3>1, <3>2, <3>3 DEF EndInv, Farewell
    <3>5. Closing' /\ Causes'
      BY <3>1, <3>2 DEF EndInv, Closing, Causes
    <3>. QED  BY <3>4, <3>5 DEF EndInv
  <2>. QED  BY <2>2, <2>3
<1>. QED  BY <1>1, <1>2, <1>3, <1>4, <1>5 DEF Lua, Stopping

----------------------------------------------------------------------------
(* The theorems.                                                            *)

\* A session that begins is open, and nothing is wrong with it.
LEMMA InitEndInv == Init => EndInv
<1>. SUFFICES ASSUME Init PROVE EndInv
  OBVIOUS
<1>1. /\ toAdapter = <<>> /\ runPc = "read" /\ clientPhase = "new"
      /\ sessionClosed = FALSE /\ eof = FALSE /\ responseOk = TRUE /\ fault = "none"
  BY DEF Init
<1>2. ~Pending
  BY <1>1 DEF Pending
<1>. QED  BY <1>1, <1>2 DEF EndInv, Farewell, Closing, Causes

\* For a client that waits EndInv holds in every state.
LEMMA EndInvariant == ASSUME Waits PROVE Spec => []EndInv
<1>1. WaitingInv /\ EndInv /\ [Next]_vars => EndInv'
  <2>. SUFFICES ASSUME WaitingInv, EndInv, [Next]_vars
                PROVE  EndInv'
    OBVIOUS
  <2>1. ASSUME NEW cmd \in Commands, NEW on \in BOOLEAN, ClientSend(cmd, on)
        PROVE  EndInv'
    BY <2>1, SendKeepsEnd
  <2>2. CASE ClientReceive \/ ClientVanish \/ UNCHANGED vars
    BY <2>2, ClientKeepsEnd
  <2>3. CASE Run
    BY <2>3, ReadKeepsEnd, HandleKeepsEnd, ThrowKeepsEnd, DisconnectKeepsEnd, DisposeKeepsEnd,
       RespondKeepsEnd DEF Run
  <2>4. CASE Lua
    BY <2>4, LuaKeepsEnd
  <2>. QED  BY <2>1, <2>2, <2>3, <2>4 DEF Next, Client
<1>. QED  BY <1>1, WaitingInvariant, InitEndInv, PTL DEF Spec

\* With a client that waits, the program is left in a stop nobody can end, or its hook
\* finds no session, only after the client closed the connection, sent a message that
\* could not be read or a request that failed; and it halts only when the client closed
\* the connection.
THEOREM LossHasACause == ASSUME Waits PROVE Spec => []SessionLossHasACause
<1>1. WaitingInv /\ EndInv => SessionLossHasACause
  <2>. SUFFICES ASSUME WaitingInv, EndInv
                PROVE  SessionLossHasACause
    OBVIOUS
  <2>1. runPc \in Over /\ Captive => ~Parted
    BY DEF EndInv, Farewell, Parted, Captive, Over
  <2>2. runPc \in Over /\ ~Parted => eof \/ runPc = "thrown" \/ ~responseOk
    BY DEF EndInv, Closing, Over
  <2>3. fault = "noSession" => runPc \in Over /\ ~Parted
    BY DEF EndInv, Closing
  <2>4. fault \in {"none", "noSession", "halted"} /\ (fault = "halted" => eof)
    BY DEF WaitingInv, NoAssertFails, EndInv, Causes
  <2>. QED  BY <2>1, <2>2, <2>3, <2>4 DEF SessionLossHasACause
<1>. QED  BY <1>1, WaitingInvariant, EndInvariant, PTL

\* With a client that takes no liberty, no Assert fails, not even that of a hook that
\* needs its session, and no empty _stoppedState is used.
THEOREM NothingFails == ASSUME ClientMay = {} PROVE Spec => []NoFault
<1>1. SessionLossHasACause /\ EndInv => NoFault
  BY DEF SessionLossHasACause, EndInv, Causes, NoFault
<1>2. Waits
  BY DEF Waits
<1>. QED  BY <1>1, <1>2, LossHasACause, EndInvariant, PTL

\* And when Run ends, the program is in no stop that nobody can end.
THEOREM NoneIsStranded == ASSUME ClientMay = {} PROVE Spec => []NotStranded
<1>1. SessionLossHasACause /\ EndInv => NotStranded
  BY DEF SessionLossHasACause, EndInv, Causes, NotStranded
<1>2. Waits
  BY DEF Waits
<1>. QED  BY <1>1, <1>2, LossHasACause, EndInvariant, PTL
=============================================================================
