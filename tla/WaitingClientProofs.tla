------------------------ MODULE WaitingClientProofs ------------------------
(***************************************************************************)
(* Theorems about DebugSession for a client that waits for each response   *)
(* and disconnects only from a quiet stop; it may vanish and send requests *)
(* that fail.  For every set of commands, number of requests and of stops. *)
(***************************************************************************)
EXTENDS SessionProofs

Waits == "pipeline" \notin ClientMay /\ "disconnectArmed" \notin ClientMay

Busy == {"handle", "schedule", "await", "dispose", "respond"}

IsResponse(m) == m.kind = "response"
IsEvent(m)    == m.kind = "stopped"

NoResponse == \A i \in 1 .. Len(toClient) : ~IsResponse(toClient[i])
NoEvent    == \A i \in 1 .. Len(toClient) : ~IsEvent(toClient[i])

\* At most one request is unanswered, and it is in one place: on its way, being
\* handled, or answered by the one response on its way back.  A message that could not
\* be read is never answered.
OneRequest ==
    /\ sent \in {answered, answered + 1}
    /\ sent = answered => toAdapter = <<>> /\ runPc \notin Busy /\ NoResponse
    /\ toAdapter # <<>> => Len(toAdapter) = 1 /\ runPc \notin Busy /\ NoResponse
    /\ runPc \in Busy => NoResponse
    /\ runPc = "thrown" => sent # answered /\ toAdapter = <<>> /\ NoResponse
    /\ \A i, j \in 1 .. Len(toClient) :
         IsResponse(toClient[i]) /\ IsResponse(toClient[j]) => i = j

\* The request that was sent and on which Run has not acted yet.
Pending == toAdapter # <<>> \/ runPc = "handle"
Asked   == IF toAdapter # <<>> THEN Head(toAdapter) ELSE request

\* launch or attach comes first, once, and configurationDone after it.
StartOrder ==
    /\ clientPhase = "new" => startMode = "Unknown" /\ sent = answered
    /\ clientPhase # "new" /\ startMode = "Unknown"
         => runPc = "thrown" \/ (Pending /\ Asked.cmd \in DOMAIN StartModes)
    /\ Pending =>
         /\ Asked.cmd \in DOMAIN StartModes => startMode = "Unknown"
         /\ Asked.cmd = "configurationDone" => startMode # "Unknown"

\* The program is held and nothing has been done to end the stop.
Open == luaPc = "execute" /\ continueMode = "none" /\ ~isClosed

\* A stop is closed only after its mode was set, and Execute() returns only
\* when it is closed.
ModeFirst ==
    /\ luaPc = "announce" => continueMode = "none" /\ ~isClosed /\ executePc # "returned"
    /\ luaPc = "execute" /\ isClosed => continueMode # "none"
    /\ luaPc = "execute" /\ executePc = "returned" => isClosed

\* A stop the client is shown, or about to be shown, is open; it is told once.
ToldStopIsOpen ==
    /\ clientStop # 0 => clientStop = stopNo /\ Open
    /\ \A i \in 1 .. Len(toClient) : IsEvent(toClient[i]) =>
         clientStop = 0 /\ toClient[i].stop = stopNo /\ Open
    /\ \A i, j \in 1 .. Len(toClient) :
         IsEvent(toClient[i]) /\ IsEvent(toClient[j]) => i = j

Ending == Resume \cup {"disconnect"}

\* A request about a stop finds that stop as the client saw it.
RequestFits ==
    /\ Pending =>
         /\ Asked.cmd \in Ending =>
              Asked.stop = stopNo /\ Open /\ clientStop = 0 /\ NoEvent
         /\ Asked.cmd \in Inspect => Asked.stop # 0 /\ Asked.stop = clientStop
    /\ runPc \in {"schedule", "await"} => request.stop # 0 /\ request.stop = clientStop
    /\ runPc = "dispose" =>
         /\ request.stop = stopNo /\ luaPc = "execute" /\ continueMode # "none"
         /\ ~isClosed /\ clientStop = 0 /\ NoEvent

NoAssertFails == fault \in {"none", "noSession", "halted"}

WaitingInv ==
    /\ AnyClientInv
    /\ OneRequest
    /\ StartOrder
    /\ ModeFirst
    /\ ToldStopIsOpen
    /\ RequestFits
    /\ NoAssertFails

----------------------------------------------------------------------------
\* What a queue holds after one more message.
LEMMA Enqueued ==
    ASSUME NEW X, NEW s \in Seq(X), NEW m \in X
    PROVE  /\ Len(Append(s, m)) = Len(s) + 1
           /\ \A i \in 1 .. Len(s) : Append(s, m)[i] = s[i]
           /\ Append(s, m)[Len(s) + 1] = m
           /\ Append(s, m) # <<>>
OBVIOUS

\* And after one less.
LEMMA Dequeued ==
    ASSUME NEW X, NEW s \in Seq(X), s # <<>>
    PROVE  /\ Len(s) \in Nat \ {0}
           /\ Len(Tail(s)) = Len(s) - 1
           /\ \A i \in 1 .. Len(Tail(s)) : Tail(s)[i] = s[i + 1]
           /\ Head(s) = s[1]
OBVIOUS

\* Requests of one kind are of no other.
LEMMA Disjoint ==
    /\ DOMAIN StartModes = {"launch", "attach"}
    /\ Resume = {"continue", "next", "stepIn", "stepOut"}
    /\ Ending = {"continue", "next", "stepIn", "stepOut", "disconnect"}
    /\ \A c \in DOMAIN StartModes : StartModes[c] \in {"Launch", "Attach"}
    /\ \A c \in Resume : ModeOf[c] # "none"
BY DEF StartModes, Resume, ModeOf, Ending

\* A client that waits has nothing under way when it sends.
LEMMA SendKeepsWaiting ==
    ASSUME ConstantsAssumption, Waits, WaitingInv,
           NEW cmd \in Commands, NEW on \in BOOLEAN, ClientSend(cmd, on)
    PROVE  OneRequest' /\ StartOrder' /\ ModeFirst' /\ ToldStopIsOpen' /\ RequestFits'
           /\ NoAssertFails'
<1>. DEFINE r == [cmd |-> cmd, id |-> sent + 1, stop |-> clientStop, on |-> on]
<1>. USE DEF clientVars, runVars, stopVars, luaVars, schedulerVars
<1>1. /\ sent = answered /\ sent \in Nat /\ sent' = sent + 1
      /\ MaySend(cmd)
      /\ toAdapter' = Append(toAdapter, r)
      /\ clientPhase' = PhaseAfter(cmd)
      /\ clientStop' = IF cmd \in Ending THEN 0 ELSE clientStop
      /\ UNCHANGED <<answered, toClient, runPc, request, startMode, luaPc, stopNo,
                     continueMode, isClosed, executePc, fault>>
  BY DEF ClientSend, Waits, MayPipeline, Ending, WaitingInv, AnyClientInv, TypeOK
<1>2. toAdapter = <<>> /\ runPc \notin Busy /\ runPc # "thrown" /\ NoResponse
  BY <1>1 DEF WaitingInv, OneRequest
<1>3. /\ toAdapter' = <<r>> /\ toAdapter' # <<>> /\ Len(toAdapter') = 1 /\ Head(toAdapter') = r
  BY <1>1, <1>2
<1>4. Pending' /\ Asked' = r
  BY <1>3 DEF Pending, Asked
<1>5. ~Pending
  BY <1>2 DEF Pending, Busy
<1>6. OneRequest'
  BY <1>1, <1>2, <1>3 DEF WaitingInv, OneRequest, NoResponse, Busy
<1>7. StartOrder'
  <2>1. clientPhase' # "new"
    BY <1>1, Disjoint DEF PhaseAfter, MaySend, WaitingInv, AnyClientInv, TypeOK
  <2>2. cmd \in DOMAIN StartModes => startMode = "Unknown"
    BY <1>1, Disjoint DEF MaySend, Arm, NoEffect, Inspect, WaitingInv, StartOrder
  <2>3. cmd \notin DOMAIN StartModes => startMode # "Unknown"
    BY <1>1, <1>2, <1>5 DEF MaySend, WaitingInv, StartOrder
  <2>. QED  BY <1>1, <1>4, <2>1, <2>2, <2>3, Disjoint DEF StartOrder
<1>8. ModeFirst'
  BY <1>1 DEF WaitingInv, ModeFirst
<1>9. ToldStopIsOpen'
  BY <1>1 DEF WaitingInv, ToldStopIsOpen, Open
<1>10. cmd \in Ending \cup Inspect => clientStop # 0
  BY <1>1, Disjoint DEF MaySend, Waits, DisconnectIsQuiet, Arm, NoEffect, Inspect
<1>11. RequestFits'
  <2>1. clientStop # 0 => clientStop = stopNo /\ Open /\ NoEvent
    BY DEF WaitingInv, ToldStopIsOpen, NoEvent
  <2>2. cmd \in Inspect => cmd \notin Ending
    BY Disjoint DEF Inspect
  <2>3. Open' = Open /\ NoEvent' = NoEvent
    BY <1>1 DEF Open, NoEvent
  <2>4. runPc' \notin {"schedule", "await", "dispose"}
    BY <1>1, <1>2 DEF Busy
  <2>. QED  BY <1>1, <1>4, <1>10, <2>1, <2>2, <2>3, <2>4 DEF RequestFits
<1>12. NoAssertFails'
  BY <1>1 DEF WaitingInv, NoAssertFails
<1>. QED  BY <1>6, <1>7, <1>8, <1>9, <1>11, <1>12

\* Nor is anything else under way when it receives a response.
LEMMA ReceiveKeepsWaiting ==
    ASSUME WaitingInv, ClientReceive
    PROVE  OneRequest' /\ StartOrder' /\ ModeFirst' /\ ToldStopIsOpen' /\ RequestFits'
           /\ NoAssertFails'
<1>. USE DEF clientVars, runVars, stopVars, luaVars, schedulerVars
<1>1. /\ toClient # <<>> /\ toClient \in Seq(Response \cup Stopped)
      /\ toClient' = Tail(toClient)
      /\ UNCHANGED <<clientPhase, sent, toAdapter, runPc, request, startMode, luaPc, stopNo,
                     continueMode, isClosed, executePc, fault>>
  BY DEF ClientReceive, WaitingInv, AnyClientInv, TypeOK
<1>2. /\ Len(toClient) \in Nat \ {0} /\ Len(toClient') = Len(toClient) - 1
      /\ \A i \in 1 .. Len(toClient') : toClient'[i] = toClient[i + 1]
      /\ Head(toClient) = toClient[1]
  BY <1>1, Dequeued
<1>3. UNCHANGED <<Pending, Asked, Open>>
  BY <1>1 DEF Pending, Asked, Open
<1>4. (NoResponse => NoResponse') /\ (NoEvent => NoEvent')
  BY <1>2 DEF NoResponse, NoEvent
<1>5. CASE Head(toClient).kind = "stopped"
  <2>1. UNCHANGED answered /\ clientStop' = Head(toClient).stop
    BY <1>5 DEF ClientReceive
  <2>2. IsEvent(toClient[1])
    BY <1>2, <1>5 DEF IsEvent
  <2>3. clientStop = 0 /\ clientStop' = stopNo /\ Open
    BY <1>2, <2>1, <2>2 DEF WaitingInv, ToldStopIsOpen
  <2>4. ~NoEvent /\ NoEvent'
    <3>1. ~NoEvent
      BY <1>2, <2>2 DEF NoEvent
    <3>2. \A i \in 1 .. Len(toClient') : ~IsEvent(toClient[i + 1])
      BY <1>2, <2>2 DEF WaitingInv, ToldStopIsOpen
    <3>. QED  BY <1>2, <3>1, <3>2 DEF NoEvent
  <2>5. OneRequest'
    BY <1>1, <1>2, <1>4, <2>1 DEF WaitingInv, OneRequest
  <2>6. StartOrder'
    BY <1>1, <1>3, <2>1 DEF WaitingInv, StartOrder
  <2>7. ModeFirst'
    BY <1>1 DEF WaitingInv, ModeFirst
  <2>8. ToldStopIsOpen'
    BY <1>1, <1>3, <2>3, <2>4 DEF ToldStopIsOpen, NoEvent
  <2>9. RequestFits'
    BY <1>1, <1>3, <2>3, <2>4 DEF WaitingInv, RequestFits
  <2>10. NoAssertFails'
    BY <1>1 DEF WaitingInv, NoAssertFails
  <2>. QED  BY <2>5, <2>6, <2>7, <2>8, <2>9, <2>10
<1>6. CASE Head(toClient).kind = "response"
  <2>1. answered' = answered + 1 /\ clientStop' \in {0, clientStop}
    BY <1>6 DEF ClientReceive
  <2>2. IsResponse(toClient[1]) /\ ~NoResponse
    BY <1>2, <1>6 DEF IsResponse, NoResponse
  <2>3. /\ sent = answered + 1 /\ answered \in Nat
        /\ toAdapter = <<>> /\ runPc \notin Busy /\ runPc # "thrown"
    BY <2>2 DEF WaitingInv, OneRequest, AnyClientInv, TypeOK
  <2>4. NoResponse'
    <3>1. \A i \in 1 .. Len(toClient') : ~IsResponse(toClient[i + 1])
      BY <1>2, <2>2 DEF WaitingInv, OneRequest
    <3>. QED  BY <1>2, <3>1 DEF NoResponse
  <2>5. ~Pending
    BY <2>3 DEF Pending, Busy
  <2>6. OneRequest'
    BY <1>1, <2>1, <2>3, <2>4 DEF OneRequest, NoResponse
  <2>7. StartOrder'
    BY <1>1, <1>3, <2>1, <2>3, <2>5 DEF WaitingInv, StartOrder
  <2>8. ModeFirst'
    BY <1>1 DEF WaitingInv, ModeFirst
  <2>9. ToldStopIsOpen'
    BY <1>1, <1>2, <1>3, <2>1 DEF WaitingInv, ToldStopIsOpen
  <2>10. RequestFits'
    BY <1>1, <1>3, <2>3, <2>5 DEF RequestFits, Busy
  <2>11. NoAssertFails'
    BY <1>1 DEF WaitingInv, NoAssertFails
  <2>. QED  BY <2>6, <2>7, <2>8, <2>9, <2>10, <2>11
<1>. QED  BY <1>1, <1>5, <1>6 DEF ClientReceive

\* Closing the connection changes nothing of all this.
LEMMA VanishKeepsWaiting ==
    ASSUME WaitingInv, ClientVanish \/ UNCHANGED vars
    PROVE  OneRequest' /\ StartOrder' /\ ModeFirst' /\ ToldStopIsOpen' /\ RequestFits'
           /\ NoAssertFails'
<1>1. UNCHANGED <<clientPhase, clientStop, sent, answered, toAdapter, toClient, runPc, request,
                  startMode, luaPc, stopNo, continueMode, isClosed, executePc, fault>>
  BY DEF ClientVanish, vars, clientVars, runVars, stopVars, luaVars, schedulerVars
<1>. QED  BY <1>1 DEF WaitingInv, OneRequest, NoResponse, StartOrder, Pending, Asked, ModeFirst,
             ToldStopIsOpen, Open, RequestFits, NoEvent, NoAssertFails

\* Nor does it matter here which of the faults that may come has come.
LEMMA FaultKeepsWaiting ==
    ASSUME WaitingInv, NoAssertFails',
           UNCHANGED <<clientPhase, clientStop, sent, answered, toAdapter, toClient, runPc,
                       request, startMode, luaPc, stopNo, continueMode, isClosed, executePc>>
    PROVE  OneRequest' /\ StartOrder' /\ ModeFirst' /\ ToldStopIsOpen' /\ RequestFits'
           /\ NoAssertFails'
BY DEF WaitingInv, OneRequest, NoResponse, StartOrder, Pending, Asked, ModeFirst,
   ToldStopIsOpen, Open, RequestFits, NoEvent

\* Run reads the one request there is.
LEMMA ReadKeepsWaiting ==
    ASSUME WaitingInv, ReadRequest \/ ReadThrows \/ ReadEof
    PROVE  OneRequest' /\ StartOrder' /\ ModeFirst' /\ ToldStopIsOpen' /\ RequestFits'
           /\ NoAssertFails'
<1>. USE DEF clientVars, runVars, stopVars, luaVars, schedulerVars
<1>0. /\ runPc = "read"
      /\ UNCHANGED <<clientPhase, clientStop, sent, answered, toClient, startMode, luaPc, stopNo,
                     continueMode, isClosed, executePc, fault>>
  BY DEF ReadRequest, ReadThrows, ReadEof, RunAt
<1>1. UNCHANGED <<Open, NoEvent, NoResponse>>
  BY <1>0 DEF Open, NoEvent, NoResponse
<1>2. ModeFirst' /\ ToldStopIsOpen' /\ NoAssertFails'
  BY <1>0, <1>1 DEF WaitingInv, ModeFirst, ToldStopIsOpen, NoAssertFails
<1>3. CASE ReadRequest
  <2>1. /\ toAdapter # <<>> /\ toAdapter' = Tail(toAdapter) /\ request' = Head(toAdapter)
        /\ runPc' = "handle" /\ toAdapter \in Seq(Request)
    BY <1>3 DEF ReadRequest, WaitingInv, AnyClientInv, TypeOK
  <2>2. Len(toAdapter) = 1 /\ NoResponse /\ sent # answered
    BY <2>1 DEF WaitingInv, OneRequest
  <2>3. toAdapter' = <<>>
    BY <2>1, <2>2
  <2>4. Pending /\ Pending' /\ Asked' = Asked
    BY <2>1, <2>3 DEF Pending, Asked
  <2>5. OneRequest'
    BY <1>0, <1>1, <2>1, <2>2, <2>3 DEF WaitingInv, OneRequest
  <2>6. StartOrder'
    BY <1>0, <2>4 DEF WaitingInv, StartOrder
  <2>7. RequestFits'
    BY <1>0, <1>1, <2>1, <2>4 DEF WaitingInv, RequestFits
  <2>. QED  BY <1>2, <2>5, <2>6, <2>7
<1>5. CASE ReadThrows
  <2>1. /\ toAdapter # <<>> /\ toAdapter' = Tail(toAdapter) /\ runPc' = "thrown"
        /\ toAdapter \in Seq(Request)
    BY <1>5 DEF ReadThrows, WaitingInv, AnyClientInv, TypeOK
  <2>2. Len(toAdapter) = 1 /\ NoResponse /\ sent # answered
    BY <2>1 DEF WaitingInv, OneRequest
  <2>3. toAdapter' = <<>> /\ ~Pending'
    BY <2>1, <2>2 DEF Pending
  <2>4. OneRequest'
    BY <1>0, <1>1, <2>1, <2>2, <2>3 DEF WaitingInv, OneRequest, Busy
  <2>5. StartOrder' /\ RequestFits'
    BY <1>0, <2>1, <2>2, <2>3 DEF WaitingInv, StartOrder, RequestFits
  <2>. QED  BY <1>2, <2>4, <2>5
<1>4. CASE ReadEof
  <2>1. runPc' = "done" /\ UNCHANGED <<toAdapter, request>> /\ toAdapter = <<>>
    BY <1>4 DEF ReadEof
  <2>2. ~Pending /\ ~Pending' /\ Asked' = Asked
    BY <1>0, <2>1 DEF Pending, Asked
  <2>3. OneRequest'
    BY <1>0, <1>1, <2>1 DEF WaitingInv, OneRequest, Busy
  <2>4. StartOrder'
    BY <1>0, <2>2 DEF WaitingInv, StartOrder
  <2>5. RequestFits'
    BY <1>0, <1>1, <2>1, <2>2 DEF WaitingInv, RequestFits
  <2>. QED  BY <1>2, <2>3, <2>4, <2>5
<1>. QED  BY <1>3, <1>4, <1>5

\* While Run handles a request nothing else is under way.
LEMMA BusyRun ==
    ASSUME WaitingInv, runPc \in Busy
    PROVE  /\ sent # answered /\ toAdapter = <<>> /\ NoResponse
           /\ Asked = request
           /\ runPc = "handle" <=> Pending
BY DEF WaitingInv, OneRequest, Asked, Pending

\* A step of Run from one place of its work to the next that leaves the stop,
\* the start mode and the connection alone.
LEMMA WorkKeepsWaiting ==
    ASSUME WaitingInv, runPc \in Busy, runPc' \in {"schedule", "await", "respond"},
           runPc = "handle" => request.cmd \notin DOMAIN StartModes,
           runPc' \in {"schedule", "await"} =>
             \/ runPc = "schedule"
             \/ runPc = "handle" /\ request.cmd \in Inspect,
           UNCHANGED <<clientPhase, clientStop, sent, answered, toAdapter, toClient, request,
                       startMode, stopNo, continueMode, isClosed, executePc, fault>>,
           \/ UNCHANGED luaPc
           \/ luaPc = "idle" /\ luaPc' = "starting"
    PROVE  OneRequest' /\ StartOrder' /\ ModeFirst' /\ ToldStopIsOpen' /\ RequestFits'
           /\ NoAssertFails'
<1>1. sent # answered /\ toAdapter = <<>> /\ NoResponse /\ Asked = request
      /\ (runPc = "handle" <=> Pending)
  BY BusyRun
<1>2. UNCHANGED <<NoEvent, NoResponse, Asked>> /\ ~Pending' /\ Open' = Open
  BY <1>1 DEF NoEvent, NoResponse, Asked, Pending, Open
<1>3. OneRequest'
  BY <1>1, <1>2 DEF WaitingInv, OneRequest, Busy
<1>4. StartOrder'
  BY <1>1, <1>2 DEF WaitingInv, StartOrder, Busy
<1>5. ModeFirst'
  BY DEF WaitingInv, ModeFirst
<1>6. ToldStopIsOpen'
  BY <1>2 DEF WaitingInv, ToldStopIsOpen
<1>7. RequestFits'
  BY <1>1, <1>2 DEF WaitingInv, RequestFits
<1>8. NoAssertFails'
  BY DEF WaitingInv, NoAssertFails
<1>. QED  BY <1>3, <1>4, <1>5, <1>6, <1>7, <1>8

\* Requests that do not touch a stop: no Assert of theirs fails, for they come
\* in order.
LEMMA HandleKeepsWaiting ==
    ASSUME WaitingInv,
           \/ HandleConfigurationDone \/ HandleArm \/ HandleNoEffect \/ HandleInspect
           \/ ScheduleInspect \/ HandleThrows
    PROVE  OneRequest' /\ StartOrder' /\ ModeFirst' /\ ToldStopIsOpen' /\ RequestFits'
           /\ NoAssertFails'
<1>. USE DEF clientVars, runVars, stopVars, luaVars, RunAt, Handling, Asserting
<1>1. CASE HandleConfigurationDone
  <2>1. runPc = "handle" /\ request.cmd = "configurationDone"
    BY <1>1 DEF HandleConfigurationDone
  <2>2. startMode # "Unknown"
    BY <2>1, BusyRun DEF Busy, WaitingInv, StartOrder
  <2>3. luaPc = "idle"
    BY <2>1 DEF WaitingInv, AnyClientInv, StartedOnce, HandlesStart, IsStart
  <2>. QED  BY <1>1, <2>1, <2>2, <2>3, WorkKeepsWaiting, Disjoint
            DEF HandleConfigurationDone, Busy, schedulerVars
<1>2. CASE HandleArm \/ HandleNoEffect \/ HandleThrows
  <2>1. /\ runPc = "handle" /\ runPc' = "respond"
        /\ request.cmd \in Arm \cup NoEffect \cup Inspect
        /\ UNCHANGED <<clientPhase, clientStop, sent, answered, toAdapter, toClient, request,
                       startMode, stopNo, continueMode, isClosed, executePc, fault, luaPc>>
    BY <1>2 DEF HandleArm, HandleNoEffect, HandleThrows, schedulerVars
  <2>. QED  BY <2>1, WorkKeepsWaiting, Disjoint DEF Busy, Arm, NoEffect, Inspect
<1>3. CASE HandleInspect
  <2>1. runPc = "handle" /\ request.cmd \in Inspect
    BY <1>3 DEF HandleInspect
  <2>2. stopped
    BY <2>1, BusyRun DEF Busy, WaitingInv, RequestFits, ToldStopIsOpen, Open, AnyClientInv,
       StopShape
  <2>3. /\ runPc' = "schedule"
        /\ UNCHANGED <<clientPhase, clientStop, sent, answered, toAdapter, toClient, request,
                       startMode, stopNo, continueMode, isClosed, executePc, fault, luaPc>>
    BY <1>3, <2>2 DEF HandleInspect, schedulerVars
  <2>. QED  BY <2>1, <2>3, WorkKeepsWaiting, Disjoint DEF Busy, Inspect
<1>4. CASE ScheduleInspect
  <2>1. runPc = "schedule"
    BY <1>4 DEF ScheduleInspect
  <2>2. stopped
    BY <2>1 DEF WaitingInv, RequestFits, ToldStopIsOpen, Open, AnyClientInv, StopShape
  <2>3. /\ runPc' = "await"
        /\ UNCHANGED <<clientPhase, clientStop, sent, answered, toAdapter, toClient, request,
                       startMode, stopNo, continueMode, isClosed, executePc, fault, luaPc>>
    BY <1>4, <2>2 DEF ScheduleInspect, S!ScheduleInvocation
  <2>. QED  BY <2>1, <2>3, WorkKeepsWaiting DEF Busy
<1>. QED  BY <1>1, <1>2, <1>3, <1>4

\* launch and attach come once.
LEMMA StartKeepsWaiting ==
    ASSUME WaitingInv, HandleStart
    PROVE  OneRequest' /\ StartOrder' /\ ModeFirst' /\ ToldStopIsOpen' /\ RequestFits'
           /\ NoAssertFails'
<1>. USE DEF clientVars, runVars, stopVars, luaVars, RunAt, Handling, Asserting, schedulerVars
<1>1. runPc = "handle" /\ request.cmd \in DOMAIN StartModes
  BY DEF HandleStart
<1>2. sent # answered /\ toAdapter = <<>> /\ NoResponse /\ Asked = request /\ Pending
  BY <1>1, BusyRun DEF Busy
<1>3. startMode = "Unknown"
  BY <1>1, <1>2 DEF WaitingInv, StartOrder
<1>4. /\ startMode' # "Unknown" /\ runPc' = "respond"
      /\ UNCHANGED <<clientPhase, clientStop, sent, answered, toAdapter, toClient, request,
                     luaPc, stopNo, continueMode, isClosed, executePc, fault>>
  BY <1>1, <1>3, Disjoint DEF HandleStart
<1>5. ~Pending' /\ UNCHANGED <<NoEvent, NoResponse, Open>>
  BY <1>2, <1>4 DEF Pending, NoEvent, NoResponse, Open
<1>6. OneRequest'
  BY <1>2, <1>4, <1>5 DEF WaitingInv, OneRequest
<1>7. StartOrder'
  BY <1>2, <1>4, <1>5 DEF WaitingInv, StartOrder
<1>8. ModeFirst' /\ ToldStopIsOpen' /\ NoAssertFails'
  BY <1>4, <1>5 DEF WaitingInv, ModeFirst, ToldStopIsOpen, NoAssertFails
<1>9. RequestFits'
  BY <1>4, <1>5 DEF RequestFits
<1>. QED  BY <1>6, <1>7, <1>8, <1>9

\* A command that ends a stop finds that stop open.
LEMMA EndingMeetsOpenStop ==
    ASSUME WaitingInv, runPc = "handle", request.cmd \in Ending
    PROVE  /\ request.stop = stopNo /\ Open /\ clientStop = 0 /\ NoEvent
           /\ stopped
<1>1. Pending /\ Asked = request
  BY BusyRun DEF Busy
<1>. QED  BY <1>1 DEF WaitingInv, RequestFits, AnyClientInv, StopShape, Open

\* The commands that end a stop store their mode ...
LEMMA EndingKeepsWaiting ==
    ASSUME WaitingInv, HandleResume \/ HandleDisconnect
    PROVE  OneRequest' /\ StartOrder' /\ ModeFirst' /\ ToldStopIsOpen' /\ RequestFits'
           /\ NoAssertFails'
<1>. USE DEF clientVars, runVars, stopVars, luaVars, RunAt, Handling, Asserting, schedulerVars
<1>1. runPc = "handle" /\ request.cmd \in Ending
  BY DEF HandleResume, HandleDisconnect, Ending
<1>2. request.stop = stopNo /\ Open /\ clientStop = 0 /\ NoEvent /\ stopped
  BY <1>1, EndingMeetsOpenStop
<1>3. sent # answered /\ toAdapter = <<>> /\ NoResponse /\ Asked = request /\ Pending
  BY <1>1, BusyRun DEF Busy
<1>4. ResumeFault = "none"
  BY <1>2 DEF ResumeFault, Open
<1>5. /\ runPc' = "dispose" /\ continueMode' # "none"
      /\ UNCHANGED <<clientPhase, clientStop, sent, answered, toAdapter, toClient, request,
                     startMode, luaPc, stopNo, isClosed, executePc, fault>>
  <2>1. CASE HandleResume
    <3>1. request.cmd \in Resume
      BY <2>1 DEF HandleResume
    <3>2. ModeOf[request.cmd] # "none"
      BY <3>1, Disjoint
    <3>. QED  BY <1>4, <2>1, <3>2 DEF HandleResume
  <2>2. CASE HandleDisconnect
    BY <1>2, <2>2 DEF HandleDisconnect
  <2>. QED  BY <2>1, <2>2
<1>6. ~Pending' /\ UNCHANGED <<NoEvent, NoResponse>>
  BY <1>3, <1>5 DEF Pending, NoEvent, NoResponse
<1>7. OneRequest'
  BY <1>3, <1>5, <1>6 DEF WaitingInv, OneRequest
<1>8. StartOrder'
  BY <1>1, <1>3, <1>5, <1>6, Disjoint DEF WaitingInv, StartOrder
<1>9. ModeFirst'
  BY <1>2, <1>5 DEF WaitingInv, ModeFirst, Open
<1>10. ToldStopIsOpen'
  BY <1>2, <1>5 DEF WaitingInv, ToldStopIsOpen, NoEvent
<1>11. RequestFits'
  BY <1>2, <1>5, <1>6 DEF RequestFits, Open
<1>12. NoAssertFails'
  BY <1>5 DEF WaitingInv, NoAssertFails
<1>. QED  BY <1>7, <1>8, <1>9, <1>10, <1>11, <1>12

\* ... and then close it.
LEMMA DisposeKeepsWaiting ==
    ASSUME WaitingInv, DisposeStop
    PROVE  OneRequest' /\ StartOrder' /\ ModeFirst' /\ ToldStopIsOpen' /\ RequestFits'
           /\ NoAssertFails'
<1>. USE DEF clientVars, runVars, stopVars, luaVars, RunAt, Asserting, schedulerVars
<1>1. runPc = "dispose"
  BY DEF DisposeStop
<1>2. luaPc = "execute" /\ continueMode # "none" /\ clientStop = 0 /\ NoEvent
  BY <1>1 DEF WaitingInv, RequestFits
<1>3. sent # answered /\ toAdapter = <<>> /\ NoResponse /\ ~Pending
  BY <1>1, BusyRun DEF Busy
<1>4. stopped
  BY <1>2 DEF WaitingInv, AnyClientInv, StopShape
<1>5. /\ runPc' = "respond" /\ isClosed' = TRUE
      /\ UNCHANGED <<clientPhase, clientStop, sent, answered, toAdapter, toClient, request,
                     startMode, luaPc, stopNo, continueMode, executePc, fault>>
  BY <1>4 DEF DisposeStop, S!Dispose
<1>6. ~Pending' /\ UNCHANGED <<NoEvent, NoResponse>>
  BY <1>3, <1>5 DEF Pending, NoEvent, NoResponse
<1>7. OneRequest'
  BY <1>3, <1>5, <1>6 DEF WaitingInv, OneRequest
<1>8. StartOrder'
  BY <1>1, <1>3, <1>5, <1>6 DEF WaitingInv, StartOrder
<1>9. ModeFirst' /\ ToldStopIsOpen' /\ NoAssertFails'
  BY <1>2, <1>5 DEF WaitingInv, ModeFirst, ToldStopIsOpen, NoEvent, NoAssertFails
<1>10. RequestFits'
  BY <1>5, <1>6 DEF RequestFits
<1>. QED  BY <1>7, <1>8, <1>9, <1>10

\* The response is the only one on its way.
LEMMA RespondKeepsWaiting ==
    ASSUME WaitingInv, SendResponse
    PROVE  OneRequest' /\ StartOrder' /\ ModeFirst' /\ ToldStopIsOpen' /\ RequestFits'
           /\ NoAssertFails'
<1>. USE DEF clientVars, runVars, stopVars, luaVars, RunAt, schedulerVars
<1>. DEFINE m == [kind |-> "response", seq |-> responseSeq, request |-> request,
                  ok |-> responseOk]
<1>. SUFFICES ASSUME UNCHANGED fault
              PROVE  OneRequest' /\ StartOrder' /\ ModeFirst' /\ ToldStopIsOpen'
                     /\ RequestFits' /\ NoAssertFails'
  BY SendResponseOutcome, FaultKeepsWaiting DEF NoAssertFails
<1>1. /\ runPc = "respond" /\ runPc' \in {"done", "read"}
      /\ toClient' = Append(toClient, m)
      /\ UNCHANGED <<clientPhase, clientStop, sent, answered, toAdapter, request,
                     startMode, luaPc, stopNo, continueMode, isClosed, executePc, fault>>
  BY SendResponseOutcome
<1>2. sent # answered /\ toAdapter = <<>> /\ NoResponse /\ ~Pending
  BY <1>1, BusyRun DEF Busy
<1>3. m \in Response /\ toClient \in Seq(Response \cup Stopped)
  BY <1>1 DEF WaitingInv, AnyClientInv, TypeOK, Response
<1>4. /\ Len(toClient) \in Nat /\ Len(toClient') = Len(toClient) + 1
      /\ \A i \in 1 .. Len(toClient) : toClient'[i] = toClient[i]
      /\ toClient'[Len(toClient) + 1] = m
  BY <1>1, <1>3, Enqueued
<1>5. ~IsEvent(m) /\ ~Pending' /\ Open' = Open
  BY <1>1, <1>2 DEF IsEvent, Pending, Open
<1>6. OneRequest'
  BY <1>1, <1>2, <1>4 DEF WaitingInv, OneRequest, NoResponse, Busy
<1>7. StartOrder'
  BY <1>1, <1>2, <1>5 DEF WaitingInv, StartOrder
<1>8. ModeFirst' /\ NoAssertFails'
  BY <1>1 DEF WaitingInv, ModeFirst, NoAssertFails
<1>9. ToldStopIsOpen'
  <2>1. \A i \in 1 .. Len(toClient') : IsEvent(toClient'[i])
          => i \in 1 .. Len(toClient) /\ toClient'[i] = toClient[i]
    BY <1>4, <1>5
  <2>. QED  BY <1>1, <1>5, <2>1 DEF WaitingInv, ToldStopIsOpen
<1>10. RequestFits'
  BY <1>1, <1>5 DEF RequestFits
<1>. QED  BY <1>6, <1>7, <1>8, <1>9, <1>10

\* Every step of Run.
LEMMA RunKeepsWaiting ==
    ASSUME WaitingInv, Run
    PROVE  OneRequest' /\ StartOrder' /\ ModeFirst' /\ ToldStopIsOpen' /\ RequestFits'
           /\ NoAssertFails'
BY ReadKeepsWaiting, HandleKeepsWaiting, StartKeepsWaiting, EndingKeepsWaiting,
   DisposeKeepsWaiting, RespondKeepsWaiting DEF Run

----------------------------------------------------------------------------
\* The Lua thread outside a stop the client knows of: nothing is shown to the
\* client and nothing it sent is about a stop.
LEMMA NothingShown ==
    ASSUME WaitingInv, ~Open
    PROVE  /\ clientStop = 0 /\ NoEvent
           /\ Pending => Asked.cmd \notin Ending \cup Inspect
           /\ runPc \notin {"schedule", "await"}
BY DEF WaitingInv, ToldStopIsOpen, RequestFits, NoEvent

\* A step of the Lua thread outside such a stop, if it leaves the thread there.
LEMMA OutsideKeepsWaiting ==
    ASSUME WaitingInv, ~Open, ModeFirst',
           runPc # "dispose",
           UNCHANGED <<clientPhase, clientStop, sent, answered, toAdapter, toClient, request,
                       runPc, startMode, fault>>
    PROVE  OneRequest' /\ StartOrder' /\ ToldStopIsOpen' /\ RequestFits' /\ NoAssertFails'
<1>1. /\ clientStop = 0 /\ NoEvent
      /\ Pending => Asked.cmd \notin Ending \cup Inspect
      /\ runPc \notin {"schedule", "await"}
  BY NothingShown
<1>2. UNCHANGED <<NoEvent, NoResponse, Pending, Asked>>
  BY DEF NoEvent, NoResponse, Pending, Asked
<1>3. OneRequest' /\ StartOrder' /\ NoAssertFails'
  BY <1>2 DEF WaitingInv, OneRequest, StartOrder, NoAssertFails
<1>4. ToldStopIsOpen'
  BY <1>1, <1>2 DEF ToldStopIsOpen, NoEvent
<1>5. RequestFits'
  BY <1>1, <1>2 DEF RequestFits
<1>. QED  BY <1>3, <1>4, <1>5

\* Every step of the Lua thread.
LEMMA LuaKeepsWaiting ==
    ASSUME WaitingInv, Lua
    PROVE  OneRequest' /\ StartOrder' /\ ModeFirst' /\ ToldStopIsOpen' /\ RequestFits'
           /\ NoAssertFails'
<1>. USE DEF clientVars, runVars, stopVars, luaVars, LuaAt, Asserting
<1>1. luaPc # "execute" => ~Open /\ runPc # "dispose"
  BY DEF Open, WaitingInv, RequestFits
<1>2. CASE StartProgram \/ HitBreakpoint \/ HitStep
  <2>1. /\ luaPc \notin {"announce", "execute"} /\ luaPc' \notin {"announce", "execute"}
        /\ UNCHANGED <<clientPhase, clientStop, sent, answered, toAdapter, toClient, request,
                       runPc, startMode, fault>>
    BY <1>2, Zenon DEF StartProgram, HitBreakpoint, HitStep
  <2>2. ModeFirst'
    BY <2>1 DEF ModeFirst
  <2>. QED  BY <1>1, <2>1, <2>2, OutsideKeepsWaiting
<1>3. CASE AcquireSession
  <2>1. CASE fault' = "noSession"
    <3>1. UNCHANGED <<clientPhase, clientStop, sent, answered, toAdapter, toClient, runPc, request,
                      startMode, luaPc, stopNo, continueMode, isClosed, executePc>>
      BY <1>3, <2>1 DEF AcquireSession, schedulerVars
    <3>. QED  BY <2>1, <3>1, FaultKeepsWaiting DEF NoAssertFails
  <2>2. CASE fault' # "noSession"
    <3>1. /\ luaPc \notin {"announce", "execute"} /\ luaPc' \notin {"announce", "execute"}
          /\ UNCHANGED <<clientPhase, clientStop, sent, answered, toAdapter, toClient, request,
                         runPc, startMode, fault>>
      BY <1>3, <2>2 DEF AcquireSession
    <3>2. ModeFirst'
      BY <3>1 DEF ModeFirst
    <3>. QED  BY <1>1, <3>1, <3>2, OutsideKeepsWaiting
  <2>. QED  BY <2>1, <2>2
<1>4. CASE EnterStop
  <2>1. ~stopped
    BY <1>4 DEF EnterStop, WaitingInv, AnyClientInv, StopShape
  <2>2. /\ luaPc = "stop" /\ luaPc' = "announce" /\ continueMode' = "none"
        /\ isClosed' = FALSE /\ executePc' = "take"
        /\ UNCHANGED <<clientPhase, clientStop, sent, answered, toAdapter, toClient, request,
                       runPc, startMode, fault>>
    BY <1>4, <2>1 DEF EnterStop, S!Create
  <2>3. ModeFirst'
    BY <2>2 DEF ModeFirst
  <2>. QED  BY <1>1, <2>2, <2>3, OutsideKeepsWaiting
<1>5. CASE Announce /\ fault' # fault
  BY <1>5, AnnounceOutcome, FaultKeepsWaiting DEF NoAssertFails, schedulerVars
<1>9. CASE Announce /\ UNCHANGED fault
  <2>. DEFINE m == [kind |-> "stopped", seq |-> seqId, stop |-> stopNo]
  <2>1. /\ luaPc = "announce" /\ luaPc' = "execute"
        /\ toClient' = Append(toClient, m)
        /\ UNCHANGED <<clientPhase, clientStop, sent, answered, toAdapter, request, runPc,
                       startMode, stopNo, continueMode, isClosed, executePc, fault>>
    BY <1>9, AnnounceOutcome DEF schedulerVars
  <2>2. /\ clientStop = 0 /\ NoEvent
        /\ Pending => Asked.cmd \notin Ending \cup Inspect
        /\ runPc \notin {"schedule", "await", "dispose"}
    BY <1>1, <2>1, NothingShown
  <2>3. m \in Stopped /\ toClient \in Seq(Response \cup Stopped)
    BY DEF WaitingInv, AnyClientInv, TypeOK, Stopped
  <2>4. /\ Len(toClient) \in Nat /\ Len(toClient') = Len(toClient) + 1
        /\ \A i \in 1 .. Len(toClient) : toClient'[i] = toClient[i]
        /\ toClient'[Len(toClient) + 1] = m
    BY <2>1, <2>3, Enqueued
  <2>5. /\ ~IsResponse(m) /\ m.stop = stopNo /\ Open' /\ ModeFirst'
    BY <2>1 DEF IsResponse, Open, WaitingInv, ModeFirst
  <2>6. UNCHANGED <<Pending, Asked>>
    BY <2>1 DEF Pending, Asked
  <2>7. OneRequest'
    <3>1. \A i \in 1 .. Len(toClient') : IsResponse(toClient'[i])
            => i \in 1 .. Len(toClient) /\ toClient'[i] = toClient[i]
      BY <2>4, <2>5
    <3>2. NoResponse => NoResponse'
      BY <3>1 DEF NoResponse
    <3>. QED  BY <2>1, <3>1, <3>2 DEF WaitingInv, OneRequest
  <2>8. StartOrder' /\ NoAssertFails'
    BY <2>1, <2>6 DEF WaitingInv, StartOrder, NoAssertFails
  <2>9. ToldStopIsOpen'
    <3>1. \A i \in 1 .. Len(toClient') : IsEvent(toClient'[i]) => i = Len(toClient) + 1
      BY <2>2, <2>4 DEF NoEvent
    <3>. QED  BY <2>1, <2>2, <2>4, <2>5, <3>1 DEF ToldStopIsOpen
  <2>10. RequestFits'
    BY <2>1, <2>2, <2>6 DEF RequestFits
  <2>. QED  BY <2>5, <2>7, <2>8, <2>9, <2>10
<1>6. CASE ExecuteIdles
  <2>1. /\ luaPc = "execute"
        /\ executePc' = "returned" => isClosed
        /\ UNCHANGED <<clientPhase, clientStop, sent, answered, toAdapter, toClient, request, runPc,
                       startMode, stopNo, continueMode, isClosed, luaPc, fault>>
    BY <1>6 DEF ExecuteIdles, S!TakeState, S!Wait
  <2>2. UNCHANGED <<NoEvent, NoResponse, Pending, Asked, Open>>
    BY <2>1 DEF NoEvent, NoResponse, Pending, Asked, Open
  <2>. QED  BY <2>1, <2>2 DEF WaitingInv, OneRequest, StartOrder, ModeFirst, ToldStopIsOpen,
               RequestFits, NoAssertFails
<1>7. CASE ExecuteInvokes
  <2>1. runPc = "await"
    BY <1>7 DEF ExecuteInvokes, S!InvokeNext, WaitingInv, AnyClientInv, StopShape,
       WorkIsAwaited,
       TypeOK, S!TypeOK
  <2>2. /\ luaPc = "execute" /\ runPc' = "respond" /\ executePc # "returned"
        /\ executePc' # "returned"
        /\ UNCHANGED <<clientPhase, clientStop, sent, answered, toAdapter, toClient, request,
                       startMode, stopNo, continueMode, isClosed, luaPc, fault>>
    BY <1>7 DEF ExecuteInvokes, S!InvokeNext
  <2>3. UNCHANGED <<NoEvent, NoResponse, Asked, Open>>
    BY <2>2 DEF NoEvent, NoResponse, Asked, Open
  <2>4. ~Pending /\ ~Pending'
    BY <2>1, <2>2, BusyRun DEF Busy, Pending
  <2>5. sent # answered /\ toAdapter = <<>> /\ NoResponse
    BY <2>1, BusyRun DEF Busy
  <2>6. OneRequest' /\ NoAssertFails'
    BY <2>2, <2>3, <2>5 DEF WaitingInv, OneRequest, NoAssertFails
  <2>7. StartOrder' /\ ModeFirst' /\ ToldStopIsOpen'
    BY <2>1, <2>2, <2>3, <2>4, <2>5 DEF WaitingInv, StartOrder, ModeFirst, ToldStopIsOpen
  <2>8. RequestFits'
    BY <2>2, <2>3, <2>4 DEF RequestFits
  <2>. QED  BY <2>6, <2>7, <2>8
<1>8. CASE LeaveStop
  <2>1. luaPc = "execute" /\ executePc = "returned"
    BY <1>8 DEF LeaveStop
  <2>2. isClosed /\ continueMode # "none" /\ stopped
    BY <2>1 DEF WaitingInv, ModeFirst, AnyClientInv, StopShape
  <2>3. ~Open /\ runPc # "dispose"
    BY <2>2 DEF Open, WaitingInv, RequestFits
  <2>4. /\ luaPc' = "running"
        /\ UNCHANGED <<clientPhase, clientStop, sent, answered, toAdapter, toClient, request,
                       runPc, startMode, fault>>
    BY <1>8, <2>2 DEF LeaveStop
  <2>5. ModeFirst'
    BY <2>4 DEF ModeFirst
  <2>. QED  BY <2>3, <2>4, <2>5, OutsideKeepsWaiting
<1>. QED  BY <1>2, <1>3, <1>4, <1>5, <1>6, <1>7, <1>8, <1>9 DEF Lua, Stopping

----------------------------------------------------------------------------
\* A session begins with nothing under way.
LEMMA InitWaitingInv == ConstantsAssumption /\ Init => WaitingInv
<1>. SUFFICES ASSUME ConstantsAssumption, Init
              PROVE  WaitingInv
  OBVIOUS
<1>1. /\ clientPhase = "new" /\ clientStop = 0 /\ sent = 0 /\ answered = 0
      /\ toAdapter = <<>> /\ toClient = <<>> /\ runPc = "read" /\ startMode = "Unknown"
      /\ luaPc = "idle" /\ fault = "none"
  BY DEF Init
<1>2. NoResponse /\ NoEvent /\ Len(toClient) = 0 /\ ~Pending
  BY <1>1 DEF NoResponse, NoEvent, Pending
<1>3. OneRequest
  BY <1>1, <1>2 DEF OneRequest, Busy
<1>4. StartOrder /\ ModeFirst /\ ToldStopIsOpen /\ RequestFits /\ NoAssertFails
  BY <1>1, <1>2 DEF StartOrder, ModeFirst, ToldStopIsOpen, RequestFits, NoAssertFails
<1>. QED  BY <1>3, <1>4, InitAnyClientInv DEF WaitingInv

\* For a client that waits the invariant holds.
THEOREM WaitingInvariant == ASSUME Waits PROVE Spec => []WaitingInv
<1>1. WaitingInv /\ AnyClientInv' /\ [Next]_vars => WaitingInv'
  <2>. SUFFICES ASSUME WaitingInv, AnyClientInv', [Next]_vars
                PROVE  WaitingInv'
    OBVIOUS
  <2>1. ASSUME NEW cmd \in Commands, NEW on \in BOOLEAN, ClientSend(cmd, on)
        PROVE  WaitingInv'
    BY <2>1, SendKeepsWaiting, ConstantsAssumption DEF WaitingInv
  <2>2. CASE ClientReceive
    BY <2>2, ReceiveKeepsWaiting DEF WaitingInv
  <2>3. CASE ClientVanish \/ UNCHANGED vars
    BY <2>3, VanishKeepsWaiting DEF WaitingInv
  <2>4. CASE Run
    BY <2>4, RunKeepsWaiting DEF WaitingInv
  <2>5. CASE Lua
    BY <2>5, LuaKeepsWaiting DEF WaitingInv
  <2>. QED  BY <2>1, <2>2, <2>3, <2>4, <2>5 DEF Next, Client
<1>. QED  BY <1>1, AnyClientInvariant, ConstantsAssumption, InitWaitingInv, PTL DEF Spec

\* No Assert of the session fails and no empty _stoppedState is used: for a
\* client that waits, the faults left are a hook that finds no session and a write
\* to a closed connection (what they need is LossHasACause in DisconnectProofs).
THEOREM NoAssertOfTheSessionFails == ASSUME Waits PROVE Spec => []NoAssertFails
<1>1. WaitingInv => NoAssertFails
  BY DEF WaitingInv
<1>. QED  BY <1>1, WaitingInvariant, PTL

\* While a client that waits shows a stop, the program is held in that stop and
\* nothing has ended it.
THEOREM ShownStopIsTrue == ASSUME Waits PROVE Spec => []ClientSeesItsStop
<1>1. WaitingInv => ClientSeesItsStop
  BY DEF WaitingInv, AnyClientInv, StopShape, ToldStopIsOpen, Open, ClientSeesItsStop
<1>. QED  BY <1>1, WaitingInvariant, PTL

\* A request of a client that waits is carried out in the stop it was made for.
THEOREM RequestInItsStop == ASSUME Waits PROVE Spec => []RequestMeetsItsStop
<1>1. WaitingInv => RequestMeetsItsStop
  <2>. SUFFICES ASSUME WaitingInv
                PROVE  RequestMeetsItsStop
    OBVIOUS
  <2>1. runPc \in {"schedule", "await"} => Open /\ request.stop = stopNo
    BY DEF WaitingInv, RequestFits, ToldStopIsOpen
  <2>2. runPc = "dispose" => luaPc = "execute" /\ request.stop = stopNo
    BY DEF WaitingInv, RequestFits
  <2>3. luaPc = "execute" => stopped
    BY DEF WaitingInv, AnyClientInv, StopShape
  <2>. QED  BY <2>1, <2>2, <2>3 DEF Open, RequestMeetsItsStop
<1>. QED  BY <1>1, WaitingInvariant, PTL

\* For a client that waits the session implements the safety part of the stop
\* protocol: one command, given in that stop, ends each stop.
THEOREM KeepsTheStopProtocol ==
    ASSUME Waits PROVE Spec => Protocol!Init /\ [][Protocol!Next]_(Protocol!pvars)
<1>. USE DEF clientVars, runVars, stopVars, luaVars, RunAt, LuaAt, Handling, Asserting
<1>1. Init => Protocol!Init
  BY DEF Init, Protocol!Init
<1>2. WaitingInv /\ WaitingInv' /\ [Next]_vars => [Protocol!Next]_(Protocol!pvars)
  <2>. SUFFICES ASSUME WaitingInv, WaitingInv', [Next]_vars
                PROVE  Protocol!Next \/ UNCHANGED Protocol!pvars
    OBVIOUS
  <2>1. CASE Client \/ UNCHANGED vars
    BY <2>1 DEF Client, ClientSend, ClientReceive, ClientVanish, vars, Protocol!pvars
  <2>2. CASE HandleResume \/ HandleDisconnect
    <3>1. runPc = "handle" /\ request.cmd \in Ending
      BY <2>2 DEF HandleResume, HandleDisconnect, Ending
    <3>2. Open /\ stopped
      BY <3>1, EndingMeetsOpenStop
    <3>3. UNCHANGED <<stopped, stopNo>>
      BY <2>2 DEF HandleResume, HandleDisconnect
    <3>4. continueMode' \in Modes
      <4>1. CASE HandleResume
        <5>1. request.cmd \in Resume /\ continueMode' = ModeOf[request.cmd]
          BY <3>2, <4>1 DEF HandleResume, ResumeFault, Open
        <5>. QED  BY <5>1 DEF Modes
      <4>2. CASE HandleDisconnect
        BY <3>2, <4>2 DEF HandleDisconnect, Modes
      <4>. QED  BY <2>2, <4>1, <4>2
    <3>5. Protocol!Command(continueMode')
      BY <3>2, <3>3 DEF Protocol!Command, Open
    <3>. QED  BY <3>4, <3>5 DEF Protocol!Next
  <2>3. CASE Run /\ ~HandleResume /\ ~HandleDisconnect
    BY <2>3, SendResponseOutcome DEF Run, ReadRequest, ReadThrows, ReadEof, HandleStart,
       HandleConfigurationDone, HandleArm,
       HandleNoEffect, HandleInspect, ScheduleInspect, DisposeStop, HandleThrows,
       Protocol!pvars
  <2>4. CASE EnterStop
    <3>1. ~stopped
      BY <2>4 DEF EnterStop, WaitingInv, AnyClientInv, StopShape
    <3>. QED  BY <2>4, <3>1 DEF EnterStop, Protocol!Next, Protocol!Hold
  <2>5. CASE LeaveStop
    <3>1. stopped /\ continueMode # "none"
      BY <2>5 DEF LeaveStop, WaitingInv, ModeFirst, AnyClientInv, StopShape
    <3>2. stopped' = FALSE /\ UNCHANGED <<stopNo, continueMode>>
      BY <2>5, <3>1 DEF LeaveStop
    <3>. QED  BY <3>1, <3>2 DEF Protocol!Next, Protocol!Release
  <2>6. CASE Lua /\ ~EnterStop /\ ~LeaveStop
    BY <2>6, AnnounceOutcome DEF Lua, Stopping, StartProgram, HitBreakpoint, HitStep,
       AcquireSession,
       ExecuteIdles, ExecuteInvokes, Protocol!pvars
  <2>. QED  BY <2>1, <2>2, <2>3, <2>4, <2>5, <2>6 DEF Next
<1>. QED  BY <1>1, <1>2, WaitingInvariant, PTL DEF Spec
=============================================================================
