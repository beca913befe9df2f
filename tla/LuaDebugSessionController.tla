---------------------- MODULE LuaDebugSessionController ----------------------
(***************************************************************************)
(* src/debug/luadebugsessioncontroller.cpp: the breakpoint tables, which    *)
(* the session's thread replaces under _mutex, and ExecuteDebugger, which   *)
(* the hook calls on the Lua thread for every call, line and return of the  *)
(* program.  The session that holds a stopped program is DebugSession.      *)
(*                                                                          *)
(* A vector of breakpoints is the set of its entries: entries are only      *)
(* appended, each with a greater id, so the order of the vector is that of  *)
(* the ids.  Two paths are the same here when operator == of Source says so.*)
(***************************************************************************)
EXTENDS Naturals, Sequences

CONSTANTS
    Paths, C,       \* source files; the source of a C function
    Lines,          \* line numbers
    Names, NoName,  \* names of functions; a call whose ar->name is null
    MaxRequest,     \* bound: breakpoints in one request
    MaxId,          \* bound: breakpoints ever set
    MaxDepth        \* bound: frames of the program

ASSUME ControllerAssumption ==
    /\ Lines \subseteq Nat \ {0}
    /\ C \notin Paths /\ NoName \notin Names
    /\ MaxRequest \in Nat /\ MaxId \in Nat /\ MaxDepth \in Nat

Kinds == {"source", "function"}
Steps == {"Step", "StepIn", "StepOut"}
Modes == Steps \cup {"Continue", "Stopped"}

Marks == {"none", "here", "caller"}

\* A frame knows where the stack of its coroutine begins: coroutines inherit the
\* hook, which sees the stack of the running one only.
Frame      == [source : Paths \cup {C}, line : Nat, bottom : Nat, mark : Marks]
SourceBp   == [id : Nat, sourceId : Nat, line : Lines]
FunctionBp == [id : Nat, name : Names]
NoLine     == 0    \* the empty optional
Breakpoint == [id : Nat, line : Lines \cup {NoLine}]
Predicate  == [step : Steps, line : Nat, depth : Nat]
NoPredicate == [step |-> "none", line |-> 0, depth |-> 0]
Stop       == [by : Kinds \cup Steps, id : Nat]
NoStop     == [by |-> "none", id |-> 0]
Event      == [hook : {"line", "call", "none"}, read : BOOLEAN]
NoEvent    == [hook |-> "none", read |-> TRUE]

VARIABLES
    isActive,               \* _isActive
    sources,                \* _sources; the id of an entry is its position
    sourceBreakpoints,      \* _sourceBreakpoints
    functionBreakpoints,    \* _functionBreakpoints
    bpId,                   \* _bpId
    debugStepPredicate,     \* _debugStepPredicate
    stop,                   \* the stop the hook is in, or NoStop
    stack,                  \* the Lua stack with those of the coroutines that
                            \* were resumed, innermost frame last; the mark
                            \* (history) tells the frame the last step was
                            \* taken from and its callers in its coroutine
    requested, answered,    \* history: per path, the lines of the last request
                            \* and the breakpoints of its response
    lastMode,               \* history: the mode that ended the last stop
    event                   \* history: the hook event of the last step, and
                            \* whether it read ar->source as not null

tables == <<sources, sourceBreakpoints, functionBreakpoints, bpId,
            requested, answered>>
vars == <<isActive, tables, debugStepPredicate, stop, stack, lastMode, event>>

Top   == stack[Len(stack)]
Depth == Len(stack) - Top.bottom

TypeOK ==
    /\ isActive \in BOOLEAN
    /\ sources \in Seq(Paths)
    /\ sourceBreakpoints \subseteq SourceBp
    /\ functionBreakpoints \subseteq FunctionBp
    /\ bpId \in 0 .. MaxId
    /\ debugStepPredicate \in Predicate \cup {NoPredicate}
    /\ stop \in Stop \cup {NoStop}
    /\ stack \in Seq(Frame) /\ Len(stack) <= MaxDepth
    /\ stop # NoStop => stack # <<>>
    /\ requested \in [Paths -> Seq(Lines)]
    /\ answered \in [Paths -> Seq(Breakpoint)]
    /\ lastMode \in Modes \cup {"none"}
    /\ event \in Event

Init ==
    /\ isActive = FALSE
    /\ sources = <<>>
    /\ sourceBreakpoints = {} /\ functionBreakpoints = {}
    /\ bpId = 0
    /\ debugStepPredicate = NoPredicate
    /\ stop = NoStop
    /\ stack = <<>> /\ event = NoEvent
    /\ requested = [p \in Paths |-> <<>>] /\ answered = [p \in Paths |-> <<>>]
    /\ lastMode = "none"

----------------------------------------------------------------------------
(* The application.                                                         *)

EnableDebug ==
    /\ isActive' = TRUE
    /\ event' = NoEvent
    /\ UNCHANGED <<tables, debugStepPredicate, stop, stack, lastMode>>

DisableDebug ==
    /\ isActive' = FALSE
    /\ event' = NoEvent
    /\ UNCHANGED <<tables, debugStepPredicate, stop, stack, lastMode>>

----------------------------------------------------------------------------
(* The session's thread.                                                    *)

Known(path) == \E i \in DOMAIN sources : sources[i] = path

\* GetSourceId: the entry of an equal source, or a new one.
SourceId(path) ==
    IF Known(path) THEN CHOOSE i \in DOMAIN sources : sources[i] = path
    ELSE Len(sources) + 1

\* What a request adds for a source: new ids in the order of the request.
Added(id, lines) ==
    {[id |-> bpId + i, sourceId |-> id, line |-> lines[i]] : i \in DOMAIN lines}

\* What its response lists: the same ids, and no line, for bp.line is assigned to
\* itself.
Listed(lines) == [i \in DOMAIN lines |-> [id |-> bpId + i, line |-> NoLine]]

\* Mutant of SetBreakpoints: the ids of breakpoint and source are mixed up.
SetBreakpoints_WrongId(path, lines) ==
    /\ bpId + Len(lines) <= MaxId
    /\ sources' = IF Known(path) THEN sources ELSE Append(sources, path)
    /\ sourceBreakpoints' =
         {bp \in sourceBreakpoints : bp.id # SourceId(path)}
           \cup Added(SourceId(path), lines)
    /\ bpId' = bpId + Len(lines)
    /\ requested' = [requested EXCEPT ![path] = lines]
    /\ answered' = [answered EXCEPT ![path] = Listed(lines)]
    /\ event' = NoEvent
    /\ UNCHANGED <<isActive, functionBreakpoints, debugStepPredicate, stop, stack,
                   lastMode>>

\* Every breakpoint of the source is dropped, then those of the request are
\* added.
SetBreakpoints(path, lines) ==
    /\ bpId + Len(lines) <= MaxId
    /\ sources' = IF Known(path) THEN sources ELSE Append(sources, path)
    /\ sourceBreakpoints' =
         {bp \in sourceBreakpoints : bp.sourceId # SourceId(path)}
           \cup Added(SourceId(path), lines)
    /\ bpId' = bpId + Len(lines)
    /\ requested' = [requested EXCEPT ![path] = lines]
    /\ answered' = [answered EXCEPT ![path] = Listed(lines)]
    /\ event' = NoEvent
    /\ UNCHANGED <<isActive, functionBreakpoints, debugStepPredicate, stop, stack,
                   lastMode>>

\* Mutant of SetFunctionBreakpoints: the ids start at 1 in every request.
SetFunctionBreakpoints_OwnIds(names) ==
    /\ bpId + Len(names) <= MaxId
    /\ functionBreakpoints' = {[id |-> i, name |-> names[i]] : i \in DOMAIN names}
    /\ bpId' = bpId + Len(names)
    /\ event' = NoEvent
    /\ UNCHANGED <<isActive, sources, sourceBreakpoints, requested, answered,
                   debugStepPredicate, stop, stack, lastMode>>

SetFunctionBreakpoints(names) ==
    /\ bpId + Len(names) <= MaxId
    /\ functionBreakpoints' =
         {[id |-> bpId + i, name |-> names[i]] : i \in DOMAIN names}
    /\ bpId' = bpId + Len(names)
    /\ event' = NoEvent
    /\ UNCHANGED <<isActive, sources, sourceBreakpoints, requested, answered,
                   debugStepPredicate, stop, stack, lastMode>>

----------------------------------------------------------------------------
(* The Lua thread: the program moves, and the hook runs before it goes on.  *)

FirstOf(bps) == CHOOSE bp \in bps : \A other \in bps : bp.id <= other.id

\* Mutant of BreakpointsAt: the source is not compared.
BreakpointsAt_AnySource(line) == {bp \in sourceBreakpoints : bp.line = line}

\* The source and line of the event, as in ar->source and ar->currentline.
BreakpointsAt(line) ==
    {bp \in sourceBreakpoints : sources[bp.sourceId] = Top.source /\ bp.line = line}

\* The program reaches a line of its innermost function.
ReachLine(line) ==
    /\ stop = NoStop
    /\ stack # <<>> /\ Top.source # C
    /\ stack' = [stack EXCEPT ![Len(stack)].line = line]
    /\ UNCHANGED <<isActive, tables, lastMode>>

\* CheckBreakpoints for a line.  ar->source is tested before lua_getinfo fills
\* it in: read is the outcome of that test.
HitLine(line) ==
    /\ ReachLine(line)
    /\ isActive
    /\ BreakpointsAt(line) # {}
    /\ stop' = [by |-> "source", id |-> FirstOf(BreakpointsAt(line)).id]
    /\ event' = [hook |-> "line", read |-> TRUE]
    /\ UNCHANGED debugStepPredicate

\* Mutants of StepDone: a next does not end when its frame has returned; stepOut
\* ends in its own frame.
StepDone_SameDepth(line) ==
    LET p == debugStepPredicate IN
    \/ p.step = "Step" /\ Depth = p.depth /\ line # p.line
    \/ p.step = "StepIn" /\ line # p.line
    \/ p.step = "StepOut" /\ Depth < p.depth

StepDone_NotOut(line) ==
    LET p == debugStepPredicate IN
    \/ p.step = "Step" /\ (Depth < p.depth \/ (Depth = p.depth /\ line # p.line))
    \/ p.step = "StepIn" /\ line # p.line
    \/ p.step = "StepOut" /\ Depth <= p.depth

\* GetStopped of the step predicates.
StepDone(line) ==
    LET p == debugStepPredicate IN
    \/ p.step = "Step" /\ (Depth < p.depth \/ (Depth = p.depth /\ line # p.line))
    \/ p.step = "StepIn" /\ line # p.line
    \/ p.step = "StepOut" /\ Depth < p.depth

\* Mutant of HitStep: the predicate is kept.
HitStep_Keeps(line, read) ==
    /\ ReachLine(line)
    /\ isActive
    /\ read => BreakpointsAt(line) = {}
    /\ StepDone(line)
    /\ stop' = [by |-> debugStepPredicate.step, id |-> 0]
    /\ event' = [hook |-> "line", read |-> read]
    /\ UNCHANGED debugStepPredicate

HitStep(line, read) ==
    /\ ReachLine(line)
    /\ isActive
    /\ read => BreakpointsAt(line) = {}
    /\ StepDone(line)
    /\ stop' = [by |-> debugStepPredicate.step, id |-> 0]
    /\ debugStepPredicate' = NoPredicate
    /\ event' = [hook |-> "line", read |-> read]

PassLine(line, read) ==
    /\ ReachLine(line)
    /\ isActive => (read => BreakpointsAt(line) = {}) /\ ~StepDone(line)
    /\ event' = [hook |-> "line", read |-> read]
    /\ UNCHANGED <<debugStepPredicate, stop>>

\* The program calls a function, or a C function resumes a coroutine that begins
\* with it.  A function called from C, or from outside, has no name; what it is
\* called is up to the call, not to the function.  A coroutine that has yielded is
\* resumed as a new one.  Bound: MaxDepth.
Call(source, line, name, resumed) ==
    /\ stop = NoStop
    /\ Len(stack) < MaxDepth
    /\ name # NoName => stack # <<>> /\ Top.source # C
    /\ resumed => stack # <<>> /\ Top.source = C
    /\ stack' = Append(stack, [source |-> source, line |-> line, mark |-> "none",
                               bottom |-> IF resumed \/ stack = <<>> THEN Len(stack) + 1
                                          ELSE Top.bottom])
    /\ event' = [hook |-> "call", read |-> TRUE]
    /\ UNCHANGED <<isActive, tables, debugStepPredicate, lastMode>>

BreakpointsOn(name) == {bp \in functionBreakpoints : bp.name = name}

\* CheckBreakpoints for a call: a Lua function that has a name.
HitFunction(source, line, name) ==
    /\ Call(source, line, name, FALSE)
    /\ isActive
    /\ BreakpointsOn(name) # {}
    /\ stop' = [by |-> "function", id |-> FirstOf(BreakpointsOn(name)).id]

\* C functions and main chunks stop at no breakpoint; a call is no end of a step.
PassCall(source, line, name, what, resumed) ==
    /\ Call(source, line, name, resumed)
    /\ isActive /\ what = "Lua" => BreakpointsOn(name) = {}
    /\ UNCHANGED stop

\* A return leaves one frame, a yield those of its coroutine, an error as many as
\* it takes; none of them stops.
Leave(depth) ==
    /\ stop = NoStop
    /\ depth < Len(stack)
    /\ stack' = SubSeq(stack, 1, depth)
    /\ event' = NoEvent
    /\ UNCHANGED <<isActive, tables, debugStepPredicate, stop, lastMode>>

Marked == [i \in 1 .. Len(stack) |->
             [stack[i] EXCEPT !.mark = IF i = Len(stack) THEN "here"
                                       ELSE IF stack[i].bottom = Top.bottom THEN "caller"
                                       ELSE "none"]]

\* Mutant of Resume: stepOut at depth 0 installs a predicate, as does continue.
Resume_Always(mode) ==
    /\ stop # NoStop
    /\ stop' = NoStop
    /\ debugStepPredicate' = [step |-> mode, line |-> Top.line, depth |-> Depth]
    /\ stack' = Marked
    /\ lastMode' = mode
    /\ event' = NoEvent
    /\ UNCHANGED <<isActive, tables>>

\* StopExecution returns: a step installs its predicate, which replaces the one
\* there is; anything else leaves it.
Resume(mode) ==
    /\ stop # NoStop
    /\ stop' = NoStop
    /\ IF mode \in {"Step", "StepIn"} \/ (mode = "StepOut" /\ Depth > 0)
       THEN /\ debugStepPredicate' = [step |-> mode, line |-> Top.line, depth |-> Depth]
            /\ stack' = Marked
       ELSE UNCHANGED <<debugStepPredicate, stack>>
    /\ lastMode' = mode
    /\ event' = NoEvent
    /\ UNCHANGED <<isActive, tables>>

Requests(S) == UNION {[1 .. n -> S] : n \in 0 .. MaxRequest}

Session == \/ \E p \in Paths, lines \in Requests(Lines) : SetBreakpoints(p, lines)
           \/ \E names \in Requests(Names) : SetFunctionBreakpoints(names)

Lua == \/ \E line \in Lines : HitLine(line)
       \/ \E line \in Lines, read \in BOOLEAN : HitStep(line, read) \/ PassLine(line, read)
       \/ \E p \in Paths, line \in Lines, name \in Names : HitFunction(p, line, name)
       \/ \E p \in Paths, line \in Lines, name \in Names \cup {NoName},
             what \in {"Lua", "main"}, resumed \in BOOLEAN :
               PassCall(p, line, name, what, resumed)
       \/ \E name \in Names \cup {NoName}, resumed \in BOOLEAN :
             PassCall(C, 0, name, "C", resumed)
       \/ \E depth \in 0 .. MaxDepth : Leave(depth)
       \/ \E mode \in Modes : Resume(mode)

Next == EnableDebug \/ DisableDebug \/ Session \/ Lua

Spec == Init /\ [][Next]_vars

----------------------------------------------------------------------------
\* What a client knows of its breakpoints: a response lists them in the order of
\* the request, so the i-th id is that of the i-th line it asked for.
Told(p) ==
    {[id |-> answered[p][i].id, line |-> requested[p][i]] : i \in DOMAIN answered[p]}

\* Across any sequence of requests for any sources, the table holds for each source
\* the lines last requested there, with the ids by which the response lists them in
\* that order: replacing those of one source neither loses nor revives another's.
TablesMatchAnswers ==
    \A p \in Paths :
        {[id |-> bp.id, line |-> bp.line] :
            bp \in {b \in sourceBreakpoints : sources[b.sourceId] = p}} = Told(p)

\* An id names one breakpoint, whichever table it is in.
IdsUnique ==
    /\ \A a, b \in sourceBreakpoints : a.id = b.id => a = b
    /\ \A a, b \in functionBreakpoints : a.id = b.id => a = b
    /\ \A a \in sourceBreakpoints, b \in functionBreakpoints : a.id # b.id

Asked(frame) == {b \in Told(frame.source) : b.line = frame.line}

\* A line stops the program, with the id of a breakpoint the client asked for at
\* this very line of this source, if there is one; a line at which the client
\* has one is passed only if ar->source happened to be null.
StopsWhereAsked ==
    event.hook = "line" =>
        /\ stop.by = "source" => stop.id \in {b.id : b \in Asked(Top)}
        /\ isActive /\ event.read /\ stop.by # "source" => Asked(Top) = {}

\* Stack depths stand for frames: a next or a stepOut never stops inside a call
\* made by the frame it was taken from, nor a stepOut in that frame, unless the
\* call resumed a coroutine, whose depths count from its own beginning.
StepStaysOut ==
    \A i \in 1 .. Len(stack) :
        stack[i].mark = "here" /\ stack[i].bottom = Top.bottom =>
            /\ stop.by = "Step" => i = Len(stack)
            /\ stop.by # "StepOut"

\* A next does not run past another line of its frame, and neither a next nor a
\* stepOut past a line of one of its callers in the same coroutine, whatever was
\* called in between.
StepStops ==
    event.hook = "line" /\ isActive /\ stop = NoStop =>
        /\ debugStepPredicate.step \in {"Step", "StepOut"} => Top.mark # "caller"
        /\ debugStepPredicate.step = "Step" /\ Top.mark = "here"
             => Top.line = debugStepPredicate.line

\* The controller stops the program only for a breakpoint that is set or a step
\* that is pending; this is what DebugSession takes of it.
Decision == INSTANCE StopDecision WITH
    armed    <- {k \in Kinds : \/ k = "source" /\ sourceBreakpoints # {}
                               \/ k = "function" /\ functionBreakpoints # {}},
    stepping <- debugStepPredicate # NoPredicate,
    held     <- stop # NoStop
ImplementsStopDecision == Decision!Spec

----------------------------------------------------------------------------
(* Statements of the repository that the code does not keep.                *)

\* verified: the breakpoint could be set, so a line that has one stops.
VerifiedBreakpointStops ==
    event.hook = "line" /\ isActive /\ Asked(Top) # {} => stop.by = "source"

\* A stop with the reason step means that a stepping request has completed: the
\* last thing the user did was to step.
StepStopAnswersAStep == stop.by \in Steps => lastMode \in Steps
=============================================================================
