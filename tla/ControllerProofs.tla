-------------------------- MODULE ControllerProofs --------------------------
(***************************************************************************)
(* Theorems about LuaDebugSessionController for all sources, lines, names   *)
(* and bounds: what the breakpoint tables hold, where a line stops and      *)
(* where a step ends.                                                       *)
(***************************************************************************)
EXTENDS LuaDebugSessionController, WellFoundedInduction, TLAPS

----------------------------------------------------------------------------
(* The inductive invariant.                                                 *)

\* Every breakpoint belongs to an entry of _sources, no two entries have the
\* same path, and ids given so far are at most _bpId.
TablesOK ==
    /\ \A i, j \in DOMAIN sources : sources[i] = sources[j] => i = j
    /\ \A bp \in sourceBreakpoints : bp.sourceId \in DOMAIN sources /\ bp.id \in 1 .. bpId
    /\ \A bp \in functionBreakpoints : bp.id \in 1 .. bpId
    /\ IdsUnique
    /\ TablesMatchAnswers

\* A coroutine's stack begins at or below each of its frames.
BottomsOK == \A i \in 1 .. Len(stack) : stack[i].bottom \in 1 .. i

\* The pending predicate holds the depth of the frame it was taken from; callers
\* in the same coroutine are less deep.
MarksOK ==
    debugStepPredicate # NoPredicate =>
        \A i \in 1 .. Len(stack) :
            /\ stack[i].mark = "here" => i - stack[i].bottom = debugStepPredicate.depth
            /\ stack[i].mark = "caller" => i - stack[i].bottom < debugStepPredicate.depth

IInv ==
    /\ TypeOK
    /\ TablesOK
    /\ BottomsOK
    /\ MarksOK
    /\ StopsWhereAsked
    /\ StepStaysOut
    /\ StepStops

\* The variables of the tables, and those of the Lua thread.
luaVars == <<debugStepPredicate, stop, stack, lastMode>>

----------------------------------------------------------------------------
(* Lemmas about operators.                                                  *)

\* The order of the numbers is the relation the library calls well-founded.
LEMMA LessIsRelated ==
    ASSUME NEW m \in Nat, NEW n \in Nat, m < n
    PROVE  <<m, n>> \in OpToRel(<, Nat)
BY Zenon DEF OpToRel

\* A set of breakpoints that is not empty has a first one.
LEMMA FirstIsOne ==
    ASSUME NEW bps, bps # {}, \A bp \in bps : bp.id \in Nat
    PROVE  FirstOf(bps) \in bps
<1>. DEFINE ids == {bp.id : bp \in bps}
<1>1. ids \subseteq Nat /\ ids # {}
  OBVIOUS
<1>. HIDE DEF ids
<1>2. \E n \in ids : \A m \in ids : ~ (<<m, n>> \in OpToRel(<, Nat))
  BY <1>1, NatLessThanWellFounded, WFMin, Zenon
<1>3. PICK n \in ids : \A m \in ids : ~ (<<m, n>> \in OpToRel(<, Nat))
  BY <1>2, Zenon
<1>4. ASSUME NEW m \in ids
      PROVE  n <= m
  <2>1. m \in Nat /\ n \in Nat
    BY <1>1
  <2>2. ~ (m < n)
    BY <1>3, <2>1, LessIsRelated, Zenon
  <2>. QED  BY <2>1, <2>2
<1>5. PICK bp \in bps : bp.id = n
  BY DEF ids
<1>6. \A other \in bps : bp.id <= other.id
  BY <1>4, <1>5 DEF ids
<1>. QED  BY <1>6 DEF FirstOf

\* Where a path is known, its id is that of its entry; otherwise of a new one.
LEMMA SourceIdOK ==
    ASSUME TypeOK, NEW path \in Paths
    PROVE  IF Known(path) THEN SourceId(path) \in DOMAIN sources
                                 /\ sources[SourceId(path)] = path
           ELSE SourceId(path) = Len(sources) + 1
BY DEF Known, SourceId

----------------------------------------------------------------------------
(* Every step preserves the invariant.                                      *)

\* An application or session step is no hook event, which is one of Event.
LEMMA NoEventOK == NoEvent \in Event
BY DEF NoEvent, Event

\* IInv holds initially.
LEMMA InitIInv == Init => IInv
<1>. SUFFICES ASSUME Init PROVE IInv
  OBVIOUS
<1>. USE DEF Init
<1>1. <<>> \in Seq(Paths) /\ <<>> \in Seq(Frame)
  OBVIOUS
<1>2. TypeOK
  <2>1. isActive \in BOOLEAN /\ event \in Event
    BY NoEventOK
  <2>3. bpId \in 0 .. MaxId /\ Len(stack) <= MaxDepth
    BY ControllerAssumption
  <2>2. /\ requested \in [Paths -> Seq(Lines)] /\ answered \in [Paths -> Seq(Breakpoint)]
        /\ lastMode \in Modes \cup {"none"}
    OBVIOUS
  <2>. QED  BY <1>1, <2>1, <2>2, <2>3 DEF TypeOK
<1>3. TablesOK
  BY DEF TablesOK, IdsUnique, TablesMatchAnswers, Told
<1>4. BottomsOK /\ MarksOK
  BY DEF BottomsOK, MarksOK
<1>5. StopsWhereAsked /\ StepStaysOut /\ StepStops
  BY DEF StopsWhereAsked, StepStaysOut, StepStops, NoEvent
<1>. QED  BY <1>2, <1>3, <1>4, <1>5 DEF IInv

\* A step that leaves the Lua thread where it is, and is no hook event, disturbs
\* nothing that is said of stops and steps.
LEMMA LuaThreadStays ==
    ASSUME IInv, UNCHANGED luaVars, event' = NoEvent
    PROVE  (BottomsOK /\ MarksOK /\ StopsWhereAsked /\ StepStaysOut /\ StepStops)'
<1>. USE DEF IInv, luaVars
<1>1. BottomsOK' /\ MarksOK'
  BY DEF BottomsOK, MarksOK
<1>2. StepStaysOut'
  BY DEF StepStaysOut, Top
<1>3. StopsWhereAsked' /\ StepStops'
  BY DEF StopsWhereAsked, StepStops, NoEvent
<1>. QED  BY <1>1, <1>2, <1>3

\* EnableDebug and DisableDebug preserve IInv.
LEMMA SwitchKeepsIInv ==
    ASSUME IInv, EnableDebug \/ DisableDebug
    PROVE  IInv'
<1>. USE DEF EnableDebug, DisableDebug
<1>1. TypeOK'
  <2>1. isActive' \in BOOLEAN /\ event' \in Event
    BY NoEventOK
  <2>. QED  BY <2>1 DEF IInv, TypeOK, tables
<1>2. TablesOK'
  BY DEF IInv, TablesOK, IdsUnique, TablesMatchAnswers, Told, tables
<1>3. UNCHANGED luaVars /\ event' = NoEvent
  BY DEF luaVars
<1>. QED  BY <1>1, <1>2, <1>3, LuaThreadStays DEF IInv

\* The entries a request adds have new ids and the id of its source.
LEMMA SetBreakpointsKeepsIInv ==
    ASSUME IInv, NEW path \in Paths, NEW lines \in Requests(Lines), SetBreakpoints(path, lines)
    PROVE  IInv'
<1>. DEFINE id    == SourceId(path)
            old   == {bp \in sourceBreakpoints : bp.sourceId # id}
            new   == Added(id, lines)
<1>1. /\ sources' = IF Known(path) THEN sources ELSE Append(sources, path)
      /\ sourceBreakpoints' = old \cup new
      /\ bpId + Len(lines) <= MaxId
      /\ bpId' = bpId + Len(lines)
      /\ requested' = [requested EXCEPT ![path] = lines]
      /\ answered' = [answered EXCEPT ![path] = Listed(lines)]
      /\ UNCHANGED <<isActive, functionBreakpoints, debugStepPredicate, stop, stack, lastMode>>
      /\ event' = NoEvent
  BY DEF SetBreakpoints
<1>2. lines \in Seq(Lines)
  BY ControllerAssumption DEF Requests
<1>3. bpId \in Nat /\ sources \in Seq(Paths) /\ sourceBreakpoints \subseteq SourceBp
  BY DEF IInv, TypeOK
<1>4. \A i \in DOMAIN lines : /\ bpId + i \in bpId + 1 .. bpId + Len(lines)
                              /\ bpId + i \in Nat /\ lines[i] \in Lines
  BY <1>2, <1>3
<1>5. Listed(lines) \in Seq(Breakpoint)
  <2>1. DOMAIN lines = 1 .. Len(lines) /\ Len(lines) \in Nat
    BY <1>2
  <2>2. \A i \in DOMAIN lines : [id |-> bpId + i, line |-> NoLine] \in Breakpoint
    BY <1>4 DEF Breakpoint
  <2>. QED  BY <2>1, <2>2 DEF Listed
<1>6. /\ sources' \in Seq(Paths)
      /\ DOMAIN sources \subseteq DOMAIN sources'
      /\ \A i \in DOMAIN sources : sources'[i] = sources[i]
      /\ id \in DOMAIN sources' /\ sources'[id] = path /\ id \in Nat
  <2>1. CASE Known(path)
    BY <1>1, <1>3, <2>1, SourceIdOK DEF IInv
  <2>2. CASE ~Known(path)
    BY <1>1, <1>3, <2>2, SourceIdOK DEF IInv
  <2>. QED  BY <2>1, <2>2
<1>7. \A i, j \in DOMAIN sources' : sources'[i] = sources'[j] => i = j
  <2>1. CASE Known(path)
    BY <1>1, <2>1 DEF IInv, TablesOK
  <2>2. CASE ~Known(path)
    BY <1>1, <1>3, <2>2 DEF IInv, TablesOK, Known
  <2>. QED  BY <2>1, <2>2
<1>8. old \subseteq SourceBp /\ new \subseteq SourceBp
  BY <1>3, <1>4, <1>6 DEF SourceBp, Added
<1>9. Len(lines) \in Nat /\ bpId' \in 0 .. MaxId
  BY <1>1, <1>2, <1>3, ControllerAssumption
<1>10. TypeOK'
  <2>1. requested' \in [Paths -> Seq(Lines)] /\ answered' \in [Paths -> Seq(Breakpoint)]
    BY <1>1, <1>2, <1>5 DEF IInv, TypeOK
  <2>2. sourceBreakpoints' \subseteq SourceBp
    BY <1>1, <1>8
  <2>. QED  BY <1>1, <1>6, <1>9, <2>1, <2>2 DEF IInv, TypeOK, Event, NoEvent
<1>. HIDE DEF id, old, new
<1>11. /\ \A bp \in old : /\ bp \in sourceBreakpoints /\ bp.sourceId # id
                           /\ bp.sourceId \in DOMAIN sources /\ bp.id \in 1 .. bpId
       /\ \A bp \in sourceBreakpoints : bp.sourceId # id => bp \in old
  BY DEF old, IInv, TablesOK
<1>12. /\ \A bp \in new : \E i \in DOMAIN lines :
            bp = [id |-> bpId + i, sourceId |-> id, line |-> lines[i]]
       /\ \A i \in DOMAIN lines : [id |-> bpId + i, sourceId |-> id, line |-> lines[i]] \in new
       /\ \A bp \in new : bp.sourceId = id
       /\ \A a, b \in new : a.id = b.id => a = b
  <2>1. \A bp \in new : \E i \in DOMAIN lines :
           bp = [id |-> bpId + i, sourceId |-> id, line |-> lines[i]]
    BY DEF new, Added
  <2>2. \A i \in DOMAIN lines : [id |-> bpId + i, sourceId |-> id, line |-> lines[i]] \in new
    BY DEF new, Added
  <2>3. ASSUME NEW a \in new, NEW b \in new, a.id = b.id
        PROVE  a = b
    <3>1. PICK i \in DOMAIN lines : a = [id |-> bpId + i, sourceId |-> id, line |-> lines[i]]
      BY <2>1
    <3>2. PICK j \in DOMAIN lines : b = [id |-> bpId + j, sourceId |-> id, line |-> lines[j]]
      BY <2>1
    <3>3. i \in Nat /\ j \in Nat /\ bpId + i = bpId + j
      BY <1>2, <2>3, <3>1, <3>2
    <3>4. i = j
      BY <1>3, <3>3
    <3>. QED  BY <3>1, <3>2, <3>4
  <2>. QED  BY <2>1, <2>2, <2>3
<1>13. \A bp \in new : bp.id \in bpId + 1 .. bpId'
  BY <1>1, <1>4, <1>12
<1>14. IdsUnique'
  <2>1. \A a, b \in old \cup new : a.id = b.id => a = b
    <3>1. \A a, b \in old : a.id = b.id => a = b
      BY <1>11 DEF IInv, TablesOK, IdsUnique
    <3>2. \A a \in old, b \in new : a.id # b.id
      BY <1>3, <1>11, <1>13, <1>9
    <3>. QED  BY <1>12, <3>1, <3>2
  <2>2. \A a \in old \cup new, b \in functionBreakpoints : a.id # b.id
    <3>1. \A a \in old, b \in functionBreakpoints : a.id # b.id
      BY <1>11 DEF IInv, TablesOK, IdsUnique
    <3>2. \A a \in new, b \in functionBreakpoints : a.id # b.id
      BY <1>3, <1>9, <1>13 DEF IInv, TablesOK
    <3>. QED  BY <3>1, <3>2
  <2>3. \A a, b \in functionBreakpoints : a.id = b.id => a = b
    BY DEF IInv, TablesOK, IdsUnique
  <2>. QED  BY <1>1, <2>1, <2>2, <2>3 DEF IdsUnique
<1>15. TablesMatchAnswers'
  <2>. DEFINE Held(p) == {[id |-> bp.id, line |-> bp.line] :
                            bp \in {b \in old \cup new : sources'[b.sourceId] = p}}
  <2>1. Held(path) = Told(path)'
    <3>1. \A bp \in old : sources'[bp.sourceId] # path
      BY <1>6, <1>7, <1>11
    <3>2. {b \in old \cup new : sources'[b.sourceId] = path} = new
      BY <1>6, <1>12, <3>1
    <3>3. {[id |-> bp.id, line |-> bp.line] : bp \in new}
            = {[id |-> bpId + i, line |-> lines[i]] : i \in DOMAIN lines}
      <4>1. ASSUME NEW bp \in new
            PROVE  \E i \in DOMAIN lines : bp.id = bpId + i /\ bp.line = lines[i]
        BY <1>12
      <4>2. ASSUME NEW i \in DOMAIN lines
            PROVE  \E bp \in new : bp.id = bpId + i /\ bp.line = lines[i]
        BY <1>12
      <4>. QED  BY <4>1, <4>2
    <3>4. /\ DOMAIN Listed(lines) = DOMAIN lines
          /\ \A i \in DOMAIN lines : Listed(lines)[i].id = bpId + i
      BY DEF Listed
    <3>5. answered'[path] = Listed(lines) /\ requested'[path] = lines
      BY <1>1 DEF IInv, TypeOK
    <3>6. Told(path)' = {[id |-> bpId + i, line |-> lines[i]] : i \in DOMAIN lines}
      BY <3>4, <3>5 DEF Told
    <3>. QED  BY <3>2, <3>3, <3>6
  <2>2. ASSUME NEW p \in Paths, p # path
        PROVE  Held(p) = Told(p)
    <3>1. {b \in old \cup new : sources'[b.sourceId] = p}
            = {b \in sourceBreakpoints : sources[b.sourceId] = p}
      <4>1. \A b \in new : sources'[b.sourceId] # p
        BY <1>6, <1>12, <2>2
      <4>2. \A b \in old : sources'[b.sourceId] = sources[b.sourceId]
        BY <1>6, <1>11
      <4>3. \A b \in sourceBreakpoints : sources[b.sourceId] = p => b \in old
        BY <1>6, <1>11, <2>2 DEF IInv, TablesOK
      <4>. QED  BY <1>11, <4>1, <4>2, <4>3
    <3>. QED  BY <3>1 DEF IInv, TablesOK, TablesMatchAnswers
  <2>. HIDE DEF Held
  <2>3. \A p \in Paths : p # path => Told(p)' = Told(p)
    BY <1>1 DEF Told, IInv, TypeOK
  <2>4. \A p \in Paths : Held(p) = Told(p)'
    BY <2>1, <2>2, <2>3
  <2>. QED  BY <1>1, <2>4 DEF Held, TablesMatchAnswers
<1>16. TablesOK'
  <2>1. \A bp \in old \cup new : bp.sourceId \in DOMAIN sources' /\ bp.id \in 1 .. bpId'
    <3>1. bpId' \in Nat /\ bpId <= bpId'
      BY <1>1, <1>3, <1>9
    <3>2. \A bp \in old : bp.sourceId \in DOMAIN sources' /\ bp.id \in 1 .. bpId'
      BY <1>3, <1>6, <1>11, <3>1
    <3>3. \A bp \in new : bp.sourceId \in DOMAIN sources' /\ bp.id \in 1 .. bpId'
      <4>1. \A bp \in new : bp.sourceId \in DOMAIN sources'
        BY <1>6, <1>12
      <4>2. \A bp \in new : bp.id \in 1 .. bpId'
        BY <1>3, <1>13, <3>1
      <4>. QED  BY <4>1, <4>2
    <3>. QED  BY <3>2, <3>3
  <2>2. \A bp \in functionBreakpoints : bp.id \in 1 .. bpId'
    BY <1>1, <1>3, <1>9 DEF IInv, TablesOK
  <2>. QED  BY <1>1, <1>7, <1>14, <1>15, <2>1, <2>2 DEF TablesOK
<1>17. UNCHANGED luaVars
  BY <1>1 DEF luaVars
<1>. QED  BY <1>1, <1>10, <1>16, <1>17, LuaThreadStays DEF IInv

\* Function breakpoints have new ids too.
LEMMA SetFunctionBreakpointsKeepsIInv ==
    ASSUME IInv, NEW names \in Requests(Names), SetFunctionBreakpoints(names)
    PROVE  IInv'
<1>. USE DEF SetFunctionBreakpoints
<1>1. names \in Seq(Names) /\ bpId \in Nat
  <2>1. names \in Seq(Names)
    BY ControllerAssumption DEF Requests
  <2>. QED  BY <2>1, ControllerAssumption DEF IInv, TypeOK
<1>2. /\ functionBreakpoints' \subseteq FunctionBp
      /\ \A a, b \in functionBreakpoints' : a.id = b.id => a = b
      /\ \A a \in functionBreakpoints' : a.id \in bpId + 1 .. bpId'
  BY <1>1 DEF FunctionBp
<1>3. bpId' \in 0 .. MaxId /\ bpId <= bpId'
  BY <1>1, ControllerAssumption
<1>4. TypeOK'
  BY <1>2, <1>3 DEF IInv, TypeOK, Event, NoEvent
<1>5. IdsUnique'
  BY <1>1, <1>2, <1>3 DEF IInv, TablesOK, IdsUnique
<1>6. \A bp \in sourceBreakpoints : bp.sourceId \in DOMAIN sources /\ bp.id \in 1 .. bpId'
  BY <1>1, <1>3 DEF IInv, TablesOK
<1>7. \A bp \in functionBreakpoints' : bp.id \in 1 .. bpId'
  BY <1>1, <1>2, <1>3
<1>8. TablesOK'
  BY <1>5, <1>6, <1>7 DEF IInv, TablesOK, TablesMatchAnswers, Told
<1>9. UNCHANGED luaVars /\ event' = NoEvent
  BY DEF luaVars
<1>. QED  BY <1>4, <1>8, <1>9, LuaThreadStays DEF IInv
----------------------------------------------------------------------------
(* The Lua thread.                                                          *)

\* Frames have the types of their fields.
LEMMA FramesOK ==
    ASSUME IInv, NEW i \in 1 .. Len(stack)
    PROVE  /\ stack \in Seq(Frame) /\ Len(stack) \in Nat /\ stack[i] \in Frame
           /\ stack[i].source \in Paths \cup {C}
           /\ stack[i].line \in Nat /\ stack[i].bottom \in 1 .. i
           /\ stack[i].mark \in Marks
<1>1. stack \in Seq(Frame) /\ BottomsOK
  BY DEF IInv, TypeOK
<1>2. Len(stack) \in Nat /\ stack[i] \in Frame
  BY <1>1
<1>3. stack[i].bottom \in 1 .. i
  BY <1>1 DEF BottomsOK
<1>. QED  BY <1>1, <1>2, <1>3 DEF Frame

\* The innermost frame is one of the stack, and its depth is a number.
LEMMA DepthOK ==
    ASSUME IInv, stack # <<>>
    PROVE  /\ Len(stack) \in 1 .. Len(stack) /\ Top \in Frame
           /\ Top.bottom \in 1 .. Len(stack)
           /\ Depth \in Nat /\ Depth = Len(stack) - Top.bottom
<1>1. stack \in Seq(Frame)
  BY DEF IInv, TypeOK
<1>2. Len(stack) \in 1 .. Len(stack)
  BY <1>1
<1>3. Top \in Frame /\ Top.bottom \in 1 .. Len(stack)
  BY <1>2, FramesOK DEF Top
<1>. QED  BY <1>2, <1>3 DEF Depth

\* A step of the Lua thread that leaves the tables alone keeps what is said of them.
LEMMA TablesStay ==
    ASSUME IInv, UNCHANGED tables
    PROVE  TablesOK'
BY DEF IInv, TablesOK, IdsUnique, TablesMatchAnswers, Told, tables

\* Nothing is said of a step that is no line event and stops for no step.
LEMMA NotALine ==
    ASSUME event'.hook # "line", stop'.by \notin {"Step", "StepOut"}
    PROVE  (StopsWhereAsked /\ StepStaysOut /\ StepStops)'
<1>1. StepStaysOut'
  BY DEF StepStaysOut
<1>2. StopsWhereAsked' /\ StepStops'
  BY DEF StopsWhereAsked, StepStops
<1>. QED  BY <1>1, <1>2

\* Reaching a line changes nothing of the stack but the line of its last frame.
LEMMA ReachLineMoves ==
    ASSUME IInv, NEW line \in Lines, ReachLine(line)
    PROVE  /\ stop = NoStop /\ stack # <<>> /\ stack' # <<>>
           /\ stack' \in Seq(Frame) /\ Len(stack') = Len(stack)
           /\ Top.source \in Paths
           /\ Top'.line = line /\ Top'.source = Top.source
           /\ Top'.mark = Top.mark /\ Top'.bottom = Top.bottom
           /\ \A i \in 1 .. Len(stack) : /\ stack'[i].bottom = stack[i].bottom
                                         /\ stack'[i].mark = stack[i].mark
           /\ BottomsOK' /\ TablesOK'
           /\ UNCHANGED <<isActive, tables, lastMode>>
<1>1. /\ stop = NoStop /\ stack # <<>> /\ Top.source # C
      /\ stack' = [stack EXCEPT ![Len(stack)].line = line]
      /\ UNCHANGED <<isActive, tables, lastMode>>
  BY DEF ReachLine
<1>2. stack \in Seq(Frame) /\ line \in Nat
  BY ControllerAssumption DEF IInv, TypeOK
<1>3. Len(stack) \in 1 .. Len(stack)
  BY <1>1, DepthOK
<1>4. [Top EXCEPT !.line = line] \in Frame
  BY <1>1, <1>2, DepthOK DEF Frame
<1>5. stack' = [stack EXCEPT ![Len(stack)] = [Top EXCEPT !.line = line]]
  BY <1>1, <1>3 DEF Top
<1>6. stack' \in Seq(Frame) /\ Len(stack') = Len(stack) /\ stack' # <<>>
  BY <1>2, <1>3, <1>4, <1>5
<1>7. stack'[Len(stack)] = [Top EXCEPT !.line = line]
  BY <1>2, <1>3, <1>5
<1>8. /\ Top'.line = line /\ Top'.source = Top.source
      /\ Top'.mark = Top.mark /\ Top'.bottom = Top.bottom
  BY <1>1, <1>6, <1>7, DepthOK DEF Top, Frame
<1>9. \A i \in 1 .. Len(stack) : /\ stack'[i].bottom = stack[i].bottom
                                 /\ stack'[i].mark = stack[i].mark
  <2>. TAKE i \in 1 .. Len(stack)
  <2>1. CASE i = Len(stack)
    BY <1>6, <1>8, <2>1 DEF Top
  <2>2. CASE i # Len(stack)
    BY <1>2, <1>5, <2>2
  <2>. QED  BY <2>1, <2>2
<1>10. BottomsOK'
  BY <1>6, <1>9 DEF IInv, BottomsOK
<1>11. Top.source \in Paths
  BY <1>1, DepthOK DEF Frame
<1>. QED  BY <1>1, <1>6, <1>8, <1>9, <1>10, <1>11, TablesStay

\* What the table has at the line is what the client asked for there.
LEMMA LineIsAsked ==
    ASSUME IInv, NEW line \in Lines, ReachLine(line)
    PROVE  /\ \A bp \in BreakpointsAt(line) : bp.id \in {b.id : b \in Asked(Top)'}
           /\ BreakpointsAt(line) = {} => Asked(Top)' = {}
<1>. DEFINE p == Top.source
            held == {b \in sourceBreakpoints : sources[b.sourceId] = p}
<1>1. /\ p \in Paths /\ Top'.source = p /\ Top'.line = line
      /\ Told(p)' = Told(p)
  BY ReachLineMoves DEF tables, Told
<1>2. {[id |-> bp.id, line |-> bp.line] : bp \in held} = Told(p)
  BY <1>1 DEF IInv, TablesOK, TablesMatchAnswers
<1>3. BreakpointsAt(line) = {bp \in held : bp.line = line}
  BY DEF BreakpointsAt
<1>4. Asked(Top)' = {b \in Told(p) : b.line = line}
  BY <1>1 DEF Asked, Told
<1>. HIDE DEF p, held
<1>5. ASSUME NEW bp \in BreakpointsAt(line)
      PROVE  bp.id \in {b.id : b \in Asked(Top)'}
  <2>1. [id |-> bp.id, line |-> bp.line] \in Asked(Top)'
    BY <1>2, <1>3, <1>4, <1>5
  <2>. QED  BY <2>1
<1>6. ASSUME NEW b \in Asked(Top)'
      PROVE  BreakpointsAt(line) # {}
  <2>1. PICK bp \in held : b = [id |-> bp.id, line |-> bp.line]
    BY <1>2, <1>4, <1>6
  <2>. QED  BY <1>3, <1>4, <1>6, <2>1
<1>. QED  BY <1>5, <1>6
\* CheckBreakpoints stops at a line with the id of a breakpoint that was asked for.
LEMMA HitLineKeepsIInv ==
    ASSUME IInv, NEW line \in Lines, HitLine(line)
    PROVE  IInv'
<1>. DEFINE bp == FirstOf(BreakpointsAt(line))
<1>1. /\ ReachLine(line) /\ BreakpointsAt(line) # {}
      /\ stop' = [by |-> "source", id |-> bp.id]
      /\ event' = [hook |-> "line", read |-> TRUE]
      /\ UNCHANGED debugStepPredicate
  BY DEF HitLine
<1>2. \A b \in BreakpointsAt(line) : b.id \in Nat
  BY DEF BreakpointsAt, IInv, TypeOK, SourceBp
<1>3. bp \in BreakpointsAt(line)
  BY <1>1, <1>2, FirstIsOne
<1>4. stop' \in Stop /\ event' \in Event /\ stop' # NoStop
  BY <1>1, <1>2, <1>3 DEF Stop, Kinds, Event, NoStop
<1>5. TypeOK'
  BY <1>1, <1>4, ReachLineMoves DEF IInv, TypeOK, tables
<1>6. MarksOK'
  BY <1>1, ReachLineMoves DEF IInv, MarksOK
<1>7. StopsWhereAsked'
  BY <1>1, <1>3, LineIsAsked DEF StopsWhereAsked
<1>8. StepStaysOut' /\ StepStops'
  BY <1>1, <1>4 DEF StepStaysOut, StepStops
<1>. QED  BY <1>1, <1>5, <1>6, <1>7, <1>8, ReachLineMoves DEF IInv

\* A step that is done is over; it is done in no call made by the frame it was
\* taken from, because such a call is deeper.
LEMMA HitStepKeepsIInv ==
    ASSUME IInv, NEW line \in Lines, NEW read \in BOOLEAN, HitStep(line, read)
    PROVE  IInv'
<1>. DEFINE p == debugStepPredicate
<1>1. /\ ReachLine(line) /\ StepDone(line)
      /\ read => BreakpointsAt(line) = {}
      /\ stop' = [by |-> p.step, id |-> 0]
      /\ debugStepPredicate' = NoPredicate
      /\ event' = [hook |-> "line", read |-> read]
  BY DEF HitStep
<1>2. p.step \in Steps /\ p # NoPredicate /\ p \in Predicate
  BY <1>1 DEF StepDone, Steps, NoPredicate, IInv, TypeOK
<1>3. stop' \in Stop /\ event' \in Event /\ stop' # NoStop /\ stop'.by # "source"
  BY <1>1, <1>2 DEF Stop, Steps, Event, NoStop
<1>4. TypeOK'
  BY <1>1, <1>3, ReachLineMoves DEF IInv, TypeOK, tables
<1>5. MarksOK'
  BY <1>1 DEF MarksOK
<1>6. StopsWhereAsked'
  <2>1. event'.read => Asked(Top)' = {}
    BY <1>1, LineIsAsked
  <2>. QED  BY <1>3, <2>1 DEF StopsWhereAsked
<1>7. StepStaysOut'
  <2>1. SUFFICES ASSUME NEW i \in 1 .. Len(stack), stack[i].mark = "here",
                        stack[i].bottom = Top.bottom
                 PROVE  /\ p.step = "Step" => i = Len(stack)
                        /\ p.step # "StepOut"
    BY <1>1, ReachLineMoves DEF StepStaysOut
  <2>2. stack # <<>>
    BY <1>1, ReachLineMoves
  <2>3. i - Top.bottom = p.depth /\ p.depth \in Nat
    BY <1>2, <2>1 DEF IInv, MarksOK, Predicate
  <2>4. Depth = Len(stack) - Top.bottom /\ Top.bottom \in Nat /\ Len(stack) \in Nat
    BY <2>2, DepthOK
  <2>5. p.depth <= Depth /\ (Depth = p.depth => i = Len(stack))
    BY <2>3, <2>4
  <2>. QED  BY <1>1, <2>3, <2>4, <2>5 DEF StepDone
<1>8. StepStops'
  BY <1>3 DEF StepStops
<1>. QED  BY <1>1, <1>4, <1>5, <1>6, <1>7, <1>8, ReachLineMoves DEF IInv

\* A line that is passed ends no step that is due there.
LEMMA PassLineKeepsIInv ==
    ASSUME IInv, NEW line \in Lines, NEW read \in BOOLEAN, PassLine(line, read)
    PROVE  IInv'
<1>. DEFINE p == debugStepPredicate
<1>1. /\ ReachLine(line)
      /\ isActive => (read => BreakpointsAt(line) = {}) /\ ~StepDone(line)
      /\ event' = [hook |-> "line", read |-> read]
      /\ UNCHANGED <<debugStepPredicate, stop>>
  BY DEF PassLine
<1>2. stop' = NoStop /\ stop'.by = "none" /\ event' \in Event /\ isActive' = isActive
  BY <1>1, ReachLineMoves DEF NoStop, Event
<1>3. TypeOK'
  BY <1>1, <1>2, ReachLineMoves DEF IInv, TypeOK, tables
<1>4. MarksOK'
  BY <1>1, ReachLineMoves DEF IInv, MarksOK
<1>5. StopsWhereAsked'
  <2>1. isActive' /\ event'.read => Asked(Top)' = {}
    BY <1>1, <1>2, LineIsAsked
  <2>. QED  BY <1>2, <2>1 DEF StopsWhereAsked
<1>6. StepStaysOut'
  BY <1>2 DEF StepStaysOut
<1>7. StepStops'
  <2>1. SUFFICES ASSUME isActive'
                 PROVE  /\ p.step \in {"Step", "StepOut"} => Top.mark # "caller"
                        /\ p.step = "Step" /\ Top.mark = "here" => line = p.line
    BY <1>1, ReachLineMoves DEF StepStops
  <2>2. ~StepDone(line)
    BY <1>1, <1>2, <2>1
  <2>3. /\ Depth = Len(stack) - Top.bottom /\ Len(stack) \in 1 .. Len(stack)
        /\ Top.bottom \in Nat /\ Len(stack) \in Nat
    BY <1>1, ReachLineMoves, DepthOK
  <2>4. p # NoPredicate =>
           /\ Top.mark = "here" => Depth = p.depth
           /\ Top.mark = "caller" => Depth < p.depth
    BY <2>3 DEF IInv, MarksOK, Top
  <2>5. p.step \in {"Step", "StepOut"} => p # NoPredicate
    BY DEF NoPredicate
  <2>. QED  BY <2>2, <2>4, <2>5 DEF StepDone
<1>. QED  BY <1>1, <1>3, <1>4, <1>5, <1>6, <1>7, ReachLineMoves DEF IInv

\* A call adds an unmarked frame to the coroutine that runs, or begins one.
LEMMA CallMoves ==
    ASSUME IInv, NEW source \in Paths \cup {C}, NEW line \in Nat, NEW name,
           NEW resumed \in BOOLEAN, Call(source, line, name, resumed)
    PROVE  /\ stop = NoStop /\ stack' # <<>>
           /\ stack' \in Seq(Frame) /\ Len(stack') <= MaxDepth
           /\ BottomsOK' /\ MarksOK' /\ TablesOK'
           /\ event'.hook = "call" /\ event' \in Event
           /\ UNCHANGED <<isActive, tables, debugStepPredicate, lastMode>>
<1>. DEFINE bottom == IF resumed \/ stack = <<>> THEN Len(stack) + 1 ELSE Top.bottom
            frame == [source |-> source, line |-> line, mark |-> "none",
                      bottom |-> bottom]
<1>1. /\ stop = NoStop /\ Len(stack) < MaxDepth
      /\ stack' = Append(stack, frame)
      /\ event' = [hook |-> "call", read |-> TRUE]
      /\ UNCHANGED <<isActive, tables, debugStepPredicate, lastMode>>
  BY DEF Call
<1>2. stack \in Seq(Frame) /\ Len(stack) \in Nat
  BY DEF IInv, TypeOK
<1>3. bottom \in 1 .. Len(stack) + 1
  BY <1>2, DepthOK
<1>. HIDE DEF bottom
<1>4. frame \in Frame
  BY <1>2, <1>3 DEF Frame, Marks
<1>5. /\ stack' \in Seq(Frame) /\ Len(stack') = Len(stack) + 1
      /\ stack'[Len(stack) + 1] = frame
      /\ \A i \in 1 .. Len(stack) : stack'[i] = stack[i]
  BY <1>1, <1>2, <1>4
<1>6. stack' # <<>> /\ Len(stack') <= MaxDepth
  BY <1>1, <1>2, <1>5, ControllerAssumption
<1>7. BottomsOK'
  BY <1>2, <1>3, <1>5 DEF IInv, BottomsOK
<1>8. MarksOK'
  BY <1>1, <1>2, <1>5 DEF IInv, MarksOK
<1>9. event'.hook = "call" /\ event' \in Event
  BY <1>1 DEF Event
<1>. QED  BY <1>1, <1>5, <1>6, <1>7, <1>8, <1>9, TablesStay

\* CheckBreakpoints stops at a call.
LEMMA HitFunctionKeepsIInv ==
    ASSUME IInv, NEW source \in Paths, NEW line \in Lines, NEW name \in Names,
           HitFunction(source, line, name)
    PROVE  IInv'
<1>. DEFINE bp == FirstOf(BreakpointsOn(name))
<1>1. /\ Call(source, line, name, FALSE) /\ BreakpointsOn(name) # {}
      /\ stop' = [by |-> "function", id |-> bp.id]
      /\ line \in Nat
  BY ControllerAssumption DEF HitFunction
<1>2. \A b \in BreakpointsOn(name) : b.id \in Nat
  BY DEF BreakpointsOn, IInv, TypeOK, FunctionBp
<1>3. bp \in BreakpointsOn(name)
  BY <1>1, <1>2, FirstIsOne
<1>4. stop' \in Stop /\ stop'.by \notin {"Step", "StepOut"}
  BY <1>1, <1>2, <1>3 DEF Stop, Kinds
<1>5. TypeOK'
  BY <1>1, <1>4, CallMoves DEF IInv, TypeOK, tables
<1>. QED  BY <1>1, <1>4, <1>5, CallMoves, NotALine DEF IInv

\* A call that stops at no breakpoint.
LEMMA PassCallKeepsIInv ==
    ASSUME IInv, NEW source \in Paths \cup {C}, NEW line \in Nat, NEW name, NEW what,
           NEW resumed \in BOOLEAN, PassCall(source, line, name, what, resumed)
    PROVE  IInv'
<1>1. Call(source, line, name, resumed) /\ UNCHANGED stop
  BY DEF PassCall
<1>2. stop' = NoStop /\ stop'.by \notin {"Step", "StepOut"}
  BY <1>1, CallMoves DEF NoStop
<1>3. TypeOK'
  <2>1. /\ stack' \in Seq(Frame) /\ Len(stack') <= MaxDepth /\ event' \in Event
        /\ UNCHANGED <<isActive, tables, debugStepPredicate, lastMode>>
    BY <1>1, CallMoves
  <2>. QED  BY <1>2, <2>1 DEF IInv, TypeOK, tables
<1>. QED  BY <1>1, <1>2, <1>3, CallMoves, NotALine DEF IInv

\* What is left of the stack is as it was.
LEMMA LeaveKeepsIInv ==
    ASSUME IInv, NEW depth \in 0 .. MaxDepth, Leave(depth)
    PROVE  IInv'
<1>1. /\ stop = NoStop /\ depth < Len(stack)
      /\ stack' = SubSeq(stack, 1, depth)
      /\ event' = NoEvent
      /\ UNCHANGED <<isActive, tables, debugStepPredicate, stop, lastMode>>
  BY DEF Leave
<1>2. stack \in Seq(Frame) /\ Len(stack) \in Nat /\ Len(stack) <= MaxDepth /\ depth \in Nat
  BY ControllerAssumption DEF IInv, TypeOK
<1>3. /\ stack' \in Seq(Frame) /\ Len(stack') = depth
      /\ \A i \in 1 .. depth : stack'[i] = stack[i]
  BY <1>1, <1>2
<1>4. Len(stack') <= MaxDepth
  BY <1>1, <1>2, <1>3, ControllerAssumption
<1>5. TypeOK'
  BY <1>1, <1>3, <1>4, NoEventOK DEF IInv, TypeOK, tables
<1>6. BottomsOK' /\ MarksOK'
  BY <1>1, <1>2, <1>3 DEF IInv, BottomsOK, MarksOK
<1>7. event'.hook # "line" /\ stop'.by \notin {"Step", "StepOut"}
  BY <1>1 DEF NoEvent, NoStop
<1>. QED  BY <1>1, <1>5, <1>6, <1>7, TablesStay, NotALine DEF IInv

\* A step marks its frame, whose depth its predicate has, and the callers in its
\* coroutine, which are less deep.
LEMMA ResumeKeepsIInv ==
    ASSUME IInv, NEW mode \in Modes, Resume(mode)
    PROVE  IInv'
<1>. DEFINE steps == mode \in {"Step", "StepIn"} \/ (mode = "StepOut" /\ Depth > 0)
            p == [step |-> mode, line |-> Top.line, depth |-> Depth]
<1>1. /\ stop' = NoStop /\ lastMode' = mode /\ event' = NoEvent
      /\ stop # NoStop
      /\ UNCHANGED <<isActive, tables>>
      /\ steps => debugStepPredicate' = p /\ stack' = Marked
      /\ ~steps => UNCHANGED <<debugStepPredicate, stack>>
  BY DEF Resume
<1>2. stack # <<>>
  BY <1>1 DEF IInv, TypeOK
<1>3. event'.hook # "line" /\ stop'.by \notin {"Step", "StepOut"}
  BY <1>1 DEF NoEvent, NoStop
<1>4. /\ debugStepPredicate' \in Predicate \cup {NoPredicate}
      /\ stack' \in Seq(Frame) /\ Len(stack') <= MaxDepth
      /\ BottomsOK' /\ MarksOK'
  <2>1. CASE steps
    <3>. HIDE DEF p
    <3>1. stack' = Marked /\ debugStepPredicate' = p
      BY <1>1, <2>1
    <3>2. /\ Depth \in Nat /\ Depth = Len(stack) - Top.bottom /\ Len(stack) \in Nat
          /\ Top.line \in Nat /\ Top.bottom \in Nat
      BY <1>2, DepthOK DEF Frame
    <3>3. p \in Predicate
      BY <2>1, <3>2 DEF p, Predicate, Steps
    <3>4. ASSUME NEW i \in 1 .. Len(stack)
          PROVE  /\ Marked[i] \in Frame
                 /\ Marked[i].bottom = stack[i].bottom
                 /\ Marked[i].mark = "here" => i = Len(stack)
                 /\ Marked[i].mark = "caller" => i < Len(stack) /\ stack[i].bottom = Top.bottom
      <4>1. stack[i] \in Frame
        BY FramesOK
      <4>2. PICK m \in Marks :
               /\ Marked[i] = [stack[i] EXCEPT !.mark = m]
               /\ m = "here" => i = Len(stack)
               /\ m = "caller" => i # Len(stack) /\ stack[i].bottom = Top.bottom
        BY DEF Marked, Marks
      <4>. QED  BY <3>2, <4>1, <4>2 DEF Frame
    <3>5. Len(stack') = Len(stack) /\ stack' \in Seq(Frame)
      BY <3>1, <3>2, <3>4 DEF Marked
    <3>6. BottomsOK'
      BY <3>1, <3>4, <3>5 DEF IInv, BottomsOK
    <3>7. MarksOK'
      <4>1. ASSUME NEW i \in 1 .. Len(stack)
            PROVE  /\ Marked[i].mark = "here" => i - Marked[i].bottom = Depth
                   /\ Marked[i].mark = "caller" => i - Marked[i].bottom < Depth
        BY <3>2, <3>4, <4>1 DEF Top
      <4>. QED  BY <3>1, <3>5, <4>1 DEF MarksOK, p
    <3>. QED  BY <3>1, <3>3, <3>5, <3>6, <3>7 DEF IInv, TypeOK
  <2>2. CASE ~steps
    BY <1>1, <2>2 DEF IInv, TypeOK, BottomsOK, MarksOK
  <2>. QED  BY <2>1, <2>2
<1>5. TypeOK'
  BY <1>1, <1>4, NoEventOK DEF IInv, TypeOK, tables
<1>. QED  BY <1>1, <1>3, <1>4, <1>5, TablesStay, NotALine DEF IInv
----------------------------------------------------------------------------
(* The theorems.                                                            *)

\* IInv is inductive.
LEMMA StepKeepsIInv ==
    ASSUME IInv, [Next]_vars
    PROVE  IInv'
<1>1. CASE EnableDebug \/ DisableDebug
  BY <1>1, SwitchKeepsIInv
<1>2. CASE Session
  BY <1>2, SetBreakpointsKeepsIInv, SetFunctionBreakpointsKeepsIInv DEF Session
<1>3. CASE Lua
  <2>1. ASSUME NEW line \in Lines, HitLine(line) PROVE IInv'
    BY <2>1, HitLineKeepsIInv
  <2>2. ASSUME NEW line \in Lines, NEW read \in BOOLEAN,
               HitStep(line, read) \/ PassLine(line, read)
        PROVE  IInv'
    BY <2>2, HitStepKeepsIInv, PassLineKeepsIInv
  <2>3. ASSUME NEW p \in Paths, NEW line \in Lines, NEW name \in Names,
               HitFunction(p, line, name)
        PROVE  IInv'
    BY <2>3, HitFunctionKeepsIInv
  <2>4. ASSUME NEW p \in Paths, NEW line \in Lines, NEW name \in Names \cup {NoName},
               NEW what \in {"Lua", "main"}, NEW resumed \in BOOLEAN,
               PassCall(p, line, name, what, resumed)
        PROVE  IInv'
    <3>1. p \in Paths \cup {C} /\ line \in Nat
      BY ControllerAssumption
    <3>. QED  BY <2>4, <3>1, PassCallKeepsIInv
  <2>5. ASSUME NEW name \in Names \cup {NoName}, NEW resumed \in BOOLEAN,
               PassCall(C, 0, name, "C", resumed)
        PROVE  IInv'
    <3>1. C \in Paths \cup {C} /\ 0 \in Nat
      OBVIOUS
    <3>. QED  BY <2>5, <3>1, PassCallKeepsIInv
  <2>6. ASSUME NEW depth \in 0 .. MaxDepth, Leave(depth) PROVE IInv'
    BY <2>6, LeaveKeepsIInv
  <2>7. ASSUME NEW mode \in Modes, Resume(mode) PROVE IInv'
    BY <2>7, ResumeKeepsIInv
  <2>. QED  BY <1>3, <2>1, <2>2, <2>3, <2>4, <2>5, <2>6, <2>7 DEF Lua
<1>4. CASE UNCHANGED vars
  <2>. USE <1>4 DEF vars, tables, IInv
  <2>1. TypeOK'
    BY DEF TypeOK
  <2>2. TablesOK'
    BY TablesStay
  <2>3. BottomsOK' /\ MarksOK'
    BY DEF BottomsOK, MarksOK
  <2>4. StopsWhereAsked' /\ StepStaysOut' /\ StepStops'
    BY DEF StopsWhereAsked, StepStaysOut, StepStops, Asked, Told, Top
  <2>. QED  BY <2>1, <2>2, <2>3, <2>4
<1>. QED  BY <1>1, <1>2, <1>3, <1>4 DEF Next

\* IInv holds in every state.
LEMMA Invariant == Spec => []IInv
BY InitIInv, StepKeepsIInv, PTL DEF Spec

\* The controller's variables keep their types, and a stop is one of a frame.
THEOREM TypeCorrect == Spec => []TypeOK
BY Invariant, PTL DEF IInv

\* Whatever requests come in whatever order, at any time of the program, the table
\* holds the lines of the last request for each source under the ids of its response.
THEOREM TablesAnswer == Spec => []TablesMatchAnswers
BY Invariant, PTL DEF IInv, TablesOK

\* However often breakpoints of either kind are replaced, no id is given twice.
THEOREM IdsAreUnique == Spec => []IdsUnique
BY Invariant, PTL DEF IInv, TablesOK

\* Whatever the program does and whenever the tables change, it stops at a line for
\* a breakpoint that was asked for there, and passes none it could read the source of.
THEOREM LinesStopWhereAsked == Spec => []StopsWhereAsked
BY Invariant, PTL DEF IInv

\* Whatever is called, resumed, returned from or thrown, a next or a stepOut does not
\* end inside a call the frame it was taken from made in its coroutine.
THEOREM StepsStayOut == Spec => []StepStaysOut
BY Invariant, PTL DEF IInv

\* Nor does it run past the line of its frame or of a caller at which it is due.
THEOREM StepsAreNotMissed == Spec => []StepStops
BY Invariant, PTL DEF IInv

----------------------------------------------------------------------------
(* Refinement: the controller is a StopDecision.                            *)

\* A stop that is entered is not NoStop, nor a predicate that is installed NoPredicate.
LEMMA KindsOfStops ==
    /\ \A by \in Kinds \cup Steps : \A n : [by |-> by, id |-> n] # NoStop
    /\ \A mode \in Modes : \A l, d : [step |-> mode, line |-> l, depth |-> d] # NoPredicate
BY DEF Kinds, Steps, Modes, NoStop, NoPredicate

\* Each step of the controller is a step of the decision, or none.
LEMMA DecisionStep ==
    ASSUME IInv, [Next]_vars
    PROVE  [Decision!Next]_(Decision!dvars)
<1>. DEFINE armed == {k \in Kinds : \/ k = "source" /\ sourceBreakpoints # {}
                                    \/ k = "function" /\ functionBreakpoints # {}}
            stepping == debugStepPredicate # NoPredicate
            held == stop # NoStop
<1>1. ASSUME armed' \in SUBSET Kinds, UNCHANGED <<stop, debugStepPredicate>>
      PROVE  Decision!SetBreakpoints
  BY <1>1 DEF Decision!SetBreakpoints
<1>2. ASSUME UNCHANGED <<tables, stop, debugStepPredicate>>
      PROVE  UNCHANGED Decision!dvars
  BY <1>2 DEF tables, Decision!dvars
<1>3. ASSUME stop = NoStop, stop' # NoStop, armed # {}, UNCHANGED <<tables, debugStepPredicate>>
      PROVE  Decision!HitBreakpoint
  BY <1>3 DEF tables, Decision!HitBreakpoint
<1>4. CASE EnableDebug \/ DisableDebug
  BY <1>2, <1>4 DEF EnableDebug, DisableDebug
<1>5. CASE Session
  <2>1. UNCHANGED <<stop, debugStepPredicate>>
    BY <1>5 DEF Session, SetBreakpoints, SetFunctionBreakpoints
  <2>2. armed' \in SUBSET Kinds
    OBVIOUS
  <2>. QED  BY <1>1, <2>1, <2>2 DEF Decision!Next
<1>6. ASSUME NEW line \in Lines, HitLine(line)
      PROVE  Decision!Next
  <2>1. sourceBreakpoints # {} /\ "source" \in Kinds
    BY <1>6 DEF HitLine, BreakpointsAt, Kinds
  <2>2. armed # {}
    BY <2>1
  <2>3. stop' # NoStop
    BY <1>6, KindsOfStops DEF HitLine, Kinds
  <2>4. stop = NoStop /\ UNCHANGED <<tables, debugStepPredicate>>
    BY <1>6 DEF HitLine, ReachLine
  <2>. QED  BY <1>3, <2>2, <2>3, <2>4 DEF Decision!Next
<1>7. ASSUME NEW line \in Lines, NEW read \in BOOLEAN, HitStep(line, read)
      PROVE  Decision!Next
  <2>1. stop = NoStop /\ UNCHANGED tables
    BY <1>7 DEF HitStep, ReachLine
  <2>2. debugStepPredicate.step \in Steps /\ debugStepPredicate # NoPredicate
    BY <1>7 DEF HitStep, StepDone, Steps, NoPredicate
  <2>3. stop' # NoStop /\ debugStepPredicate' = NoPredicate
    BY <1>7, <2>2, KindsOfStops DEF HitStep
  <2>4. Decision!HitStep
    BY <2>1, <2>2, <2>3 DEF tables, Decision!HitStep
  <2>. QED  BY <2>4 DEF Decision!Next
<1>8. ASSUME NEW line \in Lines, NEW read \in BOOLEAN, PassLine(line, read)
      PROVE  UNCHANGED Decision!dvars
  BY <1>2, <1>8 DEF PassLine, ReachLine
<1>9. ASSUME NEW p \in Paths, NEW line \in Lines, NEW name \in Names, HitFunction(p, line, name)
      PROVE  Decision!Next
  <2>1. functionBreakpoints # {} /\ "function" \in Kinds
    BY <1>9 DEF HitFunction, BreakpointsOn, Kinds
  <2>2. armed # {}
    BY <2>1
  <2>3. stop' # NoStop
    BY <1>9, KindsOfStops DEF HitFunction, Kinds
  <2>4. stop = NoStop /\ UNCHANGED <<tables, debugStepPredicate>>
    BY <1>9 DEF HitFunction, Call
  <2>. QED  BY <1>3, <2>2, <2>3, <2>4 DEF Decision!Next
<1>10. ASSUME NEW source, NEW line, NEW name, NEW what, NEW resumed,
              PassCall(source, line, name, what, resumed)
       PROVE  UNCHANGED Decision!dvars
  BY <1>2, <1>10 DEF PassCall, Call
<1>11. ASSUME NEW depth, Leave(depth)
       PROVE  UNCHANGED Decision!dvars
  BY <1>2, <1>11 DEF Leave
<1>12. ASSUME NEW mode \in Modes, Resume(mode)
       PROVE  Decision!Next
  <2>1. stop # NoStop /\ stop' = NoStop /\ UNCHANGED tables
    BY <1>12 DEF Resume
  <2>2. debugStepPredicate' # NoPredicate \/ UNCHANGED debugStepPredicate
    BY <1>12, KindsOfStops DEF Resume
  <2>3. stepping' \in {stepping, TRUE}
    BY <2>2
  <2>4. Decision!Resume
    BY <2>1, <2>3 DEF tables, Decision!Resume
  <2>. QED  BY <2>4 DEF Decision!Next
<1>13. CASE Lua
  BY <1>6, <1>7, <1>8, <1>9, <1>10, <1>11, <1>12, <1>13 DEF Lua
<1>14. CASE UNCHANGED vars
  BY <1>2, <1>14 DEF vars
<1>. QED  BY <1>4, <1>5, <1>13, <1>14 DEF Next

\* The controller holds the program for nothing but a breakpoint that is set or a
\* step that is pending, which is what DebugSession takes of it.
THEOREM ImplementsTheDecision == Spec => ImplementsStopDecision
<1>1. Init => Decision!Init
  BY DEF Init, Decision!Init
<1>2. IInv /\ [Next]_vars => [Decision!Next]_(Decision!dvars)
  BY DecisionStep
<1>. QED  BY <1>1, <1>2, Invariant, PTL DEF Spec, ImplementsStopDecision, Decision!Spec
=============================================================================
