----------------------- MODULE LuaStackTraceProvider -----------------------
(***************************************************************************)
(* src/debug/luastacktraceprovider.cpp: what a stopped program is shown as. *)
(* One provider lives as long as one stop, in which the program does not    *)
(* move.  Frames are listed once; the variables of a frame and the children *)
(* of a table become entries, with a reference id each, as the client asks  *)
(* for them.  An entry keeps no Lua value: its value is read again along    *)
(* the path of keys that leads to it.                                       *)
(*                                                                          *)
(* Tables have no metatables here, and what a value looks like is left out. *)
(***************************************************************************)
EXTENDS Integers, Sequences, FiniteSets, Functions

CONSTANTS
    Sources, NoSource,  \* source files, with one for C; a null ar->source
    Tables, Plain, Nil, \* tables; any other value; nil
    Keys,               \* keys of tables
    Numbers, NoNames,   \* keys that are numbers; keys neither number nor string
    Shown,              \* the key a child is listed under: a number becomes an int
    CString,            \* the key that is looked up: a name ends at its first NUL
    Stacks, Heaps,      \* what a program may hold when it stops
    UnsignedRange,      \* how many values an unsigned has
    MaxVariables        \* bound: entries of one stop

Values == Tables \cup {Plain, Nil}
NoKey  == "no key"

\* The line of a level is an int, and -1 for a C function.
Level == [source : Sources, line : -1 .. UnsignedRange - 1,
          locals : Seq([hidden : BOOLEAN, value : Values])]
Heap  == [Tables -> Seq([key : Keys, value : Values])]

ASSUME ProviderAssumption ==
    /\ NoSource \notin Sources /\ Tables \cap {Plain, Nil} = {}
    /\ Numbers \cup NoNames \subseteq Keys
    /\ Numbers \cap NoNames = {} /\ NoKey \notin Keys
    /\ Shown \in [Keys -> Keys] /\ CString \in [Keys -> Keys]
    /\ \A k \in Keys : Shown[k] \in Numbers <=> k \in Numbers
    /\ Stacks \subseteq Seq(Level) \ {<<>>}
    /\ Heaps \subseteq Heap
    /\ UnsignedRange \in Nat \ {0} /\ MaxVariables \in Nat

\* Dap::StackFrame and Dap::Variable, as far as anything depends on them.
StackFrame == [source : Sources \cup {NoSource}, line : 0 .. UnsignedRange - 1]
Variable   == [value : Values, reference : 0 .. MaxVariables,
               named : Nat, indexed : Nat]
NoVariable == [value |-> Nil, reference |-> -1, named |-> 0, indexed |-> 0]

\* A variable entry belongs to a frame, to a local of a frame, or to a key of
\* the table that another entry stands for.
VariableEntry == [parentFrame : Nat, parent : Nat, indexOnFrame : Nat,
                  key : Keys \cup {NoKey}, info : Variable \cup {NoVariable}]

VARIABLES
    stack,          \* the Lua stack, innermost level first
    heap,           \* the entries of each table, in the order of lua_next
    arSource,       \* source of the hook's lua_Debug
    stackFrames,    \* _stackFrames; the id of a frame is its position
    scopes,         \* per frame, the reference of its one scope, or 0
    variables,      \* _variables; the reference id of an entry is its position
    answer          \* history: the children last told, and to which request

program == <<stack, heap, arSource>>
vars == <<program, stackFrames, scopes, variables, answer>>

NoAnswer == [reference |-> 0, filter |-> "", children |-> <<>>]

TypeOK ==
    /\ stack \in Stacks /\ heap \in Heaps
    /\ arSource \in Sources \cup {NoSource}
    /\ stackFrames \in Seq(StackFrame)
    /\ scopes \in [DOMAIN stack -> 0 .. Len(variables)]
    /\ variables \in Seq(VariableEntry) /\ Len(variables) <= MaxVariables
    /\ answer.reference \in 0 .. Len(variables)
    /\ \A i \in DOMAIN answer.children : answer.children[i] \in DOMAIN variables

\* CheckBreakpoints has filled in ar for the innermost level, unless it found
\* ar->source null and a step stopped the program all the same.
Init ==
    /\ stack \in Stacks /\ heap \in Heaps
    /\ arSource \in {stack[1].source, NoSource}
    /\ stackFrames = <<>> /\ variables = <<>>
    /\ scopes = [level \in DOMAIN stack |-> 0]
    /\ answer = NoAnswer

----------------------------------------------------------------------------
\* Mutants of StackFrameEntry: the line stays signed; it is that of the hook.
StackFrameEntry_Signed(level) ==
    [source |-> arSource, line |-> IF arSource = NoSource THEN 0 ELSE stack[level].line]

StackFrameEntry_TopLine(level) ==
    [source |-> arSource,
     line   |-> IF arSource = NoSource THEN 0 ELSE stack[1].line % UnsignedRange]

\* lua_getinfo is asked for "nl": the line is the level's, the source stays that
\* of the hook (and so does what, which decides the name of the frame).  The line
\* of a C function is -1.  Where ar->source was null what may never have been filled
\* in, and strcmp reads it all the same: that decides a name, which is left out, or
\* ends the program, and any behaviour of Spec may end.
StackFrameEntry(level) ==
    [source |-> arSource,
     line   |-> IF arSource = NoSource THEN 0 ELSE stack[level].line % UnsignedRange]

\* The arguments startFrame and levels are ignored.
GetStackTrace ==
    /\ stackFrames' = IF stackFrames # <<>> THEN stackFrames
                      ELSE [level \in DOMAIN stack |-> StackFrameEntry(level)]
    /\ answer' = NoAnswer
    /\ UNCHANGED <<program, scopes, variables>>

----------------------------------------------------------------------------
ScopeEntry(frame) ==
    [parentFrame |-> frame, parent |-> 0, indexOnFrame |-> 0, key |-> NoKey,
     info |-> NoVariable]

\* Mutant of LocalEntry: locals are numbered from 0.
LocalEntry_FromZero(parent, n) ==
    [ScopeEntry(0) EXCEPT !.parent = parent, !.indexOnFrame = n - 1]

LocalEntry(parent, n) == [ScopeEntry(0) EXCEPT !.parent = parent, !.indexOnFrame = n]
ChildEntry(parent, key) == [ScopeEntry(0) EXCEPT !.parent = parent, !.key = key]

\* The members of a finite set of positions, lowest first.
InOrder(positions) ==
    CHOOSE s \in Surjection(1 .. Cardinality(positions), positions) :
        \A i, j \in DOMAIN s : i < j => s[i] < s[j]

\* The locals of a frame whose name does not begin with "(*".
Visible(frame) == {n \in DOMAIN stack[frame].locals : ~stack[frame].locals[n].hidden}

\* Mutant of VisibleLocals: temporaries are not counted.
VisibleLocals_Compact(frame) == InOrder(1 .. Cardinality(Visible(frame)))

VisibleLocals(frame) == InOrder(Visible(frame))

\* One scope with one entry per local, made the first time.
GetScopes(frame) ==
    /\ frame \in DOMAIN stackFrames
    /\ LET scope  == Len(variables) + 1
           locals == VisibleLocals(frame)
       IN IF scopes[frame] # 0 THEN UNCHANGED <<variables, scopes>>
          ELSE /\ scope + Len(locals) <= MaxVariables
               /\ variables' = Append(variables, ScopeEntry(frame))
                                 \o [i \in DOMAIN locals |-> LocalEntry(scope, locals[i])]
               /\ scopes' = [scopes EXCEPT ![frame] = scope]
    /\ answer' = NoAnswer
    /\ UNCHANGED <<program, stackFrames>>

----------------------------------------------------------------------------
\* lua_gettable.
Get(table, key) ==
    LET found == {i \in DOMAIN heap[table] : heap[table][i].key = key}
    IN IF found = {} THEN Nil ELSE heap[table][CHOOSE i \in found : TRUE].value

\* PushChildValue of the parent of an entry: a local of a frame, or what the table
\* of the parent has under the key.  The entry of a scope has no value, and a parent
\* that is no table fails an Assert.
ChildValue(entries, entry, parentValue) ==
    IF entry.parentFrame # 0 THEN Nil
    ELSE IF entry.indexOnFrame # 0
    THEN stack[entries[entry.parent].parentFrame].locals[entry.indexOnFrame].value
    ELSE IF parentValue \in Tables THEN Get(parentValue, CString[entry.key])
    ELSE Nil

\* The path of keys is followed from the frame down.
ValueIn(entries) ==
    LET value[id \in DOMAIN entries] ==
          ChildValue(entries, entries[id], value[entries[id].parent])
    IN value

IsIndexed(entry) == entry.key \in Numbers

\* _indexedChildren and _namedChildren.
ChildIds(entries, id, filter) ==
    {i \in DOMAIN entries :
        /\ entries[i].parent = id
        /\ filter = "indexed" => IsIndexed(entries[i])
        /\ filter = "named" => ~IsIndexed(entries[i])}
Children(entries, id, filter) == InOrder(ChildIds(entries, id, filter))

\* AddChild for every key of a table that has a name, in the order of lua_next.
HasName(table) == {n \in DOMAIN heap[table] : heap[table][n].key \notin NoNames}
NewChildren(id, value) ==
    LET listed == IF value \in Tables THEN InOrder(HasName(value)) ELSE <<>>
    IN [i \in DOMAIN listed |-> ChildEntry(id, Shown[heap[value][listed[i]].key])]

\* Mutant of Described: every child is counted as named.
Described_CountsAll(entries, id, value) ==
    LET all     == Len(Children(entries, id, ""))
        indexed == Len(Children(entries, id, "indexed"))
    IN [entries EXCEPT ![id].info =
          [value |-> value, named |-> all, indexed |-> indexed,
           reference |-> IF all = 0 THEN 0 ELSE id]]

\* What the client is told of an entry: only one with children has a reference.
Described(entries, id, value) ==
    LET named   == Len(Children(entries, id, "named"))
        indexed == Len(Children(entries, id, "indexed"))
    IN [entries EXCEPT ![id].info =
          [value |-> value, named |-> named, indexed |-> indexed,
           reference |-> IF named + indexed = 0 THEN 0 ELSE id]]

\* Mutant of GetVariable: an entry is evaluated every time it is asked for.
GetVariable_Again(entries, id) ==
    LET value == ValueIn(entries)[id]
    IN Described(entries \o NewChildren(id, value), id, value)

GetVariable(entries, id) ==
    LET value == ValueIn(entries)[id]
    IN IF entries[id].info # NoVariable THEN entries
       ELSE Described(entries \o NewChildren(id, value), id, value)

\* GetVariable of one entry after the other.
GetEach(entries, ids) ==
    LET after[n \in 0 .. Len(ids)] ==
          IF n = 0 THEN entries ELSE GetVariable(after[n - 1], ids[n])
    IN after[Len(ids)]

Filters == {"", "indexed", "named"}

\* GetChildren: the indexed children first.  start and count are ignored.
Requested(reference, filter) ==
    (IF filter = "named" THEN <<>> ELSE Children(variables, reference, "indexed"))
      \o (IF filter = "indexed" THEN <<>> ELSE Children(variables, reference, "named"))

\* The references the client has been told.
Told == {scopes[frame] : frame \in DOMAIN scopes}
          \cup {variables[id].info.reference : id \in DOMAIN variables}

GetVariables(reference, filter) ==
    /\ reference > 0
    /\ variables' = GetEach(variables, Requested(reference, filter))
    /\ Len(variables') <= MaxVariables
    /\ answer' = [reference |-> reference, filter |-> filter,
                  children |-> Requested(reference, filter)]
    /\ UNCHANGED <<program, stackFrames, scopes>>

Next ==
    \/ GetStackTrace
    \/ \E frame \in DOMAIN stackFrames : GetScopes(frame)
    \/ \E reference \in Told, filter \in Filters : GetVariables(reference, filter)

Spec == Init /\ [][Next]_vars

----------------------------------------------------------------------------
Evaluated(id) == variables[id].info # NoVariable

\* What each entry was made for is still there when its children are read: the
\* Asserts of PushChildValue hold on every path of keys.
PathsAreTables ==
    \A id \in DOMAIN variables :
        LET entry == variables[id] IN
        entry.parent # 0 =>
            IF entry.indexOnFrame # 0 THEN variables[entry.parent].parentFrame # 0
            ELSE ValueIn(variables)[entry.parent] \in Tables

\* An answer lists, in whatever order the client explored the tree: every visible
\* local of the frame once; or, of a table, a child for each key that has a name
\* and is listed under itself, and no child with a value the table does not have
\* under the child's key, unless the key does not survive as a C string.
AnswersAreTrue ==
    answer.filter = "" =>
        LET children == {answer.children[i] : i \in DOMAIN answer.children}
            parent   == variables[answer.reference]
            Shows(id, key) == variables[id].key = key
        IN
        answer.reference # 0 =>
          IF parent.parentFrame # 0
          THEN {[n |-> variables[id].indexOnFrame, v |-> variables[id].info.value] : id \in children}
                 = {[n |-> n, v |-> stack[parent.parentFrame].locals[n].value] :
                      n \in Visible(parent.parentFrame)}
          ELSE /\ \A i \in DOMAIN heap[parent.info.value] :
                    LET key == heap[parent.info.value][i].key IN
                    key \notin NoNames /\ Shown[key] = key
                      => \E id \in children : Shows(id, key)
               /\ \A id \in children :
                    CString[variables[id].key] = variables[id].key
                      => variables[id].info.value = Get(parent.info.value, variables[id].key)

\* The counts a client was told of a variable are the numbers of children that a
\* request with either filter returns, whenever it comes.  (Every request returns all
\* of them: start and count are ignored.)
CountsMatch ==
    \A id \in DOMAIN variables :
        Evaluated(id) =>
            LET info == variables[id].info IN
            /\ info.named = Len(Children(variables, id, "named"))
            /\ info.indexed = Len(Children(variables, id, "indexed"))
            /\ info.reference \in {0, id}
            /\ (info.reference = 0) = (Children(variables, id, "") = <<>>)

\* What the client was told stays true for the stop: a later request neither
\* changes an entry it has shown nor gives it more or fewer children.
ShownStays ==
    \A id \in DOMAIN variables :
        /\ id \in DOMAIN variables'
        /\ [variables'[id] EXCEPT !.info = NoVariable]
             = [variables[id] EXCEPT !.info = NoVariable]
        /\ Evaluated(id) =>
             /\ variables'[id].info = variables[id].info
             /\ Children(variables', id, "") = Children(variables, id, "")
ShownNeverChanges == [][ShownStays]_vars

FrameIsTrue(level) ==
    /\ stackFrames[level].source = stack[level].source
    /\ stackFrames[level].line = stack[level].line

\* Where the functions on the stack are all of one file, and none is a C
\* function, every frame is shown where it is.
OneSourceShownTrue ==
    /\ arSource # NoSource
    /\ \A level \in DOMAIN stack : stack[level].source = stack[1].source /\ stack[level].line > 0
    => \A level \in DOMAIN stackFrames : FrameIsTrue(level)

----------------------------------------------------------------------------
(* A statement of the repository that the code does not keep.               *)

\* The source of a stack frame, if there is one, is the source of the frame.
FrameShowsItsSource ==
    \A level \in DOMAIN stackFrames :
        stackFrames[level].source \in {NoSource, stack[level].source}
=============================================================================
