-------------------------- MODULE StackTraceProofs --------------------------
(***************************************************************************)
(* Theorems about LuaStackTraceProvider, for every program that stops and   *)
(* every client that explores it.                                           *)
(*                                                                          *)
(* The inductive invariant IInv says that the entries are a tree: a scope   *)
(* holds the visible locals of its frame, a table that was told holds its   *)
(* named keys, a variable was told with its value and its children counted. *)
(* Values are read along paths of keys, by recursion over the entries; a    *)
(* parent is made before its children, so the recursion is shown to have a  *)
(* solution, and later entries to leave it as it is (ValueOfEach,           *)
(* ValueStays).  Induction is over a set of numbers (Induction).            *)
(***************************************************************************)
EXTENDS LuaStackTraceProvider, FiniteSetTheorems, TLAPS

----------------------------------------------------------------------------
\* The program does not move in a stop, and its frames are listed whole, from the
\* lua_Debug that the hook had filled in.
FramesInv ==
    /\ stack \in Stacks
    /\ arSource \in {stack[1].source, NoSource}
    /\ stackFrames # <<>> =>
         stackFrames = [level \in DOMAIN stack |-> StackFrameEntry(level)]

----------------------------------------------------------------------------
(* The tree of entries that the client has explored.                        *)

\* Dap::Variable and VariableEntry without the bound on the number of entries.
Info  == [value : Values, reference : Nat, named : Nat, indexed : Nat]
Entry == [parentFrame : Nat, parent : Nat, indexOnFrame : Nat,
          key : Keys \cup {NoKey}, info : Info \cup {NoVariable}]

\* Entries of scopes, and those whose variable the client was told.
IsScope(entry) == entry.parentFrame # 0
IsTold(entry)  == entry.info # NoVariable

\* The three kinds of entry: the scope of a frame, a local in a scope, a child of a table.
ScopeAt(entries, id) ==
    LET entry == entries[id] IN
    /\ IsScope(entry) /\ entry.parentFrame \in DOMAIN stack
    /\ entry.parent = 0 /\ entry.indexOnFrame = 0 /\ entry.key = NoKey
    /\ ~IsTold(entry)

LocalAt(entries, id) ==
    LET entry == entries[id] IN
    /\ entry.parentFrame = 0 /\ entry.key = NoKey
    /\ entry.parent \in 1 .. id - 1 /\ IsScope(entries[entry.parent])
    /\ entry.indexOnFrame \in Visible(entries[entry.parent].parentFrame)

\* Only the table of an entry that was told has children.
ChildAt(entries, id) ==
    LET entry == entries[id] IN
    /\ entry.parentFrame = 0 /\ entry.indexOnFrame = 0 /\ entry.key \in Keys
    /\ entry.parent \in 1 .. id - 1
    /\ ~IsScope(entries[entry.parent]) /\ IsTold(entries[entry.parent])

\* Every entry is of one of the three kinds, and made after its parent.
Shaped(entries) ==
    /\ entries \in Seq(Entry)
    /\ \A id \in DOMAIN entries :
         ScopeAt(entries, id) \/ LocalAt(entries, id) \/ ChildAt(entries, id)

\* The parent of a key is a table.
OfTables(entries) ==
    \A id \in DOMAIN entries :
        entries[id].key # NoKey => ValueIn(entries)[entries[id].parent] \in Tables

\* A variable was told with its value and the numbers of its children.
ToldWell(entries, id) ==
    LET info    == entries[id].info
        named   == Len(Children(entries, id, "named"))
        indexed == Len(Children(entries, id, "indexed"))
    IN info = [value |-> ValueIn(entries)[id], named |-> named, indexed |-> indexed,
               reference |-> IF named + indexed = 0 THEN 0 ELSE id]

\* The children of a scope, or of a table that was told, are all there.
HasLocals(entries, id) ==
    \A n \in Visible(entries[id].parentFrame) :
        \E child \in DOMAIN entries :
            entries[child].parent = id /\ entries[child].indexOnFrame = n

HasKeys(entries, id) ==
    LET value == ValueIn(entries)[id] IN
    value \in Tables =>
      \A n \in HasName(value) :
          \E child \in DOMAIN entries :
              entries[child].parent = id /\ entries[child].key = Shown[heap[value][n].key]

Complete(entries) ==
    \A id \in DOMAIN entries :
        /\ IsScope(entries[id]) => HasLocals(entries, id)
        /\ IsTold(entries[id]) => ToldWell(entries, id) /\ HasKeys(entries, id)

Tree(entries) == Shaped(entries) /\ OfTables(entries) /\ Complete(entries)

\* What the client may ask for the children of.
HasReference(entries, id) ==
    IsScope(entries[id]) \/ (IsTold(entries[id]) /\ entries[id].info.reference = id)

\* The scopes are entries, and an answer lists the children of its reference, all told.
ScopesInv ==
    /\ scopes \in [DOMAIN stack -> 0 .. Len(variables)]
    /\ \A frame \in DOMAIN stack :
         scopes[frame] # 0 => variables[scopes[frame]].parentFrame = frame

AnswerInv ==
    answer # NoAnswer =>
      /\ answer.filter \in Filters /\ answer.reference \in DOMAIN variables
      /\ HasReference(variables, answer.reference)
      /\ answer.children = Requested(answer.reference, answer.filter)
      /\ \A i \in DOMAIN answer.children : IsTold(variables[answer.children[i]])

\* The inductive invariant: the frames, the tree with every child where it belongs, and
\* what the client holds of it, the scopes and the last answer.
IInv ==
    /\ FramesInv
    /\ heap \in Heaps
    /\ Tree(variables) /\ Len(variables) <= MaxVariables
    /\ ScopesInv /\ AnswerInv

----------------------------------------------------------------------------
(* Sets of numbers.                                                         *)

\* The order of the numbers as the relation the library speaks of.
LEMMA LessIsRelated ==
    ASSUME NEW m \in Nat, NEW n \in Nat, m < n
    PROVE  <<m, n>> \in OpToRel(<, Nat)
  BY DEF OpToRel

\* Induction over a set of numbers.
LEMMA Induction ==
    ASSUME NEW S, 0 \in S, \A n \in Nat : n \in S => n + 1 \in S
    PROVE  \A n \in Nat : n \in S
<1>. SUFFICES ASSUME Nat \ S # {}
              PROVE  FALSE
  OBVIOUS
<1>1. \E n \in Nat \ S : \A m \in Nat \ S : ~ (<<m, n>> \in OpToRel(<, Nat))
  <2>1. \A T : T \subseteq Nat /\ T # {}
               => \E n \in T : \A m \in T : ~ (<<m, n>> \in OpToRel(<, Nat))
    BY NatLessThanWellFounded, WFMin, Zenon
  <2>2. Nat \ S \subseteq Nat
    OBVIOUS
  <2>. QED  BY <2>1, <2>2, Zenon
<1>2. PICK n \in Nat \ S : \A m \in Nat \ S : ~ (<<m, n>> \in OpToRel(<, Nat))
  BY <1>1, Zenon
<1>3. n \in Nat /\ n # 0 /\ n - 1 \in Nat /\ n - 1 < n /\ (n - 1) + 1 = n
  OBVIOUS
<1>4. n - 1 \notin Nat \ S
  BY <1>2, <1>3, LessIsRelated, Zenon
<1>5. n - 1 \in S
  BY <1>3, <1>4, Zenon
<1>6. n \in S
  BY <1>3, <1>5, Zenon
<1>. QED  BY <1>2, <1>6, Zenon

\* A sequence lists a set in order.
Lists(s, S) ==
    /\ s \in Surjection(1 .. Cardinality(S), S)
    /\ \A i, j \in DOMAIN s : i < j => s[i] < s[j]

\* One more position, higher than all, goes to the end.
LEMMA ListOneMore ==
    ASSUME NEW n \in Nat, NEW S \in SUBSET (1 .. n + 1), n + 1 \in S,
           NEW s, Lists(s, S \ {n + 1}), IsFiniteSet(S \ {n + 1})
    PROVE  /\ IsFiniteSet(S)
           /\ \E t : Lists(t, S)
<1>. DEFINE R == S \ {n + 1}
            c == Cardinality(R)
            t == [i \in 1 .. c + 1 |-> IF i = c + 1 THEN n + 1 ELSE s[i]]
<1>1. c \in Nat /\ R \subseteq 1 .. n
  BY FS_CardinalityType
<1>2. IsFiniteSet(S) /\ Cardinality(S) = c + 1
  <2>1. S = R \cup {n + 1} /\ n + 1 \notin R
    OBVIOUS
  <2>. HIDE DEF R
  <2>2. IsFiniteSet(R \cup {n + 1}) /\ Cardinality(R \cup {n + 1}) = c + 1
    BY <2>1, FS_AddElement
  <2>. QED  BY <2>1, <2>2
<1>3. /\ s \in [1 .. c -> R] /\ \A p \in R : \E i \in 1 .. c : s[i] = p
      /\ \A i, j \in 1 .. c : i < j => s[i] < s[j]
  BY DEF Lists, Surjection
<1>. HIDE DEF c
<1>4. t \in [1 .. c + 1 -> S]
  BY <1>1, <1>3
<1>5. \A p \in S : \E i \in 1 .. c + 1 : t[i] = p
  <2>. SUFFICES ASSUME NEW p \in S
                PROVE  \E i \in 1 .. c + 1 : t[i] = p
    OBVIOUS
  <2>1. CASE p = n + 1
    BY <1>1, <2>1
  <2>2. CASE p # n + 1
    <3>1. PICK i \in 1 .. c : s[i] = p
      BY <1>3, <2>2
    <3>. QED  BY <1>1, <3>1
  <2>. QED  BY <2>1, <2>2
<1>6. \A i, j \in 1 .. c + 1 : i < j => t[i] < t[j]
  <2>. SUFFICES ASSUME NEW i \in 1 .. c + 1, NEW j \in 1 .. c + 1, i < j
                PROVE  t[i] < t[j]
    OBVIOUS
  <2>1. i \in 1 .. c /\ i # c + 1
    BY <1>1
  <2>2. s[i] \in R /\ s[i] \in 1 .. n /\ t[i] = s[i]
    BY <1>1, <1>3, <2>1
  <2>3. CASE j = c + 1
    BY <1>1, <2>2, <2>3
  <2>4. CASE j # c + 1
    <3>1. j \in 1 .. c /\ t[j] = s[j]
      BY <1>1, <2>4
    <3>. QED  BY <1>3, <2>1, <2>2, <3>1
  <2>. QED  BY <2>3, <2>4
<1>7. Lists(t, S)
  <2>. HIDE DEF t
  <2>. QED  BY <1>2, <1>4, <1>5, <1>6 DEF Lists, Surjection
<1>. QED  BY <1>2, <1>7

\* Every finite set of positions has a list in order.
LEMMA ListExists ==
    ASSUME NEW n \in Nat, NEW S \in SUBSET (1 .. n)
    PROVE  IsFiniteSet(S) /\ \E s : Lists(s, S)
<1>. DEFINE Good == {m \in Nat : \A T \in SUBSET (1 .. m) : IsFiniteSet(T) /\ \E s : Lists(s, T)}
<1>1. 0 \in Good
  <2>. SUFFICES ASSUME NEW T \in SUBSET (1 .. 0)
                PROVE  IsFiniteSet(T) /\ \E s : Lists(s, T)
    OBVIOUS
  <2>. T = {}
    OBVIOUS
  <2>1. IsFiniteSet({}) /\ Cardinality({}) = 0
    BY FS_EmptySet
  <2>2. Lists(<<>>, {})
    BY <2>1 DEF Lists, Surjection
  <2>. QED  BY <2>1, <2>2
<1>2. ASSUME NEW m \in Good
      PROVE  m + 1 \in Good
  <2>. SUFFICES ASSUME NEW T \in SUBSET (1 .. m + 1)
                PROVE  IsFiniteSet(T) /\ \E s : Lists(s, T)
    OBVIOUS
  <2>1. T \ {m + 1} \in SUBSET (1 .. m)
    OBVIOUS
  <2>2. IsFiniteSet(T \ {m + 1}) /\ \E s : Lists(s, T \ {m + 1})
    BY <2>1
  <2>3. CASE m + 1 \in T
    BY <2>2, <2>3, ListOneMore
  <2>4. CASE m + 1 \notin T
    <3>1. T \ {m + 1} = T
      BY <2>4
    <3>. QED  BY <2>2, <3>1
  <2>. QED  BY <2>3, <2>4
<1>3. \A m \in Nat : m \in Good
  <2>1. \A m \in Nat : m \in Good => m + 1 \in Good
    BY <1>2
  <2>. HIDE DEF Good
  <2>. QED  BY <1>1, <2>1, Induction, Zenon
<1>. QED  BY <1>3

\* InOrder lists its positions: each of them, and nothing else.
LEMMA InOrderLists ==
    ASSUME NEW n \in Nat, NEW S \in SUBSET (1 .. n)
    PROVE  /\ InOrder(S) \in Seq(S)
           /\ Len(InOrder(S)) \in Nat /\ DOMAIN InOrder(S) = 1 .. Len(InOrder(S))
           /\ \A i \in DOMAIN InOrder(S) : InOrder(S)[i] \in S
           /\ \A p \in S : \E i \in DOMAIN InOrder(S) : InOrder(S)[i] = p
           /\ Len(InOrder(S)) = 0 <=> S = {}
           /\ InOrder(S) = <<>> <=> S = {}
<1>1. IsFiniteSet(S) /\ \E s : Lists(s, S)
  BY ListExists
<1>2. Cardinality(S) \in Nat
  BY <1>1, FS_CardinalityType
<1>3. Lists(InOrder(S), S)
  BY <1>1 DEF InOrder, Lists
<1>4. /\ InOrder(S) \in [1 .. Cardinality(S) -> S]
      /\ \A p \in S : \E i \in 1 .. Cardinality(S) : InOrder(S)[i] = p
  BY <1>3 DEF Lists, Surjection
<1>5. InOrder(S) \in Seq(S) /\ Len(InOrder(S)) = Cardinality(S)
  BY <1>2, <1>4
<1>6. Cardinality(S) = 0 <=> S = {}
  BY <1>1, FS_EmptySet
<1>. QED  BY <1>2, <1>4, <1>5, <1>6
----------------------------------------------------------------------------
(* The value of an entry.                                                   *)

\* An element of a sequence over a set is in the set.
LEMMA ElementOf ==
    ASSUME NEW T, NEW s \in Seq(T), NEW i \in DOMAIN s
    PROVE  s[i] \in T
  OBVIOUS

\* The program has the types its constants promise, and so has what is read from it.
LEMMA ProgramTyped ==
    ASSUME stack \in Stacks, heap \in Heaps
    PROVE  /\ stack \in Seq(Level) /\ heap \in Heap
           /\ \A frame \in DOMAIN stack, n \in Nat :
                n \in Visible(frame) => stack[frame].locals[n].value \in Values
           /\ \A table \in Tables : \A key : Get(table, key) \in Values
<1>1. stack \in Seq(Level) /\ heap \in Heap
  BY ProviderAssumption
<1>2. ASSUME NEW frame \in DOMAIN stack, NEW n \in Visible(frame)
      PROVE  stack[frame].locals[n].value \in Values
  <2>1. stack[frame] \in Level
    BY <1>1
  <2>2. stack[frame].locals \in Seq([hidden : BOOLEAN, value : Values])
    BY <2>1 DEF Level
  <2>3. n \in DOMAIN stack[frame].locals
    BY DEF Visible
  <2>4. stack[frame].locals[n] \in [hidden : BOOLEAN, value : Values]
    BY <2>2, <2>3, ElementOf, Zenon
  <2>. QED  BY <2>4
<1>3. ASSUME NEW table \in Tables, NEW key
      PROVE  Get(table, key) \in Values
  <2>. DEFINE found == {i \in DOMAIN heap[table] : heap[table][i].key = key}
  <2>1. heap[table] \in Seq([key : Keys, value : Values])
    BY <1>1 DEF Heap
  <2>2. \A i \in DOMAIN heap[table] : heap[table][i] \in [key : Keys, value : Values]
    BY <2>1, ElementOf, Zenon
  <2>3. \A i \in found : heap[table][i].value \in Values
    BY <2>2
  <2>. HIDE DEF found
  <2>4. found # {} => (CHOOSE i \in found : TRUE) \in found
    OBVIOUS
  <2>5. Nil \in Values
    BY DEF Values
  <2>6. Get(table, key) = IF found = {} THEN Nil
                          ELSE heap[table][CHOOSE i \in found : TRUE].value
    BY DEF Get, found
  <2>. QED  BY <2>3, <2>4, <2>5, <2>6
<1>. QED  BY <1>1, <1>2, <1>3

\* An entry's own value needs that of its parent only if the parent was made before.
LEMMA ValueFromParent ==
    ASSUME NEW e, Shaped(e), NEW id \in DOMAIN e, NEW u, NEW v,
           e[id].parent \in 1 .. id - 1 => u = v
    PROVE  ChildValue(e, e[id], u) = ChildValue(e, e[id], v)
<1>1. CASE ScopeAt(e, id)
  BY <1>1 DEF ScopeAt, IsScope, ChildValue
<1>2. CASE LocalAt(e, id)
  BY <1>2 DEF LocalAt, ChildValue, Visible
<1>3. CASE ChildAt(e, id)
  BY <1>3 DEF ChildAt, ChildValue
<1>. QED  BY <1>1, <1>2, <1>3 DEF Shaped

\* A function of the entries that gives each its value, and there is one.
Solves(f, e, n) ==
    /\ f \in [1 .. n -> Values]
    /\ \A id \in 1 .. n : f[id] = ChildValue(e, e[id], f[e[id].parent])

\* PushChildValue of an entry of the tree pushes a value, whatever its parent holds.
LEMMA ChildValueTyped ==
    ASSUME stack \in Stacks, heap \in Heaps,
           NEW e, Shaped(e), NEW id \in DOMAIN e, NEW v
    PROVE  ChildValue(e, e[id], v) \in Values
<1>1. Nil \in Values
  BY DEF Values
<1>2. CASE LocalAt(e, id)
  <2>1. e \in Seq(Entry) /\ e[id].parent \in DOMAIN e
    BY <1>2 DEF LocalAt, Shaped
  <2>2. e[e[id].parent].parentFrame \in DOMAIN stack
    BY <1>2, <2>1 DEF Shaped, LocalAt, ScopeAt, ChildAt, IsScope
  <2>3. e[id].indexOnFrame \in Nat
    <3>1. e[id] \in Entry
      BY <2>1, ElementOf, Zenon
    <3>. QED  BY <3>1 DEF Entry
  <2>. QED  BY <1>1, <1>2, <2>2, <2>3, ProgramTyped DEF LocalAt, ChildValue
<1>3. CASE ~LocalAt(e, id)
  BY <1>1, <1>3, ProgramTyped DEF Shaped, ScopeAt, ChildAt, ChildValue, IsScope
<1>. QED  BY <1>2, <1>3

\* A solution for the first entries extends to the next one, as its parent comes before.
LEMMA SolveOneMore ==
    ASSUME stack \in Stacks, heap \in Heaps,
           NEW e, Shaped(e), NEW n \in Nat, n + 1 <= Len(e), NEW f, Solves(f, e, n)
    PROVE  \E g : Solves(g, e, n + 1)
<1>. DEFINE g == [id \in 1 .. n + 1 |-> ChildValue(e, e[id], f[e[id].parent])]
<1>1. e \in Seq(Entry) /\ DOMAIN e = 1 .. Len(e) /\ Len(e) \in Nat
  BY DEF Shaped
<1>2. g \in [1 .. n + 1 -> Values]
  BY <1>1, ChildValueTyped
<1>3. \A id \in 1 .. n : g[id] = f[id]
  BY DEF Solves
<1>4. ASSUME NEW id \in 1 .. n + 1
      PROVE  g[id] = ChildValue(e, e[id], g[e[id].parent])
  <2>1. e[id].parent \in 1 .. id - 1 => e[id].parent \in 1 .. n
    OBVIOUS
  <2>2. e[id].parent \in 1 .. id - 1 => f[e[id].parent] = g[e[id].parent]
    BY <1>3, <2>1
  <2>3. id \in DOMAIN e
    BY <1>1
  <2>4. g[id] = ChildValue(e, e[id], f[e[id].parent])
    OBVIOUS
  <2>. HIDE DEF g
  <2>. QED  BY <2>2, <2>3, <2>4, ValueFromParent
<1>5. Solves(g, e, n + 1)
  <2>. HIDE DEF g
  <2>. QED  BY <1>2, <1>4 DEF Solves
<1>. QED  BY <1>5

\* So the recursion along the paths of keys has a solution.
LEMMA SolutionExists ==
    ASSUME stack \in Stacks, heap \in Heaps, NEW e, Shaped(e)
    PROVE  \E f : Solves(f, e, Len(e))
<1>. DEFINE Good == {n \in Nat : n <= Len(e) => \E f : Solves(f, e, n)}
<1>0. Len(e) \in Nat
  BY DEF Shaped
<1>1. 0 \in Good
  <2>1. Solves([id \in 1 .. 0 |-> Nil], e, 0)
    BY DEF Solves
  <2>. QED  BY <2>1
<1>2. ASSUME NEW n \in Nat, n \in Good
      PROVE  n + 1 \in Good
  <2>. SUFFICES ASSUME n + 1 <= Len(e)
                PROVE  \E f : Solves(f, e, n + 1)
    OBVIOUS
  <2>1. PICK f : Solves(f, e, n)
    BY <1>0, <1>2
  <2>. QED  BY <2>1, SolveOneMore
<1>3. \A n \in Nat : n \in Good
  <2>. HIDE DEF Good
  <2>. QED  BY <1>1, <1>2, Induction, Zenon
<1>. QED  BY <1>0, <1>3

\* ValueIn is what its recursion says: one value for every entry.
LEMMA ValueOfEach ==
    ASSUME stack \in Stacks, heap \in Heaps, NEW e, Shaped(e), NEW id \in DOMAIN e
    PROVE  /\ ValueIn(e)[id] \in Values
           /\ ValueIn(e)[id] = ChildValue(e, e[id], ValueIn(e)[e[id].parent])
<1>. DEFINE Is(f) == f = [i \in DOMAIN e |-> ChildValue(e, e[i], f[e[i].parent])]
<1>1. DOMAIN e = 1 .. Len(e)
  BY DEF Shaped
<1>2. PICK f : Solves(f, e, Len(e))
  BY SolutionExists
<1>3. Is(f)
  BY <1>1, <1>2 DEF Solves
<1>4. ValueIn(e) = CHOOSE g : Is(g)
  BY DEF ValueIn
<1>5. Is(ValueIn(e))
  <2>1. \E g : Is(g)
    BY <1>3
  <2>. HIDE DEF Is
  <2>. QED  BY <1>4, <2>1, Zenon
<1>6. ValueIn(e)[id] = ChildValue(e, e[id], ValueIn(e)[e[id].parent])
  BY <1>5
<1>. QED  BY <1>6, ChildValueTyped

----------------------------------------------------------------------------
(* More entries, and more that is known of them.                            *)

\* The same entry, before and after it is told; and more entries, none moved.
SamePlace(entry, later) ==
    /\ later.parentFrame = entry.parentFrame /\ later.parent = entry.parent
    /\ later.indexOnFrame = entry.indexOnFrame /\ later.key = entry.key

Extends(e, d) ==
    /\ Len(e) <= Len(d)
    /\ \A id \in DOMAIN e : SamePlace(e[id], d[id])

\* An entry reads the same from its parent after others are made.
LEMMA SameChildValue ==
    ASSUME NEW e, NEW d, Shaped(e), Extends(e, d), NEW id \in DOMAIN e, NEW v
    PROVE  ChildValue(d, d[id], v) = ChildValue(e, e[id], v)
<1>1. SamePlace(e[id], d[id])
  BY DEF Extends
<1>2. CASE LocalAt(e, id)
  <2>1. e[id].parent \in DOMAIN e
    BY <1>2 DEF LocalAt, Shaped
  <2>2. SamePlace(e[e[id].parent], d[e[id].parent])
    BY <2>1 DEF Extends
  <2>. QED  BY <1>1, <1>2, <2>2 DEF SamePlace, ChildValue, LocalAt, Visible
<1>3. CASE ~LocalAt(e, id)
  BY <1>1, <1>3 DEF SamePlace, ChildValue, Shaped, ScopeAt, ChildAt, IsScope
<1>. QED  BY <1>2, <1>3

\* An entry keeps its value when others are made, whatever they are.
LEMMA ValueStays ==
    ASSUME stack \in Stacks, heap \in Heaps,
           NEW e, NEW d, Shaped(e), Shaped(d), Extends(e, d), NEW id \in DOMAIN e
    PROVE  ValueIn(d)[id] = ValueIn(e)[id]
<1>. DEFINE Good == {n \in Nat : \A i \in DOMAIN e : i <= n => ValueIn(d)[i] = ValueIn(e)[i]}
<1>0. /\ DOMAIN e = 1 .. Len(e) /\ Len(e) \in Nat /\ Len(d) \in Nat
      /\ DOMAIN d = 1 .. Len(d) /\ Len(e) <= Len(d)
  BY DEF Shaped, Extends
<1>1. 0 \in Good
  BY <1>0
<1>2. ASSUME NEW n \in Nat, n \in Good
      PROVE  n + 1 \in Good
  <2>. SUFFICES ASSUME NEW i \in DOMAIN e, i = n + 1
                PROVE  ValueIn(d)[i] = ValueIn(e)[i]
    BY <1>0, <1>2
  <2>1. /\ ValueIn(e)[i] = ChildValue(e, e[i], ValueIn(e)[e[i].parent])
        /\ ValueIn(d)[i] = ChildValue(d, d[i], ValueIn(d)[d[i].parent])
    BY <1>0, ValueOfEach
  <2>2. d[i].parent = e[i].parent
    BY DEF Extends, SamePlace
  <2>3. ValueIn(d)[i] = ChildValue(e, e[i], ValueIn(d)[e[i].parent])
    BY <2>1, <2>2, SameChildValue
  <2>4. e[i].parent \in 1 .. i - 1 => ValueIn(d)[e[i].parent] = ValueIn(e)[e[i].parent]
    BY <1>0, <1>2
  <2>. QED  BY <2>1, <2>3, <2>4, ValueFromParent
<1>3. \A n \in Nat : n \in Good
  <2>. HIDE DEF Good
  <2>. QED  BY <1>1, <1>2, Induction, Zenon
<1>. QED  BY <1>0, <1>3

\* No filter finds more or fewer children.
ChildrenStay(e, d, id) ==
    \A filter \in Filters : ChildIds(d, id, filter) = ChildIds(e, id, filter)

\* What the client was told of an entry stays as it is.
Explores(e, d) ==
    /\ Extends(e, d)
    /\ \A id \in DOMAIN e :
         /\ IsTold(e[id]) => d[id].info = e[id].info
         /\ IsTold(e[id]) \/ IsScope(e[id]) => ChildrenStay(e, d, id)

\* What stays over each of two steps stays over both.
LEMMA ExploresMore ==
    ASSUME NEW c \in Seq(Entry), NEW d \in Seq(Entry), NEW e \in Seq(Entry),
           Explores(c, d), Explores(d, e)
    PROVE  Explores(c, e)
<1>1. DOMAIN c \subseteq DOMAIN d /\ Len(c) <= Len(e)
  BY DEF Explores, Extends
<1>2. Extends(c, e)
  BY <1>1 DEF Explores, Extends, SamePlace
<1>3. ASSUME NEW id \in DOMAIN c
      PROVE  /\ IsTold(c[id]) => e[id].info = c[id].info
             /\ IsTold(c[id]) \/ IsScope(c[id]) => ChildrenStay(c, e, id)
  <2>1. id \in DOMAIN d /\ d[id].parentFrame = c[id].parentFrame
    BY <1>1 DEF Explores, Extends, SamePlace
  <2>2. IsTold(c[id]) => d[id].info = c[id].info /\ IsTold(d[id])
    BY DEF Explores, IsTold
  <2>3. IsScope(c[id]) => IsScope(d[id])
    BY <2>1 DEF IsScope
  <2>. QED  BY <2>1, <2>2, <2>3 DEF Explores, ChildrenStay
<1>. QED  BY <1>2, <1>3 DEF Explores

\* Nothing changes where nothing is done.
LEMMA ExploresNothing ==
    ASSUME NEW e \in Seq(Entry)
    PROVE  Explores(e, e)
  BY DEF Explores, Extends, SamePlace, ChildrenStay

\* The children of an entry are positions of entries, so their order is a sequence.
LEMMA ChildrenAre ==
    ASSUME NEW e \in Seq(Entry), NEW id, NEW filter
    PROVE  LET children == Children(e, id, filter) IN
           /\ children \in Seq(ChildIds(e, id, filter))
           /\ Len(children) \in Nat /\ DOMAIN children = 1 .. Len(children)
           /\ \A i \in DOMAIN children : children[i] \in ChildIds(e, id, filter)
           /\ \A p \in ChildIds(e, id, filter) : \E i \in DOMAIN children : children[i] = p
           /\ Len(children) = 0 <=> ChildIds(e, id, filter) = {}
           /\ children = <<>> <=> ChildIds(e, id, filter) = {}
<1>1. ChildIds(e, id, filter) \in SUBSET (1 .. Len(e)) /\ Len(e) \in Nat
  BY DEF ChildIds
<1>. QED  BY <1>1, InOrderLists, Zenon DEF Children

----------------------------------------------------------------------------
(* A variable is told.                                                      *)

\* A table's new children have the keys it lists under a name.
LEMMA NewChildrenAre ==
    ASSUME stack \in Stacks, heap \in Heaps, NEW id \in Nat, NEW value \in Values
    PROVE  LET new == NewChildren(id, value) IN
           /\ new \in Seq(Entry) /\ Len(new) \in Nat /\ DOMAIN new = 1 .. Len(new)
           /\ \A j \in DOMAIN new :
                /\ value \in Tables
                /\ new[j].parentFrame = 0 /\ new[j].indexOnFrame = 0
                /\ new[j].parent = id /\ new[j].key \in Keys /\ ~IsTold(new[j])
           /\ value \in Tables =>
                \A n \in HasName(value) :
                   \E j \in DOMAIN new : new[j].key = Shown[heap[value][n].key]
<1>. DEFINE listed == IF value \in Tables THEN InOrder(HasName(value)) ELSE <<>>
            new == NewChildren(id, value)
<1>1. new = [i \in DOMAIN listed |-> ChildEntry(id, Shown[heap[value][listed[i]].key])]
  BY DEF NewChildren
<1>2. /\ Len(listed) \in Nat /\ DOMAIN listed = 1 .. Len(listed)
      /\ \A i \in DOMAIN listed : value \in Tables /\ listed[i] \in HasName(value)
      /\ value \in Tables => \A n \in HasName(value) : \E i \in DOMAIN listed : listed[i] = n
  <2>1. CASE value \in Tables
    <3>1. heap[value] \in Seq([key : Keys, value : Values])
      BY <2>1, ProgramTyped DEF Heap
    <3>2. HasName(value) \in SUBSET (1 .. Len(heap[value])) /\ Len(heap[value]) \in Nat
      BY <3>1 DEF HasName
    <3>3. listed = InOrder(HasName(value))
      BY <2>1
    <3>. HIDE DEF listed
    <3>. QED  BY <2>1, <3>2, <3>3, InOrderLists, Zenon
  <2>2. CASE value \notin Tables
    <3>1. listed = <<>>
      BY <2>2
    <3>. HIDE DEF listed
    <3>. QED  BY <2>2, <3>1
  <2>. QED  BY <2>1, <2>2
<1>. HIDE DEF listed
<1>3. ASSUME value \in Tables, NEW n \in HasName(value)
      PROVE  Shown[heap[value][n].key] \in Keys
  <2>1. heap[value] \in Seq([key : Keys, value : Values])
    BY <1>3, ProgramTyped DEF Heap
  <2>2. n \in DOMAIN heap[value]
    BY DEF HasName
  <2>3. heap[value][n] \in [key : Keys, value : Values]
    BY <2>1, <2>2, ElementOf, Zenon
  <2>. QED  BY <2>3, ProviderAssumption
<1>4. ASSUME NEW key \in Keys
      PROVE  LET child == ChildEntry(id, key) IN
             /\ child \in Entry
             /\ child.parentFrame = 0 /\ child.indexOnFrame = 0
             /\ child.parent = id /\ child.key = key /\ ~IsTold(child)
  BY DEF ChildEntry, ScopeEntry, Entry, IsTold
<1>5. ASSUME NEW j \in DOMAIN listed
      PROVE  /\ value \in Tables /\ new[j].key = Shown[heap[value][listed[j]].key]
             /\ new[j] \in Entry
             /\ new[j].parentFrame = 0 /\ new[j].indexOnFrame = 0
             /\ new[j].parent = id /\ new[j].key \in Keys /\ ~IsTold(new[j])
  <2>. DEFINE key == Shown[heap[value][listed[j]].key]
  <2>1. key \in Keys
    BY <1>2, <1>3
  <2>2. new[j] = ChildEntry(id, key)
    BY <1>1
  <2>. HIDE DEF new, key
  <2>3. value \in Tables
    BY <1>2
  <2>4. /\ new[j] \in Entry /\ new[j].key = key
        /\ new[j].parentFrame = 0 /\ new[j].indexOnFrame = 0
        /\ new[j].parent = id /\ ~IsTold(new[j])
    BY <1>4, <2>1, <2>2
  <2>. QED  BY <2>1, <2>3, <2>4 DEF key
<1>6. DOMAIN new = 1 .. Len(listed) /\ new \in [1 .. Len(listed) -> Entry]
  BY <1>1, <1>2, <1>5
<1>. HIDE DEF new
<1>7. new \in Seq(Entry) /\ Len(new) = Len(listed)
  BY <1>2, <1>6
<1>8. value \in Tables =>
        \A n \in HasName(value) : \E j \in DOMAIN new : new[j].key = Shown[heap[value][n].key]
  BY <1>2, <1>5, <1>6
<1>. QED  BY <1>2, <1>5, <1>6, <1>7, <1>8 DEF new

\* Of the entries that GetVariable leaves, as functions of their positions: those it
\* was given, of which the one asked for is now told, and the new children.
LEMMA GetVariableMakes ==
    ASSUME stack \in Stacks, heap \in Heaps, NEW e, Shaped(e),
           NEW id \in DOMAIN e, ~IsTold(e[id])
    PROVE  LET value == ValueIn(e)[id]
               new   == NewChildren(id, value)
               d     == GetVariable(e, id)
           IN
           /\ d \in Seq(Entry) /\ Len(d) = Len(e) + Len(new)
           /\ \A i \in DOMAIN e : SamePlace(e[i], d[i])
           /\ \A i \in DOMAIN e \ {id} : d[i] = e[i]
           /\ \A i \in DOMAIN d \ DOMAIN e :
                \E j \in DOMAIN new : i = Len(e) + j /\ d[i] = new[j]
           /\ \A j \in DOMAIN new : Len(e) + j \in DOMAIN d /\ d[Len(e) + j] = new[j]
           /\ LET named   == Len(Children(d, id, "named"))
                  indexed == Len(Children(d, id, "indexed"))
              IN d[id].info = [value |-> value, named |-> named, indexed |-> indexed,
                               reference |-> IF named + indexed = 0 THEN 0 ELSE id]
           /\ IsTold(d[id])
<1>. DEFINE value == ValueIn(e)[id]
            new   == NewChildren(id, value)
            m     == e \o new
            d     == GetVariable(e, id)
<1>1. /\ e \in Seq(Entry) /\ Len(e) \in Nat /\ DOMAIN e = 1 .. Len(e)
      /\ id \in Nat /\ id \in 1 .. Len(e) /\ value \in Values
  BY ValueOfEach DEF Shaped
<1>2. new \in Seq(Entry) /\ Len(new) \in Nat /\ DOMAIN new = 1 .. Len(new)
  <2>. HIDE DEF value
  <2>. QED  BY <1>1, NewChildrenAre
<1>3. d = Described(m, id, value)
  BY DEF GetVariable, IsTold
<1>. HIDE DEF value, new, d
<1>4. /\ m \in Seq(Entry) /\ Len(m) = Len(e) + Len(new)
      /\ DOMAIN m = 1 .. Len(e) + Len(new)
      /\ \A i \in DOMAIN e : m[i] = e[i]
      /\ \A j \in DOMAIN new : m[Len(e) + j] = new[j]
  BY <1>1, <1>2
<1>. HIDE DEF m
<1>5. PICK named, indexed :
        named = Len(Children(m, id, "named")) /\ indexed = Len(Children(m, id, "indexed"))
  OBVIOUS
<1>6. named \in Nat /\ indexed \in Nat
  BY <1>4, <1>5, ChildrenAre
<1>7. PICK info : info = [value |-> value, named |-> named, indexed |-> indexed,
                          reference |-> IF named + indexed = 0 THEN 0 ELSE id]
  OBVIOUS
<1>8. info \in Info /\ info # NoVariable
  <2>1. (IF named + indexed = 0 THEN 0 ELSE id) \in Nat
    BY <1>1
  <2>2. info \in Info
    BY <1>1, <1>6, <1>7, <2>1 DEF Info
  <2>3. info.reference \in Nat /\ NoVariable.reference = -1
    BY <2>2 DEF Info, NoVariable
  <2>. QED  BY <2>2, <2>3
<1>9. d = [m EXCEPT ![id].info = info]
  BY <1>3, <1>5, <1>7 DEF Described
<1>10. id \in DOMAIN m /\ m[id] \in Entry /\ m[id] = e[id]
  <2>1. id \in DOMAIN m
    BY <1>1, <1>2, <1>4
  <2>2. m[id] \in Entry
    BY <1>4, <2>1, ElementOf, Zenon
  <2>. QED  BY <1>1, <1>4, <2>1, <2>2
<1>11. PICK entry : entry = [m[id] EXCEPT !.info = info]
  OBVIOUS
<1>12. entry \in Entry /\ entry.info = info /\ SamePlace(m[id], entry)
  BY <1>8, <1>10, <1>11 DEF Entry, SamePlace
<1>13. d = [m EXCEPT ![id] = entry]
  BY <1>9, <1>11
<1>14. /\ d \in Seq(Entry) /\ Len(d) = Len(m) /\ DOMAIN d = DOMAIN m
       /\ d[id] = entry /\ \A i \in DOMAIN m \ {id} : d[i] = m[i]
  BY <1>4, <1>10, <1>12, <1>13
<1>15. \A i \in DOMAIN m : SamePlace(m[i], d[i])
  BY <1>12, <1>14 DEF SamePlace
<1>16. ASSUME NEW filter
       PROVE  Children(d, id, filter) = Children(m, id, filter)
  <2>1. ChildIds(d, id, filter) = ChildIds(m, id, filter)
    BY <1>14, <1>15 DEF ChildIds, SamePlace, IsIndexed
  <2>. QED  BY <2>1 DEF Children
<1>17. \A i \in DOMAIN e : SamePlace(e[i], d[i])
  BY <1>1, <1>2, <1>4, <1>15
<1>18. \A i \in DOMAIN e \ {id} : d[i] = e[i]
  BY <1>1, <1>2, <1>4, <1>14
<1>19. \A i \in DOMAIN d \ DOMAIN e :
         \E j \in DOMAIN new : i = Len(e) + j /\ d[i] = new[j]
  <2>. SUFFICES ASSUME NEW i \in DOMAIN d \ DOMAIN e
                PROVE  \E j \in DOMAIN new : i = Len(e) + j /\ d[i] = new[j]
    OBVIOUS
  <2>1. i - Len(e) \in DOMAIN new /\ i = Len(e) + (i - Len(e)) /\ i # id
    BY <1>1, <1>2, <1>4, <1>14
  <2>. QED  BY <1>4, <1>14, <2>1
<1>20. \A j \in DOMAIN new : Len(e) + j \in DOMAIN d /\ d[Len(e) + j] = new[j]
  BY <1>1, <1>2, <1>4, <1>14
<1>21. /\ d[id].info = [value |-> value, named |-> named, indexed |-> indexed,
                        reference |-> IF named + indexed = 0 THEN 0 ELSE id]
       /\ named = Len(Children(d, id, "named")) /\ indexed = Len(Children(d, id, "indexed"))
  BY <1>5, <1>7, <1>12, <1>14, <1>16
<1>22. IsTold(d[id])
  BY <1>8, <1>12, <1>14 DEF IsTold
<1>. QED  BY <1>4, <1>14, <1>17, <1>18, <1>19, <1>20, <1>21, <1>22 DEF value, new, d

\* GetVariable keeps the tree of entries a tree, in which what the client was told
\* of other entries stays, and the entry it is asked for is told.
LEMMA GetVariableKeepsTree ==
    ASSUME stack \in Stacks, heap \in Heaps, NEW e, Tree(e),
           NEW id \in DOMAIN e, ~IsScope(e[id])
    PROVE  LET d == GetVariable(e, id) IN
           Tree(d) /\ Explores(e, d) /\ IsTold(d[id])
<1>. DEFINE value == ValueIn(e)[id]
            new   == NewChildren(id, value)
            d     == GetVariable(e, id)
<1>1. CASE IsTold(e[id])
  <2>1. d = e
    BY <1>1 DEF GetVariable, IsTold
  <2>. QED  BY <1>1, <2>1, ExploresNothing DEF Tree, Shaped
<1>2. CASE ~IsTold(e[id])
  <2>1. /\ Shaped(e) /\ e \in Seq(Entry) /\ Len(e) \in Nat /\ DOMAIN e = 1 .. Len(e)
        /\ id \in Nat /\ id \in 1 .. Len(e) /\ value \in Values
    BY ValueOfEach DEF Tree, Shaped
  <2>. HIDE DEF value
  <2>2. /\ new \in Seq(Entry) /\ Len(new) \in Nat /\ DOMAIN new = 1 .. Len(new)
        /\ \A j \in DOMAIN new :
             /\ value \in Tables
             /\ new[j].parentFrame = 0 /\ new[j].indexOnFrame = 0
             /\ new[j].parent = id /\ new[j].key \in Keys /\ ~IsTold(new[j])
        /\ value \in Tables =>
             \A n \in HasName(value) : \E j \in DOMAIN new : new[j].key = Shown[heap[value][n].key]
    BY <2>1, NewChildrenAre
  <2>. HIDE DEF new
  <2>. HIDE DEF d
  <2>3. /\ d \in Seq(Entry) /\ Len(d) = Len(e) + Len(new)
        /\ \A i \in DOMAIN e : SamePlace(e[i], d[i])
        /\ \A i \in DOMAIN e \ {id} : d[i] = e[i]
        /\ \A i \in DOMAIN d \ DOMAIN e :
             \E j \in DOMAIN new : i = Len(e) + j /\ d[i] = new[j]
        /\ \A j \in DOMAIN new : Len(e) + j \in DOMAIN d /\ d[Len(e) + j] = new[j]
        /\ LET named   == Len(Children(d, id, "named"))
               indexed == Len(Children(d, id, "indexed"))
           IN d[id].info = [value |-> value, named |-> named, indexed |-> indexed,
                            reference |-> IF named + indexed = 0 THEN 0 ELSE id]
        /\ IsTold(d[id])
    BY <1>2, <2>1, GetVariableMakes DEF value, new, d
  <2>4. DOMAIN d = 1 .. Len(e) + Len(new) /\ DOMAIN e \subseteq DOMAIN d
    BY <2>1, <2>2, <2>3
  <2>5. Extends(e, d)
    BY <2>1, <2>2, <2>3 DEF Extends
  \* A new entry is the child of a table that is told, and not told itself.
  <2>6. ASSUME NEW i \in DOMAIN d \ DOMAIN e
        PROVE  /\ ChildAt(d, i) /\ d[i].parent = id /\ ~IsScope(d[i]) /\ ~IsTold(d[i])
               /\ value \in Tables
    <3>1. PICK j \in DOMAIN new : i = Len(e) + j /\ d[i] = new[j]
      BY <2>3
    <3>2. ~IsScope(d[id])
      BY <2>3 DEF IsScope, SamePlace
    <3>3. id \in 1 .. i - 1
      BY <2>1, <2>2, <3>1
    <3>. QED  BY <2>2, <2>3, <3>1, <3>2, <3>3 DEF ChildAt, IsScope
  <2>7. ASSUME NEW i \in DOMAIN e, IsTold(e[i]) \/ IsScope(e[i])
        PROVE  i # id /\ d[i] = e[i] /\ ChildrenStay(e, d, i)
    <3>1. i # id /\ d[i] = e[i]
      BY <1>2, <2>3, <2>7
    <3>2. ASSUME NEW filter \in Filters
          PROVE  ChildIds(d, i, filter) = ChildIds(e, i, filter)
      <4>1. \A c \in DOMAIN d \ DOMAIN e : d[c].parent # i
        BY <2>6, <3>1
      <4>. QED  BY <2>3, <2>4, <4>1 DEF ChildIds, SamePlace, IsIndexed
    <3>. QED  BY <3>1, <3>2 DEF ChildrenStay
  <2>8. Explores(e, d)
    BY <2>5, <2>7 DEF Explores
  <2>9. Shaped(d)
    <3>. SUFFICES ASSUME NEW i \in DOMAIN e
                  PROVE  ScopeAt(d, i) \/ LocalAt(d, i) \/ ChildAt(d, i)
      BY <2>3, <2>6 DEF Shaped
    <3>1. SamePlace(e[i], d[i])
      BY <2>3
    <3>2. e[i].parent \in 1 .. i - 1 => e[i].parent \in DOMAIN e
      BY <2>1
    <3>3. CASE ScopeAt(e, i)
      BY <2>7, <3>3 DEF ScopeAt
    <3>4. CASE LocalAt(e, i)
      <4>1. d[e[i].parent] = e[e[i].parent]
        BY <2>7, <3>2, <3>4 DEF LocalAt
      <4>. QED  BY <3>1, <3>4, <4>1 DEF LocalAt, SamePlace
    <3>5. CASE ChildAt(e, i)
      <4>1. d[e[i].parent] = e[e[i].parent]
        BY <2>7, <3>2, <3>5 DEF ChildAt
      <4>. QED  BY <3>1, <3>5, <4>1 DEF ChildAt, SamePlace
    <3>. QED  BY <2>1, <3>3, <3>4, <3>5 DEF Shaped
  <2>10. \A i \in DOMAIN e : ValueIn(d)[i] = ValueIn(e)[i]
    BY <2>1, <2>5, <2>9, ValueStays
  <2>11. OfTables(d)
    <3>. SUFFICES ASSUME NEW i \in DOMAIN d, d[i].key # NoKey
                  PROVE  ValueIn(d)[d[i].parent] \in Tables
      BY DEF OfTables
    <3>1. CASE i \in DOMAIN e
      <4>1. e[i].key # NoKey /\ d[i].parent = e[i].parent
        BY <2>3, <3>1 DEF SamePlace
      <4>2. e[i].parent \in DOMAIN e
        BY <2>1, <3>1, <4>1 DEF Shaped, ScopeAt, LocalAt, ChildAt
      <4>. QED  BY <2>10, <3>1, <4>1, <4>2 DEF Tree, OfTables
    <3>2. CASE i \notin DOMAIN e
      BY <2>1, <2>6, <2>10, <3>2 DEF value
    <3>. QED  BY <3>1, <3>2
  <2>12. Complete(d)
    <3>1. ASSUME NEW i \in DOMAIN d, IsScope(d[i])
          PROVE  HasLocals(d, i)
      <4>1. i \in DOMAIN e /\ IsScope(e[i])
        BY <2>3, <2>6, <3>1 DEF IsScope, SamePlace
      <4>2. HasLocals(e, i) /\ d[i] = e[i]
        BY <2>7, <4>1 DEF Tree, Complete
      <4>. QED  BY <2>3, <2>4, <4>2 DEF HasLocals, SamePlace
    <3>2. ASSUME NEW i \in DOMAIN e, IsTold(d[i]), i # id
          PROVE  ToldWell(d, i) /\ HasKeys(d, i)
      <4>1. d[i] = e[i] /\ IsTold(e[i])
        BY <2>3, <3>2
      <4>2. ToldWell(e, i) /\ HasKeys(e, i) /\ ChildrenStay(e, d, i)
        BY <2>7, <4>1 DEF Tree, Complete
      <4>3. ToldWell(d, i)
        <5>1. /\ Children(d, i, "named") = Children(e, i, "named")
              /\ Children(d, i, "indexed") = Children(e, i, "indexed")
          BY <4>2 DEF ChildrenStay, Filters, Children
        <5>. QED  BY <2>10, <4>1, <4>2, <5>1 DEF ToldWell
      <4>4. HasKeys(d, i)
        <5>1. ValueIn(d)[i] = ValueIn(e)[i]
          BY <2>10
        <5>. QED  BY <2>3, <2>4, <4>2, <5>1 DEF HasKeys, SamePlace
      <4>. QED  BY <4>3, <4>4
    <3>3. ToldWell(d, id)
      BY <2>1, <2>3, <2>10 DEF ToldWell, value
    <3>4. HasKeys(d, id)
      <4>. SUFFICES ASSUME value \in Tables, NEW n \in HasName(value)
                    PROVE  \E child \in DOMAIN d :
                              d[child].parent = id /\ d[child].key = Shown[heap[value][n].key]
        BY <2>1, <2>10 DEF HasKeys, value
      <4>1. PICK j \in DOMAIN new : new[j].key = Shown[heap[value][n].key]
        BY <2>2
      <4>2. Len(e) + j \in DOMAIN d /\ d[Len(e) + j] = new[j]
        BY <2>3
      <4>3. new[j].parent = id
        BY <2>2
      <4>. QED  BY <4>1, <4>2, <4>3
    <3>. QED  BY <2>6, <3>1, <3>2, <3>3, <3>4 DEF Complete
  <2>. QED  BY <2>3, <2>8, <2>9, <2>11, <2>12 DEF Tree, d
<1>. QED  BY <1>1, <1>2

\* The entries after each of some calls of GetVariable.
Chain(f, e, ids, n) ==
    /\ DOMAIN f = 0 .. n /\ f[0] = e
    /\ \A k \in 1 .. n : f[k] = GetVariable(f[k - 1], ids[k])

\* The calls can be made one after the other.
LEMMA ChainExists ==
    ASSUME NEW e, NEW ids, NEW n \in Nat
    PROVE  \E f : Chain(f, e, ids, n)
<1>. DEFINE Good == {k \in Nat : \E f : Chain(f, e, ids, k)}
<1>1. 0 \in Good
  <2>1. Chain([k \in 0 .. 0 |-> e], e, ids, 0)
    BY DEF Chain
  <2>. QED  BY <2>1
<1>2. ASSUME NEW k \in Nat, k \in Good
      PROVE  k + 1 \in Good
  <2>1. PICK f : Chain(f, e, ids, k)
    BY <1>2
  <2>. DEFINE g == [i \in 0 .. k + 1 |->
                      IF i = k + 1 THEN GetVariable(f[k], ids[k + 1]) ELSE f[i]]
  <2>2. DOMAIN g = 0 .. k + 1 /\ g[0] = f[0] /\ g[k + 1] = GetVariable(f[k], ids[k + 1])
    OBVIOUS
  <2>3. \A i \in 0 .. k : g[i] = f[i]
    OBVIOUS
  <2>. HIDE DEF g
  <2>4. ASSUME NEW i \in 1 .. k + 1
        PROVE  g[i] = GetVariable(g[i - 1], ids[i])
    <3>1. CASE i = k + 1
      <4>1. i - 1 = k /\ g[k] = f[k]
        BY <2>3, <3>1
      <4>. QED  BY <2>2, <3>1, <4>1
    <3>2. CASE i # k + 1
      <4>1. i \in 1 .. k /\ g[i] = f[i] /\ g[i - 1] = f[i - 1]
        BY <2>3, <3>2
      <4>. QED  BY <2>1, <4>1 DEF Chain
    <3>. QED  BY <3>1, <3>2
  <2>5. Chain(g, e, ids, k + 1)
    BY <2>1, <2>2, <2>4 DEF Chain
  <2>. QED  BY <2>5
<1>3. \A k \in Nat : k \in Good
  <2>. HIDE DEF Good
  <2>. QED  BY <1>1, <1>2, Induction, Zenon
<1>. QED  BY <1>3

\* GetEach is what its recursion says: the entries after the last call.
LEMMA GetEachChains ==
    ASSUME NEW e, NEW ids, Len(ids) \in Nat
    PROVE  \E f : Chain(f, e, ids, Len(ids)) /\ GetEach(e, ids) = f[Len(ids)]
<1>. DEFINE Is(f) == f = [n \in 0 .. Len(ids) |->
                            IF n = 0 THEN e ELSE GetVariable(f[n - 1], ids[n])]
            after == CHOOSE f : Is(f)
<1>1. PICK f : Chain(f, e, ids, Len(ids))
  BY ChainExists
<1>2. Is([n \in 0 .. Len(ids) |-> f[n]])
  BY <1>1 DEF Chain
<1>3. GetEach(e, ids) = after[Len(ids)]
  BY DEF GetEach
<1>4. Is(after)
  <2>. HIDE DEF Is
  <2>. QED  BY <1>2
<1>. HIDE DEF after
<1>5. Chain(after, e, ids, Len(ids))
  BY <1>4 DEF Chain
<1>. QED  BY <1>3, <1>5

\* Many variables are told like one.
LEMMA GetEachKeepsTree ==
    ASSUME stack \in Stacks, heap \in Heaps, NEW e, Tree(e),
           NEW ids, Len(ids) \in Nat, DOMAIN ids = 1 .. Len(ids),
           \A k \in 1 .. Len(ids) : ids[k] \in DOMAIN e /\ ~IsScope(e[ids[k]])
    PROVE  LET d == GetEach(e, ids) IN
           /\ Tree(d) /\ Explores(e, d)
           /\ \A k \in 1 .. Len(ids) : IsTold(d[ids[k]])
<1>1. PICK f : Chain(f, e, ids, Len(ids)) /\ GetEach(e, ids) = f[Len(ids)]
  BY GetEachChains
<1>. DEFINE Good == {n \in Nat : n <= Len(ids) =>
                       /\ Tree(f[n]) /\ Explores(e, f[n])
                       /\ \A k \in 1 .. n : IsTold(f[n][ids[k]])}
<1>2. 0 \in Good
  BY <1>1, ExploresNothing DEF Chain, Tree, Shaped
<1>3. ASSUME NEW n \in Nat, n \in Good
      PROVE  n + 1 \in Good
  <2>. SUFFICES ASSUME n + 1 <= Len(ids)
                PROVE  /\ Tree(f[n + 1]) /\ Explores(e, f[n + 1])
                       /\ \A k \in 1 .. n + 1 : IsTold(f[n + 1][ids[k]])
    OBVIOUS
  <2>1. /\ Tree(f[n]) /\ Explores(e, f[n])
        /\ \A k \in 1 .. n : IsTold(f[n][ids[k]])
    BY <1>3
  <2>. HIDE DEF Good
  <2>2. f[n + 1] = GetVariable(f[n], ids[n + 1])
    <3>1. n + 1 \in 1 .. Len(ids) /\ (n + 1) - 1 = n
      OBVIOUS
    <3>. QED  BY <1>1, <3>1 DEF Chain
  <2>3. \A k \in 1 .. n + 1 : ids[k] \in DOMAIN f[n] /\ ~IsScope(f[n][ids[k]])
    <3>1. DOMAIN e \subseteq DOMAIN f[n]
      BY <2>1 DEF Explores, Extends, Tree, Shaped
    <3>. SUFFICES ASSUME NEW k \in 1 .. n + 1
                  PROVE  ids[k] \in DOMAIN f[n] /\ ~IsScope(f[n][ids[k]])
      OBVIOUS
    <3>2. k \in 1 .. Len(ids)
      OBVIOUS
    <3>3. ids[k] \in DOMAIN e /\ ~IsScope(e[ids[k]])
      BY <3>2
    <3>4. SamePlace(e[ids[k]], f[n][ids[k]])
      BY <2>1, <3>3 DEF Explores, Extends
    <3>. QED  BY <3>1, <3>3, <3>4 DEF SamePlace, IsScope
  <2>4. Tree(f[n + 1]) /\ Explores(f[n], f[n + 1]) /\ IsTold(f[n + 1][ids[n + 1]])
    <3>1. ids[n + 1] \in DOMAIN f[n] /\ ~IsScope(f[n][ids[n + 1]])
      BY <2>3
    <3>. QED  BY <2>1, <2>2, <3>1, GetVariableKeepsTree
  <2>5. Explores(e, f[n + 1])
    BY <2>1, <2>4, ExploresMore DEF Tree, Shaped
  <2>6. ASSUME NEW k \in 1 .. n + 1
        PROVE  IsTold(f[n + 1][ids[k]])
    <3>1. CASE k = n + 1
      BY <2>4, <3>1
    <3>2. CASE k # n + 1
      <4>1. k \in 1 .. n /\ IsTold(f[n][ids[k]])
        BY <2>1, <3>2
      <4>. QED  BY <2>3, <2>4, <4>1 DEF Explores, IsTold
    <3>. QED  BY <3>1, <3>2
  <2>. QED  BY <2>4, <2>5, <2>6
<1>4. \A n \in Nat : n \in Good
  <2>. HIDE DEF Good
  <2>. QED  BY <1>2, <1>3, Induction, Zenon
<1>. QED  BY <1>1, <1>4

----------------------------------------------------------------------------
(* A scope is made.                                                         *)

\* The entries that GetScopes leaves the first time.
WithScope(e, frame) ==
    Append(e, ScopeEntry(frame))
      \o [i \in DOMAIN VisibleLocals(frame) |-> LocalEntry(Len(e) + 1, VisibleLocals(frame)[i])]

\* The scope is the next entry, and the visible locals of the frame follow it.
LEMMA WithScopeMakes ==
    ASSUME stack \in Stacks, NEW e \in Seq(Entry), NEW frame \in DOMAIN stack
    PROVE  LET d      == WithScope(e, frame)
               scope  == Len(e) + 1
               locals == VisibleLocals(frame)
           IN
           /\ d \in Seq(Entry) /\ Len(locals) \in Nat /\ Len(d) = scope + Len(locals)
           /\ \A i \in DOMAIN e : d[i] = e[i]
           /\ scope \in DOMAIN d /\ d[scope] = ScopeEntry(frame)
           /\ \A i \in scope + 1 .. Len(d) :
                \E n \in Visible(frame) : d[i] = LocalEntry(scope, n)
           /\ \A n \in Visible(frame) :
                \E i \in scope + 1 .. Len(d) : d[i] = LocalEntry(scope, n)
<1>. DEFINE d      == WithScope(e, frame)
            scope  == Len(e) + 1
            locals == VisibleLocals(frame)
            rest   == [i \in DOMAIN locals |-> LocalEntry(scope, locals[i])]
<1>1. stack \in Seq(Level) /\ stack[frame] \in Level
  BY ProviderAssumption
<1>2. Visible(frame) \in SUBSET (1 .. Len(stack[frame].locals)) /\ Len(stack[frame].locals) \in Nat
  BY <1>1 DEF Visible, Level
<1>3. /\ Len(locals) \in Nat /\ DOMAIN locals = 1 .. Len(locals)
      /\ \A i \in DOMAIN locals : locals[i] \in Visible(frame)
      /\ \A n \in Visible(frame) : \E i \in DOMAIN locals : locals[i] = n
  BY <1>2, InOrderLists, Zenon DEF VisibleLocals
<1>. HIDE DEF locals
<1>4. ScopeEntry(frame) \in Entry
  BY <1>1 DEF ScopeEntry, Entry
<1>5. Len(e) \in Nat /\ scope \in Nat
  OBVIOUS
<1>6. ASSUME NEW n \in Visible(frame)
      PROVE  LocalEntry(scope, n) \in Entry
  <2>1. n \in Nat
    BY <1>2
  <2>2. ScopeEntry(0) \in Entry
    BY DEF ScopeEntry, Entry
  <2>. QED  BY <1>5, <2>1, <2>2 DEF LocalEntry, Entry
<1>7. rest \in Seq(Entry) /\ Len(rest) = Len(locals) /\ DOMAIN rest = DOMAIN locals
  BY <1>3, <1>6
<1>8. \A i \in DOMAIN locals : rest[i] = LocalEntry(scope, locals[i])
  OBVIOUS
<1>9. d = Append(e, ScopeEntry(frame)) \o rest
  BY DEF WithScope, locals
<1>. HIDE DEF rest, d
<1>10. PICK head : head = Append(e, ScopeEntry(frame))
  OBVIOUS
<1>11. /\ head \in Seq(Entry) /\ Len(head) = scope
       /\ \A i \in DOMAIN e : i \in DOMAIN head /\ head[i] = e[i]
       /\ scope \in DOMAIN head /\ head[scope] = ScopeEntry(frame)
  BY <1>4, <1>10
<1>12. /\ d \in Seq(Entry) /\ Len(d) = scope + Len(locals)
       /\ \A i \in DOMAIN head : i \in DOMAIN d /\ d[i] = head[i]
       /\ \A i \in DOMAIN rest : scope + i \in scope + 1 .. Len(d) /\ d[scope + i] = rest[i]
       /\ \A i \in scope + 1 .. Len(d) : i - scope \in DOMAIN rest /\ d[i] = rest[i - scope]
  <2>. HIDE DEF scope
  <2>1. d = head \o rest /\ Len(d) = Len(head) + Len(rest)
    BY <1>7, <1>9, <1>10, <1>11
  <2>2. d \in Seq(Entry) /\ Len(d) = scope + Len(locals) /\ DOMAIN d = 1 .. Len(d)
    BY <1>7, <1>11, <2>1
  <2>3. \A i \in DOMAIN head : i \in DOMAIN d /\ d[i] = head[i]
    BY <1>5, <1>7, <1>11, <2>1
  <2>4. ASSUME NEW i \in DOMAIN rest
        PROVE  scope + i \in scope + 1 .. Len(d) /\ d[scope + i] = rest[i]
    BY <1>3, <1>5, <1>7, <1>11, <2>1
  <2>5. ASSUME NEW i \in scope + 1 .. Len(d)
        PROVE  i - scope \in DOMAIN rest /\ d[i] = rest[i - scope]
    BY <1>3, <1>5, <1>7, <1>11, <2>1, <2>2
  <2>. QED  BY <2>2, <2>3, <2>4, <2>5
<1>13. ASSUME NEW i \in scope + 1 .. Len(d)
       PROVE  \E n \in Visible(frame) : d[i] = LocalEntry(scope, n)
  <2>1. i - scope \in DOMAIN locals /\ d[i] = LocalEntry(scope, locals[i - scope])
    BY <1>7, <1>8, <1>12
  <2>. QED  BY <1>3, <2>1
<1>14. ASSUME NEW n \in Visible(frame)
       PROVE  \E i \in scope + 1 .. Len(d) : d[i] = LocalEntry(scope, n)
  <2>1. PICK i \in DOMAIN locals : locals[i] = n
    BY <1>3
  <2>2. scope + i \in scope + 1 .. Len(d) /\ d[scope + i] = LocalEntry(scope, n)
    BY <1>7, <1>8, <1>12, <2>1
  <2>. QED  BY <2>2
<1>. QED  BY <1>3, <1>11, <1>12, <1>13, <1>14 DEF d, locals

\* The tree stays a tree, with one more root that has all its children.
LEMMA WithScopeKeepsTree ==
    ASSUME stack \in Stacks, heap \in Heaps, NEW e, Tree(e), NEW frame \in DOMAIN stack
    PROVE  LET d == WithScope(e, frame) IN
           /\ Tree(d) /\ Explores(e, d)
           /\ Len(e) + 1 \in DOMAIN d /\ d[Len(e) + 1].parentFrame = frame
<1>. DEFINE d == WithScope(e, frame)
            scope == Len(e) + 1
<1>1. /\ Shaped(e) /\ e \in Seq(Entry) /\ Len(e) \in Nat /\ DOMAIN e = 1 .. Len(e)
      /\ scope \in Nat /\ frame \in Nat \ {0}
  <2>1. stack \in Seq(Level)
    BY ProviderAssumption
  <2>. QED  BY <2>1 DEF Tree, Shaped
<1>. HIDE DEF d
<1>2. PICK count \in Nat :
        /\ d \in Seq(Entry) /\ Len(d) = scope + count
        /\ \A i \in DOMAIN e : d[i] = e[i]
        /\ scope \in DOMAIN d /\ d[scope] = ScopeEntry(frame)
        /\ \A i \in scope + 1 .. Len(d) :
             \E n \in Visible(frame) : d[i] = LocalEntry(scope, n)
        /\ \A n \in Visible(frame) :
             \E i \in scope + 1 .. Len(d) : d[i] = LocalEntry(scope, n)
  BY <1>1, WithScopeMakes DEF d
<1>3. /\ d[scope].parentFrame = frame /\ d[scope].parent = 0 /\ ScopeAt(d, scope)
      /\ IsScope(d[scope]) /\ ~IsTold(d[scope]) /\ d[scope].key = NoKey
  BY <1>1, <1>2 DEF ScopeEntry, ScopeAt, IsScope, IsTold
<1>4. ASSUME NEW i \in scope + 1 .. Len(d)
      PROVE  /\ LocalAt(d, i) /\ d[i].parent = scope /\ ~IsScope(d[i]) /\ ~IsTold(d[i])
             /\ d[i].key = NoKey
  <2>1. PICK n \in Visible(frame) : d[i] = LocalEntry(scope, n)
    BY <1>2
  <2>2. /\ d[i].parentFrame = 0 /\ d[i].parent = scope /\ d[i].indexOnFrame = n
        /\ d[i].key = NoKey /\ d[i].info = NoVariable
    BY <2>1 DEF LocalEntry, ScopeEntry
  <2>3. scope \in 1 .. i - 1
    BY <1>1
  <2>. QED  BY <1>3, <2>2, <2>3 DEF LocalAt, IsScope, IsTold
<1>5. DOMAIN d = 1 .. Len(d) /\ Len(d) \in Nat /\ DOMAIN e \subseteq DOMAIN d
  BY <1>1, <1>2
<1>6. \A i \in DOMAIN d : i \in DOMAIN e \/ i = scope \/ i \in scope + 1 .. Len(d)
  BY <1>1, <1>5
<1>7. Extends(e, d)
  BY <1>1, <1>2 DEF Extends, SamePlace
<1>8. ASSUME NEW i \in DOMAIN e
      PROVE  ChildrenStay(e, d, i)
  <2>1. ASSUME NEW c \in DOMAIN d \ DOMAIN e
        PROVE  d[c].parent # i
    <3>1. d[c].parent = 0 \/ d[c].parent = scope
      BY <1>3, <1>4, <1>6
    <3>. QED  BY <1>1, <3>1
  <2>. QED  BY <1>2, <1>5, <2>1 DEF ChildrenStay, ChildIds
<1>9. Explores(e, d)
  BY <1>2, <1>7, <1>8 DEF Explores
<1>10. Shaped(d)
  <2>. SUFFICES ASSUME NEW i \in DOMAIN d
                PROVE  ScopeAt(d, i) \/ LocalAt(d, i) \/ ChildAt(d, i)
    BY <1>2 DEF Shaped
  <2>1. CASE i \in DOMAIN e
    <3>1. d[i] = e[i] /\ (e[i].parent \in 1 .. i - 1 => d[e[i].parent] = e[e[i].parent])
      BY <1>1, <1>2, <2>1
    <3>2. ScopeAt(e, i) \/ LocalAt(e, i) \/ ChildAt(e, i)
      BY <2>1, <1>1 DEF Shaped
    <3>. QED  BY <3>1, <3>2 DEF ScopeAt, LocalAt, ChildAt
  <2>. QED  BY <1>3, <1>4, <1>6, <2>1
<1>11. \A i \in DOMAIN e : ValueIn(d)[i] = ValueIn(e)[i]
  BY <1>1, <1>7, <1>10, ValueStays
<1>12. OfTables(d)
  <2>. SUFFICES ASSUME NEW i \in DOMAIN d, d[i].key # NoKey
                PROVE  ValueIn(d)[d[i].parent] \in Tables
    BY DEF OfTables
  <2>1. i \in DOMAIN e /\ d[i] = e[i]
    BY <1>2, <1>3, <1>4, <1>6
  <2>2. e[i].parent \in DOMAIN e
    BY <1>1, <2>1 DEF Shaped, ScopeAt, LocalAt, ChildAt
  <2>. QED  BY <1>11, <2>1, <2>2 DEF Tree, OfTables
<1>13. Complete(d)
  <2>1. ASSUME NEW i \in DOMAIN e, IsScope(d[i])
        PROVE  HasLocals(d, i)
    <3>1. HasLocals(e, i) /\ d[i] = e[i]
      BY <1>2, <2>1 DEF Tree, Complete
    <3>. QED  BY <1>2, <1>5, <3>1 DEF HasLocals
  <2>2. HasLocals(d, scope)
    <3>. SUFFICES ASSUME NEW n \in Visible(frame)
                  PROVE  \E child \in DOMAIN d :
                            d[child].parent = scope /\ d[child].indexOnFrame = n
      BY <1>3 DEF HasLocals
    <3>1. PICK i \in scope + 1 .. Len(d) : d[i] = LocalEntry(scope, n)
      BY <1>2
    <3>2. i \in DOMAIN d
      BY <1>1, <1>5
    <3>. QED  BY <3>1, <3>2 DEF LocalEntry, ScopeEntry
  <2>3. ASSUME NEW i \in DOMAIN e, IsTold(d[i])
        PROVE  ToldWell(d, i) /\ HasKeys(d, i)
    <3>1. d[i] = e[i] /\ ToldWell(e, i) /\ HasKeys(e, i) /\ ValueIn(d)[i] = ValueIn(e)[i]
      BY <1>2, <1>11, <2>3 DEF Tree, Complete
    <3>2. /\ Children(d, i, "named") = Children(e, i, "named")
          /\ Children(d, i, "indexed") = Children(e, i, "indexed")
      BY <1>8 DEF ChildrenStay, Filters, Children
    <3>3. ToldWell(d, i)
      BY <3>1, <3>2 DEF ToldWell
    <3>4. HasKeys(d, i)
      BY <1>2, <1>5, <3>1 DEF HasKeys
    <3>. QED  BY <3>3, <3>4
  <2>. QED  BY <1>3, <1>4, <1>6, <2>1, <2>2, <2>3 DEF Complete
<1>. QED  BY <1>2, <1>3, <1>9, <1>10, <1>12, <1>13 DEF Tree, d
----------------------------------------------------------------------------
(* The frames.                                                              *)

\* No frame is listed yet when the program stops.
LEMMA InitFrames ==
    ASSUME Init
    PROVE  FramesInv
  BY DEF Init, FramesInv

\* They are listed once, and no request moves the program.
LEMMA NextFrames ==
    ASSUME FramesInv, [Next]_vars
    PROVE  FramesInv'
<1>1. UNCHANGED <<stack, arSource>>
  BY DEF Next, GetStackTrace, GetScopes, GetVariables, vars, program
<1>2. CASE GetStackTrace
  BY <1>1, <1>2 DEF FramesInv, GetStackTrace, StackFrameEntry
<1>3. CASE \E frame \in DOMAIN stackFrames : GetScopes(frame)
  BY <1>1, <1>3 DEF FramesInv, GetScopes, StackFrameEntry
<1>4. CASE \E reference \in Told, filter \in Filters : GetVariables(reference, filter)
  BY <1>1, <1>4 DEF FramesInv, GetVariables, StackFrameEntry
<1>5. CASE UNCHANGED vars
  BY <1>1, <1>5 DEF FramesInv, vars, StackFrameEntry
<1>. QED  BY <1>2, <1>3, <1>4, <1>5 DEF Next

\* The line of a Lua function survives the conversion to unsigned.
LEMMA LineSurvives ==
    ASSUME NEW line \in 1 .. UnsignedRange - 1
    PROVE  line % UnsignedRange = line
  BY ProviderAssumption

\* The frames of functions of one file are shown where they are.
LEMMA OneSource ==
    ASSUME FramesInv
    PROVE  OneSourceShownTrue
<1>. SUFFICES ASSUME arSource # NoSource,
                     \A level \in DOMAIN stack :
                        stack[level].source = stack[1].source /\ stack[level].line > 0,
                     NEW level \in DOMAIN stackFrames
              PROVE  FrameIsTrue(level)
  BY DEF OneSourceShownTrue
<1>1. stackFrames = [l \in DOMAIN stack |-> StackFrameEntry(l)]
  BY DEF FramesInv
<1>2. level \in DOMAIN stack
  BY <1>1
<1>3. stackFrames[level] = [source |-> arSource, line |-> stack[level].line % UnsignedRange]
  BY <1>1, <1>2 DEF StackFrameEntry
<1>4. stackFrames[level].source = stack[level].source
  BY <1>2, <1>3 DEF FramesInv
<1>5. stack[level].line \in 1 .. UnsignedRange - 1
  <2>1. stack \in Seq(Level)
    BY ProviderAssumption DEF FramesInv
  <2>2. stack[level] \in Level
    BY <1>2, <2>1
  <2>. QED  BY <1>2, <2>2, ProviderAssumption DEF Level
<1>6. stackFrames[level].line = stack[level].line
  BY <1>3, <1>5, LineSurvives
<1>. QED  BY <1>4, <1>6 DEF FrameIsTrue

\* For every stack whose functions are all Lua functions of one file, every frame is
\* shown in its file and at its line, however often and between whatever requests it
\* is asked for: what lua_getinfo leaves as the hook had it is the same for all levels.
THEOREM FramesOfOneSource == Spec => []OneSourceShownTrue
<1>1. Init => FramesInv
  BY InitFrames
<1>2. FramesInv /\ [Next]_vars => FramesInv'
  BY NextFrames
<1>3. FramesInv => OneSourceShownTrue
  BY OneSource
<1>. QED  BY <1>1, <1>2, <1>3, PTL DEF Spec

----------------------------------------------------------------------------
(* The invariant.                                                           *)

\* The program does not move, so what holds of the new entries in the old state of
\* the program holds in the new one.
LEMMA TreeOfState ==
    ASSUME UNCHANGED program, Tree(variables')
    PROVE  Tree(variables)'
<1>1. stack' = stack /\ heap' = heap
  BY DEF program
<1>2. ValueIn(variables)' = ValueIn(variables')
  BY <1>1 DEF ValueIn, ChildValue, Get
<1>3. Shaped(variables)'
  BY <1>1 DEF Tree, Shaped, ScopeAt, LocalAt, ChildAt, Visible
<1>4. OfTables(variables)'
  BY <1>2 DEF Tree, OfTables
<1>5. ASSUME NEW id \in DOMAIN variables', IsScope(variables'[id])
      PROVE  HasLocals(variables, id)'
  <2>1. HasLocals(variables', id)
    BY <1>5 DEF Tree, Complete
  <2>. QED  BY <1>1, <2>1 DEF HasLocals, Visible
<1>6. ASSUME NEW id \in DOMAIN variables', IsTold(variables'[id])
      PROVE  ToldWell(variables, id)' /\ HasKeys(variables, id)'
  <2>1. ToldWell(variables', id) /\ HasKeys(variables', id)
    BY <1>6 DEF Tree, Complete
  <2>2. ToldWell(variables, id)'
    BY <1>2, <2>1 DEF ToldWell
  <2>3. HasKeys(variables, id)'
    BY <1>1, <1>2, <2>1 DEF HasKeys, HasName
  <2>. QED  BY <2>2, <2>3
<1>. QED  BY <1>3, <1>4, <1>5, <1>6 DEF Tree, Complete

\* What a request with some filter lists, of a tree and a reference in it.
LEMMA RequestedAre ==
    ASSUME Tree(variables), NEW reference \in DOMAIN variables, NEW filter \in Filters
    PROVE  LET ids == Requested(reference, filter) IN
           /\ Len(ids) \in Nat /\ DOMAIN ids = 1 .. Len(ids)
           /\ \A k \in 1 .. Len(ids) : ids[k] \in ChildIds(variables, reference, "")
           /\ filter = "" => \A p \in ChildIds(variables, reference, "") :
                               \E k \in 1 .. Len(ids) : ids[k] = p
<1>. DEFINE all == ChildIds(variables, reference, "")
            indexed == Children(variables, reference, "indexed")
            named == Children(variables, reference, "named")
<1>1. /\ ChildIds(variables, reference, "indexed") \subseteq all
      /\ ChildIds(variables, reference, "named") \subseteq all
      /\ all \subseteq ChildIds(variables, reference, "indexed")
                         \cup ChildIds(variables, reference, "named")
  BY DEF ChildIds
<1>2. variables \in Seq(Entry)
  BY DEF Tree, Shaped
<1>3. /\ indexed \in Seq(ChildIds(variables, reference, "indexed"))
      /\ Len(indexed) \in Nat /\ DOMAIN indexed = 1 .. Len(indexed)
      /\ \A i \in DOMAIN indexed : indexed[i] \in ChildIds(variables, reference, "indexed")
      /\ \A p \in ChildIds(variables, reference, "indexed") : \E i \in DOMAIN indexed : indexed[i] = p
  BY <1>2, ChildrenAre
<1>4. /\ named \in Seq(ChildIds(variables, reference, "named"))
      /\ Len(named) \in Nat /\ DOMAIN named = 1 .. Len(named)
      /\ \A i \in DOMAIN named : named[i] \in ChildIds(variables, reference, "named")
      /\ \A p \in ChildIds(variables, reference, "named") : \E i \in DOMAIN named : named[i] = p
  BY <1>2, ChildrenAre
<1>. HIDE DEF indexed, named
<1>5. PICK first, second :
        /\ first = IF filter = "named" THEN <<>> ELSE indexed
        /\ second = IF filter = "indexed" THEN <<>> ELSE named
  OBVIOUS
<1>6. Requested(reference, filter) = first \o second
  BY <1>5 DEF Requested, indexed, named
<1>. HIDE DEF all
<1>7. first \in Seq(all) /\ second \in Seq(all)
  <2>1. indexed \in Seq(all) /\ named \in Seq(all)
    BY <1>1, <1>3, <1>4
  <2>2. <<>> \in Seq(all)
    OBVIOUS
  <2>. QED  BY <1>5, <2>1, <2>2
<1>8. PICK ids : ids = first \o second
  OBVIOUS
<1>9. /\ ids \in Seq(all) /\ Len(ids) = Len(first) + Len(second)
      /\ Len(first) \in Nat /\ Len(second) \in Nat
      /\ \A i \in 1 .. Len(first) : ids[i] = first[i]
      /\ \A i \in 1 .. Len(second) : ids[Len(first) + i] = second[i]
  BY <1>7, <1>8
<1>10. Len(ids) \in Nat /\ DOMAIN ids = 1 .. Len(ids) /\ \A k \in 1 .. Len(ids) : ids[k] \in all
  BY <1>9
<1>11. ASSUME filter = "", NEW p \in all
       PROVE  \E k \in 1 .. Len(ids) : ids[k] = p
  <2>1. first = indexed /\ second = named
    BY <1>5, <1>11
  <2>2. CASE \E i \in DOMAIN indexed : indexed[i] = p
    <3>1. PICK i \in 1 .. Len(first) : first[i] = p
      BY <1>3, <2>1, <2>2
    <3>2. i \in 1 .. Len(ids) /\ ids[i] = p
      BY <1>9, <3>1
    <3>. QED  BY <3>2
  <2>3. CASE \E i \in DOMAIN named : named[i] = p
    <3>1. PICK i \in 1 .. Len(second) : second[i] = p
      BY <1>4, <2>1, <2>3
    <3>2. Len(first) + i \in 1 .. Len(ids) /\ ids[Len(first) + i] = p
      BY <1>9, <3>1
    <3>. QED  BY <3>2
  <2>. QED  BY <1>1, <1>3, <1>4, <2>2, <2>3
<1>. QED  BY <1>6, <1>8, <1>10, <1>11 DEF all

\* The client has references of scopes, and of variables it was told that have children.
LEMMA ReferenceIsOne ==
    ASSUME IInv, NEW reference \in Told, reference > 0
    PROVE  reference \in DOMAIN variables /\ HasReference(variables, reference)
<1>1. variables \in Seq(Entry) /\ Shaped(variables)
  BY DEF IInv, Tree, Shaped
<1>2. ASSUME NEW frame \in DOMAIN scopes, reference = scopes[frame]
      PROVE  reference \in DOMAIN variables /\ IsScope(variables[reference])
  <2>1. frame \in DOMAIN stack /\ stack \in Seq(Level) /\ reference \in 0 .. Len(variables)
    BY <1>2, ProviderAssumption DEF IInv, ScopesInv, FramesInv
  <2>2. frame # 0
    BY <2>1
  <2>3. variables[reference].parentFrame = frame
    BY <1>2, <2>1 DEF IInv, ScopesInv
  <2>. QED  BY <1>1, <2>1, <2>2, <2>3 DEF IsScope
<1>3. ASSUME NEW id \in DOMAIN variables, reference = variables[id].info.reference
      PROVE  reference \in DOMAIN variables /\ HasReference(variables, reference)
  <2>1. IsTold(variables[id])
    BY <1>3 DEF IsTold, NoVariable
  <2>2. ToldWell(variables, id)
    BY <2>1 DEF IInv, Tree, Complete
  <2>3. reference = 0 \/ reference = id
    BY <1>3, <2>2 DEF ToldWell
  <2>. QED  BY <1>3, <2>1, <2>3 DEF HasReference
<1>. QED  BY <1>2, <1>3 DEF Told, HasReference

\* A variables request keeps the tree, and answers with all the children it was asked for,
\* each told; the reference still has them.
LEMMA GetVariablesMoves ==
    ASSUME IInv, NEW reference \in Told, NEW filter \in Filters, GetVariables(reference, filter)
    PROVE  /\ Tree(variables') /\ Explores(variables, variables')
           /\ reference \in DOMAIN variables
           /\ HasReference(variables', reference)
           /\ answer'.children = Requested(reference, filter)'
           /\ LET ids == answer'.children IN
              \A k \in DOMAIN ids : IsTold(variables'[ids[k]])
<1>. DEFINE ids == Requested(reference, filter)
<1>1. reference \in DOMAIN variables /\ HasReference(variables, reference)
  BY ReferenceIsOne DEF GetVariables
<1>2. /\ stack \in Stacks /\ heap \in Heaps /\ Tree(variables)
      /\ variables \in Seq(Entry) /\ Shaped(variables)
  BY DEF IInv, FramesInv, Tree, Shaped
<1>3. /\ Len(ids) \in Nat /\ DOMAIN ids = 1 .. Len(ids)
      /\ \A k \in 1 .. Len(ids) : ids[k] \in ChildIds(variables, reference, "")
  BY <1>1, <1>2, RequestedAre
<1>4. variables' = GetEach(variables, ids) /\ answer'.children = ids
  BY DEF GetVariables
<1>. HIDE DEF ids
<1>5. ASSUME NEW k \in 1 .. Len(ids)
      PROVE  ids[k] \in DOMAIN variables /\ ~IsScope(variables[ids[k]])
  <2>1. ids[k] \in DOMAIN variables /\ variables[ids[k]].parent = reference
    BY <1>3 DEF ChildIds
  <2>2. reference # 0
    BY <1>1, <1>2
  <2>. QED  BY <1>2, <2>1, <2>2 DEF Shaped, ScopeAt, LocalAt, ChildAt, IsScope
<1>6. /\ Tree(variables') /\ Explores(variables, variables')
      /\ \A k \in 1 .. Len(ids) : IsTold(variables'[ids[k]])
  BY <1>2, <1>3, <1>4, <1>5, GetEachKeepsTree
<1>7. ChildrenStay(variables, variables', reference)
  BY <1>1, <1>6 DEF Explores, HasReference
<1>8. Requested(reference, filter)' = ids
  <2>1. /\ Children(variables', reference, "indexed") = Children(variables, reference, "indexed")
        /\ Children(variables', reference, "named") = Children(variables, reference, "named")
    BY <1>7 DEF ChildrenStay, Filters, Children
  <2>. QED  BY <2>1 DEF Requested, ids
<1>9. HasReference(variables', reference)
  BY <1>1, <1>6 DEF Explores, Extends, SamePlace, HasReference, IsScope, IsTold
<1>. QED  BY <1>1, <1>3, <1>4, <1>6, <1>8, <1>9

\* A scopes request keeps the tree, and the reference it makes is that of its frame.
LEMMA GetScopesMoves ==
    ASSUME IInv, NEW frame \in DOMAIN stackFrames, GetScopes(frame)
    PROVE  /\ Tree(variables') /\ Explores(variables, variables')
           /\ Len(variables') <= MaxVariables /\ ScopesInv'
<1>1. /\ stack \in Stacks /\ heap \in Heaps /\ Tree(variables)
      /\ variables \in Seq(Entry) /\ Shaped(variables) /\ ScopesInv
      /\ Len(variables) \in Nat /\ Len(variables) <= MaxVariables /\ stack' = stack
  BY DEF IInv, FramesInv, Tree, Shaped, GetScopes, program
<1>2. frame \in DOMAIN stack
  BY DEF IInv, FramesInv
<1>3. CASE scopes[frame] # 0
  <2>1. variables' = variables /\ scopes' = scopes
    BY <1>3 DEF GetScopes
  <2>. QED  BY <1>1, <2>1, ExploresNothing DEF ScopesInv
<1>4. CASE scopes[frame] = 0
  <2>. DEFINE scope == Len(variables) + 1
  <2>1. /\ variables' = WithScope(variables, frame)
        /\ scope + Len(VisibleLocals(frame)) <= MaxVariables
        /\ scopes' = [scopes EXCEPT ![frame] = scope]
    BY <1>4 DEF GetScopes, WithScope
  <2>2. /\ Tree(variables') /\ Explores(variables, variables')
        /\ scope \in DOMAIN variables' /\ variables'[scope].parentFrame = frame
    BY <1>1, <1>2, <2>1, WithScopeKeepsTree
  <2>3. Len(variables') <= MaxVariables
    BY <1>1, <1>2, <2>1, WithScopeMakes
  <2>4. /\ variables' \in Seq(Entry) /\ Len(variables') \in Nat
        /\ Len(variables) <= Len(variables') /\ scope <= Len(variables')
    BY <2>2 DEF Tree, Shaped, Explores, Extends
  <2>5. scopes' \in [DOMAIN stack -> 0 .. Len(variables')]
    <3>1. 0 .. Len(variables) \subseteq 0 .. Len(variables') /\ scope \in 0 .. Len(variables')
      BY <1>1, <2>4
    <3>2. scopes \in [DOMAIN stack -> 0 .. Len(variables')]
      BY <1>1, <3>1 DEF ScopesInv
    <3>. HIDE DEF scope
    <3>. QED  BY <2>1, <3>1, <3>2
  <2>6. ASSUME NEW f \in DOMAIN stack, scopes'[f] # 0
        PROVE  variables'[scopes'[f]].parentFrame = f
    <3>1. CASE f = frame
      BY <1>1, <1>2, <2>1, <2>2, <3>1 DEF ScopesInv
    <3>2. CASE f # frame
      <4>1. scopes'[f] = scopes[f] /\ scopes[f] \in DOMAIN variables
        BY <1>1, <2>1, <2>6, <3>2 DEF ScopesInv
      <4>2. variables[scopes[f]].parentFrame = f
        BY <1>1, <2>6, <4>1 DEF ScopesInv
      <4>. QED  BY <2>2, <4>1, <4>2 DEF Explores, Extends, SamePlace
    <3>. QED  BY <3>1, <3>2
  <2>. QED  BY <1>1, <2>2, <2>3, <2>5, <2>6 DEF ScopesInv
<1>. QED  BY <1>3, <1>4

\* Whatever the client asks for, it explores.
LEMMA StepExplores ==
    ASSUME IInv, [Next]_vars
    PROVE  Tree(variables') /\ Explores(variables, variables')
<1>1. variables \in Seq(Entry) /\ Tree(variables)
  BY DEF IInv, Tree, Shaped
<1>2. CASE GetStackTrace \/ UNCHANGED vars
  BY <1>1, <1>2, ExploresNothing DEF GetStackTrace, vars
<1>3. CASE \E frame \in DOMAIN stackFrames : GetScopes(frame)
  BY <1>3, GetScopesMoves
<1>4. CASE \E reference \in Told, filter \in Filters : GetVariables(reference, filter)
  BY <1>4, GetVariablesMoves
<1>. QED  BY <1>2, <1>3, <1>4 DEF Next

\* There is nothing to be wrong about when the program stops.
LEMMA InitIInv ==
    ASSUME Init
    PROVE  IInv
<1>1. variables = <<>> /\ answer = NoAnswer /\ scopes = [level \in DOMAIN stack |-> 0]
  BY DEF Init
<1>2. Tree(variables) /\ Len(variables) = 0
  BY <1>1 DEF Tree, Shaped, OfTables, Complete
<1>3. ScopesInv /\ AnswerInv
  BY <1>1, <1>2 DEF ScopesInv, AnswerInv
<1>. QED  BY <1>2, <1>3, InitFrames, ProviderAssumption DEF IInv, Init

\* Every request keeps the invariant.
LEMMA NextIInv ==
    ASSUME IInv, [Next]_vars
    PROVE  IInv'
<1>1. FramesInv' /\ heap' \in Heaps /\ UNCHANGED program
  BY NextFrames DEF IInv, Next, GetStackTrace, GetScopes, GetVariables, vars, program
<1>2. Tree(variables') /\ Explores(variables, variables')
  BY StepExplores
<1>3. Tree(variables)'
  BY <1>1, <1>2, TreeOfState
<1>4. /\ variables \in Seq(Entry) /\ variables' \in Seq(Entry)
      /\ Len(variables) \in Nat /\ Len(variables') \in Nat /\ Len(variables) <= Len(variables')
  BY <1>2 DEF IInv, Tree, Shaped, Explores, Extends
<1>5. CASE GetStackTrace \/ UNCHANGED vars
  <2>1. variables' = variables /\ scopes' = scopes /\ stack' = stack
    BY <1>5 DEF GetStackTrace, vars, program
  <2>2. answer' = NoAnswer \/ answer' = answer
    BY <1>5 DEF GetStackTrace, vars
  <2>3. ScopesInv' /\ Len(variables') <= MaxVariables
    BY <2>1 DEF IInv, ScopesInv
  <2>4. AnswerInv'
    BY <2>1, <2>2 DEF IInv, AnswerInv, Requested, HasReference
  <2>. QED  BY <1>1, <1>3, <2>3, <2>4 DEF IInv
<1>6. CASE \E frame \in DOMAIN stackFrames : GetScopes(frame)
  <2>1. answer' = NoAnswer
    BY <1>6 DEF GetScopes
  <2>2. AnswerInv'
    BY <2>1 DEF AnswerInv
  <2>3. ScopesInv' /\ Len(variables') <= MaxVariables
    BY <1>6, GetScopesMoves
  <2>. QED  BY <1>1, <1>3, <2>2, <2>3 DEF IInv
<1>7. ASSUME NEW reference \in Told, NEW filter \in Filters, GetVariables(reference, filter)
      PROVE  IInv'
  <2>1. /\ Len(variables') <= MaxVariables /\ scopes' = scopes /\ stack' = stack
        /\ answer'.reference = reference /\ answer'.filter = filter
    BY <1>7 DEF GetVariables, program
  <2>2. /\ reference \in DOMAIN variables
        /\ HasReference(variables', reference)
        /\ answer'.children = Requested(reference, filter)'
        /\ \A k \in DOMAIN answer'.children : IsTold(variables'[answer'.children[k]])
    BY <1>7, GetVariablesMoves
  <2>3. reference \in DOMAIN variables'
    BY <1>4, <2>2
  <2>4. AnswerInv'
    BY <2>1, <2>2, <2>3 DEF AnswerInv, Requested, HasReference
  <2>5. ScopesInv'
    <3>1. scopes' \in [DOMAIN stack' -> 0 .. Len(variables')]
      BY <1>4, <2>1 DEF IInv, ScopesInv
    <3>2. ASSUME NEW f \in DOMAIN stack, scopes[f] # 0
          PROVE  variables'[scopes[f]].parentFrame = f
      <4>1. scopes[f] \in DOMAIN variables /\ variables[scopes[f]].parentFrame = f
        BY <1>4, <3>2 DEF IInv, ScopesInv
      <4>. QED  BY <1>2, <4>1 DEF Explores, Extends, SamePlace
    <3>. QED  BY <2>1, <3>1, <3>2 DEF ScopesInv
  <2>. QED  BY <1>1, <1>3, <2>1, <2>4, <2>5 DEF IInv
<1>. QED  BY <1>5, <1>6, <1>7 DEF Next

\* The invariant holds throughout a stop.
LEMMA IInvAlways == Spec => []IInv
<1>1. Init => IInv
  BY InitIInv
<1>2. IInv /\ [Next]_vars => IInv'
  BY NextIInv
<1>. QED  BY <1>1, <1>2, PTL DEF Spec

----------------------------------------------------------------------------
(* What follows from it.                                                    *)

\* The frames are Dap::StackFrames: the conversion to unsigned bounds their lines.
LEMMA FramesTyped ==
    ASSUME FramesInv
    PROVE  arSource \in Sources \cup {NoSource} /\ stackFrames \in Seq(StackFrame)
<1>1. /\ stack \in Seq(Level) /\ stack # <<>> /\ 1 \in DOMAIN stack
      /\ Len(stack) \in Nat /\ DOMAIN stack = 1 .. Len(stack)
  BY ProviderAssumption DEF FramesInv
<1>2. \A level \in DOMAIN stack : stack[level] \in Level
  BY <1>1, ElementOf, Zenon
<1>3. arSource \in Sources \cup {NoSource}
  BY <1>1, <1>2 DEF FramesInv, Level
<1>4. ASSUME NEW level \in DOMAIN stack
      PROVE  StackFrameEntry(level) \in StackFrame
  <2>1. stack[level].line \in Int
    <3>1. stack[level].line \in -1 .. UnsignedRange - 1
      BY <1>2 DEF Level
    <3>. QED  BY <3>1, ProviderAssumption
  <2>2. stack[level].line % UnsignedRange \in 0 .. UnsignedRange - 1
    BY <2>1, ProviderAssumption
  <2>3. 0 \in 0 .. UnsignedRange - 1
    BY ProviderAssumption
  <2>. QED  BY <1>3, <2>2, <2>3 DEF StackFrameEntry, StackFrame
<1>5. CASE stackFrames = <<>>
  BY <1>3, <1>5
<1>6. CASE stackFrames # <<>>
  <2>1. stackFrames = [level \in 1 .. Len(stack) |-> StackFrameEntry(level)]
    BY <1>1, <1>6 DEF FramesInv
  <2>2. stackFrames \in [1 .. Len(stack) -> StackFrame]
    BY <1>1, <1>4, <2>1
  <2>. QED  BY <1>1, <1>3, <2>2
<1>. QED  BY <1>5, <1>6

\* The entries are within the bound, so are the references and the parents.
LEMMA EntriesTyped ==
    ASSUME IInv
    PROVE  variables \in Seq(VariableEntry)
<1>1. /\ variables \in Seq(Entry) /\ Len(variables) \in Nat
      /\ DOMAIN variables = 1 .. Len(variables) /\ Len(variables) <= MaxVariables
  BY DEF IInv, Tree, Shaped
<1>2. ASSUME NEW id \in DOMAIN variables
      PROVE  variables[id] \in VariableEntry
  <2>1. variables[id] \in Entry
    BY <1>1, ElementOf, Zenon
  <2>2. variables[id].info \in Variable \cup {NoVariable}
    <3>1. CASE ~IsTold(variables[id])
      BY <3>1 DEF IsTold
    <3>2. CASE IsTold(variables[id])
      <4>1. ToldWell(variables, id)
        BY <3>2 DEF IInv, Tree, Complete
      <4>2. variables[id].info \in Info
        BY <2>1, <3>2 DEF Entry, IsTold
      <4>3. variables[id].info.reference \in {0, id}
        BY <4>1 DEF ToldWell
      <4>4. variables[id].info.reference \in 0 .. MaxVariables
        BY <1>1, <4>3, ProviderAssumption
      <4>. QED  BY <4>2, <4>4 DEF Info, Variable
    <3>. QED  BY <3>1, <3>2
  <2>. QED  BY <2>1, <2>2 DEF Entry, VariableEntry
<1>. QED  BY <1>1, <1>2

\* What was answered are entries.
LEMMA AnswerTyped ==
    ASSUME IInv
    PROVE  /\ answer.reference \in 0 .. Len(variables)
           /\ \A i \in DOMAIN answer.children : answer.children[i] \in DOMAIN variables
<1>1. Len(variables) \in Nat /\ DOMAIN variables = 1 .. Len(variables)
  BY DEF IInv, Tree, Shaped
<1>2. CASE answer = NoAnswer
  <2>1. answer.reference = 0 /\ answer.children = <<>>
    BY <1>2 DEF NoAnswer
  <2>2. DOMAIN answer.children = {}
    BY <2>1
  <2>. QED  BY <1>1, <2>1, <2>2
<1>3. CASE answer # NoAnswer
  <2>1. /\ answer.filter \in Filters /\ answer.reference \in DOMAIN variables
        /\ answer.children = Requested(answer.reference, answer.filter)
    BY <1>3 DEF IInv, AnswerInv
  <2>2. \A i \in DOMAIN answer.children :
          answer.children[i] \in ChildIds(variables, answer.reference, "")
    BY <2>1, RequestedAre DEF IInv
  <2>. QED  BY <1>1, <2>1, <2>2 DEF ChildIds
<1>. QED  BY <1>2, <1>3

\* For every program that stops, whatever the client asks for: a frame's line fits an
\* unsigned, and every reference the client is told, in a scope, a variable or an
\* answer, is that of an entry, so GetVariableEntry finds it.
THEOREM TypeCorrect == Spec => []TypeOK
<1>1. IInv => TypeOK
  <2>. SUFFICES ASSUME IInv PROVE TypeOK
    OBVIOUS
  <2>. QED  BY FramesTyped, EntriesTyped, AnswerTyped
            DEF IInv, FramesInv, ScopesInv, TypeOK
<1>. QED  BY <1>1, IInvAlways, PTL

\* For every heap, also with tables that hold each other or themselves, and keys of
\* any kind: on the path that PushChildValue follows to an entry every step but the
\* last finds a table, and a local is looked up in a frame, so its Asserts hold.
THEOREM PathsLead == Spec => []PathsAreTables
<1>1. IInv => PathsAreTables
  <2>. SUFFICES ASSUME IInv, NEW id \in DOMAIN variables, variables[id].parent # 0
                PROVE  IF variables[id].indexOnFrame # 0
                       THEN variables[variables[id].parent].parentFrame # 0
                       ELSE ValueIn(variables)[variables[id].parent] \in Tables
    BY DEF PathsAreTables
  <2>1. LocalAt(variables, id) \/ ChildAt(variables, id)
    BY DEF IInv, Tree, Shaped, ScopeAt
  <2>2. CASE LocalAt(variables, id)
    <3>1. stack \in Seq(Level)
      BY ProviderAssumption DEF IInv, FramesInv
    <3>2. variables[variables[id].parent] \in Entry /\ variables[variables[id].parent].parentFrame \in DOMAIN stack
      <4>1. variables \in Seq(Entry) /\ variables[id].parent \in DOMAIN variables
        BY <2>2 DEF IInv, Tree, Shaped, LocalAt
      <4>2. variables[variables[id].parent].parentFrame \in DOMAIN stack
        BY <2>2, <4>1 DEF IInv, Tree, Shaped, LocalAt, ScopeAt, ChildAt, IsScope
      <4>. QED  BY <4>1, <4>2, ElementOf, Zenon
    <3>3. variables[id].indexOnFrame # 0
      <4>1. stack[variables[variables[id].parent].parentFrame] \in Level
        BY <3>1, <3>2, ElementOf, Zenon
      <4>. QED  BY <2>2, <4>1 DEF LocalAt, Visible, Level
    <3>. QED  BY <2>2, <3>3 DEF LocalAt, IsScope
  <2>3. CASE ChildAt(variables, id)
    BY <2>3, ProviderAssumption DEF IInv, Tree, OfTables, ChildAt
  <2>. QED  BY <2>1, <2>2, <2>3
<1>. QED  BY <1>1, IInvAlways, PTL

\* However a client pages, the counts it was told of a variable are the numbers of
\* children that a request with either filter returns, and it has a reference to ask
\* with exactly when there are any.
THEOREM CountsAreKept == Spec => []CountsMatch
<1>1. IInv => CountsMatch
  <2>. SUFFICES ASSUME IInv, NEW id \in DOMAIN variables, Evaluated(id)
                PROVE  LET info == variables[id].info IN
                       /\ info.named = Len(Children(variables, id, "named"))
                       /\ info.indexed = Len(Children(variables, id, "indexed"))
                       /\ info.reference \in {0, id}
                       /\ (info.reference = 0) = (Children(variables, id, "") = <<>>)
    BY DEF CountsMatch
  <2>1. ToldWell(variables, id) /\ variables \in Seq(Entry) /\ id # 0
    BY DEF IInv, Tree, Complete, Shaped, IsTold, Evaluated
  <2>2. PICK named, indexed : /\ named = Len(Children(variables, id, "named"))
                              /\ indexed = Len(Children(variables, id, "indexed"))
    OBVIOUS
  <2>3. /\ variables[id].info.named = named /\ variables[id].info.indexed = indexed
        /\ variables[id].info.reference = IF named + indexed = 0 THEN 0 ELSE id
    BY <2>1, <2>2 DEF ToldWell
  <2>4. /\ named \in Nat /\ (named = 0 <=> ChildIds(variables, id, "named") = {})
        /\ indexed \in Nat /\ (indexed = 0 <=> ChildIds(variables, id, "indexed") = {})
        /\ Children(variables, id, "") = <<>> <=> ChildIds(variables, id, "") = {}
    BY <2>1, <2>2, ChildrenAre
  <2>5. ChildIds(variables, id, "")
          = ChildIds(variables, id, "named") \cup ChildIds(variables, id, "indexed")
    BY DEF ChildIds
  <2>6. variables[id].info.reference = 0 <=> Children(variables, id, "") = <<>>
    <3>1. (variables[id].info.reference = 0) <=> (named = 0 /\ indexed = 0)
      <4>1. named \in Nat /\ indexed \in Nat
        BY <2>4
      <4>2. named + indexed = 0 <=> (named = 0 /\ indexed = 0)
        BY <4>1
      <4>. QED  BY <2>1, <2>3, <4>2, Zenon
    <3>2. Children(variables, id, "") = <<>> <=> (named = 0 /\ indexed = 0)
      BY <2>4, <2>5
    <3>. QED  BY <3>1, <3>2
  <2>. QED  BY <2>1, <2>2, <2>3, <2>6
<1>. QED  BY <1>1, IInvAlways, PTL

\* Whatever the client asks for next, an entry it has been shown keeps its place, its
\* value, its reference and its children for the rest of the stop.
THEOREM ShownIsKept == Spec => ShownNeverChanges
<1>1. IInv /\ [Next]_vars => ShownStays
  <2>. SUFFICES ASSUME IInv, [Next]_vars, NEW id \in DOMAIN variables
                PROVE  /\ id \in DOMAIN variables'
                       /\ [variables'[id] EXCEPT !.info = NoVariable]
                            = [variables[id] EXCEPT !.info = NoVariable]
                       /\ Evaluated(id) =>
                            /\ variables'[id].info = variables[id].info
                            /\ Children(variables', id, "") = Children(variables, id, "")
    BY DEF ShownStays
  <2>1. Tree(variables') /\ Explores(variables, variables') /\ Tree(variables)
    BY StepExplores DEF IInv
  <2>2. id \in DOMAIN variables'
    BY <2>1 DEF Tree, Shaped, Explores, Extends
  <2>3. SamePlace(variables[id], variables'[id])
    BY <2>1 DEF Explores, Extends
  <2>4. PICK old \in Entry, new \in Entry : variables[id] = old /\ variables'[id] = new
    <3>1. variables[id] \in Entry /\ variables'[id] \in Entry
      BY <2>1, <2>2, ElementOf, Zenon DEF Tree, Shaped
    <3>. QED  BY <3>1
  <2>5. [new EXCEPT !.info = NoVariable] = [old EXCEPT !.info = NoVariable]
    BY <2>3, <2>4 DEF Entry, SamePlace
  <2>6. ASSUME Evaluated(id)
        PROVE  /\ variables'[id].info = variables[id].info
               /\ Children(variables', id, "") = Children(variables, id, "")
    <3>1. variables'[id].info = variables[id].info /\ ChildrenStay(variables, variables', id)
      BY <2>1, <2>6 DEF Explores, IsTold, Evaluated
    <3>. QED  BY <3>1 DEF ChildrenStay, Filters, Children
  <2>. QED  BY <2>2, <2>4, <2>5, <2>6
<1>. QED  BY <1>1, IInvAlways, PTL DEF Spec, ShownNeverChanges

\* An answer without a filter.
Answers(reference, children) ==
    /\ answer.reference = reference /\ answer.filter = ""
    /\ children = {answer.children[i] : i \in DOMAIN answer.children}

\* An answer with a reference is an answer.
LEMMA SomeAnswer ==
    ASSUME NEW told, told.reference # 0
    PROVE  told # NoAnswer
<1>1. NoAnswer.reference = 0
  BY DEF NoAnswer
<1>. QED  BY <1>1

\* It is the answer to what was requested, whatever was told since.
LEMMA AnswerIsRequested ==
    ASSUME IInv, NEW reference, reference # 0, NEW children, Answers(reference, children)
    PROVE  /\ reference \in DOMAIN variables /\ HasReference(variables, reference)
           /\ LET ids == Requested(reference, "") IN
              /\ children = {ids[i] : i \in DOMAIN ids}
              /\ \A i \in DOMAIN ids : IsTold(variables[ids[i]])
<1>1. answer # NoAnswer
  BY SomeAnswer DEF Answers
<1>. QED  BY <1>1 DEF IInv, AnswerInv, Answers

\* It lists the children of its reference, all told, each with the value its path
\* leads to.
LEMMA AnswerLists ==
    ASSUME IInv, NEW reference, reference # 0, NEW children, Answers(reference, children)
    PROVE  /\ children = ChildIds(variables, reference, "")
           /\ \A id \in children : /\ id \in DOMAIN variables
                                   /\ variables[id].parent = reference
                                   /\ variables[id].info.value = ValueIn(variables)[id]
<1>1. PICK ids :
        /\ reference \in DOMAIN variables /\ ids = Requested(reference, "")
        /\ children = {ids[i] : i \in DOMAIN ids}
        /\ \A i \in DOMAIN ids : IsTold(variables[ids[i]])
  BY AnswerIsRequested
<1>2. "" \in Filters /\ Tree(variables)
  BY DEF Filters, IInv
<1>3. /\ DOMAIN ids = 1 .. Len(ids)
      /\ \A k \in 1 .. Len(ids) : ids[k] \in ChildIds(variables, reference, "")
      /\ \A p \in ChildIds(variables, reference, "") : \E k \in 1 .. Len(ids) : ids[k] = p
  BY <1>1, <1>2, RequestedAre
<1>4. children = ChildIds(variables, reference, "")
  BY <1>1, <1>3
<1>5. \A id \in children : IsTold(variables[id])
  BY <1>1
<1>6. ASSUME NEW id \in children
      PROVE  /\ id \in DOMAIN variables /\ variables[id].parent = reference
             /\ variables[id].info.value = ValueIn(variables)[id]
  <2>1. id \in DOMAIN variables /\ variables[id].parent = reference
    BY <1>4 DEF ChildIds
  <2>2. ToldWell(variables, id)
    BY <1>5, <2>1 DEF IInv, Tree, Complete
  <2>3. variables[id].info.value = ValueIn(variables)[id]
    BY <2>2 DEF ToldWell
  <2>. QED  BY <2>1, <2>3
<1>. QED  BY <1>4, <1>6

\* The value of an entry of a kind, by what it stands for.
LEMMA ValueOfKind ==
    ASSUME IInv, NEW id \in DOMAIN variables
    PROVE  LET entry  == variables[id]
               parent == variables[entry.parent]
           IN
           /\ LocalAt(variables, id) =>
                ValueIn(variables)[id] = stack[parent.parentFrame].locals[entry.indexOnFrame].value
           /\ ChildAt(variables, id) =>
                /\ ValueIn(variables)[entry.parent] \in Tables
                /\ ValueIn(variables)[id] = Get(ValueIn(variables)[entry.parent], CString[entry.key])
<1>1. stack \in Stacks /\ heap \in Heaps /\ Shaped(variables) /\ OfTables(variables)
  BY DEF IInv, FramesInv, Tree
<1>2. ValueIn(variables)[id]
        = ChildValue(variables, variables[id], ValueIn(variables)[variables[id].parent])
  BY <1>1, ValueOfEach
<1>3. ASSUME LocalAt(variables, id)
      PROVE  variables[id].parentFrame = 0 /\ variables[id].indexOnFrame # 0
  <2>1. /\ variables[id].parent \in DOMAIN variables
        /\ variables[variables[id].parent].parentFrame \in DOMAIN stack
    BY <1>1, <1>3 DEF Shaped, LocalAt, ScopeAt, ChildAt, IsScope
  <2>2. stack \in Seq(Level)
    BY <1>1, ProviderAssumption
  <2>3. stack[variables[variables[id].parent].parentFrame] \in Level
    BY <2>1, <2>2, ElementOf, Zenon
  <2>. QED  BY <1>3, <2>3 DEF LocalAt, Visible, Level
<1>4. ChildAt(variables, id) => ValueIn(variables)[variables[id].parent] \in Tables
  BY <1>1, ProviderAssumption DEF ChildAt, OfTables
<1>. QED  BY <1>2, <1>3, <1>4 DEF ChildValue, ChildAt

\* The two cases of AnswersAreTrue.
ScopeIsShown(children, frame) ==
    {[n |-> variables[id].indexOnFrame, v |-> variables[id].info.value] : id \in children}
      = {[n |-> n, v |-> stack[frame].locals[n].value] : n \in Visible(frame)}

TableIsShown(children, table) ==
    /\ \A i \in DOMAIN heap[table] :
         LET key == heap[table][i].key IN
         key \notin NoNames /\ Shown[key] = key
           => \E id \in children : variables[id].key = key
    /\ \A id \in children :
         CString[variables[id].key] = variables[id].key
           => variables[id].info.value = Get(table, variables[id].key)

\* An answer of a scope shows the visible locals of its frame with their values.
LEMMA ScopeAnswerIsTrue ==
    ASSUME IInv, NEW reference, reference # 0, NEW children, Answers(reference, children),
           IsScope(variables[reference]),
           NEW frame, frame = variables[reference].parentFrame
    PROVE  ScopeIsShown(children, frame)
<1>1. /\ reference \in DOMAIN variables
      /\ children = ChildIds(variables, reference, "")
      /\ \A id \in children : /\ id \in DOMAIN variables
                              /\ variables[id].parent = reference
                              /\ variables[id].info.value = ValueIn(variables)[id]
  <2>1. reference \in DOMAIN variables
    BY AnswerIsRequested
  <2>. QED  BY <2>1, AnswerLists
<1>2. ASSUME NEW id \in children
      PROVE  /\ variables[id].indexOnFrame \in Visible(frame)
             /\ variables[id].info.value = stack[frame].locals[variables[id].indexOnFrame].value
  <2>1. id \in DOMAIN variables /\ variables[id].parent = reference
    BY <1>1
  <2>2. LocalAt(variables, id)
    BY <2>1 DEF IInv, Tree, Shaped, ScopeAt, ChildAt
  <2>. QED  BY <1>1, <2>1, <2>2, ValueOfKind DEF LocalAt
<1>3. ASSUME NEW n \in Visible(frame)
      PROVE  \E id \in children : variables[id].indexOnFrame = n
  <2>1. PICK id \in DOMAIN variables :
          variables[id].parent = reference /\ variables[id].indexOnFrame = n
    BY <1>1 DEF IInv, Tree, Complete, HasLocals
  <2>2. id \in children
    BY <1>1, <2>1 DEF ChildIds
  <2>. QED  BY <2>1, <2>2
<1>4. {[n |-> variables[id].indexOnFrame, v |-> variables[id].info.value] : id \in children}
        = {[n |-> n, v |-> stack[frame].locals[n].value] : n \in Visible(frame)}
  <2>. DEFINE shown == {[n |-> variables[id].indexOnFrame, v |-> variables[id].info.value] :
                          id \in children}
              there == {[n |-> n, v |-> stack[frame].locals[n].value] : n \in Visible(frame)}
  <2>1. ASSUME NEW x \in shown
        PROVE  x \in there
    <3>1. PICK id \in children :
            x = [n |-> variables[id].indexOnFrame, v |-> variables[id].info.value]
      OBVIOUS
    <3>2. PICK n \in Visible(frame) :
            variables[id].indexOnFrame = n /\ variables[id].info.value = stack[frame].locals[n].value
      BY <1>2
    <3>3. x = [n |-> n, v |-> stack[frame].locals[n].value]
      BY <3>1, <3>2
    <3>. QED  BY <3>3
  <2>2. ASSUME NEW x \in there
        PROVE  x \in shown
    <3>1. PICK n \in Visible(frame) : x = [n |-> n, v |-> stack[frame].locals[n].value]
      OBVIOUS
    <3>2. PICK id \in children : variables[id].indexOnFrame = n
      BY <1>3
    <3>3. x = [n |-> variables[id].indexOnFrame, v |-> variables[id].info.value]
      BY <1>2, <3>1, <3>2
    <3>. QED  BY <3>3
  <2>. QED  BY <2>1, <2>2
<1>. QED  BY <1>4 DEF ScopeIsShown

\* An answer of a table shows its named keys, with no value under the wrong key.
LEMMA TableAnswerIsTrue ==
    ASSUME IInv, NEW reference, reference # 0, NEW children, Answers(reference, children),
           ~IsScope(variables[reference]),
           NEW table, table = variables[reference].info.value
    PROVE  TableIsShown(children, table)
<1>1. /\ reference \in DOMAIN variables
      /\ children = ChildIds(variables, reference, "")
      /\ \A id \in children : /\ id \in DOMAIN variables
                              /\ variables[id].parent = reference
                              /\ variables[id].info.value = ValueIn(variables)[id]
  <2>1. reference \in DOMAIN variables
    BY AnswerIsRequested
  <2>. QED  BY <2>1, AnswerLists
<1>2. IsTold(variables[reference]) /\ variables[reference].info.reference = reference
  BY AnswerIsRequested DEF HasReference
<1>3. table = ValueIn(variables)[reference] /\ HasKeys(variables, reference)
  <2>1. ToldWell(variables, reference) /\ HasKeys(variables, reference)
    BY <1>1, <1>2 DEF IInv, Tree, Complete
  <2>. QED  BY <2>1 DEF ToldWell
<1>4. table \in Tables
  <2>1. ToldWell(variables, reference) /\ variables \in Seq(Entry) /\ reference # 0
    BY <1>1, <1>2 DEF IInv, Tree, Complete, Shaped
  <2>2. PICK named, indexed : /\ named = Len(Children(variables, reference, "named"))
                              /\ indexed = Len(Children(variables, reference, "indexed"))
    OBVIOUS
  <2>3. ~(named = 0 /\ indexed = 0)
    BY <1>2, <2>1, <2>2 DEF ToldWell
  <2>4. /\ named = 0 <=> ChildIds(variables, reference, "named") = {}
        /\ indexed = 0 <=> ChildIds(variables, reference, "indexed") = {}
    BY <2>1, <2>2, ChildrenAre
  <2>5. PICK id \in DOMAIN variables : variables[id].parent = reference
    BY <2>3, <2>4 DEF ChildIds
  <2>6. ChildAt(variables, id)
    BY <1>2, <2>1, <2>5 DEF IInv, Tree, Shaped, ScopeAt, LocalAt
  <2>. QED  BY <1>3, <2>5, <2>6, ValueOfKind
<1>5. ASSUME NEW i \in DOMAIN heap[table],
             heap[table][i].key \notin NoNames, Shown[heap[table][i].key] = heap[table][i].key
      PROVE  \E id \in children : variables[id].key = heap[table][i].key
  <2>1. i \in HasName(table)
    BY <1>5 DEF HasName
  <2>2. PICK id \in DOMAIN variables :
          variables[id].parent = reference /\ variables[id].key = Shown[heap[table][i].key]
    BY <1>3, <1>4, <2>1 DEF HasKeys
  <2>3. id \in children
    BY <1>1, <2>2 DEF ChildIds
  <2>. QED  BY <1>5, <2>2, <2>3
<1>6. ASSUME NEW id \in children, CString[variables[id].key] = variables[id].key
      PROVE  variables[id].info.value = Get(table, variables[id].key)
  <2>1. id \in DOMAIN variables /\ variables[id].parent = reference
    BY <1>1
  <2>2. ChildAt(variables, id)
    BY <1>2, <2>1 DEF IInv, Tree, Shaped, ScopeAt, LocalAt
  <2>. QED  BY <1>1, <1>3, <1>6, <2>1, <2>2, ValueOfKind
<1>. QED  BY <1>5, <1>6 DEF TableIsShown

\* In whatever order the client explores the tree, and however the tables refer to each
\* other: an answer of a scope shows every visible local of the frame once with its
\* value, and one of a table has a child for each key with a name that is listed under
\* itself and no value that the table does not have under the child's key.
THEOREM AnswersTellTheTruth == Spec => []AnswersAreTrue
<1>1. IInv => AnswersAreTrue
  <2>. SUFFICES ASSUME IInv, answer.reference # 0, answer.filter = ""
                PROVE  AnswersAreTrue
    BY DEF AnswersAreTrue
  <2>1. PICK reference, children, table, frame :
          /\ answer.reference = reference /\ reference # 0 /\ Answers(reference, children)
          /\ frame = variables[reference].parentFrame
          /\ table = variables[reference].info.value
    BY DEF Answers
  <2>2. {answer.children[i] : i \in DOMAIN answer.children} = children
    BY <2>1 DEF Answers
  <2>3. CASE IsScope(variables[reference])
    <3>1. ScopeIsShown(children, frame)
      BY <2>1, <2>3, ScopeAnswerIsTrue
    <3>2. frame # 0
      BY <2>1, <2>3 DEF IsScope
    <3>. QED  BY <2>1, <2>2, <3>1, <3>2 DEF ScopeIsShown, AnswersAreTrue
  <2>4. CASE ~IsScope(variables[reference])
    <3>1. TableIsShown(children, table)
      BY <2>1, <2>4, TableAnswerIsTrue
    <3>2. frame = 0
      BY <2>1, <2>4 DEF IsScope
    <3>. QED  BY <2>1, <2>2, <3>1, <3>2 DEF TableIsShown, AnswersAreTrue
  <2>. QED  BY <2>3, <2>4
<1>. QED  BY <1>1, IInvAlways, PTL
=============================================================================
