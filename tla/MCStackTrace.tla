---------------------------- MODULE MCStackTrace ----------------------------
(***************************************************************************)
(* Programs to show with LuaStackTraceProvider: two tables, which may hold  *)
(* each other or themselves, and stacks of up to three levels.              *)
(***************************************************************************)
EXTENDS LuaStackTraceProvider, TLC

CONSTANTS File, Other, CFunctions,      \* sources
          t1, t2, plain, nil,
          one, oneAndHalf, name, nameNul, flag

MCSources == {File, Other, CFunctions}
MCTables  == {t1, t2}
MCKeys    == {one, oneAndHalf, name, nameNul, flag}
MCNumbers == {one, oneAndHalf}
MCNoNames == {flag}

MCShown   == [k \in MCKeys |-> IF k = oneAndHalf THEN one ELSE k]
MCCString == [k \in MCKeys |-> IF k = nameNul THEN name ELSE k]

Entry(k, v) == [key |-> k, value |-> v]
InTable     == MCTables \cup {plain}

\* Up to two entries of any keys, in either order; the second holds t2.
SmallTables ==
    {<<>>} \cup {<<Entry(k, v)>> : k \in MCKeys, v \in InTable}
      \cup {<<Entry(p[1], v), Entry(p[2], t2)>> :
              p \in {q \in MCKeys \X MCKeys : q[1] # q[2]}, v \in InTable}

MCHeaps ==
    {t1 :> a @@ t2 :> b :
       a \in SmallTables, b \in {<<>>, <<Entry(name, plain), Entry(one, t1)>>}}

Local(h, v) == [hidden |-> h, value |-> v]
LuaLevel(s, l, locals) == [source |-> s, line |-> l, locals |-> locals]
CLevel == [source |-> CFunctions, line |-> -1, locals |-> <<Local(TRUE, plain)>>]

MCStacks ==
    {<<LuaLevel(File, 1, <<Local(TRUE, plain), Local(FALSE, t1)>>)>>,
     <<LuaLevel(File, 1, <<Local(FALSE, t1)>>), LuaLevel(File, 2, <<Local(FALSE, nil)>>)>>,
     <<LuaLevel(File, 1, <<>>), CLevel, LuaLevel(Other, 2, <<Local(FALSE, t2)>>)>>}
=============================================================================
