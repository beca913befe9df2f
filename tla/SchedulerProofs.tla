--------------------------- MODULE SchedulerProofs ---------------------------
(***************************************************************************)
(* Theorems about InplaceExecutionScheduler, for any set of invocations    *)
(* and any callers.                                                        *)
(***************************************************************************)
EXTENDS InplaceExecutionScheduler, SequenceTheorems, TLAPS

----------------------------------------------------------------------------
(* Sequences: a queue that is a concatenation.                              *)

\* Appending to the second part of a concatenation appends to the whole.
LEMMA AppendConcat ==
    ASSUME NEW T, NEW p \in Seq(T), NEW q \in Seq(T), NEW x \in T
    PROVE  p \o Append(q, x) = Append(p \o q, x)
  OBVIOUS

\* Moving the head of the middle part to the end of the first part changes
\* nothing in the concatenation of three.
LEMMA MoveHead ==
    ASSUME NEW T, NEW p \in Seq(T), NEW q \in Seq(T), NEW r \in Seq(T), q # <<>>
    PROVE  Append(p, Head(q)) \o Tail(q) \o r = p \o q \o r
<1>1. Head(q) \in T /\ Tail(q) \in Seq(T)
  OBVIOUS
<1>2. Append(p, Head(q)) \o Tail(q) = p \o q
  BY <1>1
<1>. QED  BY <1>2

\* A concatenation that equals its first part has nothing in the others.
LEMMA NothingLeft ==
    ASSUME NEW T, NEW p \in Seq(T), NEW q \in Seq(T), NEW r \in Seq(T),
           p = p \o q \o r
    PROVE  q = <<>> /\ r = <<>>
<1>1. Len(p \o q \o r) = Len(p) + Len(q) + Len(r)
  OBVIOUS
<1>2. Len(q) = 0 /\ Len(r) = 0
  BY <1>1
<1>. QED  BY <1>2

----------------------------------------------------------------------------
(* The inductive invariant.                                                 *)

\* Work that arrives while a batch runs leaves its signal for the wait after it.
SignalledWork ==
    executePc \in {"invoke", "wait"} /\ ~signal => invocations = <<>>

\* A close that overlapped no work leaves the thread nothing to do, so the
\* next take returns, and it is set at a time when nobody sleeps unsignalled.
CleanClose ==
    isClosed /\ ~overlapped =>
        /\ batch = <<>>
        /\ invocations = <<>>
        /\ executePc = "wait" => signal

IInv ==
    /\ TypeOK
    /\ ExecutedInOrderOnce
    /\ SignalledWork
    /\ CleanClose

\* IInv holds initially.
LEMMA InitIInv == Init => IInv
<1>1. <<>> = <<>> \o <<>> \o <<>>
  OBVIOUS
<1>2. <<>> \in Seq(Invocations)
  OBVIOUS
<1>3. Init => TypeOK
  BY <1>2 DEF Init, TypeOK
<1>4. Init => ExecutedInOrderOnce
  BY <1>1, Zenon DEF Init, ExecutedInOrderOnce
<1>5. Init => SignalledWork /\ CleanClose
  BY DEF Init, SignalledWork, CleanClose
<1>. QED  BY <1>3, <1>4, <1>5 DEF IInv

\* Every operation of a caller preserves IInv.
LEMMA CallerKeepsIInv ==
    ASSUME IInv, (\E i \in Invocations : ScheduleInvocation(i)) \/ Dispose
    PROVE  IInv'
<1>. USE DEF IInv, TypeOK
<1>1. ASSUME NEW i \in Invocations, ScheduleInvocation(i)
      PROVE  IInv'
  <2>. USE <1>1 DEF ScheduleInvocation
  <2>1. TypeOK'
    OBVIOUS
  <2>2. ExecutedInOrderOnce'
    <3>1. (invoked \o batch) \o Append(invocations, i)
            = Append((invoked \o batch) \o invocations, i)
      BY AppendConcat
    <3>. QED  BY <3>1 DEF ExecutedInOrderOnce
  <2>3. SignalledWork' /\ CleanClose'
    BY DEF SignalledWork, CleanClose
  <2>. QED  BY <2>1, <2>2, <2>3
<1>2. ASSUME Dispose
      PROVE  IInv'
  <2>. USE <1>2 DEF Dispose
  <2>1. TypeOK' /\ ExecutedInOrderOnce' /\ SignalledWork'
    BY DEF ExecutedInOrderOnce, SignalledWork
  <2>2. ASSUME ~overlapped'
        PROVE  batch = <<>> /\ invocations = <<>>
    <3>1. invoked = invoked \o batch \o invocations
      BY <2>2 DEF ExecutedInOrderOnce
    <3>. QED  BY <3>1, NothingLeft
  <2>3. CleanClose'
    BY <2>2 DEF CleanClose
  <2>. QED  BY <2>1, <2>3
<1>. QED  BY <1>1, <1>2

\* Every step of Execute() preserves IInv.
LEMMA ExecuteKeepsIInv ==
    ASSUME IInv, Execute
    PROVE  IInv'
<1>. USE DEF IInv, TypeOK
<1>1. CASE TakeState
  <2>. USE <1>1 DEF TakeState
  <2>1. batch = <<>>
    OBVIOUS
  <2>2. TypeOK' /\ SignalledWork' /\ CleanClose'
    BY <2>1 DEF SignalledWork, CleanClose
  <2>3. invoked \o batch \o invocations = invoked \o invocations \o <<>>
    BY <2>1, ConcatEmptySeq, ConcatProperties
  <2>. QED  BY <2>2, <2>3 DEF ExecutedInOrderOnce
<1>2. CASE InvokeNext
  <2>. USE <1>2 DEF InvokeNext
  <2>1. batch # <<>>
    OBVIOUS
  <2>2. Head(batch) \in Invocations /\ Tail(batch) \in Seq(Invocations)
    BY <2>1
  <2>3. TypeOK'
    BY <2>2
  <2>4. ExecutedInOrderOnce'
    BY <2>1, MoveHead DEF ExecutedInOrderOnce
  <2>5. CleanClose'
    BY <2>1 DEF CleanClose
  <2>6. SignalledWork'
    BY DEF SignalledWork
  <2>. QED  BY <2>3, <2>4, <2>5, <2>6
<1>3. CASE Wait
  BY <1>3 DEF Wait, ExecutedInOrderOnce, SignalledWork, CleanClose
<1>. QED  BY <1>1, <1>2, <1>3 DEF Execute

\* Nothing else changes the scheduler.
LEMMA StutterKeepsIInv == IInv /\ UNCHANGED svars => IInv'
  BY DEF svars, IInv, TypeOK, ExecutedInOrderOnce, SignalledWork, CleanClose

\* IInv is an invariant whatever callers do.
THEOREM Invariant == Spec => []IInv
<1>1. IInv /\ [Next]_svars => IInv'
  BY CallerKeepsIInv, ExecuteKeepsIInv, StutterKeepsIInv DEF Next, Schedule
<1>. QED  BY <1>1, InitIInv, PTL DEF Spec

\* The variables of the scheduler keep their types, and Execute() is in its
\* loop over a batch exactly while there is one.
THEOREM TypeCorrect == Spec => []TypeOK
<1>1. IInv => TypeOK
  BY DEF IInv
<1>. QED  BY <1>1, Invariant, PTL

\* No invocation is lost, repeated or reordered by the move under the lock.
THEOREM InOrderOnce == Spec => []ExecutedInOrderOnce
<1>1. IInv => ExecutedInOrderOnce
  BY DEF IInv
<1>. QED  BY <1>1, Invariant, PTL

\* Execute() never sleeps on work, whatever signals merged.
THEOREM NoInvocationMissed == Spec => []NoMissedInvocation
<1>1. IInv => NoMissedInvocation
  BY DEF IInv, SignalledWork, NoMissedInvocation
<1>. QED  BY <1>1, Invariant, PTL

\* Execute() sleeps through a close only if the close overlapped work.
THEOREM CloseMissed == Spec => []CloseMissedOnlyByOverlap
<1>1. IInv => CloseMissedOnlyByOverlap
  BY DEF IInv, CleanClose, CloseMissedOnlyByOverlap
<1>. QED  BY <1>1, Invariant, PTL

----------------------------------------------------------------------------
(* Refinement: the scheduler is an ExecutionQueue.                          *)

\* Each step of the scheduler is a step of the abstract queue, or none.
LEMMA QueueStep ==
    ASSUME IInv, [Next]_svars
    PROVE  [Queue!Next]_(Queue!qvars)
<1>. USE DEF IInv, TypeOK, Queue!qvars
<1>1. ASSUME NEW i \in Invocations, ScheduleInvocation(i)
      PROVE  Queue!Next
  <2>. USE <1>1 DEF ScheduleInvocation
  <2>1. batch \o Append(invocations, i) = Append(batch \o invocations, i)
    BY AppendConcat
  <2>2. Queue!Submit(i)
    BY <2>1 DEF Queue!Submit
  <2>. QED  BY <2>2 DEF Queue!Next
<1>2. CASE Dispose
  <2>1. Queue!Close
    BY <1>2 DEF Dispose, Queue!Close
  <2>. QED  BY <2>1 DEF Queue!Next
<1>3. CASE TakeState
  <2>. USE <1>3 DEF TakeState
  <2>1. batch = <<>>
    OBVIOUS
  <2>2. batch' \o invocations' = batch \o invocations
    BY <2>1, ConcatEmptySeq
  <2>3. CASE invocations = <<>> /\ isClosed
    <3>1. batch \o invocations = <<>>
      BY <2>1, <2>3
    <3>2. Queue!Finish
      BY <2>2, <2>3, <3>1 DEF Queue!Finish
    <3>. QED  BY <3>2 DEF Queue!Next
  <2>4. CASE ~(invocations = <<>> /\ isClosed)
    BY <2>2, <2>4
  <2>. QED  BY <2>3, <2>4
<1>4. CASE InvokeNext
  <2>. USE <1>4 DEF InvokeNext
  <2>1. batch # <<>>
    OBVIOUS
  <2>2. /\ batch \o invocations # <<>>
        /\ Head(batch \o invocations) = Head(batch)
        /\ Tail(batch \o invocations) = Tail(batch) \o invocations
    BY <2>1
  <2>3. Queue!RunOldest
    BY <2>2 DEF Queue!RunOldest
  <2>. QED  BY <2>3 DEF Queue!Next
<1>5. CASE Wait
  BY <1>5 DEF Wait
<1>6. CASE UNCHANGED svars
  BY <1>6 DEF svars
<1>. QED  BY <1>1, <1>2, <1>3, <1>4, <1>5, <1>6 DEF Next, Schedule, Execute

\* Whatever its callers do, the scheduler runs what it is given in order and
\* returns only when it was closed and has run everything.
THEOREM ImplementsTheQueue == Spec => ImplementsQueue
<1>1. Init => Queue!Init
  BY DEF Init, Queue!Init
<1>2. IInv /\ [Next]_svars => [Queue!Next]_(Queue!qvars)
  BY QueueStep
<1>. QED  BY <1>1, <1>2, Invariant, PTL DEF Spec, ImplementsQueue, Queue!SafeSpec
=============================================================================
