--------------------- MODULE InplaceExecutionScheduler ---------------------
(***************************************************************************)
(* src/debug/inplaceexecutionscheduler.{h,cpp}: the scheduler whose        *)
(* Execute() turns the calling thread (the Lua thread, while the program   *)
(* is stopped) into a worker.  Other threads hand it invocations and, at   *)
(* the end, dispose it; both happen under _mutex and set the auto-reset    *)
(* event _signal.                                                          *)
(*                                                                         *)
(* scheduled, invoked and overlapped are history variables: they record    *)
(* what callers asked for and what was run, and no guard reads them.       *)
(***************************************************************************)
EXTENDS Sequences, Functions

CONSTANT Invocations    \* the invocations callers may schedule

VARIABLES
    invocations,        \* _invocations
    isClosed,           \* _isClosed
    signal,             \* whether the auto-reset event _signal is set
    executePc,          \* where the thread in Execute() is
    batch,              \* Execute's local copy, what is left of it to invoke
    scheduled,          \* history: everything scheduled, in order
    invoked,            \* history: everything invoked, in order
    overlapped          \* history: the close met, or was followed by, work

svars == <<invocations, isClosed, signal, executePc, batch,
           scheduled, invoked, overlapped>>

TypeOK ==
    /\ invocations \in Seq(Invocations)
    /\ isClosed \in BOOLEAN
    /\ signal \in BOOLEAN
    /\ executePc \in {"take", "invoke", "wait", "returned"}
    /\ batch \in Seq(Invocations)
    /\ scheduled \in Seq(Invocations)
    /\ invoked \in Seq(Invocations)
    /\ overlapped \in BOOLEAN
    /\ executePc = "invoke" <=> batch # <<>>

Init ==
    /\ invocations = <<>>
    /\ isClosed = FALSE
    /\ signal = FALSE
    /\ executePc = "take"
    /\ batch = <<>>
    /\ scheduled = <<>>
    /\ invoked = <<>>
    /\ overlapped = FALSE

\* A new object replaces the previous one: the members' initial values.
Create ==
    /\ invocations' = <<>>
    /\ isClosed' = FALSE
    /\ signal' = FALSE
    /\ executePc' = "take"
    /\ batch' = <<>>
    /\ scheduled' = <<>>
    /\ invoked' = <<>>
    /\ overlapped' = FALSE

\* Mutants of ScheduleInvocation and Dispose: no signal, a queue cleared on close.
ScheduleInvocation_NoSignal(i) ==
    /\ invocations' = Append(invocations, i)
    /\ scheduled' = Append(scheduled, i)
    /\ overlapped' = (overlapped \/ isClosed)
    /\ UNCHANGED <<isClosed, signal, executePc, batch, invoked>>

Dispose_NoSignal ==
    /\ isClosed' = TRUE
    /\ overlapped' = (overlapped \/ invoked # scheduled)
    /\ UNCHANGED <<invocations, signal, executePc, batch, scheduled, invoked>>

Dispose_Clears ==
    /\ isClosed' = TRUE
    /\ signal' = TRUE
    /\ invocations' = <<>>
    /\ overlapped' = (overlapped \/ invoked # scheduled)
    /\ UNCHANGED <<executePc, batch, scheduled, invoked>>

\* Append and set are one critical section, and the waiter looks at the queue
\* only under the same lock, so they are one step.
ScheduleInvocation(i) ==
    /\ invocations' = Append(invocations, i)
    /\ signal' = TRUE
    /\ scheduled' = Append(scheduled, i)
    /\ overlapped' = (overlapped \/ isClosed)
    /\ UNCHANGED <<isClosed, executePc, batch, invoked>>

Dispose ==
    /\ isClosed' = TRUE
    /\ signal' = TRUE
    /\ overlapped' = (overlapped \/ invoked # scheduled)
    /\ UNCHANGED <<invocations, executePc, batch, scheduled, invoked>>

\* Mutants of TakeState: the queue is copied, not moved; the emptiness test is
\* dropped.
TakeState_Copies ==
    /\ executePc = "take"
    /\ batch' = invocations
    /\ executePc' = IF invocations # <<>> THEN "invoke"
                    ELSE IF isClosed THEN "returned" ELSE "wait"
    /\ UNCHANGED <<invocations, isClosed, signal, scheduled, invoked, overlapped>>

TakeState_NoEmptyTest ==
    /\ executePc = "take"
    /\ batch' = invocations
    /\ invocations' = <<>>
    /\ executePc' = IF isClosed THEN "returned" ELSE "invoke"
    /\ UNCHANGED <<isClosed, signal, scheduled, invoked, overlapped>>

\* getExecutionState() and the branch on what it returned; the branch reads
\* only locals.
TakeState ==
    /\ executePc = "take"
    /\ batch' = invocations
    /\ invocations' = <<>>
    /\ executePc' = IF invocations # <<>> THEN "invoke"
                    ELSE IF isClosed THEN "returned" ELSE "wait"
    /\ UNCHANGED <<isClosed, signal, scheduled, invoked, overlapped>>

\* Mutant of InvokeNext: the rest of the batch is forgotten.
InvokeNext_DropsRest ==
    /\ executePc = "invoke"
    /\ invoked' = Append(invoked, Head(batch))
    /\ batch' = <<>>
    /\ executePc' = "wait"
    /\ UNCHANGED <<invocations, isClosed, signal, scheduled, overlapped>>

\* One turn of the loop over the batch; after the last one Execute() goes on
\* to wait, also when the state it took was already closed.
InvokeNext ==
    /\ executePc = "invoke"
    /\ invoked' = Append(invoked, Head(batch))
    /\ batch' = Tail(batch)
    /\ executePc' = IF Tail(batch) = <<>> THEN "wait" ELSE "invoke"
    /\ UNCHANGED <<invocations, isClosed, signal, scheduled, overlapped>>

\* _signal.wait() on an auto-reset event consumes the signal.
Wait ==
    /\ executePc = "wait"
    /\ signal
    /\ signal' = FALSE
    /\ executePc' = "take"
    /\ UNCHANGED <<invocations, isClosed, batch, scheduled, invoked, overlapped>>

Execute == TakeState \/ InvokeNext \/ Wait

\* Bound: every invocation is a distinct object, scheduled at most once.
Schedule == \E i \in Invocations \ Range(scheduled) : ScheduleInvocation(i)

Next == Schedule \/ Dispose \/ Execute

\* The thread in Execute() keeps running; callers may do anything or nothing.
Spec == Init /\ [][Next]_svars /\ WF_svars(Execute)

----------------------------------------------------------------------------
\* Every invocation is in exactly one of: run, in the batch, in the queue; and
\* they run in the order they were scheduled (the move under the lock neither
\* loses nor repeats one).
ExecutedInOrderOnce == scheduled = invoked \o batch \o invocations

\* The thread never sleeps on work: whatever way signals merge in the
\* auto-reset event, an unset event means an empty queue.
NoMissedInvocation == executePc = "wait" /\ ~signal => invocations = <<>>

\* The thread sleeps through a close only if the close met work in flight, or
\* work was scheduled after it (the take then sees work and the close at once
\* and waits on a signal already consumed).
CloseMissedOnlyByOverlap ==
    executePc = "wait" /\ ~signal /\ isClosed => overlapped

\* Work given to a thread still in Execute() is run, whatever callers do.
AcceptedIsInvoked ==
    \A i \in Invocations :
        (i \in Range(scheduled) /\ executePc # "returned")
            ~> (i \in Range(invoked))

----------------------------------------------------------------------------
\* The abstract queue: what is in the batch is still pending.
Queue == INSTANCE ExecutionQueue WITH
    pending  <- batch \o invocations,
    done     <- invoked,
    closed   <- isClosed,
    finished <- executePc = "returned"

\* Whatever callers do, the scheduler is an in-order queue that finishes
\* only when closed and empty.
ImplementsQueue == Queue!SafeSpec

\* It also makes progress and finishes once closed, unless the close met work or
\* work was given after it: what DebugSessionImpl::Run relies on, which awaits
\* each invocation before it reads the next request.
ImplementsLiveQueue == (<>overlapped) \/ Queue!Progress
=============================================================================
