--------------------------- MODULE ExecutionQueue ---------------------------
(***************************************************************************)
(* What a caller of InplaceExecutionScheduler may rely on, with no lock,   *)
(* signal or batch: a queue that one thread drains in order until it has   *)
(* been closed and is empty.                                               *)
(***************************************************************************)
EXTENDS Sequences

CONSTANT Invocations    \* the invocations callers may submit

VARIABLES
    pending,            \* submitted and not run yet, oldest first
    done,               \* run, oldest first
    closed,             \* the queue was told to finish
    finished            \* the draining thread has left

qvars == <<pending, done, closed, finished>>

Init ==
    /\ pending = <<>>
    /\ done = <<>>
    /\ closed = FALSE
    /\ finished = FALSE

Submit(i) ==
    /\ pending' = Append(pending, i)
    /\ UNCHANGED <<done, closed, finished>>

RunOldest ==
    /\ ~finished
    /\ pending # <<>>
    /\ done' = Append(done, Head(pending))
    /\ pending' = Tail(pending)
    /\ UNCHANGED <<closed, finished>>

Close ==
    /\ closed' = TRUE
    /\ UNCHANGED <<pending, done, finished>>

\* The thread leaves only when there is nothing left that was submitted.
Finish ==
    /\ closed
    /\ pending = <<>>
    /\ finished' = TRUE
    /\ UNCHANGED <<pending, done, closed>>

Next ==
    \/ \E i \in Invocations : Submit(i)
    \/ RunOldest
    \/ Close
    \/ Finish

SafeSpec == Init /\ [][Next]_qvars

\* The promise to a caller that closes the queue only when it is idle: work is
\* run, and closing it lets the thread leave.
Progress == WF_qvars(RunOldest) /\ WF_qvars(Finish)
=============================================================================
