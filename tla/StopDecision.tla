---------------------------- MODULE StopDecision ----------------------------
(***************************************************************************)
(* When a debugged program may stop, with no lines, frames or threads: only *)
(* while a breakpoint of some kind is set or a step is pending.  A step     *)
(* that stops the program is over; a breakpoint leaves a pending step as it *)
(* is, and so may the command that ends a stop.                             *)
(*                                                                          *)
(* DebugSession takes this much of the controller and no more;              *)
(* LuaDebugSessionController is the controller in detail.                   *)
(***************************************************************************)
CONSTANT Kinds      \* the kinds of breakpoint

VARIABLES
    armed,          \* the kinds that are set
    stepping,       \* a step is pending
    held            \* the program is held, or about to be

dvars == <<armed, stepping, held>>

Init == armed = {} /\ stepping = FALSE /\ held = FALSE

SetBreakpoints ==
    /\ armed' \in SUBSET Kinds
    /\ UNCHANGED <<stepping, held>>

HitBreakpoint ==
    /\ ~held
    /\ armed # {}
    /\ held' = TRUE
    /\ UNCHANGED <<armed, stepping>>

HitStep ==
    /\ ~held
    /\ stepping
    /\ stepping' = FALSE
    /\ held' = TRUE
    /\ UNCHANGED armed

Resume ==
    /\ held
    /\ held' = FALSE
    /\ stepping' \in {stepping, TRUE}
    /\ UNCHANGED armed

Next == SetBreakpoints \/ HitBreakpoint \/ HitStep \/ Resume

Spec == Init /\ [][Next]_dvars
=============================================================================
