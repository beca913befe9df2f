---------------------------- MODULE StopProtocol ----------------------------
(***************************************************************************)
(* What a debug session promises about a stop of the Lua program, with no  *)
(* threads, messages or scheduler: a stop is ended by one command given    *)
(* during that very stop, and by nothing else.                             *)
(***************************************************************************)
EXTENDS Naturals

CONSTANT Modes      \* the ways a stop can be ended

VARIABLES
    held,           \* the program is held in a stop
    stop,           \* how many stops there have been
    mode            \* the command that ends the present stop, or "none"

pvars == <<held, stop, mode>>

Init == held = FALSE /\ stop = 0 /\ mode = "none"

Hold ==
    /\ ~held
    /\ held' = TRUE
    /\ stop' = stop + 1
    /\ mode' = "none"

Command(m) ==
    /\ held
    /\ mode = "none"
    /\ mode' = m
    /\ UNCHANGED <<held, stop>>

Release ==
    /\ held
    /\ mode # "none"
    /\ held' = FALSE
    /\ UNCHANGED <<stop, mode>>

Next == Hold \/ Release \/ \E m \in Modes : Command(m)

\* A command releases the program; the program need not stop and the client
\* need not command.
Spec == Init /\ [][Next]_pvars /\ WF_pvars(Release)
=============================================================================
