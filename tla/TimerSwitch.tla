------------------------------ MODULE TimerSwitch ------------------------------
(***************************************************************************)
(* What project_timer.cpp promises its callers, and what RunGlobals takes  *)
(* for granted: each call of timer_initialize switches the timer on and    *)
(* each call of timer_deinitialize switches it off, at one instant between *)
(* the call and its return, whoever else is calling.                       *)
(***************************************************************************)
CONSTANT Caller

VARIABLES
    ticking,   \* the timer raises interrupts
    request    \* what each caller has asked for and not yet got

switchVars == <<ticking, request>>

SwitchInit ==
    /\ ticking = FALSE
    /\ request = [c \in Caller |-> "none"]

Ask(c, what) ==
    /\ request[c] = "none"
    /\ request' = [request EXCEPT ![c] = what]
    /\ UNCHANGED ticking

Serve(c) ==
    /\ request[c] # "none"
    /\ ticking' = (request[c] = "on")
    /\ request' = [request EXCEPT ![c] = "none"]

SwitchNext == \E c \in Caller : Ask(c, "on") \/ Ask(c, "off") \/ Serve(c)

SwitchSpec == SwitchInit /\ [][SwitchNext]_switchVars
=============================================================================
