------------------------------ MODULE MCActuators ------------------------------
(* Bounds for Actuators.                                                   *)
EXTENDS Actuators

MCGridDac == {<<5, 9>>, <<5, 6>>}
MCTips == {[a \in Axis |-> CASE a = X -> 5 [] a = Y -> 6 [] a = Z -> 14]}
MCWave == [i \in 0 .. 1 |-> IF i = 0 THEN 7 ELSE 13]
MCErrors == {-1}

\* No tick begins a further iteration while the transmission that has missed
\* a value is still going on.
OneMissAtATime ==
    vspi = "sending" /\ late # {} => \A k \in Timed : loop[k] # "woken"

\* The test pattern is the last thing the client asks for.
SinusComesLast == handleSinusLoop => \A k \in Loop : loop[k] = "none"
=============================================================================
