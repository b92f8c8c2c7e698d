------------------------------- MODULE Actuators -------------------------------
(***************************************************************************)
(* The tip and the timer: the loops of core 1 as users of vspiDacLoop, of  *)
(* computePiDac and of project_timer.cpp, started and stopped by the       *)
(* dispatcher.  What a loop does with the queue to the PC and with the     *)
(* grid is RunControl's subject; here a loop waits, is woken, writes the   *)
(* DAC globals, and ends with timer_deinitialize.                          *)
(*                                                                         *)
(* The client is RunControl's patient one: it starts something a second    *)
(* after everything else has ended; STOP comes at any time.                *)
(***************************************************************************)
EXTENDS GpTimer, DacOutput

CONSTANTS
    Errors,   \* target minus sample, out of tolerance; SIMULATION_MODE
              \* inverts its sign
    TipDacs   \* values of TIP commands, already clamped

Timed == {"measure", "tunnel"}
Loop == Timed \cup {"adjust"}

ASSUME CallerAssumption == Caller = Loop \cup {Dispatcher} /\ Dispatcher \notin Loop
ASSUME InputAssumption ==
    /\ Errors \subseteq (-HalfInt + 1 .. HalfInt - 1) \ {0}
    /\ TipDacs \subseteq [Axis -> Uint16]

VARIABLES
    active,          \* measureIsActive, tunnelIsActive, adjustIsActive
    loop,            \* where each loop is, see LoopSteps
    integralError    \* static in computePiDac: never reset

LoopSteps == {"none", "reset", "wait", "woken", "write", "park", "leaving"}
loopVars == <<active, loop>>
vars == <<timerVars, dacVars, loopVars, integralError>>

Init ==
    /\ TimerInit /\ DacInit
    /\ active = [k \in Loop |-> FALSE] /\ loop = [k \in Loop |-> "none"]
    /\ integralError = 0

\* What the patient client has waited for.
Quiet ==
    /\ \A k \in Loop : loop[k] = "none"
    /\ sinusPc = "none" /\ vspi = "suspended"

\* The dispatcher handles one command after the other.
Listening == In(Dispatcher, "idle")

At(k, step) == aborted = "no" /\ loop[k] = step

-----------------------------------------------------------------------------
(* The commands.                                                           *)

\* measureStart and tunnelStart; tunnelLoop begins with resetDac.
StartTimed(k) ==
    /\ Quiet /\ Listening
    /\ active' = [active EXCEPT ![k] = TRUE]
    /\ loop' = [loop EXCEPT ![k] = IF k = "tunnel" THEN "reset" ELSE "wait"]
    /\ EnterInitialize(Dispatcher)
    /\ UNCHANGED <<dacVars, integralError>>

StartAdjust ==
    /\ Quiet /\ Listening
    /\ active' = [active EXCEPT !["adjust"] = TRUE]
    /\ loop' = [loop EXCEPT !["adjust"] = "wait"]
    /\ UNCHANGED <<timerVars, dacVars, integralError>>

\* SINUS, first or repeated; never after a sinusLoop that has ended, whose
\* task the command would delete once more.
StartSinus ==
    /\ Listening /\ vspi = "suspended" /\ assigning = Nothing
    /\ \A k \in Loop : loop[k] = "none"
    /\ handleSinusLoop => sinusPc # "none"
    /\ SinusCommand
    /\ UNCHANGED <<timerVars, loopVars, integralError>>

\* STOP wakes the loops that are suspended.  A TUNNEL is not stopped before
\* tunnelLoop has taken it up.
StopCommand ==
    /\ Listening /\ loop["tunnel"] # "reset"
    /\ active' = [k \in Loop |-> FALSE]
    /\ \E woken \in SUBSET {k \in Timed : loop[k] = "wait"} :
         loop' = [k \in Loop |-> IF k \in woken THEN "woken" ELSE loop[k]]
    /\ sinusIsActive' = FALSE
    /\ EnterDeinitialize(Dispatcher)
    /\ UNCHANGED <<writeVars, vspiVars, handleSinusLoop, sinusPc, sinusAxis,
                   sinusIndex, buffer0, integralError>>

-----------------------------------------------------------------------------
(* The loops.  An iteration may begin while vspiDacLoop is still sending   *)
(* the values of the last one: ticks are at least 1.26 ms apart, but STOP  *)
(* wakes a loop at any time.  A loop that writes the globals is at "write" *)
(* or, in adjustLoop's last resetDac, at "park" until it resumes           *)
(* vspiDacLoop.                                                            *)

\* tickMeasure.  The first tick comes at least 1.26 ms after gptimer_start,
\* when timer_initialize has long returned.
Tick(k) ==
    /\ driver = "run" /\ call[Dispatcher] \notin InitSteps
    /\ At(k, "wait") /\ active[k]
    /\ loop' = [loop EXCEPT ![k] = "woken"]
    /\ UNCHANGED <<timerVars, dacVars, active, integralError>>

TunnelReset ==
    /\ At("tunnel", "reset")
    /\ resetDac
    /\ loop' = [loop EXCEPT !["tunnel"] = "write"]
    /\ UNCHANGED <<timerVars, sinusVars, active, integralError>>

\* A sample off the tolerance.
Correct(k) ==
    /\ At(k, "woken")
    /\ \E error \in Errors :
         /\ integralError' = Accumulate(integralError, error)
         /\ Write(Z, [current EXCEPT ![Z] = computePiDac(@, error, integralError')])
    /\ loop' = [loop EXCEPT ![k] = "write"]
    /\ UNCHANGED <<timerVars, sinusVars, active>>

\* A sample within: measureLoop moves on, tunnelLoop stays.
MoveOn ==
    /\ At("measure", "woken")
    /\ \E g \in GridDac : Write(X, [current EXCEPT ![X] = g[1], ![Y] = g[2]])
    /\ loop' = [loop EXCEPT !["measure"] = "write"]
    /\ UNCHANGED <<timerVars, sinusVars, active, integralError>>

StayOn ==
    /\ At("tunnel", "woken")
    /\ loop' = [loop EXCEPT !["tunnel"] = "wait"]
    /\ UNCHANGED <<timerVars, dacVars, active, integralError>>

Tip ==
    /\ At("adjust", "wait")
    /\ \E tip \in TipDacs : Write(X, tip)
    /\ loop' = [loop EXCEPT !["adjust"] = "write"]
    /\ UNCHANGED <<timerVars, sinusVars, active, integralError>>

\* The globals are written: the loop resumes vspiDacLoop and waits.
Written(k) ==
    /\ At(k, "write")
    /\ ResumeVspi
    /\ loop' = [loop EXCEPT ![k] = "wait"]
    /\ UNCHANGED <<timerVars, sinusVars, active, integralError>>

\* The grid is complete or the last loop done: measureLoop clears its flag
\* after timer_deinitialize, tunnelLoop before.
Finish(k) ==
    /\ At(k, "woken")
    /\ active' = [active EXCEPT ![k] = @ /\ k # "tunnel"]
    /\ loop' = [loop EXCEPT ![k] = "leaving"]
    /\ EnterDeinitialize(k)
    /\ UNCHANGED <<dacVars, integralError>>

Leave(k) ==
    /\ At(k, "wait") /\ ~active[k]
    /\ loop' = [loop EXCEPT ![k] = "leaving"]
    /\ EnterDeinitialize(k)
    /\ UNCHANGED <<dacVars, active, integralError>>

\* adjustLoop calls resetDac before.
Park ==
    /\ At("adjust", "wait") /\ ~active["adjust"]
    /\ resetDac
    /\ loop' = [loop EXCEPT !["adjust"] = "park"]
    /\ UNCHANGED <<timerVars, sinusVars, active, integralError>>

Parked ==
    /\ At("adjust", "park")
    /\ ResumeVspi
    /\ loop' = [loop EXCEPT !["adjust"] = "leaving"]
    /\ EnterDeinitialize("adjust")
    /\ UNCHANGED <<sinusVars, active, integralError>>

Gone(k) ==
    /\ At(k, "leaving") /\ call[k] = "idle"
    /\ loop' = [loop EXCEPT ![k] = "none"]
    /\ active' = [active EXCEPT ![k] = FALSE]
    /\ UNCHANGED <<timerVars, dacVars, integralError>>

-----------------------------------------------------------------------------
TimerStep ==
    /\ \E c \in Caller : CallNext(c)
    /\ UNCHANGED <<dacVars, loopVars, integralError>>

DacStep ==
    /\ aborted = "no"
    /\ DacNext
    /\ UNCHANGED <<timerVars, loopVars, integralError>>

\* ESP_ERROR_CHECK has failed and the device reboots: the end.
Rebooting == aborted # "no" /\ UNCHANGED vars

Next ==
    \/ TimerStep \/ DacStep
    \/ StartAdjust \/ StartSinus \/ StopCommand
    \/ \E k \in Timed :
         StartTimed(k) \/ Tick(k) \/ Correct(k) \/ Finish(k) \/ Leave(k)
    \/ TunnelReset \/ MoveOn \/ StayOn \/ Tip \/ Park \/ Parked
    \/ \E k \in Loop : Written(k) \/ Gone(k)
    \/ Rebooting

Spec == Init /\ [][Next]_vars

-----------------------------------------------------------------------------
TypeOK ==
    /\ TimerTypeOK /\ DacTypeOK
    /\ active \in [Loop -> BOOLEAN]
    /\ loop \in [Loop -> LoopSteps]
    /\ integralError \in -HalfInt .. HalfInt - 1

\* A current that drives the proportional term to its limit never moves the
\* tip towards the sample (which a smaller Z value does), and a missing one
\* never away, however much error the integral has accumulated before
\* (helper_functions.cpp:161 to 182).
NoApproachIntoCurrent ==
    [][\A error \in Errors :
         /\ integralError' = Accumulate(integralError, error)
         /\ Saturated(error)
         => IF error < 0 THEN current'[Z] >= current[Z]
            ELSE current'[Z] <= current[Z]]_vars
=============================================================================
