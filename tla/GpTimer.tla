-------------------------------- MODULE GpTimer --------------------------------
(***************************************************************************)
(* project_timer.cpp step by step: timer_initialize is called by the       *)
(* dispatcher on core 0, timer_deinitialize by the dispatcher and by every *)
(* loop that ends, on core 1.  The flags gptimer_enabled and               *)
(* gptimer_running are plain globals, tested and set around the calls of   *)
(* the driver, whose state machine is atomic.  A call is a sequence of     *)
(* steps: one per flag access and one per driver call.                     *)
(*                                                                         *)
(* ESP_ERROR_CHECK aborts, which reboots the device: the model ends there. *)
(***************************************************************************)
EXTENDS Naturals

CONSTANTS
    Caller,      \* the tasks that call the two functions
    Dispatcher,  \* the one that calls timer_initialize
    MeasureMs    \* the values PARAMETER stores in measureMs, unchecked

ASSUME DispatcherAssumption == Dispatcher \in Caller
ASSUME MeasureMsAssumption == MeasureMs \subseteq Nat

VARIABLES
    gptimer_enabled, gptimer_running,  \* the flags
    driver,   \* state of the driver's timer; "none": the handle is NULL
    call,     \* step each caller is at; "idle": in neither function
    aborted   \* the ESP_ERROR_CHECK that has failed, or "no"

flags == <<gptimer_enabled, gptimer_running>>
timerVars == <<flags, driver, call, aborted>>

DeinitSteps == {"testRunning", "stop", "clearRunning",
                "testEnabled", "disable", "clearEnabled"}
InitSteps == {"newTimer", "firstAlarm", "callbacks", "setAlarm",
              "testDisabled", "enable", "setEnabled",
              "testStopped", "start", "setRunning"}

TimerInit ==
    /\ gptimer_enabled = FALSE /\ gptimer_running = FALSE
    /\ driver = "none"
    /\ call = [c \in Caller |-> "idle"]
    /\ aborted = "no"

In(c, step) == aborted = "no" /\ call[c] = step
Proceed(c, step) == call' = [call EXCEPT ![c] = step]

\* ESP_ERROR_CHECK of a driver call that succeeds, and of one that does not.
Checked(c, step) == Proceed(c, step) /\ UNCHANGED aborted
Abort(check) == aborted' = check /\ UNCHANGED <<driver, call>>

-----------------------------------------------------------------------------
(* timer_deinitialize.  Errors of the driver calls are ignored.            *)

EnterDeinitialize(c) ==
    /\ In(c, "idle")
    /\ Proceed(c, IF driver = "none" THEN "idle" ELSE "testRunning")
    /\ UNCHANGED <<flags, driver, aborted>>

TestRunning(c) ==
    /\ In(c, "testRunning")
    /\ Proceed(c, IF gptimer_running THEN "stop" ELSE "testEnabled")
    /\ UNCHANGED <<flags, driver, aborted>>

\* Mutant: the timer is disabled without being stopped.
StopSkipped(c) ==
    /\ In(c, "stop")
    /\ Proceed(c, "clearRunning")
    /\ UNCHANGED <<flags, driver, aborted>>

\* gptimer_stop
Stop(c) ==
    /\ In(c, "stop")
    /\ driver' = IF driver = "run" THEN "enable" ELSE driver
    /\ Proceed(c, "clearRunning")
    /\ UNCHANGED <<flags, aborted>>

ClearRunning(c) ==
    /\ In(c, "clearRunning")
    /\ gptimer_running' = FALSE
    /\ Proceed(c, "testEnabled")
    /\ UNCHANGED <<gptimer_enabled, driver, aborted>>

TestEnabled(c) ==
    /\ In(c, "testEnabled")
    /\ Proceed(c, IF gptimer_enabled THEN "disable" ELSE "idle")
    /\ UNCHANGED <<flags, driver, aborted>>

\* gptimer_disable
Disable(c) ==
    /\ In(c, "disable")
    /\ driver' = IF driver = "enable" THEN "init" ELSE driver
    /\ Proceed(c, "clearEnabled")
    /\ UNCHANGED <<flags, aborted>>

\* Mutant: the flag stays set.
ClearEnabledForgotten(c) ==
    /\ In(c, "clearEnabled")
    /\ Proceed(c, "idle")
    /\ UNCHANGED <<flags, driver, aborted>>

ClearEnabled(c) ==
    /\ In(c, "clearEnabled")
    /\ gptimer_enabled' = FALSE
    /\ Proceed(c, "idle")
    /\ UNCHANGED <<gptimer_running, driver, aborted>>

-----------------------------------------------------------------------------
(* timer_initialize.                                                       *)

\* The first call creates the timer, the later ones reuse it.
EnterInitialize(c) ==
    /\ In(c, "idle")
    /\ Proceed(c, IF driver = "none" THEN "newTimer" ELSE "setAlarm")
    /\ UNCHANGED <<flags, driver, aborted>>

\* gptimer_new_timer, which fails when no timer is free.
NewTimer(c) ==
    /\ In(c, "newTimer")
    /\ \/ driver' = "init" /\ Checked(c, "firstAlarm")
       \/ Abort("resources")
    /\ UNCHANGED flags

\* gptimer_set_alarm_action: with auto reload it refuses an alarm_count equal
\* to reload_count, which is 0.
SetAlarm(c) ==
    /\ In(c, "firstAlarm") \/ In(c, "setAlarm")
    /\ \E measureMs \in MeasureMs :
         LET alarm_count == 1260 * measureMs IN
         \/ /\ alarm_count # 0
            /\ Checked(c, IF call[c] = "setAlarm" THEN "testDisabled" ELSE "callbacks")
            /\ UNCHANGED driver
         \/ alarm_count = 0 /\ Abort("alarm")
    /\ UNCHANGED flags

\* gptimer_register_event_callbacks, for a timer not yet enabled; it fails when
\* no interrupt is free.  After it the flags are not tested: they are false.
RegisterCallbacks(c) ==
    /\ In(c, "callbacks")
    /\ \/ driver = "init" /\ Checked(c, "enable") /\ UNCHANGED driver
       \/ driver = "init" /\ Abort("resources")
       \/ driver # "init" /\ Abort("callbacks")
    /\ UNCHANGED flags

TestDisabled(c) ==
    /\ In(c, "testDisabled")
    /\ Proceed(c, IF gptimer_enabled THEN "testStopped" ELSE "enable")
    /\ UNCHANGED <<flags, driver, aborted>>

\* gptimer_enable
Enable(c) ==
    /\ In(c, "enable")
    /\ \/ driver = "init" /\ driver' = "enable" /\ Checked(c, "setEnabled")
       \/ driver # "init" /\ Abort("enable")
    /\ UNCHANGED flags

SetEnabled(c) ==
    /\ In(c, "setEnabled")
    /\ gptimer_enabled' = TRUE
    /\ Proceed(c, "testStopped")
    /\ UNCHANGED <<gptimer_running, driver, aborted>>

TestStopped(c) ==
    /\ In(c, "testStopped")
    /\ Proceed(c, IF gptimer_running THEN "idle" ELSE "start")
    /\ UNCHANGED <<flags, driver, aborted>>

\* gptimer_start
Start(c) ==
    /\ In(c, "start")
    /\ \/ driver = "enable" /\ driver' = "run" /\ Checked(c, "setRunning")
       \/ driver # "enable" /\ Abort("start")
    /\ UNCHANGED flags

SetRunning(c) ==
    /\ In(c, "setRunning")
    /\ gptimer_running' = TRUE
    /\ Proceed(c, "idle")
    /\ UNCHANGED <<gptimer_enabled, driver, aborted>>

-----------------------------------------------------------------------------
\* The steps of a call after its first.
CallNext(c) ==
    \/ TestRunning(c) \/ Stop(c) \/ ClearRunning(c)
    \/ TestEnabled(c) \/ Disable(c) \/ ClearEnabled(c)
    \/ NewTimer(c) \/ SetAlarm(c) \/ RegisterCallbacks(c)
    \/ TestDisabled(c) \/ Enable(c) \/ SetEnabled(c)
    \/ TestStopped(c) \/ Start(c) \/ SetRunning(c)

\* The discipline under which the flags are safe: timer_initialize runs
\* alone; calls of timer_deinitialize may overlap with each other.
NobodyDeinitializes == \A c \in Caller : call[c] \notin DeinitSteps
NobodyInitializes == \A c \in Caller : call[c] \notin InitSteps

TimerNext ==
    \/ NobodyDeinitializes /\ EnterInitialize(Dispatcher)
    \/ \E c \in Caller : NobodyInitializes /\ EnterDeinitialize(c)
    \/ \E c \in Caller : CallNext(c)

TimerSpec == TimerInit /\ [][TimerNext]_timerVars

-----------------------------------------------------------------------------
TimerTypeOK ==
    /\ gptimer_enabled \in BOOLEAN /\ gptimer_running \in BOOLEAN
    /\ driver \in {"none", "init", "enable", "run"}
    /\ call \in [Caller -> {"idle"} \cup DeinitSteps \cup InitSteps]
    /\ aborted \in {"no", "resources", "alarm", "callbacks", "enable", "start"}

\* timer_initialize calls the driver only in a state that allows the call
\* (project_timer.cpp:120, 124, 149 to 152): the flags never lead it to enable
\* an enabled timer or to start one that is not enabled, although several
\* loops and the dispatcher may have been switching the timer off at the same
\* time before.  The checks of the arguments and resources are another
\* matter, see ErrorCheckHolds.
StateChecksHold == aborted \notin {"callbacks", "enable", "start"}

\* No ESP_ERROR_CHECK of timer_initialize fails (project_timer.cpp:114, 120,
\* 124, 141 to 152), unless the chip has no timer or interrupt left.
ErrorCheckHolds == aborted \in {"no", "resources"}

\* Between calls the flags say what the driver's timer does.
FlagsMirrorDriver ==
    (\A c \in Caller : call[c] = "idle") =>
        /\ gptimer_running <=> driver = "run"
        /\ gptimer_enabled <=> driver \in {"enable", "run"}

\* The refinement: a call takes effect at the driver call that changes the
\* timer, or where the flags make it unnecessary.
Asked(step) ==
    IF step \in {"testRunning", "stop"} THEN "off"
    ELSE IF step \in InitSteps \ {"setRunning"} THEN "on"
    ELSE "none"

Switch == INSTANCE TimerSwitch WITH
    Caller <- Caller,
    ticking <- (driver = "run"),
    request <- [c \in Caller |-> Asked(call[c])]

\* Every call switches the timer on or off, at one instant: what RunGlobals
\* assumes when it makes timer_initialize and timer_deinitialize one step.
ImplementsSwitch == Switch!SwitchSpec
=============================================================================
