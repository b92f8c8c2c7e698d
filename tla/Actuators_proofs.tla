--------------------------- MODULE Actuators_proofs ---------------------------
(***************************************************************************)
(* Proofs about Actuators and the components it is composed of, in three   *)
(* parts.  GpTimer, for any number of callers: where timer_initialize runs *)
(* alone, the flags are right, the driver is asked for nothing its state   *)
(* does not allow, and a call is one atomic switch.  computePiDac, for all *)
(* gains, word sizes and arguments.  Actuators: the loops keep to the      *)
(* timer's discipline, so that the theorems about GpTimer apply; a value   *)
(* does not reach its DAC only where vspiDacLoop has missed it; the PI     *)
(* control never moves the tip the wrong way when it is at its limit.      *)
(***************************************************************************)
EXTENDS Actuators, TLAPS

-----------------------------------------------------------------------------
(* The timer.                                                              *)

Steps == {"idle"} \cup DeinitSteps \cup InitSteps

\* Only the dispatcher initialises, and then nobody deinitialises.
Alone ==
    \A c \in Caller : call[c] \in InitSteps =>
        c = Dispatcher /\ \A o \in Caller : call[o] \notin DeinitSteps

\* A flag differs from the driver's state only while the call that makes
\* them agree again has not written it yet.
RunningFlag ==
    /\ gptimer_running /\ driver # "run" =>
          \E c \in Caller : call[c] = "clearRunning"
    /\ ~gptimer_running /\ driver = "run" => call[Dispatcher] = "setRunning"

EnabledFlag ==
    /\ gptimer_enabled /\ driver \notin {"enable", "run"} =>
          \E c \in Caller : call[c] = "clearEnabled"
    /\ ~gptimer_enabled /\ driver \in {"enable", "run"} =>
          call[Dispatcher] = "setEnabled"

\* What a caller has established at the step it has reached.
Reached(c) ==
    /\ call[c] \notin {"idle", "newTimer"} => driver # "none"
    /\ call[c] = "newTimer" => driver = "none"
    /\ call[c] \in {"firstAlarm", "callbacks"} =>
          ~gptimer_enabled /\ ~gptimer_running /\ driver = "init"
    /\ call[c] = "clearRunning" => driver \in {"enable", "init"}
    /\ call[c] = "testEnabled" => ~gptimer_running /\ driver # "run"
    /\ call[c] = "disable" => ~gptimer_running /\ driver # "run"
    /\ call[c] = "clearEnabled" => ~gptimer_running /\ driver = "init"
    /\ call[c] = "enable" =>
          ~gptimer_enabled /\ ~gptimer_running /\ driver = "init"
    /\ call[c] = "setEnabled" => ~gptimer_running /\ driver = "enable"
    /\ call[c] = "testStopped" =>
          gptimer_enabled /\ driver = IF gptimer_running THEN "run" ELSE "enable"
    /\ call[c] = "start" =>
          gptimer_enabled /\ ~gptimer_running /\ driver = "enable"
    /\ call[c] = "setRunning" => gptimer_enabled /\ driver = "run"

\* The timer is left enabled but stopped only on the way.
Between ==
    driver = "enable" => \E c \in Caller :
        call[c] \in {"clearRunning", "testEnabled", "disable", "setEnabled",
                     "testStopped", "start"}

TimerInv ==
    /\ TimerTypeOK /\ StateChecksHold
    /\ Alone /\ RunningFlag /\ EnabledFlag /\ Between
    /\ \A c \in Caller : Reached(c)

-----------------------------------------------------------------------------
LEMMA InitEstablishes == TimerInit => TimerInv
BY DispatcherAssumption
DEF TimerInit, TimerInv, TimerTypeOK, StateChecksHold, Alone, RunningFlag,
    EnabledFlag, Between, Reached, DeinitSteps, InitSteps

\* Where a call stands after a step of caller c, the others being where they
\* were.
LEMMA CallMoves ==
    ASSUME TimerTypeOK, NEW c \in Caller, NEW s \in Steps, Proceed(c, s)
    PROVE  /\ call' \in [Caller -> Steps]
           /\ call'[c] = s
           /\ \A o \in Caller : o # c => call'[o] = call[o]
BY DEF TimerTypeOK, Proceed, Steps

LEMMA EnterKeepsInv ==
    ASSUME TimerInv, NEW c \in Caller,
           \/ NobodyDeinitializes /\ EnterInitialize(Dispatcher) /\ c = Dispatcher
           \/ NobodyInitializes /\ EnterDeinitialize(c)
    PROVE  TimerInv'
<1> USE DispatcherAssumption
    DEF TimerInv, TimerTypeOK, StateChecksHold, Alone, RunningFlag, EnabledFlag,
        Between, Reached, DeinitSteps, InitSteps, In, Proceed, flags
<1>1. CASE NobodyDeinitializes /\ EnterInitialize(Dispatcher) /\ c = Dispatcher
  BY <1>1 DEF NobodyDeinitializes, EnterInitialize
<1>2. CASE NobodyInitializes /\ EnterDeinitialize(c)
  BY <1>2 DEF NobodyInitializes, EnterDeinitialize
<1> QED  BY <1>1, <1>2

LEMMA DeinitializeKeepsInv ==
    ASSUME TimerInv, NEW c \in Caller,
           \/ TestRunning(c) \/ Stop(c) \/ ClearRunning(c)
           \/ TestEnabled(c) \/ Disable(c) \/ ClearEnabled(c)
    PROVE  TimerInv'
<1> USE DispatcherAssumption
    DEF TimerInv, TimerTypeOK, StateChecksHold, Alone, RunningFlag, EnabledFlag,
        Between, Reached, DeinitSteps, InitSteps, In, Proceed, flags
<1>1. CASE TestRunning(c)
  BY <1>1 DEF TestRunning
<1>2. CASE Stop(c)
  BY <1>2 DEF Stop
<1>3. CASE ClearRunning(c)
  BY <1>3 DEF ClearRunning
<1>4. CASE TestEnabled(c)
  BY <1>4 DEF TestEnabled
<1>5. CASE Disable(c)
  BY <1>5 DEF Disable
<1>6. CASE ClearEnabled(c)
  BY <1>6 DEF ClearEnabled
<1> QED  BY <1>1, <1>2, <1>3, <1>4, <1>5, <1>6

\* A step that a failed check has ended changes nothing but aborted.
LEMMA AbortKeepsInv ==
    ASSUME TimerInv, NEW check \in {"resources", "alarm"}, Abort(check),
           UNCHANGED flags
    PROVE  TimerInv'
BY DEF TimerInv, TimerTypeOK, StateChecksHold, Alone, RunningFlag, EnabledFlag,
       Between, Reached, Abort, flags

LEMMA PrepareKeepsInv ==
    ASSUME TimerInv, NEW c \in Caller,
           NewTimer(c) \/ SetAlarm(c) \/ RegisterCallbacks(c)
    PROVE  TimerInv'
<1> USE DispatcherAssumption
    DEF TimerInv, TimerTypeOK, StateChecksHold, Alone, RunningFlag, EnabledFlag,
        Between, Reached, DeinitSteps, InitSteps, In, Proceed, Checked, flags
<1>1. CASE NewTimer(c)
  BY <1>1, AbortKeepsInv DEF NewTimer
<1>2. CASE SetAlarm(c)
  <2>1. CASE Abort("alarm") /\ UNCHANGED flags
    BY <2>1, AbortKeepsInv
  <2>2. CASE /\ UNCHANGED <<flags, driver, aborted>>
             /\ call[c] \in {"firstAlarm", "setAlarm"}
             /\ Proceed(c, IF call[c] = "setAlarm" THEN "testDisabled" ELSE "callbacks")
    BY <2>2
  <2> QED  BY <1>2, <2>1, <2>2 DEF SetAlarm
<1>3. CASE RegisterCallbacks(c)
  <2>1. driver = "init"
    BY <1>3 DEF RegisterCallbacks
  <2> QED  BY <1>3, <2>1, AbortKeepsInv DEF RegisterCallbacks
<1> QED  BY <1>1, <1>2, <1>3

LEMMA InitializeKeepsInv ==
    ASSUME TimerInv, NEW c \in Caller,
           \/ TestDisabled(c) \/ Enable(c) \/ SetEnabled(c)
           \/ TestStopped(c) \/ Start(c) \/ SetRunning(c)
    PROVE  TimerInv'
<1> USE DispatcherAssumption
    DEF TimerInv, TimerTypeOK, StateChecksHold, Alone, RunningFlag, EnabledFlag,
        Between, Reached, DeinitSteps, InitSteps, In, Proceed,
        Checked, flags
<1>1. CASE TestDisabled(c)
  BY <1>1 DEF TestDisabled
<1>2. CASE Enable(c)
  <2>1. driver = "init"
    BY <1>2 DEF Enable
  <2> QED  BY <1>2, <2>1 DEF Enable
<1>3. CASE SetEnabled(c)
  BY <1>3 DEF SetEnabled
<1>4. CASE TestStopped(c)
  BY <1>4 DEF TestStopped
<1>5. CASE Start(c)
  <2>1. driver = "enable"
    BY <1>5 DEF Start
  <2> QED  BY <1>5, <2>1 DEF Start
<1>6. CASE SetRunning(c)
  BY <1>6 DEF SetRunning
<1> QED  BY <1>1, <1>2, <1>3, <1>4, <1>5, <1>6

LEMMA TimerInvStep == TimerInv /\ [TimerNext]_timerVars => TimerInv'
<1> SUFFICES ASSUME TimerInv, [TimerNext]_timerVars PROVE TimerInv'
  OBVIOUS
<1>1. CASE NobodyDeinitializes /\ EnterInitialize(Dispatcher)
  BY <1>1, EnterKeepsInv, DispatcherAssumption
<1>2. ASSUME NEW c \in Caller, NobodyInitializes, EnterDeinitialize(c)
      PROVE  TimerInv'
  BY <1>2, EnterKeepsInv
<1>3. ASSUME NEW c \in Caller, CallNext(c) PROVE TimerInv'
  BY <1>3, DeinitializeKeepsInv, PrepareKeepsInv, InitializeKeepsInv DEF CallNext
<1>4. CASE UNCHANGED timerVars
  BY <1>4
  DEF timerVars, flags, TimerInv, TimerTypeOK, StateChecksHold, Alone,
      RunningFlag, EnabledFlag, Between, Reached
<1> QED  BY <1>1, <1>2, <1>3, <1>4 DEF TimerNext

THEOREM TimerInvAlways == TimerSpec => []TimerInv
BY InitEstablishes, TimerInvStep, PTL DEF TimerSpec

\* The variables stay within their types.
THEOREM TimerTypeCorrect == TimerSpec => []TimerTypeOK
<1>1. TimerInv => TimerTypeOK
  BY DEF TimerInv
<1> QED  BY <1>1, TimerInvAlways, PTL

\* timer_initialize never enables a timer that is enabled nor starts one that
\* is not, however many loops have been switching the timer off at the same
\* time before.
THEOREM StateChecksAlwaysHold == TimerSpec => []StateChecksHold
<1>1. TimerInv => StateChecksHold
  BY DEF TimerInv
<1> QED  BY <1>1, TimerInvAlways, PTL

LEMMA AlarmIsRefused ==
    /\ aborted = "alarm" => 0 \in MeasureMs
    /\ [TimerNext]_timerVars
    => (aborted' = "alarm" => 0 \in MeasureMs)
<1> SUFFICES ASSUME aborted # "alarm", [TimerNext]_timerVars, aborted' = "alarm"
             PROVE  0 \in MeasureMs
  OBVIOUS
<1>1. PICK c \in Caller : SetAlarm(c)
  BY DEF TimerNext, timerVars, EnterInitialize, EnterDeinitialize, CallNext,
         TestRunning, Stop, ClearRunning, TestEnabled, Disable, ClearEnabled,
         NewTimer, RegisterCallbacks, TestDisabled, Enable, SetEnabled,
         TestStopped, Start, SetRunning, Checked, Abort
<1>2. PICK measureMs \in MeasureMs : 1260 * measureMs = 0
  BY <1>1 DEF SetAlarm, Checked
<1>3. measureMs \in Nat
  BY MeasureMsAssumption
<1>4. measureMs = 0
  BY <1>2, <1>3
<1> QED  BY <1>4

\* The one check that the parameters can make fail is that of the alarm, and
\* the one value of measureMs that does it is 0.
THEOREM OnlyZeroIsRefused ==
    TimerSpec => [](0 \notin MeasureMs => ErrorCheckHolds)
<1> DEFINE I == aborted = "alarm" => 0 \in MeasureMs
<1>1. TimerInit => I
  BY DEF TimerInit
<1>2. I /\ [TimerNext]_timerVars => I'
  BY AlarmIsRefused
<1>3. TimerInv /\ I => (0 \notin MeasureMs => ErrorCheckHolds)
  BY DEF TimerInv, TimerTypeOK, StateChecksHold, ErrorCheckHolds
<1> HIDE DEF I
<1> QED  BY <1>1, <1>2, <1>3, TimerInvAlways, PTL DEF TimerSpec

\* When no call is under way the flags say what the driver's timer does.
THEOREM FlagsAreRight == TimerSpec => []FlagsMirrorDriver
<1>1. TimerInv => FlagsMirrorDriver
  BY DispatcherAssumption
  DEF TimerInv, TimerTypeOK, RunningFlag, EnabledFlag, FlagsMirrorDriver
<1> QED  BY <1>1, TimerInvAlways, PTL

-----------------------------------------------------------------------------
(* The refinement: every step is a step of TimerSwitch or leaves it alone. *)

LEMMA SwitchInitially == TimerInit => Switch!SwitchInit
BY DEF TimerInit, Switch!SwitchInit, Asked, InitSteps

\* What caller c asks for after a step that takes it to s.
LEMMA RequestMoves ==
    ASSUME TimerInv, NEW c \in Caller, NEW s \in Steps, Proceed(c, s)
    PROVE  [o \in Caller |-> Asked(call[o])]'
              = [[o \in Caller |-> Asked(call[o])] EXCEPT ![c] = Asked(s)]
<1>1. call' \in [Caller -> Steps] /\ call'[c] = s
      /\ \A o \in Caller : o # c => call'[o] = call[o]
  BY CallMoves DEF TimerInv
<1> QED  BY <1>1

LEMMA Stutters ==
    ASSUME TimerInv, NEW c \in Caller, NEW s \in Steps, Proceed(c, s),
           Asked(call[c]) = Asked(s), (driver = "run")' = (driver = "run")
    PROVE  UNCHANGED Switch!switchVars
<1>1. [o \in Caller |-> Asked(call[o])]' = [o \in Caller |-> Asked(call[o])]
  BY RequestMoves
<1> QED  BY <1>1 DEF Switch!switchVars

LEMMA Serves ==
    ASSUME TimerInv, NEW c \in Caller, NEW s \in Steps, Proceed(c, s),
           Asked(call[c]) # "none", Asked(s) = "none",
           (driver = "run")' = (Asked(call[c]) = "on")
    PROVE  Switch!Serve(c)
BY RequestMoves DEF Switch!Serve

LEMMA Asks ==
    ASSUME TimerInv, NEW c \in Caller, NEW s \in Steps, Proceed(c, s),
           Asked(call[c]) = "none", Asked(s) # "none",
           (driver = "run")' = (driver = "run")
    PROVE  Switch!Ask(c, Asked(s))
BY RequestMoves DEF Switch!Ask

LEMMA DeinitializeSwitches ==
    ASSUME TimerInv, NEW c \in Caller,
           \/ TestRunning(c) \/ Stop(c) \/ ClearRunning(c)
           \/ TestEnabled(c) \/ Disable(c) \/ ClearEnabled(c)
    PROVE  Switch!Serve(c) \/ UNCHANGED Switch!switchVars
<1> USE DEF In, Asked, Steps, DeinitSteps, InitSteps
<1>1. CASE TestRunning(c)
  <2>1. CASE gptimer_running
    BY <1>1, <2>1, Stutters DEF TestRunning
  <2>2. CASE ~gptimer_running
    <3>1. driver # "run"
      BY <1>1, <2>2, DispatcherAssumption
      DEF TestRunning, TimerInv, RunningFlag, Alone, InitSteps
    <3> QED  BY <1>1, <2>2, <3>1, Serves DEF TestRunning
  <2> QED  BY <2>1, <2>2
<1>2. CASE Stop(c)
  <2>1. driver' # "run"
    BY <1>2 DEF Stop
  <2> QED  BY <1>2, <2>1, Serves DEF Stop
<1>3. CASE ClearRunning(c)
  BY <1>3, Stutters DEF ClearRunning
<1>4. CASE TestEnabled(c)
  BY <1>4, Stutters DEF TestEnabled
<1>5. CASE Disable(c)
  BY <1>5, Stutters DEF Disable
<1>6. CASE ClearEnabled(c)
  BY <1>6, Stutters DEF ClearEnabled
<1> QED  BY <1>1, <1>2, <1>3, <1>4, <1>5, <1>6

LEMMA PrepareSwitches ==
    ASSUME TimerInv, NEW c \in Caller,
           NewTimer(c) \/ SetAlarm(c) \/ RegisterCallbacks(c)
    PROVE  UNCHANGED Switch!switchVars
<1> USE DEF In, Asked, Steps, InitSteps, Checked
<1>0. Reached(c)
  BY DEF TimerInv
<1>1. ASSUME NEW check, Abort(check) PROVE UNCHANGED Switch!switchVars
  BY <1>1 DEF Abort, Switch!switchVars
<1>2. CASE NewTimer(c)
  BY <1>0, <1>1, <1>2, Stutters DEF NewTimer, Reached
<1>3. CASE SetAlarm(c)
  <2>1. CASE UNCHANGED driver /\ \E s \in {"testDisabled", "callbacks"} : Proceed(c, s)
    BY <1>3, <2>1, Stutters DEF SetAlarm
  <2> QED  BY <1>1, <1>3, <2>1 DEF SetAlarm
<1>4. CASE RegisterCallbacks(c)
  BY <1>1, <1>4, Stutters DEF RegisterCallbacks
<1> QED  BY <1>2, <1>3, <1>4

LEMMA InitializeSwitches ==
    ASSUME TimerInv, NEW c \in Caller,
           \/ TestDisabled(c) \/ Enable(c) \/ SetEnabled(c)
           \/ TestStopped(c) \/ Start(c) \/ SetRunning(c)
    PROVE  Switch!Serve(c) \/ UNCHANGED Switch!switchVars
<1> USE DEF In, Asked, Steps, InitSteps, Checked
<1>0. Reached(c)
  BY DEF TimerInv
<1>1. CASE TestDisabled(c)
  BY <1>1, Stutters DEF TestDisabled
<1>2. CASE Enable(c)
  <2>1. driver = "init"
    BY <1>0, <1>2 DEF Enable, Reached
  <2> QED  BY <1>2, <2>1, Stutters DEF Enable
<1>3. CASE SetEnabled(c)
  BY <1>3, Stutters DEF SetEnabled
<1>4. CASE TestStopped(c)
  <2>1. CASE gptimer_running
    BY <1>0, <1>4, <2>1, Serves DEF TestStopped, Reached
  <2>2. CASE ~gptimer_running
    BY <1>4, <2>2, Stutters DEF TestStopped
  <2> QED  BY <2>1, <2>2
<1>5. CASE Start(c)
  <2>1. driver = "enable"
    BY <1>0, <1>5 DEF Start, Reached
  <2> QED  BY <1>5, <2>1, Serves DEF Start
<1>6. CASE SetRunning(c)
  BY <1>6, Stutters DEF SetRunning
<1> QED  BY <1>1, <1>2, <1>3, <1>4, <1>5, <1>6

LEMMA EnterSwitches ==
    ASSUME TimerInv, NEW c \in Caller,
           EnterInitialize(c) \/ EnterDeinitialize(c)
    PROVE  \/ Switch!Ask(c, "on") \/ Switch!Ask(c, "off")
           \/ UNCHANGED Switch!switchVars
<1> USE DEF In, Asked, Steps, InitSteps, DeinitSteps
<1>1. CASE EnterInitialize(c)
  BY <1>1, Asks DEF EnterInitialize
<1>2. CASE EnterDeinitialize(c)
  <2>1. CASE driver = "none"
    BY <1>2, <2>1, Stutters DEF EnterDeinitialize
  <2>2. CASE driver # "none"
    BY <1>2, <2>2, Asks DEF EnterDeinitialize
  <2> QED  BY <2>1, <2>2
<1> QED  BY <1>1, <1>2

LEMMA SwitchStep ==
    TimerInv /\ [TimerNext]_timerVars => [Switch!SwitchNext]_(Switch!switchVars)
<1> SUFFICES ASSUME TimerInv, [TimerNext]_timerVars
             PROVE  [Switch!SwitchNext]_(Switch!switchVars)
  OBVIOUS
<1>1. CASE EnterInitialize(Dispatcher)
  BY <1>1, EnterSwitches, DispatcherAssumption DEF Switch!SwitchNext
<1>2. ASSUME NEW c \in Caller, EnterDeinitialize(c)
      PROVE  [Switch!SwitchNext]_(Switch!switchVars)
  BY <1>2, EnterSwitches DEF Switch!SwitchNext
<1>3. ASSUME NEW c \in Caller, CallNext(c)
      PROVE  [Switch!SwitchNext]_(Switch!switchVars)
  BY <1>3, DeinitializeSwitches, PrepareSwitches, InitializeSwitches
  DEF CallNext, Switch!SwitchNext
<1>4. CASE UNCHANGED timerVars
  BY <1>4 DEF timerVars, Switch!switchVars
<1> QED  BY <1>1, <1>2, <1>3, <1>4 DEF TimerNext

\* A call of timer_initialize or timer_deinitialize, however its steps
\* interleave with those of other calls, acts as one switch of the timer.
THEOREM CallsAreAtomic == TimerSpec => ImplementsSwitch
BY SwitchInitially, SwitchStep, TimerInvAlways, PTL
DEF TimerSpec, ImplementsSwitch, Switch!SwitchSpec

-----------------------------------------------------------------------------
(* What computePiDac computes.                                             *)

LEMMA LimitsAreNat ==
    /\ DAC_VALUE_MAX \in Nat
    /\ MAX_PROPORTIONAL \in Nat /\ MAX_INTEGRAL = MAX_PROPORTIONAL
BY WordAssumption DEF MAX_PROPORTIONAL, MAX_INTEGRAL, DAC_VALUE_MAX

LEMMA DivOfNat ==
    ASSUME NEW a \in Nat, NEW d \in Nat \ {0} PROVE a \div d \in Nat
OBVIOUS

\* The product keeps the sign of its argument.
LEMMA TimesKeepsSign ==
    ASSUME NEW num \in Nat, NEW den \in Nat \ {0}, NEW n \in Int
    PROVE  /\ Times(num, den, n) \in Int
           /\ n >= 0 => Times(num, den, n) >= 0
           /\ n < 0 => Times(num, den, n) <= 0
<1>1. CASE n >= 0
  <2>1. num * n \in Nat
    BY <1>1
  <2> QED  BY <1>1, <2>1, DivOfNat DEF Times
<1>2. CASE n < 0
  <2>1. num * (-n) \in Nat
    BY <1>2
  <2> QED  BY <1>2, <2>1, DivOfNat DEF Times
<1> QED  BY <1>1, <1>2

LEMMA TermsInRange ==
    ASSUME NEW error \in Int, NEW sum \in Int
    PROVE  /\ Proportional(error) \in Int /\ Integral(sum) \in Int
           /\ -MAX_PROPORTIONAL <= Proportional(error)
           /\ Proportional(error) <= MAX_PROPORTIONAL
           /\ error >= 0 => Proportional(error) >= 0
           /\ error < 0 => Proportional(error) <= 0
           /\ -MAX_PROPORTIONAL <= Integral(sum)
           /\ Integral(sum) <= MAX_PROPORTIONAL
<1> DEFINE p == Times(kPNum, kPDen, error)
           i == Times(kINum, kIDen, sum)
           m == MAX_PROPORTIONAL
<1>1. /\ p \in Int /\ i \in Int
      /\ error >= 0 => p >= 0
      /\ error < 0 => p <= 0
  BY TimesKeepsSign, GainAssumption
<1>2. m \in Nat /\ Proportional(error) = Clamp(p, -m, m) /\ Integral(sum) = Clamp(i, -m, m)
  BY LimitsAreNat DEF Proportional, Integral
<1> HIDE DEF p, i, m
<1>3. /\ Clamp(p, -m, m) \in Int /\ -m <= Clamp(p, -m, m) /\ Clamp(p, -m, m) <= m
      /\ Clamp(i, -m, m) \in Int /\ -m <= Clamp(i, -m, m) /\ Clamp(i, -m, m) <= m
      /\ p >= 0 => Clamp(p, -m, m) >= 0
      /\ p <= 0 => Clamp(p, -m, m) <= 0
  BY <1>1, <1>2 DEF Clamp
<1>4. m = MAX_PROPORTIONAL
  BY DEF m
<1> QED  BY <1>1, <1>2, <1>3, <1>4

\* The result is a value of the DAC.
LEMMA DacInRange ==
    ASSUME NEW z \in Uint16, NEW error \in Int, NEW sum \in Int
    PROVE  computePiDac(z, error, sum) \in Uint16
<1>1. z \in Int /\ DAC_VALUE_MAX \in Nat
  BY LimitsAreNat DEF Uint16
<1>2. z - Proportional(error) - Integral(sum) \in Int
  BY <1>1, TermsInRange
<1> DEFINE n == z - Proportional(error) - Integral(sum)
<1> HIDE DEF n
<1>3. Clamp(n, 0, DAC_VALUE_MAX) \in Uint16
  BY <1>1, <1>2 DEF Clamp, Uint16, n
<1> QED  BY <1>3 DEF computePiDac, n

\* computePiDac on its terms: the tip moves by at most the two limits, and
\* where one outweighs the other, in its direction.
LEMMA MoveIsBounded ==
    ASSUME NEW z \in Uint16, NEW p \in Int, NEW i \in Int, NEW m \in Nat,
           -m <= p, p <= m, -m <= i, i <= m
    PROVE  LET new == Clamp(z - p - i, 0, DAC_VALUE_MAX)
           IN  /\ new - z <= 2 * m /\ z - new <= 2 * m
               /\ p = -m => new >= z
               /\ p = m => new <= z
<1>1. z \in Int /\ DAC_VALUE_MAX \in Nat /\ 0 <= z /\ z <= DAC_VALUE_MAX
  BY LimitsAreNat DEF Uint16
<1> QED  BY <1>1 DEF Clamp

\* One correction moves the tip by at most a fifth of its range.
THEOREM StepIsBounded ==
    ASSUME NEW z \in Uint16, NEW error \in Int, NEW sum \in Int
    PROVE  /\ computePiDac(z, error, sum) - z <= 2 * MAX_PROPORTIONAL
           /\ z - computePiDac(z, error, sum) <= 2 * MAX_PROPORTIONAL
BY TermsInRange, LimitsAreNat, MoveIsBounded DEF computePiDac

\* The proportional term at its limit outweighs any integral.
THEOREM SaturatedMovesRight ==
    ASSUME NEW z \in Uint16, NEW error \in Int, NEW sum \in Int,
           Saturated(error)
    PROVE  IF error < 0 THEN computePiDac(z, error, sum) >= z
           ELSE computePiDac(z, error, sum) <= z
<1>1. IF error < 0 THEN Proportional(error) = -MAX_PROPORTIONAL
      ELSE Proportional(error) = MAX_PROPORTIONAL
  BY TermsInRange, LimitsAreNat DEF Saturated
<1> QED  BY <1>1, TermsInRange, LimitsAreNat, MoveIsBounded DEF computePiDac

-----------------------------------------------------------------------------
(* The sum of the errors wraps around, but two errors never give one sum.  *)

LEMMA DivMod ==
    ASSUME NEW a \in Int, NEW m \in Nat \ {0}
    PROVE  /\ a \div m \in Int /\ a % m \in 0 .. m - 1
           /\ a = m * (a \div m) + (a % m)
OBVIOUS

LEMMA SameRemainder ==
    ASSUME NEW a \in Int, NEW b \in Int, NEW m \in Nat \ {0},
           a % m = b % m, a - b < m, b - a < m
    PROVE  a = b
<1> DEFINE q == (a \div m) - (b \div m)
<1>1. q \in Int /\ a - b = m * q
  BY DivMod
<1> HIDE DEF q
<1>2. q = 0
  <2>1. ASSUME q >= 1 PROVE FALSE
    <3>1. m * q >= m
      BY <2>1, <1>1
    <3> QED  BY <3>1, <1>1
  <2>2. ASSUME q <= -1 PROVE FALSE
    <3>1. m * q <= -m
      BY <2>2, <1>1
    <3> QED  BY <3>1, <1>1
  <2> QED  BY <2>1, <2>2, <1>1
<1> QED  BY <1>1, <1>2

LEMMA AccumulateIsInt ==
    ASSUME NEW i \in Int, NEW e \in Int
    PROVE  Accumulate(i, e) \in -HalfInt .. HalfInt - 1
<1>1. 2 * HalfInt \in Nat \ {0} /\ i + e + HalfInt \in Int
  BY HalfIntAssumption
<1>2. (i + e + HalfInt) % (2 * HalfInt) \in 0 .. 2 * HalfInt - 1
  BY <1>1, DivMod
<1> QED  BY <1>2, HalfIntAssumption DEF Accumulate

LEMMA AccumulateInjective ==
    ASSUME NEW i \in Int,
           NEW e \in -HalfInt + 1 .. HalfInt - 1,
           NEW f \in -HalfInt + 1 .. HalfInt - 1,
           Accumulate(i, e) = Accumulate(i, f)
    PROVE  e = f
<1> DEFINE a == i + e + HalfInt
           b == i + f + HalfInt
           m == 2 * HalfInt
<1>1. a \in Int /\ b \in Int /\ m \in Nat \ {0} /\ a - b < m /\ b - a < m
  BY HalfIntAssumption
<1>2. a % m \in Int /\ b % m \in Int /\ (a % m) - HalfInt = (b % m) - HalfInt
  <2>1. a % m \in 0 .. m - 1 /\ b % m \in 0 .. m - 1
    BY <1>1, DivMod
  <2> QED  BY <2>1, <1>1 DEF Accumulate
<1>3. a % m = b % m
  <2> HIDE DEF a, b, m
  <2> QED  BY <1>2, HalfIntAssumption
<1>4. a = b
  <2> HIDE DEF a, b, m
  <2> QED  BY <1>1, <1>3, SameRemainder
<1> QED  BY <1>4, HalfIntAssumption

LEMMA AccumulateNothing ==
    ASSUME NEW i \in -HalfInt .. HalfInt - 1 PROVE Accumulate(i, 0) = i
<1>1. i + 0 + HalfInt \in Nat /\ i + 0 + HalfInt < 2 * HalfInt
      /\ 2 * HalfInt \in Nat \ {0}
  BY HalfIntAssumption
<1>2. \A a \in Nat, m \in Nat \ {0} : a < m => a % m = a
  OBVIOUS
<1>3. (i + 0 + HalfInt) % (2 * HalfInt) = i + 0 + HalfInt
  BY <1>1, <1>2
<1> QED  BY <1>3, HalfIntAssumption DEF Accumulate

-----------------------------------------------------------------------------
(* The discipline of the timer.                                            *)

\* Only one loop exists at a time, and none beside sinusLoop or before
\* vspiDacLoop has started.
OneAtATime ==
    /\ \A j, k \in Loop : loop[j] # "none" /\ loop[k] # "none" => j = k
    /\ sinusPc # "none" => \A k \in Loop : loop[k] = "none"
    /\ vspi = "boot" => sinusPc = "none" /\ \A k \in Loop : loop[k] = "none"

\* A loop is in timer_deinitialize only while it leaves, and none leaves
\* while the dispatcher is in timer_initialize.
CallsInOrder ==
    /\ \A k \in Loop : call[k] \in {"idle"} \cup DeinitSteps
    /\ \A k \in Loop : loop[k] # "leaving" => call[k] = "idle"
    /\ call[Dispatcher] \in InitSteps => \A k \in Loop :
          /\ loop[k] \in {"none", "reset", "wait", "write"}
          /\ loop[k] # "none" => active[k]

\* Only a loop that is at it writes to the globals.
Writing ==
    assigning # Nothing =>
        sinusPc = "reset" \/ \E k \in Loop : loop[k] \in {"write", "park"}

LoopTypes ==
    /\ call \in [Caller -> Steps]
    /\ active \in [Loop -> BOOLEAN]
    /\ loop \in [Loop -> LoopSteps]

UseInv == LoopTypes /\ OneAtATime /\ CallsInOrder /\ Writing

LEMMA UseInit == Init => UseInv
BY CallerAssumption
DEF Init, TimerInit, DacInit, UseInv, LoopTypes, OneAtATime, CallsInOrder,
    Writing, Steps, InitSteps, LoopSteps

LEMMA CallNextInOrder ==
    ASSUME UseInv, NEW c \in Caller, CallNext(c),
           UNCHANGED <<dacVars, loopVars>>
    PROVE  UseInv'
<1>1. CASE UNCHANGED call
  BY <1>1
  DEF UseInv, LoopTypes, OneAtATime, CallsInOrder, Writing, dacVars, loopVars,
      writeVars, sinusVars, vspiVars
<1> DEFINE Moves(s) ==
             /\ Proceed(c, s) /\ call[c] # "idle"
             /\ call[c] \in DeinitSteps => s \in {"idle"} \cup DeinitSteps
             /\ s \in InitSteps => call[c] \in InitSteps
<1>2. CASE \E s \in Steps : Moves(s)
  <2>1. PICK s \in Steps : Moves(s)
    BY <1>2
  <2>2. /\ call' \in [Caller -> Steps] /\ call'[c] = s
        /\ \A o \in Caller : o # c => call'[o] = call[o]
    BY <2>1 DEF Proceed, UseInv, LoopTypes
  <2>3. UNCHANGED <<active, loop, sinusPc, vspi, assigning>>
    BY DEF dacVars, writeVars, loopVars, sinusVars, vspiVars
  <2>4. LoopTypes' /\ OneAtATime' /\ Writing'
    BY <2>2, <2>3 DEF UseInv, LoopTypes, OneAtATime, Writing
  <2>5. \A k \in Loop : k \in Caller /\ k # Dispatcher
    BY CallerAssumption
  <2>6. CallsInOrder'
    BY <2>1, <2>2, <2>3, <2>5, DispatcherAssumption
    DEF UseInv, CallsInOrder, Steps, DeinitSteps, InitSteps
  <2> QED  BY <2>4, <2>6 DEF UseInv
<1>3. UNCHANGED call \/ \E s \in Steps : Moves(s)
  <2> USE DEF In, Steps, DeinitSteps, InitSteps, Checked, Abort
  <2>1. CASE TestRunning(c) \/ Stop(c) \/ ClearRunning(c)
    BY <2>1 DEF TestRunning, Stop, ClearRunning
  <2>2. CASE TestEnabled(c) \/ Disable(c) \/ ClearEnabled(c)
    BY <2>2 DEF TestEnabled, Disable, ClearEnabled
  <2>3. CASE NewTimer(c) \/ SetAlarm(c) \/ RegisterCallbacks(c)
    BY <2>3 DEF NewTimer, SetAlarm, RegisterCallbacks
  <2>4. CASE TestDisabled(c) \/ Enable(c) \/ SetEnabled(c)
    BY <2>4 DEF TestDisabled, Enable, SetEnabled
  <2>5. CASE TestStopped(c) \/ Start(c) \/ SetRunning(c)
    BY <2>5 DEF TestStopped, Start, SetRunning
  <2> QED  BY <2>1, <2>2, <2>3, <2>4, <2>5 DEF CallNext
<1> QED  BY <1>1, <1>2, <1>3

\* The timer's variables as the start of a call leaves them.
LEMMA EnterInOrder ==
    ASSUME LoopTypes, NEW c \in Caller,
           EnterInitialize(c) \/ EnterDeinitialize(c)
    PROVE  /\ call' \in [Caller -> Steps]
           /\ call[c] = "idle"
           /\ \A o \in Caller : o # c => call'[o] = call[o]
           /\ EnterInitialize(c) => call'[c] \in InitSteps
           /\ EnterDeinitialize(c) => call'[c] \in {"idle"} \cup DeinitSteps
BY DEF LoopTypes, EnterInitialize, EnterDeinitialize, In, Proceed, Steps,
       DeinitSteps, InitSteps

LEMMA UseInvStep == UseInv /\ [Next]_vars => UseInv'
<1> SUFFICES ASSUME UseInv, [Next]_vars PROVE UseInv'
  OBVIOUS
<1> USE DEF UseInv, LoopSteps
<1>0. /\ \A k \in Loop : k \in Caller /\ k # Dispatcher
      /\ "measure" \in Loop /\ "tunnel" \in Loop /\ "adjust" \in Loop
      /\ Timed \subseteq Loop
      /\ InitSteps \cap ({"idle"} \cup DeinitSteps) = {}
  BY CallerAssumption DEF Loop, Timed, InitSteps, DeinitSteps
<1>1. CASE TimerStep
  BY <1>1, CallNextInOrder DEF TimerStep
<1>2. CASE DacStep
  <2>1. UNCHANGED <<call, active, loop>>
    BY <1>2 DEF DacStep, timerVars, loopVars
  <2>2. OneAtATime' /\ Writing'
    <3>1. CASE VspiStart \/ VspiSent
      BY <2>1, <3>1
      DEF VspiStart, VspiSent, SendNext, sinusVars, writeVars, OneAtATime, Writing
    <3>2. CASE Assign
      BY <2>1, <3>2
      DEF Assign, Store, sinusVars, OneAtATime, Writing, Axis, X, Y, Z, Nothing
    <3>3. CASE SinusTest \/ SinusSend \/ SinusDelay
      BY <2>1, <3>3
      DEF SinusTest, SinusSend, SinusDelay, writeVars, vspiVars, OneAtATime, Writing
    <3>4. CASE SinusExit
      <4>1. sinusPc = "exit" /\ sinusPc' = "reset" /\ UNCHANGED vspi
        BY <3>4 DEF SinusExit, resetDac, Write, Store
      <4> QED  BY <2>1, <4>1 DEF OneAtATime, Writing
    <3>5. CASE SinusGone
      <4>1. sinusPc = "reset" /\ sinusPc' = "none" /\ assigning' = Nothing
            /\ (vspi' = "boot" => vspi = "boot")
        BY <3>5 DEF SinusGone, ResumeVspi, SendNext
      <4> QED  BY <2>1, <4>1 DEF OneAtATime, Writing
    <3> QED  BY <1>2, <3>1, <3>2, <3>3, <3>4, <3>5 DEF DacStep, DacNext
  <2> QED  BY <2>1, <2>2 DEF LoopTypes, CallsInOrder
<1>3. CASE StartAdjust
  <2>1. UNCHANGED <<call, sinusPc, vspi, assigning>>
    BY <1>3 DEF StartAdjust, timerVars, dacVars, writeVars, sinusVars, vspiVars
  <2> QED
    BY <1>0, <1>3, <2>1
    DEF StartAdjust, Quiet, Listening, In, LoopTypes, OneAtATime, CallsInOrder,
        Writing, InitSteps
<1>4. CASE StartSinus
  <2>1. UNCHANGED <<call, active, loop, vspi, assigning>>
    BY <1>4 DEF StartSinus, SinusCommand, timerVars, loopVars, vspiVars, writeVars
  <2> QED
    BY <1>4, <2>1 DEF StartSinus, LoopTypes, OneAtATime, CallsInOrder, Writing
<1>5. CASE StopCommand
  <2>1. UNCHANGED <<sinusPc, vspi, assigning>>
    BY <1>5 DEF StopCommand, vspiVars, writeVars
  <2>2. /\ active' \in [Loop -> BOOLEAN] /\ loop' \in [Loop -> LoopSteps]
        /\ \A k \in Loop : loop'[k] = loop[k]
                           \/ (loop[k] = "wait" /\ loop'[k] = "woken")
    BY <1>5 DEF StopCommand, LoopTypes
  <2>3. EnterDeinitialize(Dispatcher)
    BY <1>5 DEF StopCommand
  <2> QED
    BY <1>0, <2>1, <2>2, <2>3, EnterInOrder, DispatcherAssumption
    DEF LoopTypes, OneAtATime, CallsInOrder, Writing
<1>6. ASSUME NEW k \in Timed, StartTimed(k) PROVE UseInv'
  <2>1. UNCHANGED <<sinusPc, vspi, assigning>>
    BY <1>6 DEF StartTimed, dacVars, writeVars, sinusVars, vspiVars
  <2>2. /\ active' \in [Loop -> BOOLEAN] /\ active'[k]
        /\ loop' \in [Loop -> LoopSteps]
        /\ loop'[k] \in {"reset", "wait"}
        /\ \A j \in Loop : loop[j] = "none"
        /\ \A j \in Loop : j # k => loop'[j] = "none"
    BY <1>0, <1>6 DEF StartTimed, Quiet, LoopTypes
  <2>3. EnterInitialize(Dispatcher) /\ sinusPc = "none" /\ vspi # "boot"
    BY <1>6 DEF StartTimed, Quiet
  <2>4. \A j \in Loop : call'[j] = call[j] /\ call[j] = "idle"
    BY <1>0, <1>6, <2>3, EnterInOrder, DispatcherAssumption
    DEF StartTimed, Quiet, CallsInOrder
  <2> QED
    BY <1>0, <2>1, <2>2, <2>3, <2>4, EnterInOrder, DispatcherAssumption
    DEF LoopTypes, OneAtATime, CallsInOrder, Writing
<1>7. ASSUME NEW k \in Timed, Tick(k) PROVE UseInv'
  <2>1. UNCHANGED <<call, sinusPc, vspi, active, assigning>>
    BY <1>7 DEF Tick, timerVars, dacVars, writeVars, sinusVars, vspiVars
  <2> QED
    BY <1>0, <1>7, <2>1 DEF Tick, At, LoopTypes, OneAtATime, CallsInOrder, Writing
<1>8. ASSUME NEW k \in Loop, NEW step \in {"write", "park"}, UNCHANGED call,
             UNCHANGED <<vspi, sinusPc, active>>,
             loop' = [loop EXCEPT ![k] = step],
             \/ loop[k] \in {"reset", "woken"} /\ step = "write"
             \/ loop[k] = "wait" /\ step = "write"
             \/ loop[k] = "wait" /\ step = "park" /\ ~active[k]
      PROVE  UseInv'
  BY <1>0, <1>8 DEF LoopTypes, OneAtATime, CallsInOrder, Writing
<1>9. ASSUME NEW k \in Timed, Correct(k) PROVE UseInv'
  BY <1>0, <1>8, <1>9 DEF Correct, At, Write, Store, timerVars, sinusVars
<1>10. CASE MoveOn
  BY <1>0, <1>8, <1>10 DEF MoveOn, At, Write, Store, timerVars, sinusVars
<1>11. CASE TunnelReset
  BY <1>0, <1>8, <1>11 DEF TunnelReset, At, resetDac, Write, Store, timerVars, sinusVars
<1>12. CASE Tip
  BY <1>0, <1>8, <1>12 DEF Tip, At, Write, Store, timerVars, sinusVars
<1>13. CASE Park
  BY <1>0, <1>8, <1>13 DEF Park, At, resetDac, Write, Store, timerVars, sinusVars
<1>14. CASE StayOn
  <2>1. UNCHANGED <<call, sinusPc, vspi, active, assigning>>
    BY <1>14 DEF StayOn, timerVars, dacVars, writeVars, sinusVars, vspiVars
  <2> QED
    BY <1>0, <1>14, <2>1
    DEF StayOn, At, LoopTypes, OneAtATime, CallsInOrder, Writing
<1>15. ASSUME NEW k \in Loop, Written(k) PROVE UseInv'
  <2>1. UNCHANGED <<call, sinusPc, active>> /\ assigning' = Nothing
        /\ loop[k] = "write" /\ loop' = [loop EXCEPT ![k] = "wait"]
        /\ (vspi' = "boot" => vspi = "boot")
    BY <1>15 DEF Written, At, ResumeVspi, SendNext, timerVars, sinusVars
  <2> QED  BY <1>0, <2>1 DEF LoopTypes, OneAtATime, CallsInOrder, Writing
<1>16. ASSUME NEW k \in Loop, EnterDeinitialize(k),
              UNCHANGED sinusPc, vspi' = "boot" => vspi = "boot",
              assigning' = assigning \/ assigning' = Nothing,
              assigning' # Nothing => loop[k] \notin {"write", "park"},
              loop[k] \in {"woken", "park"} \/ (loop[k] = "wait" /\ ~active[k]),
              active' \in [Loop -> BOOLEAN],
              loop' = [loop EXCEPT ![k] = "leaving"]
       PROVE  UseInv'
  <2>1. call[Dispatcher] \notin InitSteps
    BY <1>0, <1>16 DEF CallsInOrder
  <2> QED
    BY <1>0, <1>16, <2>1, EnterInOrder, DispatcherAssumption
    DEF LoopTypes, OneAtATime, CallsInOrder, Writing
<1>17. ASSUME NEW k \in Timed, Finish(k) \/ Leave(k) PROVE UseInv'
  <2>1. UNCHANGED <<sinusPc, vspi, assigning>>
    BY <1>17 DEF Finish, Leave, dacVars, writeVars, sinusVars, vspiVars
  <2>2. active' \in [Loop -> BOOLEAN]
    BY <1>17 DEF Finish, Leave, LoopTypes
  <2> QED  BY <1>0, <1>16, <1>17, <2>1, <2>2 DEF Finish, Leave, At
<1>18. CASE Parked
  <2>1. UNCHANGED <<sinusPc, active>> /\ assigning' = Nothing
        /\ (vspi' = "boot" => vspi = "boot")
    BY <1>18 DEF Parked, ResumeVspi, SendNext, sinusVars
  <2>2. active' \in [Loop -> BOOLEAN]
    BY <2>1 DEF LoopTypes
  <2> QED  BY <1>0, <1>16, <1>18, <2>1, <2>2 DEF Parked, At
<1>19. ASSUME NEW k \in Loop, Gone(k) PROVE UseInv'
  <2>1. UNCHANGED <<call, sinusPc, vspi, assigning>>
    BY <1>19 DEF Gone, timerVars, dacVars, writeVars, sinusVars, vspiVars
  <2> QED
    BY <1>0, <1>19, <2>1 DEF Gone, At, LoopTypes, OneAtATime, CallsInOrder, Writing
<1>20. CASE UNCHANGED vars
  BY <1>20
  DEF vars, timerVars, dacVars, writeVars, sinusVars, vspiVars, loopVars,
      LoopTypes, OneAtATime, CallsInOrder, Writing
<1> QED
  BY <1>1, <1>2, <1>3, <1>4, <1>5, <1>6, <1>7, <1>9, <1>10, <1>11, <1>12, <1>13,
     <1>14, <1>15, <1>17, <1>18, <1>19, <1>20
  DEF Next, Rebooting

LEMMA TimerDiscipline == UseInv /\ [Next]_vars => [TimerNext]_timerVars
<1> SUFFICES ASSUME UseInv, [Next]_vars PROVE [TimerNext]_timerVars
  OBVIOUS
<1>0. \A k \in Loop : k \in Caller /\ k # Dispatcher
  BY CallerAssumption
<1>1. CASE TimerStep
  BY <1>1 DEF TimerStep, TimerNext
<1>2. CASE \/ DacStep \/ StartAdjust \/ StartSinus \/ TunnelReset \/ MoveOn
           \/ StayOn \/ Tip \/ Park \/ \E k \in Timed : Tick(k) \/ Correct(k)
           \/ \E k \in Loop : Written(k) \/ Gone(k)
  BY <1>2
  DEF DacStep, StartAdjust, StartSinus, TunnelReset, MoveOn, StayOn, Tip, Park,
      Tick, Correct, Written, Gone
<1>3. ASSUME NEW k \in Timed, StartTimed(k) PROVE TimerNext
  <2>1. \A j \in Loop : call[j] = "idle"
    BY <1>3 DEF StartTimed, Quiet, UseInv, CallsInOrder
  <2>2. call[Dispatcher] = "idle"
    BY <1>3 DEF StartTimed, Listening, In
  <2>3. NobodyDeinitializes
    BY <2>1, <2>2, CallerAssumption DEF NobodyDeinitializes, DeinitSteps
  <2> QED  BY <1>3, <2>3 DEF StartTimed, TimerNext
<1>4. ASSUME call[Dispatcher] \notin InitSteps PROVE NobodyInitializes
  BY <1>4, CallerAssumption
  DEF NobodyInitializes, UseInv, CallsInOrder, InitSteps, DeinitSteps
<1>5. CASE StopCommand
  BY <1>4, <1>5, DispatcherAssumption
  DEF StopCommand, Listening, In, TimerNext, InitSteps
<1>6. ASSUME NEW k \in Timed, Finish(k) \/ Leave(k) PROVE TimerNext
  <2>1. k \in Loop /\ EnterDeinitialize(k)
        /\ (loop[k] = "woken" \/ (loop[k] = "wait" /\ ~active[k]))
    BY <1>6 DEF Finish, Leave, At, Loop
  <2>2. call[Dispatcher] \notin InitSteps
    BY <2>1 DEF UseInv, CallsInOrder
  <2> QED  BY <1>0, <1>4, <2>1, <2>2 DEF TimerNext
<1>7. CASE Parked
  <2>1. "adjust" \in Loop /\ EnterDeinitialize("adjust") /\ loop["adjust"] = "park"
    BY <1>7 DEF Parked, At, Loop
  <2>2. call[Dispatcher] \notin InitSteps
    BY <2>1 DEF UseInv, CallsInOrder
  <2> QED  BY <1>0, <1>4, <2>1, <2>2 DEF TimerNext
<1>8. CASE UNCHANGED vars
  BY <1>8 DEF vars
<1> QED
  BY <1>1, <1>2, <1>3, <1>5, <1>6, <1>7, <1>8 DEF Next, Rebooting

LEMMA UseInvAlways == Spec => []UseInv
BY UseInit, UseInvStep, PTL DEF Spec

\* With a patient client the dispatcher and the loops keep to the discipline
\* of GpTimer, so that its theorems hold of the composition.
LEMMA LoopsUseTimerWell == Spec => TimerSpec
<1>1. Init => TimerInit
  BY DEF Init
<1> QED  BY <1>1, TimerDiscipline, UseInvAlways, PTL DEF Spec, TimerSpec

\* With the loops as callers and a patient client, timer_initialize asks the
\* driver only for what its state allows: STOP and the end of a loop may
\* switch the timer off at the same time, in any interleaving.
THEOREM LoopsKeepTimerSound == Spec => []StateChecksHold
BY LoopsUseTimerWell, StateChecksAlwaysHold, PTL

\* The one parameter that makes a MEASURE or TUNNEL reboot the board there is
\* a measureMs of 0.
THEOREM OnlyZeroReboots == Spec => [](0 \notin MeasureMs => ErrorCheckHolds)
BY LoopsUseTimerWell, OnlyZeroIsRefused, PTL

\* When neither a loop nor the dispatcher is in a call of project_timer.cpp,
\* gptimer_enabled and gptimer_running say what the driver's timer does.
THEOREM TimerFlagsAreRight == Spec => []FlagsMirrorDriver
BY LoopsUseTimerWell, FlagsAreRight, PTL

\* Each call of the loops and of the dispatcher switches the timer at one
\* instant, as RunGlobals has it (timer_initialize, timer_deinitialize).
THEOREM TimerIsASwitch == Spec => ImplementsSwitch
BY LoopsUseTimerWell, CallsAreAtomic, PTL

-----------------------------------------------------------------------------
(* The values reach the DACs.                                              *)

DacTypes ==
    /\ current \in [Axis -> Uint16] /\ last \in [Axis -> Uint16]
    /\ out \in [Axis -> Uint16]
    /\ writer \in [Axis -> {"nobody", "vspi", "sinus"}]
    /\ vspi \in {"boot", "suspended", "sending"} /\ sending \in Axis
    /\ target \in [Axis -> Uint16] /\ assigning \in Nothing .. Resume
    /\ late \subseteq Axis

\* While vspiDacLoop rests, last and current agree but on the axes it has
\* missed and those written since; while it sends, they agree on the axes it
\* has passed but those it has missed.
Passed ==
    /\ vspi = "suspended" => \A a \in Axis :
          \/ current[a] = last[a] \/ a \in late
          \/ assigning # Nothing /\ a < assigning
    /\ vspi = "sending" => \A a \in Axis :
          a < sending => current[a] = last[a] \/ a \in late

\* What vspiDacLoop has sent.
Sent ==
    \A a \in Axis : writer[a] = "vspi" =>
        /\ vspi # "boot"
        /\ \/ a \in late
           \/ out[a] = IF vspi = "sending" /\ a = sending THEN current[a]
                       ELSE last[a]

\* Beside sinusLoop vspiDacLoop rests, and the globals are left alone.
Paced ==
    /\ sinusPc # "none" => vspi = "suspended"
    /\ sinusPc \notin {"none", "reset"} => assigning = Nothing

SinusTypes ==
    /\ sinusIsActive \in BOOLEAN /\ handleSinusLoop \in BOOLEAN
    /\ sinusPc \in {"none", "test", "send", "delay", "exit", "reset"}
    /\ sinusAxis \in Axis /\ sinusIndex \in 0 .. WaveSize - 1
    /\ buffer0 \in Uint16

PlacedInv == DacTypes /\ SinusTypes /\ Passed /\ Sent /\ Paced

\* Where vspiDacLoop stands after it has gone on at axis from.
LEMMA SendNextPlaces ==
    ASSUME DacTypes, NEW cur \in [Axis -> Uint16], NEW lst \in [Axis -> Uint16],
           NEW from \in X .. Z + 1,
           SendNext(cur, lst, from), current' = cur, last' = lst,
           target' = target, assigning' \in Nothing .. Resume,
           \A a \in Axis : a < from => cur[a] = lst[a] \/ a \in late,
           \A a \in Axis : writer[a] = "vspi" => a \in late \/ out[a] = lst[a]
    PROVE  DacTypes' /\ Passed' /\ Sent' /\ vspi' # "boot"
<1> USE DEF Axis, X, Y, Z
<1>1. ASSUME NEW b \in Axis, b >= from, cur[b] # lst[b],
             \A a \in Axis : from <= a /\ a < b => cur[a] = lst[a],
             vspi' = "sending", sending' = b, out' = [out EXCEPT ![b] = cur[b]],
             writer' = [writer EXCEPT ![b] = "vspi"], late' = late \ {b}
      PROVE  DacTypes' /\ Passed' /\ Sent' /\ vspi' # "boot"
  <2>1. DacTypes'
    BY <1>1 DEF DacTypes
  <2>2. Passed'
    BY <1>1 DEF Passed
  <2>3. Sent'
    BY <1>1 DEF Sent, DacTypes
  <2> QED  BY <1>1, <2>1, <2>2, <2>3
<1>2. CASE /\ \A a \in Axis : a >= from => cur[a] = lst[a]
           /\ vspi' = "suspended" /\ sending' = X /\ UNCHANGED <<out, writer, late>>
  BY <1>2 DEF DacTypes, Passed, Sent
<1> QED  BY <1>1, <1>2 DEF SendNext

\* An assignment to a global.
LEMMA StorePlaces ==
    ASSUME DacTypes, Passed, Sent, NEW a \in Axis, NEW value \in Uint16,
           Store(a, value), assigning \in {Nothing, a}, assigning' = a + 1,
           target' \in [Axis -> Uint16]
    PROVE  DacTypes' /\ Passed' /\ Sent' /\ UNCHANGED vspi
<1> USE DEF Axis, X, Y, Z, Nothing, Resume
<1>1. /\ UNCHANGED <<last, out, vspi, sending, writer>>
      /\ current' = [current EXCEPT ![a] = value]
      /\ late' = IF vspi = "sending" /\ a <= sending /\ value # current[a]
                 THEN late \cup {a} ELSE late
  BY DEF Store
<1>2. DacTypes'
  BY <1>1 DEF DacTypes
<1>3. \A b \in Axis : b # a => current'[b] = current[b]
  BY <1>1 DEF DacTypes
<1>4. current'[a] = value
  BY <1>1 DEF DacTypes
<1>5. late \subseteq late'
  BY <1>1
<1>6. Passed'
  <2>1. CASE vspi = "suspended"
    BY <1>1, <1>3, <1>5, <2>1 DEF Passed
  <2>2. CASE vspi = "sending"
    BY <1>1, <1>3, <1>4, <1>5, <2>2 DEF Passed, DacTypes
  <2> QED  BY <1>1, <2>1, <2>2 DEF Passed
<1>7. Sent'
  BY <1>1, <1>3, <1>4, <1>5 DEF Sent, DacTypes
<1> QED  BY <1>1, <1>2, <1>6, <1>7

\* The first assignment of a write to the globals.
LEMMA WritePlaces ==
    ASSUME DacTypes, Passed, Sent, assigning = Nothing, NEW a \in Axis,
           NEW values \in [Axis -> Uint16], Write(a, values)
    PROVE  DacTypes' /\ Passed' /\ Sent' /\ UNCHANGED vspi
BY StorePlaces DEF Write

\* The resume at its end.
LEMMA ResumePlaces ==
    ASSUME DacTypes, Passed, Sent, ResumeVspi
    PROVE  DacTypes' /\ Passed' /\ Sent' /\ (vspi' = "boot" => vspi = "boot")
<1>1. /\ UNCHANGED <<current, target, last>> /\ assigning' = Nothing
      /\ Nothing \in Nothing .. Resume
  BY DEF ResumeVspi, Nothing, Resume, Z
<1>2. CASE vspi = "suspended"
  <2>1. SendNext(current, last, X)
    BY <1>2 DEF ResumeVspi
  <2>2. \A a \in Axis : writer[a] = "vspi" => a \in late \/ out[a] = last[a]
    BY <1>2 DEF Sent
  <2>3. X \in X .. Z + 1 /\ \A a \in Axis : ~(a < X)
    BY DEF Axis, X, Y, Z
  <2>4. current \in [Axis -> Uint16] /\ last \in [Axis -> Uint16]
    BY DEF DacTypes
  <2> QED  BY <1>1, <2>1, <2>2, <2>3, <2>4, SendNextPlaces
<1>3. CASE vspi # "suspended"
  <2>1. UNCHANGED <<vspi, sending, out, writer, late>>
    BY <1>3 DEF ResumeVspi
  <2> QED  BY <1>1, <1>3, <2>1 DEF DacTypes, Passed, Sent
<1> QED  BY <1>2, <1>3

LEMMA GridValues ==
    ASSUME NEW g \in GridDac, NEW z \in Uint16
    PROVE  [a \in Axis |-> IF a = X THEN g[1] ELSE IF a = Y THEN g[2] ELSE z]
              \in [Axis -> Uint16]
BY GridDacAssumption

LEMMA ConstantsAreDacValues ==
    DAC_VALUE_MAX \in Uint16 /\ DAC_VALUE_MAX \div 2 \in Uint16
BY WordAssumption DEF DAC_VALUE_MAX, Uint16

LEMMA ResetPlaces ==
    ASSUME DacTypes, Passed, Sent, assigning = Nothing, resetDac
    PROVE  DacTypes' /\ Passed' /\ Sent' /\ UNCHANGED vspi
<1>1. X \in Axis
  BY DEF Axis
<1> QED  BY <1>1, WritePlaces, GridValues, ConstantsAreDacValues DEF resetDac

LEMMA WaveStarts == 0 \in 0 .. WaveSize - 1 /\ Wave[0] \in Uint16
BY WaveAssumption

LEMMA PlacedInit == Init => PlacedInv
<1> SUFFICES ASSUME Init PROVE PlacedInv
  OBVIOUS
<1>1. 0 \in Uint16 /\ DAC_VALUE_MAX \in Uint16 /\ X \in Axis
  BY WordAssumption DEF Uint16, DAC_VALUE_MAX, Axis
<1>2. DacTypes
  BY <1>1 DEF Init, DacInit, DacTypes, Nothing, Resume, Z
<1>3. SinusTypes
  BY <1>1, WaveStarts DEF Init, DacInit, SinusTypes
<1>4. Passed /\ Sent /\ Paced
  BY DEF Init, DacInit, Passed, Sent, Paced
<1> QED  BY <1>2, <1>3, <1>4 DEF PlacedInv

LEMMA SwapInRange == ASSUME NEW v \in Uint16 PROVE endianSwap(v) \in Uint16
<1> DEFINE h == v \div Byte
           l == v % Byte
<1>1. Byte \in Nat \ {0} /\ v \in Nat /\ v < Byte * Byte
  BY WordAssumption, ByteAssumption DEF Uint16, DAC_VALUE_MAX
<1>2. h \in Nat /\ l \in 0 .. Byte - 1 /\ v = Byte * h + l
  <2>1. v \in Int /\ Byte \in Nat \ {0}
    BY <1>1
  <2>2. v \div Byte \in Nat
    BY <1>1, DivOfNat
  <2>3. v % Byte \in 0 .. Byte - 1 /\ v = Byte * (v \div Byte) + (v % Byte)
    BY <2>1, DivMod
  <2> QED  BY <2>2, <2>3
<1> HIDE DEF h, l
<1>3. h <= Byte - 1
  <2> SUFFICES ASSUME h >= Byte PROVE FALSE
    BY <1>1, <1>2
  <2>1. Byte * h >= Byte * Byte
    BY <1>1, <1>2
  <2> QED  BY <2>1, <1>1, <1>2
<1>4. l * Byte <= (Byte - 1) * Byte /\ l * Byte \in Nat
  BY <1>1, <1>2
<1>5. (l * Byte) + h \in 0 .. (Byte * Byte) - 1
  BY <1>1, <1>2, <1>3, <1>4
<1> QED  BY <1>5, ByteAssumption DEF endianSwap, Uint16, DAC_VALUE_MAX, h, l

LEMMA SampleInRange == ASSUME SinusTypes PROVE Sample \in Uint16
BY WaveAssumption DEF SinusTypes, Sample

\* The steps of vspiDacLoop and sinusLoop.
LEMMA DacStepPlaces ==
    ASSUME UseInv, PlacedInv, DacNext, UNCHANGED loopVars
    PROVE  PlacedInv'
<1> USE DEF PlacedInv
<1>0. UNCHANGED loop
  BY DEF loopVars
<1>1. CASE VspiStart
  <2>1. PICK g \in GridDac :
          current' = [a \in Axis |-> IF a = X THEN g[1] ELSE IF a = Y THEN g[2]
                                     ELSE DAC_VALUE_MAX]
    BY <1>1 DEF VspiStart
  <2>2. current' \in [Axis -> Uint16]
    BY <2>1, GridValues, ConstantsAreDacValues
  <2>3. SendNext(current', last, X) /\ last' = last /\ vspi = "boot"
    BY <1>1 DEF VspiStart
  <2>4. DacTypes' /\ Passed' /\ Sent' /\ vspi' # "boot"
    <3> DEFINE cur == current'
    <3>1. X \in X .. Z + 1 /\ \A a \in Axis : ~(a < X)
      BY DEF Axis, X, Y, Z
    <3>2. /\ cur \in [Axis -> Uint16] /\ SendNext(cur, last, X) /\ current' = cur
          /\ UNCHANGED <<target, assigning>>
      BY <1>1, <2>2, <2>3 DEF VspiStart
    <3>3. \A a \in Axis : writer[a] # "vspi"
      BY <2>3 DEF Sent
    <3> HIDE DEF cur
    <3> QED
      BY <3>1, <3>2, <3>3, <2>3, SendNextPlaces DEF DacTypes
  <2>5. Paced' /\ SinusTypes'
    BY <1>0, <1>1, <2>3
    DEF VspiStart, UseInv, OneAtATime, Paced, SinusTypes, sinusVars
  <2> QED  BY <2>4, <2>5
<1>2. CASE VspiSent
  <2>1. /\ vspi = "sending" /\ current' = current
        /\ last' = [last EXCEPT ![sending] = current[sending]]
        /\ SendNext(current, last', sending + 1) /\ UNCHANGED <<target, assigning>>
    BY <1>2 DEF VspiSent, writeVars
  <2>2. \A a \in Axis : writer[a] = "vspi" => a \in late \/ out[a] = last'[a]
    BY <2>1 DEF Sent, DacTypes
  <2>3. \A a \in Axis : a < sending + 1 => current[a] = last'[a] \/ a \in late
    BY <2>1 DEF Passed, DacTypes, Axis, X, Y, Z
  <2>4. DacTypes' /\ Passed' /\ Sent' /\ vspi' # "boot"
    <3> DEFINE lst == last'
    <3>1. lst \in [Axis -> Uint16] /\ SendNext(current, lst, sending + 1)
          /\ last' = lst /\ sending + 1 \in X .. Z + 1
      BY <2>1 DEF DacTypes, Axis, X, Y, Z
    <3>2. /\ \A a \in Axis : writer[a] = "vspi" => a \in late \/ out[a] = lst[a]
          /\ \A a \in Axis : a < sending + 1 => current[a] = lst[a] \/ a \in late
      BY <2>2, <2>3
    <3>3. /\ target' = target /\ assigning' \in Nothing .. Resume
          /\ current \in [Axis -> Uint16] /\ current' = current
      BY <2>1 DEF DacTypes
    <3> HIDE DEF lst
    <3> QED  BY <3>1, <3>2, <3>3, SendNextPlaces
  <2>5. Paced' /\ SinusTypes'
    BY <1>0, <1>2, <2>1 DEF VspiSent, Paced, SinusTypes, sinusVars
  <2> QED  BY <2>4, <2>5
<1>3. CASE SinusTest \/ SinusDelay
  <2>1. (sinusIndex + 1) % WaveSize \in 0 .. WaveSize - 1
    BY WaveAssumption, DivMod DEF SinusTypes
  <2> QED
    BY <1>0, <1>3, <2>1
    DEF SinusTest, SinusDelay, writeVars, vspiVars, DacTypes, SinusTypes, Passed,
        Sent, Paced
<1>4. CASE SinusSend
  <2>1. /\ sinusPc = "send" /\ sinusPc' \in {"delay", "send"}
        /\ UNCHANGED <<writeVars, last, vspi, sending, late>>
        /\ out' = [out EXCEPT ![sinusAxis] = Sample]
        /\ writer' = [writer EXCEPT ![sinusAxis] = "sinus"]
    BY <1>4 DEF SinusSend
  <2>2. sinusAxis \in Axis /\ Sample \in Uint16 /\ endianSwap(Sample) \in Uint16
    BY SampleInRange, SwapInRange DEF SinusTypes
  <2>3. DacTypes' /\ Passed' /\ Sent' /\ Paced'
    BY <1>0, <2>1, <2>2 DEF writeVars, DacTypes, Passed, Sent, Paced
  <2>4. SinusTypes'
    BY <1>4, <2>2 DEF SinusSend, SinusTypes, Axis, X, Y, Z
  <2> QED  BY <2>3, <2>4
<1>5. CASE SinusExit
  <2>1. vspi = "suspended" /\ assigning = Nothing /\ resetDac /\ sinusPc' = "reset"
    BY <1>5 DEF SinusExit, Paced
  <2>2. SinusTypes'
    BY <1>5 DEF SinusExit, SinusTypes
  <2> QED  BY <2>1, <2>2, ResetPlaces DEF Paced
<1>6. CASE SinusGone
  <2>1. ResumeVspi /\ sinusPc' = "none"
    BY <1>6 DEF SinusGone
  <2>2. SinusTypes'
    BY <1>6, WaveStarts DEF SinusGone, SinusTypes
  <2> QED  BY <2>1, <2>2, ResumePlaces DEF Paced
<1>7. CASE Assign
  <2>1. /\ assigning \in Axis /\ Store(assigning, target[assigning])
        /\ assigning' = assigning + 1 /\ target' = target /\ UNCHANGED sinusVars
    BY <1>7 DEF Assign
  <2>2. target[assigning] \in Uint16 /\ target' \in [Axis -> Uint16]
    BY <2>1 DEF DacTypes
  <2>3. DacTypes' /\ Passed' /\ Sent' /\ UNCHANGED vspi
    BY <2>1, <2>2, StorePlaces
  <2>4. sinusPc \in {"none", "reset"}
    BY <2>1 DEF Paced, Axis, X, Y, Z, Nothing
  <2> QED  BY <2>1, <2>3, <2>4 DEF SinusTypes, Paced, sinusVars
<1> QED  BY <1>1, <1>2, <1>3, <1>4, <1>5, <1>6, <1>7 DEF DacNext

SumType == integralError \in -HalfInt .. HalfInt - 1

\* The steps in which a loop begins to write to the globals.
LEMMA WriteStepPlaces ==
    ASSUME UseInv, PlacedInv, SumType,
           \/ \E k \in Timed : Correct(k)
           \/ MoveOn \/ Tip \/ TunnelReset \/ Park
    PROVE  PlacedInv'
<1> USE DEF PlacedInv
<1>0. UNCHANGED sinusVars
  BY DEF Correct, MoveOn, Tip, TunnelReset, Park
<1>1. SinusTypes' /\ sinusPc' = sinusPc
  BY <1>0 DEF SinusTypes, sinusVars
<1>2. assigning = Nothing /\ sinusPc = "none"
  <2>1. PICK k \in Loop : loop[k] \in {"woken", "wait", "reset"}
    BY DEF Correct, MoveOn, Tip, TunnelReset, Park, At, Loop, Timed
  <2> QED  BY <2>1 DEF UseInv, OneAtATime, Writing
<1>3. DacTypes' /\ Passed' /\ Sent'
  <2>0. X \in Axis /\ Z \in Axis
    BY DEF Axis
  <2>1. ASSUME NEW k \in Timed, Correct(k) PROVE DacTypes' /\ Passed' /\ Sent'
    <3>1. PICK error \in Errors :
            Write(Z, [current EXCEPT ![Z] = computePiDac(@, error, integralError')])
            /\ integralError' = Accumulate(integralError, error)
      BY <2>1 DEF Correct
    <3>2. error \in Int /\ integralError \in Int
      BY InputAssumption, HalfIntAssumption DEF SumType
    <3>3. integralError' \in Int
      BY <3>1, <3>2, AccumulateIsInt, HalfIntAssumption
    <3>4. computePiDac(current[Z], error, integralError') \in Uint16
      BY <2>0, <3>2, <3>3, DacInRange DEF DacTypes
    <3>5. [current EXCEPT ![Z] = computePiDac(@, error, integralError')]
             \in [Axis -> Uint16]
      BY <3>4 DEF DacTypes
    <3> QED  BY <1>2, <2>0, <3>1, <3>5, WritePlaces
  <2>2. CASE MoveOn
    <3>1. PICK g \in GridDac : Write(X, [current EXCEPT ![X] = g[1], ![Y] = g[2]])
      BY <2>2 DEF MoveOn
    <3>2. [current EXCEPT ![X] = g[1], ![Y] = g[2]] \in [Axis -> Uint16]
      BY GridDacAssumption DEF DacTypes
    <3> QED  BY <1>2, <2>0, <3>1, <3>2, WritePlaces
  <2>3. CASE Tip
    BY <1>2, <2>0, <2>3, InputAssumption, WritePlaces DEF Tip
  <2>4. CASE TunnelReset \/ Park
    BY <1>2, <2>4, ResetPlaces DEF TunnelReset, Park
  <2> QED  BY <2>1, <2>2, <2>3, <2>4
<1>4. Paced'
  BY <1>1, <1>2 DEF Paced
<1> QED  BY <1>1, <1>3, <1>4

\* Those in which it resumes vspiDacLoop.
LEMMA ResumeStepPlaces ==
    ASSUME UseInv, PlacedInv, Parked \/ \E k \in Loop : Written(k)
    PROVE  PlacedInv'
<1>1. ResumeVspi /\ UNCHANGED sinusVars
  BY DEF Parked, Written
<1>2. sinusPc = "none"
  BY DEF Parked, Written, At, UseInv, OneAtATime, Loop
<1> QED
  BY <1>1, <1>2, ResumePlaces DEF PlacedInv, SinusTypes, Paced, sinusVars

LEMMA SumStep == SumType /\ [Next]_vars => SumType'
<1> SUFFICES ASSUME SumType, [Next]_vars PROVE SumType'
  OBVIOUS
<1>1. ASSUME NEW k \in Timed, Correct(k) PROVE SumType'
  <2>1. PICK error \in Errors : integralError' = Accumulate(integralError, error)
    BY <1>1 DEF Correct
  <2>2. error \in Int /\ integralError \in Int
    BY InputAssumption, HalfIntAssumption DEF SumType
  <2> QED  BY <2>1, <2>2, AccumulateIsInt DEF SumType
<1>2. CASE ~ \E k \in Timed : Correct(k)
  <2>1. integralError' = integralError
    BY <1>2
    DEF Next, TimerStep, DacStep, StartAdjust, StartSinus, StopCommand,
        StartTimed, Tick, Finish, TunnelReset, MoveOn, StayOn, Tip, Written,
        Park, Parked, Leave, Gone, Rebooting, vars
  <2> QED  BY <2>1 DEF SumType
<1> QED  BY <1>1, <1>2

LEMMA PlacedInvStep == UseInv /\ SumType /\ PlacedInv /\ [Next]_vars => PlacedInv'
<1> SUFFICES ASSUME UseInv, SumType, PlacedInv, [Next]_vars PROVE PlacedInv'
  OBVIOUS
<1>1. CASE (\E k \in Timed : Correct(k)) \/ MoveOn \/ Tip \/ TunnelReset \/ Park
  BY <1>1, WriteStepPlaces
<1>2. CASE DacStep
  BY <1>2, DacStepPlaces DEF DacStep
<1>3. CASE Parked \/ \E k \in Loop : Written(k)
  BY <1>3, ResumeStepPlaces
<1>4. CASE StartSinus
  <2>1. UNCHANGED <<writeVars, vspiVars>> /\ vspi = "suspended" /\ assigning = Nothing
    BY <1>4 DEF StartSinus, SinusCommand
  <2>2. SinusTypes'
    BY <1>4, WaveStarts
    DEF StartSinus, SinusCommand, SinusTypes, PlacedInv, Axis, X, Y, Z
  <2> QED
    BY <2>1, <2>2
    DEF PlacedInv, DacTypes, Passed, Sent, Paced, writeVars, vspiVars
<1>5. CASE StopCommand
  <2>1. UNCHANGED <<writeVars, vspiVars, sinusPc>>
    BY <1>5 DEF StopCommand
  <2>2. SinusTypes'
    BY <1>5 DEF StopCommand, SinusTypes, PlacedInv
  <2> QED
    BY <2>1, <2>2
    DEF PlacedInv, DacTypes, Passed, Sent, Paced, writeVars, vspiVars
<1>6. CASE UNCHANGED dacVars
  BY <1>6
  DEF dacVars, writeVars, vspiVars, sinusVars, PlacedInv, DacTypes, SinusTypes,
      Passed, Sent, Paced
<1>7. CASE TimerStep \/ StartAdjust \/ StayOn
           \/ (\E k \in Timed : StartTimed(k) \/ Tick(k) \/ Finish(k) \/ Leave(k))
           \/ (\E k \in Loop : Gone(k)) \/ UNCHANGED vars
  BY <1>6, <1>7
  DEF TimerStep, StartAdjust, StayOn, StartTimed, Tick, Finish, Leave, Gone, vars
<1> QED  BY <1>1, <1>2, <1>3, <1>4, <1>5, <1>7 DEF Next, Rebooting

LEMMA PlacedAlways == Spec => [](UseInv /\ SumType /\ PlacedInv)
<1>1. Init => SumType
  BY HalfIntAssumption DEF Init, SumType
<1> QED
  BY <1>1, UseInit, PlacedInit, UseInvStep, SumStep, PlacedInvStep, PTL DEF Spec

\* When vspiDacLoop rests and no loop is writing the globals, a DAC whose
\* value differs from its global has been overtaken by a write during a
\* transmission, or was last written by another and its global is as
\* vspiDacLoop left it.
THEOREM DacsFollowUnlessMissed == Spec => []PlacedUnlessMissed
<1>1. PlacedInv => PlacedUnlessMissed
  BY DEF PlacedInv, DacTypes, PlacedUnlessMissed, Passed, Sent
<1> QED  BY <1>1, PlacedAlways, PTL

\* The variables stay within their types: computePiDac, endianSwap and the
\* index of the wave do not leave the range of a uint16_t.
THEOREM ActuatorsTypeCorrect == Spec => []TypeOK
<1>1. UseInv /\ SumType /\ PlacedInv /\ TimerTypeOK => TypeOK
  BY DEF UseInv, LoopTypes, SumType, PlacedInv, DacTypes, SinusTypes, TypeOK,
         DacTypeOK
<1>2. Spec => []TimerTypeOK
  BY LoopsUseTimerWell, TimerTypeCorrect, PTL
<1> QED  BY <1>1, <1>2, PlacedAlways, PTL

-----------------------------------------------------------------------------
(* The test pattern.                                                       *)

\* The axes sinusLoop has served in this step hold its sample; before and
\* after it has served them, the next one is X.
Served ==
    /\ sinusPc \in {"test", "delay"} => sinusAxis = X
    /\ sinusPc = "send" /\ sinusIndex # 0 =>
          \A a \in Axis : a < sinusAxis => out[a] = Wave[sinusIndex]
    /\ SinusSteps

\* Where sinusLoop is, nobody else writes to a DAC.
LEMMA SinusIsAlone ==
    ASSUME UseInv, PlacedInv,
           \/ VspiStart \/ VspiSent \/ Parked
           \/ \E k \in Loop : Written(k)
    PROVE  sinusPc = "none" /\ sinusPc' = "none"
<1>1. CASE VspiStart \/ VspiSent
  BY <1>1
  DEF VspiStart, VspiSent, UseInv, OneAtATime, PlacedInv, Paced, sinusVars
<1>2. CASE Parked \/ \E k \in Loop : Written(k)
  BY <1>2 DEF Parked, Written, At, UseInv, OneAtATime, sinusVars, Loop
<1> QED  BY <1>1, <1>2

LEMMA ServedStep == UseInv /\ PlacedInv /\ Served /\ [Next]_vars => Served'
<1> SUFFICES ASSUME UseInv, PlacedInv, Served, [Next]_vars PROVE Served'
  OBVIOUS
<1>0. SinusTypes /\ DacTypes
  BY DEF PlacedInv
<1>1. CASE SinusTest
  <2>1. sinusPc = "test" /\ sinusPc' \in {"send", "exit"} /\ sinusAxis = X
        /\ sinusAxis' = sinusAxis
    BY <1>1 DEF SinusTest, Served
  <2>2. \A a \in Axis : ~(a < X)
    BY DEF Axis, X, Y, Z
  <2> QED  BY <2>1, <2>2 DEF Served, SinusSteps
<1>2. CASE SinusSend
  <2>1. /\ out' = [out EXCEPT ![sinusAxis] = Sample]
        /\ sinusIndex' = sinusIndex
        /\ sinusAxis' = IF sinusAxis = Z THEN X ELSE sinusAxis + 1
        /\ sinusPc' = IF sinusAxis = Z THEN "delay" ELSE "send"
        /\ sinusPc = "send"
    BY <1>2 DEF SinusSend
  <2>2. ASSUME sinusIndex # 0, NEW a \in Axis, a <= sinusAxis
        PROVE  out'[a] = Wave[sinusIndex]
    <3>1. CASE a = sinusAxis
      BY <1>0, <2>1, <2>2, <3>1 DEF Sample, DacTypes
    <3>2. CASE a < sinusAxis
      BY <1>0, <2>1, <2>2, <3>2 DEF Served, DacTypes, SinusTypes, Axis, X, Y, Z
    <3> QED  BY <1>0, <2>2, <3>1, <3>2 DEF SinusTypes, Axis, X, Y, Z
  <2>3. CASE sinusAxis = Z
    BY <2>1, <2>2, <2>3 DEF Served, SinusSteps, Axis, X, Y, Z
  <2>4. CASE sinusAxis # Z
    <3>1. sinusPc' = "send" /\ sinusAxis' = sinusAxis + 1
      BY <2>1, <2>4
    <3>2. \A a \in Axis : a < sinusAxis + 1 => a <= sinusAxis
      BY <1>0 DEF SinusTypes, Axis, X, Y, Z
    <3> QED  BY <2>1, <2>2, <3>1, <3>2 DEF Served, SinusSteps
  <2> QED  BY <2>3, <2>4
<1>3. CASE SinusDelay
  BY <1>3 DEF SinusDelay, Served, SinusSteps
<1>4. CASE SinusExit \/ SinusGone
  BY <1>4 DEF SinusExit, SinusGone, Served, SinusSteps
<1>5. CASE StartSinus
  BY <1>5 DEF StartSinus, SinusCommand, Served, SinusSteps
<1>6. CASE VspiStart \/ VspiSent \/ Parked \/ \E k \in Loop : Written(k)
  BY <1>6, SinusIsAlone DEF Served, SinusSteps
<1>7. CASE UNCHANGED <<out, sinusPc, sinusAxis, sinusIndex>>
  BY <1>7 DEF Served, SinusSteps
<1>8. CASE TimerStep \/ StartAdjust \/ StopCommand \/ StayOn
           \/ (\E k \in Timed : StartTimed(k) \/ Tick(k) \/ Finish(k) \/ Leave(k))
           \/ (\E k \in Loop : Gone(k)) \/ UNCHANGED vars
  BY <1>7, <1>8
  DEF TimerStep, StartAdjust, StopCommand, StayOn, StartTimed, Tick, Finish,
      Leave, Gone, vars, dacVars, vspiVars, sinusVars
<1>9. CASE \/ Assign \/ MoveOn \/ Tip \/ TunnelReset \/ Park
           \/ \E k \in Timed : Correct(k)
  BY <1>7, <1>9
  DEF Assign, MoveOn, Tip, TunnelReset, Park, Correct, resetDac, Write, Store,
      sinusVars
<1> QED
  BY <1>1, <1>2, <1>3, <1>4, <1>5, <1>6, <1>8, <1>9
  DEF Next, Rebooting, DacStep, DacNext

\* At the end of each step of the test pattern but the first of a period all
\* three DACs hold the sample of that step.
THEOREM SinusFollowsWave == Spec => []SinusSteps
<1>1. Init => Served
  BY DEF Init, DacInit, Served, SinusSteps
<1>2. Served => SinusSteps
  BY DEF Served
<1> QED  BY <1>1, <1>2, ServedStep, PlacedAlways, PTL DEF Spec

-----------------------------------------------------------------------------
(* The correction of the tip.                                              *)

LEMMA CorrectionStep ==
    ASSUME SumType, DacTypes, [Next]_vars, NEW error \in Errors,
           integralError' = Accumulate(integralError, error), Saturated(error)
    PROVE  IF error < 0 THEN current'[Z] >= current[Z]
           ELSE current'[Z] <= current[Z]
<1>0. /\ error \in Int /\ error # 0 /\ integralError \in Int /\ Z \in Axis
      /\ 0 \in -HalfInt + 1 .. HalfInt - 1
  BY InputAssumption, HalfIntAssumption DEF SumType, Axis
<1>1. PICK k \in Timed : Correct(k)
  <2> SUFFICES ASSUME ~ \E k \in Timed : Correct(k) PROVE FALSE
    OBVIOUS
  <2>1. integralError' = integralError
    BY DEF Next, TimerStep, DacStep, StartAdjust, StartSinus, StopCommand,
           StartTimed, Tick, Finish, TunnelReset, MoveOn, StayOn, Tip, Written,
           Park, Parked, Leave, Gone, Rebooting, vars
  <2>2. Accumulate(integralError, error) = Accumulate(integralError, 0)
    BY <2>1, AccumulateNothing DEF SumType
  <2>3. error = 0
    BY <1>0, <2>2, AccumulateInjective, InputAssumption
  <2> QED  BY <1>0, <2>3
<1>2. PICK e \in Errors :
        /\ integralError' = Accumulate(integralError, e)
        /\ Write(Z, [current EXCEPT ![Z] = computePiDac(@, e, integralError')])
  BY <1>1 DEF Correct
<1>3. e = error
  BY <1>0, <1>2, AccumulateInjective, InputAssumption
<1>4. current'[Z] = computePiDac(current[Z], error, integralError')
  BY <1>0, <1>2, <1>3 DEF Write, Store, DacTypes
<1>5. integralError' \in Int
  BY <1>0, <1>2, AccumulateIsInt, HalfIntAssumption
<1> QED  BY <1>0, <1>4, <1>5, SaturatedMovesRight DEF DacTypes

\* A saturated correction never moves the tip the wrong way.
THEOREM TipNeverMovesWrong == Spec => NoApproachIntoCurrent
<1> DEFINE A == \A error \in Errors :
         /\ integralError' = Accumulate(integralError, error)
         /\ Saturated(error)
         => IF error < 0 THEN current'[Z] >= current[Z]
            ELSE current'[Z] <= current[Z]
<1>1. SumType /\ DacTypes /\ [Next]_vars => [A]_vars
  BY CorrectionStep
<1>2. PlacedInv => DacTypes
  BY DEF PlacedInv
<1> HIDE DEF A
<1>3. Spec => [][A]_vars
  BY <1>1, <1>2, PlacedAlways, PTL DEF Spec
<1> QED  BY <1>3 DEF NoApproachIntoCurrent, A
=============================================================================
