------------------------------ MODULE RunGlobals ------------------------------
(***************************************************************************)
(* What the tasks of a MEASURE, TUNNEL or ADJUST run share: the activity   *)
(* flags (globalVariables.cpp), the loop state, prefix and queue helpers   *)
(* (tasks/common.cpp), the timer (project_timer.cpp), the task handles and *)
(* the parts of FreeRTOS the code relies on.                               *)
(*                                                                         *)
(* The Z axis (computePiDac, currentZDac) is abstracted to the question    *)
(* whether a sample is within tolerance.  The last block of variables is   *)
(* history: no action reads it.                                            *)
(***************************************************************************)
EXTENDS ScanGrid, Sequences, FiniteSets

CONSTANTS
    MeasureTask,    \* identities of measureLoop tasks (bound on live ones)
    AdjustTask,     \* identities of adjustLoop tasks (bound on live ones)
    NoTask,         \* a NULL handle
    QueueLength,    \* capacity of queueToPc: 1000 in the code
    CommandLength,  \* capacity of queueTunnelCmd: 4 in the code
    TipLength,      \* capacity of tipQueue: 8 in the code
    TipDacs,        \* DAC values of TIP commands
    LoopCounts      \* loop counts of TUNNEL commands

ASSUME NoTaskAssumption == NoTask \notin MeasureTask
ASSUME CapacityAssumption ==
    /\ QueueLength \in Nat \ {0} /\ CommandLength \in Nat \ {0}
    /\ TipLength \in Nat \ {0}
ASSUME InputAssumption ==
    TipDacs \subseteq Uint16 \X Uint16 /\ LoopCounts \subseteq Nat

VARIABLES
    active,             \* measureIsActive, tunnelIsActive, adjustIsActive
    isLoopExecution, tunnelFound, prefix,   \* tasks/common.cpp
    queueToPc, queueTunnelCmd, tipQueue,    \* contents, oldest first
    timerRunning,       \* gptimer enabled and started
    handleMeasureLoop,  \* last measureLoop created; never reset to NULL
    measurePc,          \* where each measureLoop is; "none": no such task
    tunnelPc, tunnelLeft, \* the persistent tunnelLoop, maxLoops - counter
    adjustPc,           \* where each adjustLoop is
    transmitting,       \* queueToPc and dataTransmissionLoop exist
    txElement,          \* element dataTransmissionLoop has taken, or <<>>
    dispatcher,         \* step and argument of the command being handled
    vspiReady, parLoaded  \* boot: see ScanSession

VARIABLES
    scan, samples, startedLeft, \* see ScanSession
    run                         \* what the PC saw since the last start command

bootVars == <<vspiReady, parLoaded>>
txVars == <<transmitting, txElement>>
scanHistory == <<scan, samples, startedLeft>>
loopVars == <<isLoopExecution, tunnelFound>>
tunnelVars == <<tunnelPc, tunnelLeft>>

-----------------------------------------------------------------------------
(* Elements of queueToPc.  DATA_COMPLETE is End, a FIND report Report and  *)
(* an element of tunnelLoop TunnelSample.                                  *)

Point(x, y) == <<"point", x, y>>
Report == <<"report">>
TunnelSample == <<"tunnel">>
End == <<"end">>

HasRoom == Len(queueToPc) < QueueLength

\* Mutant: the element is sent to the front of the queue.
EnqueueInFront(e) == HasRoom /\ queueToPc' = <<e>> \o queueToPc

\* xQueueSend(queueToPc, e, portMAX_DELAY): blocks while the queue is full.
Enqueue(e) == HasRoom /\ queueToPc' = Append(queueToPc, e)

\* Mutants: the prefix of the last run stays; the timer is not restarted
\* because its handle exists; the timer is left running.
KeepPrefix(p) == UNCHANGED prefix
timer_skip == UNCHANGED timerRunning
timer_leave == UNCHANGED timerRunning

queueToPcClear == queueToPc' = <<>>
setPrefix(p) == prefix' = p
resetDac == DacToGrid

timer_initialize == timerRunning' = TRUE
timer_deinitialize == timerRunning' = FALSE

\* vTaskResume acts on a suspended task only; on any other it does nothing.
\* A handle whose task has deleted itself is the freed control block: no
\* longer in the list of suspended tasks, hence no effect either.
ResumeMeasure(t) ==
    measurePc' = IF t \in MeasureTask /\ measurePc[t] = "suspended"
                 THEN [measurePc EXCEPT ![t] = "resumed"] ELSE measurePc
ResumeTunnel ==
    tunnelPc' = IF tunnelPc = "suspended" THEN "resumed" ELSE tunnelPc

\* On core 0 the dispatcher (priority 4) keeps dataTransmissionLoop
\* (priority 1) from running except where it blocks.
DispatcherBlocked ==
    \/ dispatcher[1] \in {"idle", "stopReport"}
    \/ dispatcher[1] = "stopSend" /\ ~HasRoom
    \/ dispatcher[1] = "tunnelSend" /\ Len(queueTunnelCmd) = CommandLength

-----------------------------------------------------------------------------
(* tickMeasure, the timer interrupt: the tunnel has precedence.            *)

Tick ==
    /\ timerRunning
    /\ IF tunnelPc # "none" /\ active.tunnel
       THEN /\ tunnelPc = "suspended"
            /\ ResumeTunnel /\ UNCHANGED measurePc
       ELSE /\ handleMeasureLoop # NoTask /\ active.measure
            /\ measurePc[handleMeasureLoop] = "suspended"
            /\ ResumeMeasure(handleMeasureLoop) /\ UNCHANGED tunnelPc
    /\ UNCHANGED <<gridVars, active, loopVars, prefix, queueToPc,
                   queueTunnelCmd, tipQueue, timerRunning, handleMeasureLoop,
                   tunnelLeft, adjustPc, txVars, dispatcher, bootVars,
                   scanHistory, run>>

-----------------------------------------------------------------------------
Elements == [{1} -> {"report", "tunnel", "end"}]
            \cup ({"point"} \X Uint16 \X Uint16)
Prefixes == {"", "FIND", "DATA", "TUNNEL"}

\* The places a measureLoop can be at; between "sample" and "finish" it is
\* in an iteration.
InIteration == {"sample", "report", "point", "end", "deinit", "drain", "finish",
                "errorBlink"}
MeasureSteps == InIteration \cup
    {"none", "init", "while", "suspend", "suspended", "resumed", "exit"}

GlobalsTypeOK ==
    /\ GridTypeOK
    /\ active \in [{"measure", "tunnel", "adjust"} -> BOOLEAN]
    /\ isLoopExecution \in BOOLEAN /\ tunnelFound \in BOOLEAN
    /\ prefix \in Prefixes
    /\ queueToPc \in Seq(Elements) /\ Len(queueToPc) <= QueueLength
    /\ queueTunnelCmd \in Seq(LoopCounts) /\ Len(queueTunnelCmd) <= CommandLength
    /\ tipQueue \in Seq(TipDacs) /\ Len(tipQueue) <= TipLength
    /\ timerRunning \in BOOLEAN
    /\ handleMeasureLoop \in MeasureTask \cup {NoTask}
    /\ measurePc \in [MeasureTask -> MeasureSteps]
    /\ tunnelPc \in {"none", "boot", "receive", "while", "suspend", "suspended",
                     "resumed", "end", "drain", "finish"}
    /\ tunnelLeft \in Int
    /\ adjustPc \in [AdjustTask -> {"none", "while", "body", "delay", "exit"}]
    /\ transmitting \in BOOLEAN /\ txElement \in {<<>>} \cup Elements
    /\ ~transmitting => queueToPc = <<>> /\ txElement = <<>>
=============================================================================
