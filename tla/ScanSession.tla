----------------------------- MODULE ScanSession -----------------------------
(***************************************************************************)
(* What a MEASURE run promises about the sample surface, whatever the      *)
(* tasks do in between: boot of the grid and of the DACs, loading of the   *)
(* parameters, the start of a scan, the recording of one point followed by *)
(* moveOn, the end of the scan, and the calls of resetDac by the other     *)
(* loops.  RunControl models the tasks and implements this module.         *)
(*                                                                         *)
(* The client sends MEASURE and the PARAMETER commands only while no scan  *)
(* runs; what happens otherwise is RunControl's subject.                   *)
(***************************************************************************)
EXTENDS ScanGrid

CONSTANT TipDacs  \* DAC values of TIP commands

ASSUME TipDacsAssumption == TipDacs \subseteq Uint16 \X Uint16

VARIABLES
    vspiReady,   \* vspiDacLoop has initialised the DAC globals
    parLoaded,   \* ParameterSetting's constructor has run
    scan,        \* "none", "running", "done" or "stopped"
    samples,     \* points recorded by the current scan, with their DAC values
    startedLeft  \* currentDirection when the current scan started

sessionVars == <<vspiReady, parLoaded, scan, samples, startedLeft>>
vars == <<gridVars, sessionVars>>

Sample == [x : Uint16, y : Uint16, xDac : Uint16, yDac : Uint16]

Init ==
    /\ GridInit
    /\ vspiReady = FALSE /\ parLoaded = FALSE
    /\ scan = "none" /\ samples = {} /\ startedLeft = FALSE

-----------------------------------------------------------------------------
(* Boot: app_main starts vspiDacLoop on core 1, then reads the flash.      *)

VspiInit ==
    /\ ~vspiReady
    /\ DacToGrid
    /\ vspiReady' = TRUE
    /\ UNCHANGED <<parLoaded, scan, samples, startedLeft>>

\* The constructor at boot, and every PARAMETER command after it.
LoadParameters ==
    /\ scan # "running"
    /\ \E p \in ParameterSets : GetParametersFromFlash(p)
    /\ parLoaded' = TRUE /\ scan' = "none" /\ samples' = {}
    /\ UNCHANGED <<vspiReady, startedLeft>>

(* A scan.                                                                 *)

Measure ==
    /\ vspiReady /\ parLoaded /\ scan # "running"
    /\ SetStart
    /\ scan' = "running" /\ samples' = {} /\ startedLeft' = currentDirection
    /\ UNCHANGED <<vspiReady, parLoaded>>

Record ==
    /\ scan = "running"
    /\ samples' = samples \cup {[x |-> currentX, y |-> currentY,
                                 xDac |-> currentXDac, yDac |-> currentYDac]}
    /\ UNCHANGED <<vspiReady, parLoaded, startedLeft>>

RecordPoint == Record /\ MoveToNext /\ UNCHANGED scan
RecordLastPoint == Record /\ GridComplete /\ scan' = "done"

Stop ==
    /\ scan = "running"
    /\ scan' = "stopped"
    /\ UNCHANGED <<gridVars, vspiReady, parLoaded, samples, startedLeft>>

\* A TIP command in the adjust mode.
Tip ==
    /\ vspiReady /\ parLoaded /\ scan # "running"
    /\ \E d \in TipDacs : currentXDac' = d[1] /\ currentYDac' = d[2]
    /\ UNCHANGED <<position, par, sessionVars>>

\* tunnelLoop, adjustLoop and sinusLoop call resetDac, even during a scan
\* when they end late.
ResetDac ==
    /\ vspiReady /\ parLoaded
    /\ DacToGrid
    /\ UNCHANGED sessionVars

Next ==
    \/ VspiInit \/ LoadParameters
    \/ Measure \/ RecordPoint \/ RecordLastPoint \/ Stop
    \/ Tip \/ ResetDac

Spec == Init /\ [][Next]_vars

\* The tip reaches the tolerance again and again (the PI control's task).
FairSpec == Spec /\ WF_vars(RecordPoint \/ RecordLastPoint)

-----------------------------------------------------------------------------
TypeOK ==
    /\ GridTypeOK
    /\ vspiReady \in BOOLEAN /\ parLoaded \in BOOLEAN
    /\ scan \in {"none", "running", "done", "stopped"}
    /\ samples \subseteq Sample
    /\ startedLeft \in BOOLEAN

Points == {<<s.x, s.y>> : s \in samples}
Regular == RegularScan(startedLeft)

\* What is recorded while a scan runs is exactly the part of the rectangle
\* before the current point: no point is left out, none is visited early
\* (moveOn, movementXY.cpp; the recording in measureLoop).
RasterOrder ==
    scan = "running" /\ Regular =>
        Points = {p \in Rectangle : Before(p[1], p[2])}

\* When moveOn reports the grid as complete, every point of the rectangle
\* has been recorded ("@return true, wenn grid komplett abgefahren ist").
Complete == scan = "done" /\ Regular => Points = Rectangle

\* A point is never recorded twice in one scan, for every parameter set: also
\* where the row index wraps or a two-way scan starts beyond the grid.
NoPointTwice ==
    [][RecordPoint \/ RecordLastPoint
         => <<currentX, currentY>> \notin Points]_vars

\* On an axis on which the scan has left its start index, the DAC belongs to
\* the grid index: moveOn and resetDac keep the two in step.
MovedAxisIsPlaced ==
    \A s \in samples :
        /\ s.x # par.startX => s.xDac = XDacOf(s.x)
        /\ s.y # par.startY => s.yDac = YDacOf(s.y)

\* Every scan ends, for every parameter set, if points keep being recorded:
\* also when startX or startY lies beyond the grid (then the row index wraps).
ScanEnds == scan = "running" ~> scan # "running"

-----------------------------------------------------------------------------
(* What the comments say and the code does not do.                         *)

\* dac_spi.cpp:153: the piezos start at the grid minimum, so the first point
\* of a scan is measured there.
StartsAtGridMin ==
    \A s \in samples :
        s.x = par.startX /\ s.y = par.startY =>
            s.xDac = XDacOf(s.x) /\ s.yDac = YDacOf(s.y)

\* movementXY.cpp:21: true is returned when the grid is completely scanned,
\* also for a two-way scan that follows another one.
CompleteAlways ==
    scan = "done" /\ par.startX = 0 /\ par.startY <= par.maxY
        => Points = Rectangle
=============================================================================
