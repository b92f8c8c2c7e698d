------------------------------ MODULE ScanGrid ------------------------------
(***************************************************************************)
(* The scan grid of the microscope: class scanGrid of                      *)
(* src/src/movementXY.cpp with the one instance rtmGrid, the scan          *)
(* parameters it is loaded with and the two DAC globals that moveOn and    *)
(* resetDac write.                                                         *)
(*                                                                         *)
(* The parameters that ParameterSetting loads together (startX, startY,    *)
(* direction and the setMaxX, setMaxY, setMultiplicatorGridAdc members)    *)
(* are the fields of one record, par.  minX and minY are left out: nothing *)
(* in the firmware calls their getters.                                    *)
(***************************************************************************)
EXTENDS Integers

CONSTANTS
    Word,          \* number of values of a uint16_t: 65536 on the board
    DefaultMax,    \* largest index of the compile-time grid: 199 on the board
    ParameterSets  \* the parameter sets the flash may hold

Uint16 == 0 .. Word - 1
Parameters == [startX : Uint16, startY : Uint16, direction : BOOLEAN,
               maxX : Uint16, maxY : Uint16, multiplicator : Uint16]

ASSUME WordAssumption == Word \in Nat /\ Word > 1
ASSUME DefaultMaxAssumption == DefaultMax \in Uint16
ASSUME ParameterSetsAssumption == ParameterSets \subseteq Parameters

VARIABLES
    currentX, currentY,       \* grid position of rtmGrid
    currentDirection,         \* rtmGrid is moving left (two-way scans only)
    par,                      \* scan parameters in RAM
    currentXDac, currentYDac  \* DAC values the vspiDacLoop sends to the piezos

position == <<currentX, currentY, currentDirection>>
dac == <<currentXDac, currentYDac>>
gridVars == <<position, par, dac>>

-----------------------------------------------------------------------------
DAC_VALUE_MAX == Word - 1

\* The expression is computed in int and truncated to uint16_t on return.
gridToDacValue(current, max, multiplicator) ==
    (DAC_VALUE_MAX \div 2 + (current - (max \div 2 + 1)) * multiplicator) % Word

XDacOf(x) == gridToDacValue(x, par.maxX, par.multiplicator)
YDacOf(y) == gridToDacValue(y, par.maxY, par.multiplicator)

\* Mutant: the index leaves the range of its type.
IncrementWide(n) == n + 1

\* ++ on a uint16_t.
Increment(n) == IF n = DAC_VALUE_MAX THEN 0 ELSE n + 1

\* The values before the flash is read: scanGrid(200, 200), zeroed globals.
CompileTimeParameters ==
    [startX |-> 0, startY |-> 0, direction |-> FALSE,
     maxX |-> DefaultMax, maxY |-> DefaultMax, multiplicator |-> 0]

GridInit ==
    /\ currentX = 0 /\ currentY = 0 /\ currentDirection = FALSE
    /\ par = CompileTimeParameters
    /\ currentXDac = 0 /\ currentYDac = 0

-----------------------------------------------------------------------------
(* moveOn, one action per branch.                                          *)

\* Mutant: the DAC is not recomputed.
StepXOnly(x) == currentX' = x /\ UNCHANGED currentXDac

StepX(x) == currentX' = x /\ currentXDac' = XDacOf(x)
KeepX == UNCHANGED <<currentX, currentXDac>>

NextRow ==
    /\ currentY # par.maxY
    /\ currentY' = Increment(currentY)
    /\ currentYDac' = YDacOf(Increment(currentY))
KeepRow == UNCHANGED <<currentY, currentYDac>>

Leftward == par.direction /\ currentDirection

MoveRight ==
    /\ ~Leftward /\ currentX < par.maxX
    /\ StepX(currentX + 1) /\ KeepRow /\ UNCHANGED currentDirection

MoveLeft ==
    /\ Leftward /\ currentX > 0
    /\ StepX(currentX - 1) /\ KeepRow /\ UNCHANGED currentDirection

RowEnd == IF Leftward THEN currentX = 0 ELSE currentX >= par.maxX

\* Mutants: no return to startX; no step to the next row.
FlybackKeepsX ==
    /\ ~par.direction /\ RowEnd
    /\ KeepX /\ NextRow /\ UNCHANGED currentDirection
FlybackKeepsRow ==
    /\ ~par.direction /\ RowEnd /\ currentY # par.maxY
    /\ StepX(par.startX) /\ KeepRow /\ UNCHANGED currentDirection

\* One-way scan: fly back to startX and go to the next row.
Flyback ==
    /\ ~par.direction /\ RowEnd
    /\ StepX(par.startX) /\ NextRow /\ UNCHANGED currentDirection

\* Two-way scan: go to the next row and reverse.
Turn ==
    /\ par.direction /\ RowEnd
    /\ NextRow /\ KeepX /\ currentDirection' = ~currentDirection

\* moveOn returned false: there is a next point and the grid is on it.
MoveToNext == (MoveRight \/ MoveLeft \/ Flyback \/ Turn) /\ UNCHANGED par

\* Mutant: the last row is not scanned to its end.
GridCompleteEarly ==
    /\ currentY = par.maxY
    /\ IF par.direction THEN KeepX ELSE StepX(par.startX)
    /\ KeepRow /\ UNCHANGED <<currentDirection, par>>

\* moveOn returned true; the one-way scan has already flown back to startX.
GridComplete ==
    /\ RowEnd /\ currentY = par.maxY
    /\ IF par.direction THEN KeepX ELSE StepX(par.startX)
    /\ KeepRow /\ UNCHANGED <<currentDirection, par>>

-----------------------------------------------------------------------------
(* The other operations on the grid.                                       *)

\* setStartX(startX) and setStartY(startY) in measureStart: the DACs stay.
SetStart ==
    /\ currentX' = par.startX /\ currentY' = par.startY
    /\ UNCHANGED <<currentDirection, par, dac>>

\* ParameterSetting::getParametersFromFlash.
GetParametersFromFlash(p) ==
    /\ par' = p
    /\ currentX' = p.startX /\ currentY' = p.startY
    /\ UNCHANGED <<currentDirection, dac>>

\* X and Y of resetDac, and of the first lines of vspiDacLoop.
DacToGrid ==
    /\ currentXDac' = XDacOf(currentX) /\ currentYDac' = YDacOf(currentY)
    /\ UNCHANGED <<position, par>>

-----------------------------------------------------------------------------
(* The order of a scan, for the properties; left says whether it started   *)
(* to the left.                                                            *)

\* Rows since the start of the scan: the row index wraps at the width of its
\* type when startY lies beyond maxY.
RowNumber(y) ==
    IF par.startY <= y THEN y - par.startY ELSE y - par.startY + Word

RowIsLeft(y, left) == par.direction /\ (left # (RowNumber(y) % 2 = 1))

\* A scan visits the point p = <<x, y>> before the point q.
Earlier(p, q, left) ==
    \/ RowNumber(p[2]) < RowNumber(q[2])
    \/ /\ p[2] = q[2]
       /\ IF RowIsLeft(p[2], left) THEN p[1] > q[1] ELSE p[1] < q[1]

\* The parameters describe a rectangle, and a two-way scan starts at
\* column 0 (its left turning point), moving right.
RegularScan(left) ==
    /\ par.startX <= par.maxX /\ par.startY <= par.maxY
    /\ par.direction => par.startX = 0 /\ ~left

Rectangle == (par.startX .. par.maxX) \X (par.startY .. par.maxY)

\* The points of the rectangle that come before the current one.
Before(x, y) ==
    \/ y < currentY
    \/ y = currentY /\ IF Leftward THEN x > currentX ELSE x < currentX

GridTypeOK ==
    /\ currentX \in Uint16 /\ currentY \in Uint16
    /\ currentDirection \in BOOLEAN
    /\ par \in Parameters
    /\ currentXDac \in Uint16 /\ currentYDac \in Uint16
=============================================================================
