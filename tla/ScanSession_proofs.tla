-------------------------- MODULE ScanSession_proofs --------------------------
(***************************************************************************)
(* Proofs about ScanSession, for every word width and every set of         *)
(* parameter sets.                                                         *)
(***************************************************************************)
EXTENDS ScanSession, ScanGrid_proofs

USE WordAssumption

-----------------------------------------------------------------------------
\* Every variable keeps the range of its C++ type.
LEMMA TypeInvariant == TypeOK /\ [Next]_vars => TypeOK'
<1> SUFFICES ASSUME TypeOK, [Next]_vars PROVE TypeOK'
  OBVIOUS
<1> USE DEF TypeOK
<1>1. CASE VspiInit
  BY <1>1, DacToGridTyped DEF VspiInit
<1>2. CASE LoadParameters
  BY <1>2, LoadTyped DEF LoadParameters
<1>3. CASE Measure
  BY <1>3, SetStartTyped DEF Measure, GridTypeOK
<1>4. ASSUME Record PROVE samples' \subseteq Sample
  BY <1>4 DEF Record, Sample, GridTypeOK
<1>5. CASE RecordPoint
  BY <1>4, <1>5, MoveTyped DEF RecordPoint, Record
<1>6. CASE RecordLastPoint
  BY <1>4, <1>6, CompleteTyped DEF RecordLastPoint, Record
<1>7. CASE Stop
  BY <1>7, GridUntouched DEF Stop
<1>8. CASE ResetDac
  BY <1>8, DacToGridTyped DEF ResetDac, sessionVars
<1>9. CASE Tip
  <2>1. PICK d \in TipDacs : currentXDac' = d[1] /\ currentYDac' = d[2]
    BY <1>9 DEF Tip
  <2>2. currentXDac' \in Uint16 /\ currentYDac' \in Uint16
    BY <2>1, TipDacsAssumption
  <2> QED  BY <1>9, <2>2 DEF Tip, position, sessionVars, GridTypeOK
<1>10. CASE UNCHANGED vars
  BY <1>10, GridUntouched DEF vars, sessionVars
<1> QED
  BY <1>1, <1>2, <1>3, <1>5, <1>6, <1>7, <1>8, <1>9, <1>10 DEF Next

LEMMA InitType == Init => TypeOK
BY GridInitTyped DEF Init, TypeOK

\* Every reachable state is well typed: no arithmetic of moveOn,
\* gridToDacValue or of the parameter load leaves the range of a uint16_t.
THEOREM TypeCorrect == Spec => []TypeOK
<1>1. Init => TypeOK
  BY InitType
<1>2. TypeOK /\ [Next]_vars => TypeOK'
  BY TypeInvariant
<1> QED  BY <1>1, <1>2, PTL DEF Spec

-----------------------------------------------------------------------------
(***************************************************************************)
(* Coverage.  RasterOrder and Complete are inductive together once the     *)
(* position of a regular scan is known to stay in the rectangle.           *)
(***************************************************************************)
Inside == scan = "running" /\ Regular => InRectangle

CoverInv == Inside /\ RasterOrder /\ Complete

\* One recording adds the current point.
LEMMA PointsAfterRecord ==
    ASSUME Record
    PROVE  Points' = Points \cup {<<currentX, currentY>>}
<1> DEFINE new == [x |-> currentX, y |-> currentY,
                   xDac |-> currentXDac, yDac |-> currentYDac]
<1>1. samples' = samples \cup {new}
  BY DEF Record
<1>2. new.x = currentX /\ new.y = currentY
  OBVIOUS
<1> HIDE DEF new
<1>3. Points' = {<<s.x, s.y>> : s \in samples \cup {new}}
  BY <1>1 DEF Points
<1>4. Points' = Points \cup {<<new.x, new.y>>}
  BY <1>3 DEF Points
<1> QED  BY <1>2, <1>4

\* Recording the current point and moving on covers the part before the next.
LEMMA SuccessorCovered ==
    ASSUME TypeOK, CoverInv, RecordPoint, Regular
    PROVE  Inside' /\ RasterOrder'
<1>1. /\ scan = "running" /\ startedLeft' = startedLeft
      /\ MoveToNext /\ GridTypeOK
  BY DEF RecordPoint, Record, TypeOK
<1>2. InRectangle /\ Points = {p \in Rectangle : Before(p[1], p[2])}
  BY <1>1 DEF CoverInv, Inside, RasterOrder
<1>3. Points' = Points \cup {<<currentX, currentY>>}
  BY PointsAfterRecord DEF RecordPoint
<1>4. /\ par' = par /\ InRectangle'
      /\ \A x \in par.startX .. par.maxX, y \in par.startY .. par.maxY :
            Before(x, y)' <=> Before(x, y) \/ (x = currentX /\ y = currentY)
  BY <1>1, <1>2, MovesToSuccessor DEF Regular
<1>5. Points' = {p \in Rectangle : Before(p[1], p[2])'}
  <2>1. <<currentX, currentY>> \in Rectangle
    BY <1>2 DEF Rectangle, InRectangle
  <2>2. \A p \in Rectangle :
          /\ p = <<currentX, currentY>> <=> p[1] = currentX /\ p[2] = currentY
          /\ p[1] \in par.startX .. par.maxX /\ p[2] \in par.startY .. par.maxY
    BY DEF Rectangle
  <2> QED  BY <1>2, <1>3, <1>4, <2>1, <2>2
<1>6. RasterOrder'
  BY <1>4, <1>5 DEF RasterOrder, Rectangle
<1> QED  BY <1>4, <1>6 DEF Inside

\* moveOn reports completeness only on the last point.
LEMMA LastPointCompletes ==
    ASSUME TypeOK, CoverInv, RecordLastPoint, Regular
    PROVE  Points' = Rectangle
<1>1. scan = "running" /\ GridComplete /\ GridTypeOK
  BY DEF RecordLastPoint, Record, TypeOK
<1>2. InRectangle /\ Points = {p \in Rectangle : Before(p[1], p[2])}
  BY <1>1 DEF CoverInv, Inside, RasterOrder
<1>3. Points' = Points \cup {<<currentX, currentY>>}
  BY PointsAfterRecord DEF RecordLastPoint
<1>4. /\ <<currentX, currentY>> \in Rectangle
      /\ \A p \in Rectangle : Before(p[1], p[2]) \/ p = <<currentX, currentY>>
  BY <1>1, <1>2, CompletesOnLast DEF Regular
<1> QED  BY <1>2, <1>3, <1>4

LEMMA CoverStep == TypeOK /\ CoverInv /\ [Next]_vars => CoverInv'
<1> SUFFICES ASSUME TypeOK, CoverInv, [Next]_vars PROVE CoverInv'
  OBVIOUS
<1>1. CASE VspiInit
  BY <1>1
  DEF VspiInit, DacToGrid, position, CoverInv, Inside, InRectangle, RasterOrder,
      Complete, Regular, RegularScan, Rectangle, Points, Before, Leftward
<1>2. CASE LoadParameters
  BY <1>2 DEF LoadParameters, CoverInv, Inside, RasterOrder, Complete
<1>3. CASE Measure
  <2>1. /\ par' = par /\ scan' = "running" /\ samples' = {}
        /\ currentX' = par.startX /\ currentY' = par.startY
        /\ currentDirection' = currentDirection
        /\ startedLeft' = currentDirection
    BY <1>3 DEF Measure, SetStart
  <2>2. /\ par.startX \in Nat /\ par.startY \in Nat
        /\ par.maxX \in Nat /\ par.maxY \in Nat
    BY DEF TypeOK, GridTypeOK, Parameters, Uint16
  <2>3. Inside'
    BY <2>1, <2>2 DEF Inside, InRectangle, Regular, RegularScan
  <2>4. Complete'
    BY <2>1 DEF Complete
  <2>5. RasterOrder'
    <3> SUFFICES ASSUME Regular' PROVE Points' = {p \in Rectangle : Before(p[1], p[2])}'
      BY DEF RasterOrder
    <3>1. Points' = {}
      BY <2>1 DEF Points
    <3>2. ~Leftward'
      BY <2>1 DEF Leftward, Regular, RegularScan
    <3>3. ASSUME NEW p \in Rectangle' PROVE ~Before(p[1], p[2])'
      BY <2>1, <2>2, <3>2 DEF Rectangle, Before
    <3> QED  BY <3>1, <3>3
  <2> QED  BY <2>3, <2>4, <2>5 DEF CoverInv
<1>4. CASE RecordPoint
  <2>1. /\ scan = "running" /\ scan' = "running"
        /\ par' = par /\ startedLeft' = startedLeft
    BY <1>4 DEF RecordPoint, Record, MoveToNext
  <2>2. Regular' <=> Regular
    BY <2>1 DEF Regular, RegularScan
  <2>3. Complete'
    BY <2>1 DEF Complete
  <2>4. CASE Regular
    BY <1>4, <2>3, <2>4, SuccessorCovered DEF CoverInv
  <2>5. CASE ~Regular
    BY <2>2, <2>3, <2>5 DEF CoverInv, Inside, RasterOrder
  <2> QED  BY <2>4, <2>5
<1>5. CASE RecordLastPoint
  <2>1. /\ scan' = "done" /\ par' = par /\ startedLeft' = startedLeft
    BY <1>5 DEF RecordLastPoint, Record, GridComplete
  <2>2. (Regular' <=> Regular) /\ Rectangle' = Rectangle
    BY <2>1 DEF Regular, RegularScan, Rectangle
  <2> QED
    BY <1>5, <2>1, <2>2, LastPointCompletes
    DEF CoverInv, Inside, RasterOrder, Complete
<1>6. CASE Stop
  BY <1>6 DEF Stop, CoverInv, Inside, RasterOrder, Complete
<1>7. CASE ResetDac
  BY <1>7
  DEF ResetDac, DacToGrid, position, sessionVars, CoverInv, Inside, InRectangle, RasterOrder,
      Complete, Regular, RegularScan, Rectangle, Points, Before, Leftward
<1>8. CASE Tip
  BY <1>8
  DEF Tip, position, sessionVars, CoverInv, Inside, InRectangle, RasterOrder,
      Complete, Regular, RegularScan, Rectangle, Points, Before, Leftward
<1>9. CASE UNCHANGED vars
  BY <1>9
  DEF vars, gridVars, position, dac, sessionVars, CoverInv, Inside, InRectangle, RasterOrder,
      Complete, Regular, RegularScan, Rectangle, Points, Before, Leftward
<1> QED  BY <1>1, <1>2, <1>3, <1>4, <1>5, <1>6, <1>7, <1>8, <1>9 DEF Next

LEMMA CoverInvariant == Spec => [](TypeOK /\ CoverInv)
<1>1. Init => CoverInv
  BY DEF Init, CoverInv, Inside, RasterOrder, Complete
<1> QED  BY <1>1, InitType, TypeInvariant, CoverStep, PTL DEF Spec

\* While measureLoop scans a regular rectangle, it has recorded exactly the
\* points before the current one.
THEOREM RecordsInRasterOrder == Spec => []RasterOrder
<1>1. CoverInv => RasterOrder
  BY DEF CoverInv
<1> QED  BY <1>1, CoverInvariant, PTL

\* When moveOn returns true, the whole rectangle has been recorded.
THEOREM ScanIsComplete == Spec => []Complete
<1>1. CoverInv => Complete
  BY DEF CoverInv
<1> QED  BY <1>1, CoverInvariant, PTL

-----------------------------------------------------------------------------
(***************************************************************************)
(* Freshness, on any grid: the scan moves forward only, so what has been   *)
(* recorded is earlier than the current point.                             *)
(***************************************************************************)
ForwardInv ==
    scan = "running" =>
        /\ OnCourse(startedLeft)
        /\ \A p \in Points : Earlier(p, <<currentX, currentY>>, startedLeft)

LEMMA ForwardStep == TypeOK /\ ForwardInv /\ [Next]_vars => ForwardInv'
<1> SUFFICES ASSUME TypeOK, ForwardInv, [Next]_vars PROVE ForwardInv'
  OBVIOUS
<1>0. GridTypeOK /\ startedLeft \in BOOLEAN
  BY DEF TypeOK
<1>1. CASE LoadParameters \/ RecordLastPoint \/ Stop
  BY <1>1 DEF LoadParameters, RecordLastPoint, Stop, ForwardInv
<1>2. CASE Measure
  <2>1. SetStart /\ startedLeft' = currentDirection' /\ samples' = {}
    BY <1>2 DEF Measure, SetStart
  <2>2. OnCourse(startedLeft)'
    BY <1>0, <2>1, StartsOnCourse DEF OnCourse, RowIsLeft
  <2> QED  BY <2>1, <2>2 DEF ForwardInv, Points
<1>3. CASE RecordPoint
  <2>1. /\ scan = "running" /\ startedLeft' = startedLeft /\ MoveToNext
        /\ OnCourse(startedLeft) /\ par \in Parameters
    BY <1>0, <1>3 DEF RecordPoint, Record, ForwardInv, GridTypeOK
  <2>2. /\ par' = par /\ OnCourse(startedLeft)'
        /\ Earlier(<<currentX, currentY>>, <<currentX', currentY'>>, startedLeft)
    BY <1>0, <2>1, MovesForward DEF OnCourse, RowIsLeft
  <2>3. Points' = Points \cup {<<currentX, currentY>>}
    BY <1>3, PointsAfterRecord DEF RecordPoint
  <2>4. Points \subseteq Uint16 \X Uint16
    BY DEF Points, TypeOK, Sample
  <2>5. /\ <<currentX, currentY>> \in Uint16 \X Uint16
        /\ <<currentX', currentY'>> \in Uint16 \X Uint16
    BY <1>0, <2>1, MoveTyped DEF GridTypeOK
  <2>6. \A p \in Points' : Earlier(p, <<currentX', currentY'>>, startedLeft)
    BY <1>0, <2>1, <2>2, <2>3, <2>4, <2>5, EarlierIsAnOrder DEF ForwardInv
  <2> QED  BY <2>1, <2>2, <2>6 DEF ForwardInv, Earlier, RowNumber, RowIsLeft
<1>4. CASE VspiInit \/ Tip \/ ResetDac \/ UNCHANGED vars
  BY <1>4
  DEF VspiInit, Tip, ResetDac, DacToGrid, vars, gridVars, position, sessionVars,
      ForwardInv, OnCourse, Points, Earlier, RowNumber, RowIsLeft, Leftward
<1> QED  BY <1>1, <1>2, <1>3, <1>4 DEF Next

\* measureLoop never records a point a second time in a scan, whatever the
\* parameters: also where the row index wraps or the start lies beyond the
\* grid.
THEOREM RecordedOnce == Spec => NoPointTwice
<1> DEFINE Fresh == RecordPoint \/ RecordLastPoint
                      => <<currentX, currentY>> \notin Points
<1>1. TypeOK /\ ForwardInv /\ [Next]_vars => [Fresh]_vars
  <2> SUFFICES ASSUME TypeOK, ForwardInv, RecordPoint \/ RecordLastPoint
               PROVE  <<currentX, currentY>> \notin Points
    OBVIOUS
  <2>1. \A p \in Points : Earlier(p, <<currentX, currentY>>, startedLeft)
    BY DEF ForwardInv, RecordPoint, RecordLastPoint, Record
  <2>2. ~Earlier(<<currentX, currentY>>, <<currentX, currentY>>, startedLeft)
    BY EarlierIsAnOrder DEF TypeOK, GridTypeOK
  <2> QED  BY <2>1, <2>2
<1>2. Init => ForwardInv
  BY DEF Init, ForwardInv
<1>3. Spec => [][Fresh]_vars
  BY <1>1, <1>2, InitType, TypeInvariant, ForwardStep, PTL DEF Spec
<1> QED  BY <1>3 DEF NoPointTwice

-----------------------------------------------------------------------------
(***************************************************************************)
(* Placement.  Recorded points are placed because the current one is.      *)
(***************************************************************************)
CurrentPlaced ==
    scan = "running" =>
        /\ currentX # par.startX => currentXDac = XDacOf(currentX)
        /\ currentY # par.startY => currentYDac = YDacOf(currentY)

PlaceInv == CurrentPlaced /\ MovedAxisIsPlaced

\* A recording keeps the recorded points placed: it adds the current point.
LEMMA RecordKeepsPlaced ==
    ASSUME PlaceInv, Record, par' = par
    PROVE  MovedAxisIsPlaced'
<1> SUFFICES ASSUME NEW s \in samples'
             PROVE  /\ s.x # par.startX => s.xDac = XDacOf(s.x)
                    /\ s.y # par.startY => s.yDac = YDacOf(s.y)
  BY DEF MovedAxisIsPlaced, XDacOf, YDacOf
<1> DEFINE new == [x |-> currentX, y |-> currentY,
                   xDac |-> currentXDac, yDac |-> currentYDac]
<1>1. s \in samples \/ s = new
  BY DEF Record
<1>2. CASE s \in samples
  BY <1>2 DEF PlaceInv, MovedAxisIsPlaced
<1>3. CASE s = new
  BY <1>3 DEF PlaceInv, CurrentPlaced, Record
<1> QED  BY <1>1, <1>2, <1>3

LEMMA PlaceStep == PlaceInv /\ [Next]_vars => PlaceInv'
<1> SUFFICES ASSUME PlaceInv, [Next]_vars PROVE PlaceInv'
  OBVIOUS
<1>1. CASE VspiInit
  BY <1>1
  DEF VspiInit, DacToGrid, position, PlaceInv, CurrentPlaced, MovedAxisIsPlaced,
      XDacOf, YDacOf
<1>2. CASE LoadParameters
  BY <1>2 DEF LoadParameters, PlaceInv, CurrentPlaced, MovedAxisIsPlaced
<1>3. CASE Measure
  BY <1>3 DEF Measure, SetStart, PlaceInv, CurrentPlaced, MovedAxisIsPlaced
<1>4. CASE RecordPoint
  <2>1. par' = par /\ scan = "running" /\ scan' = "running" /\ Record
    BY <1>4 DEF RecordPoint, Record, MoveToNext
  <2>2. CurrentPlaced'
    <3>1. CASE MoveRight
      BY <2>1, <3>1
      DEF MoveRight, StepX, KeepRow, PlaceInv, CurrentPlaced, XDacOf, YDacOf
    <3>2. CASE MoveLeft
      BY <2>1, <3>2
      DEF MoveLeft, StepX, KeepRow, PlaceInv, CurrentPlaced, XDacOf, YDacOf
    <3>3. CASE Flyback
      BY <2>1, <3>3
      DEF Flyback, StepX, NextRow, PlaceInv, CurrentPlaced, XDacOf, YDacOf
    <3>4. CASE Turn
      BY <2>1, <3>4
      DEF Turn, KeepX, NextRow, PlaceInv, CurrentPlaced, XDacOf, YDacOf
    <3> QED  BY <1>4, <3>1, <3>2, <3>3, <3>4 DEF RecordPoint, MoveToNext
  <2> QED  BY <2>1, <2>2, RecordKeepsPlaced DEF PlaceInv
<1>5. CASE RecordLastPoint
  <2>1. par' = par /\ scan' = "done" /\ Record
    BY <1>5 DEF RecordLastPoint, GridComplete
  <2> QED  BY <2>1, RecordKeepsPlaced DEF PlaceInv, CurrentPlaced
<1>6. CASE Stop
  BY <1>6
  DEF Stop, gridVars, PlaceInv, CurrentPlaced, MovedAxisIsPlaced, XDacOf, YDacOf
<1>7. CASE ResetDac
  BY <1>7
  DEF ResetDac, DacToGrid, position, sessionVars, PlaceInv, CurrentPlaced,
      MovedAxisIsPlaced, XDacOf, YDacOf
<1>8. CASE Tip
  BY <1>8
  DEF Tip, position, sessionVars, PlaceInv, CurrentPlaced, MovedAxisIsPlaced,
      XDacOf, YDacOf
<1>9. CASE UNCHANGED vars
  BY <1>9
  DEF vars, gridVars, position, dac, sessionVars, PlaceInv, CurrentPlaced,
      MovedAxisIsPlaced, XDacOf, YDacOf
<1> QED  BY <1>1, <1>2, <1>3, <1>4, <1>5, <1>6, <1>7, <1>8, <1>9 DEF Next

\* On an axis on which a scan has moved, every point is recorded at the DAC
\* value of its grid index, whenever another loop calls resetDac.
THEOREM PointsArePlaced == Spec => []MovedAxisIsPlaced
<1>1. Init => PlaceInv
  BY DEF Init, PlaceInv, CurrentPlaced, MovedAxisIsPlaced
<1>2. PlaceInv => MovedAxisIsPlaced
  BY DEF PlaceInv
<1> QED  BY <1>1, <1>2, PlaceStep, PTL DEF Spec
=============================================================================
