---------------------------- MODULE ScanGrid_proofs ----------------------------
(***************************************************************************)
(* Facts about the grid, for every word width and every set of parameter   *)
(* sets: the range of the DAC values, and that each operation of class     *)
(* scanGrid keeps indices and DAC values in a uint16_t.                    *)
(***************************************************************************)
EXTENDS ScanGrid, TLAPS

USE WordAssumption

\* gridToDacValue truncates to a uint16_t.
LEMMA DacInWord ==
    ASSUME NEW c \in Uint16, NEW m \in Uint16, NEW k \in Uint16
    PROVE  gridToDacValue(c, m, k) \in Uint16
<1> DEFINE h == m \div 2
<1> DEFINE d == c - (h + 1)
<1> DEFINE n == DAC_VALUE_MAX \div 2 + d * k
<1>1. h \in Int
  BY DEF Uint16
<1>2. d \in Int
  BY <1>1 DEF Uint16
<1>3. d * k \in Int
  <2> HIDE DEF d
  <2>1. k \in Int
    BY DEF Uint16
  <2> QED  BY <1>2, <2>1
<1>4. n \in Int
  <2>1. DAC_VALUE_MAX \div 2 \in Int
    BY DEF DAC_VALUE_MAX
  <2> HIDE DEF d
  <2> QED  BY <1>3, <2>1
<1>5. n % Word \in 0 .. Word - 1
  <2> HIDE DEF n
  <2> QED  BY <1>4
<1> QED  BY <1>5 DEF gridToDacValue, Uint16

\* While the middle row times the multiplicator does not exceed half the range
\* of the DAC, gridToDacValue does not wrap and the grid is even: the next
\* index is one multiplicator further (movementXY.cpp:138; the compile-time
\* grid and the default parameters keep to it, nothing checks it).
THEOREM GridIsEven ==
    ASSUME NEW m \in Uint16, NEW k \in Uint16, NEW c \in Nat, c < m,
           (m \div 2 + 1) * k <= DAC_VALUE_MAX \div 2
    PROVE  gridToDacValue(c + 1, m, k) = gridToDacValue(c, m, k) + k
<1> DEFINE half == m \div 2 + 1
<1> DEFINE middle == DAC_VALUE_MAX \div 2
<1> DEFINE n(i) == middle + (i - half) * k
<1>1. /\ k \in Nat /\ m \in Nat /\ half \in Nat
      /\ middle \in Nat /\ 2 * middle < Word
      /\ m <= 2 * half
  BY DEF Uint16, DAC_VALUE_MAX
<1>2. ASSUME NEW i \in Nat, i <= m
      PROVE  n(i) \in 0 .. Word - 1
  <2>1. /\ i - half \in Int /\ -half <= i - half /\ i - half <= half
    <3> HIDE DEF half
    <3> QED  BY <1>1, <1>2
  <2>2. ASSUME NEW d \in Int, -half <= d, d <= half
        PROVE  /\ d * k \in Int
               /\ -(half * k) <= d * k /\ d * k <= half * k
    <3> HIDE DEF half
    <3>1. (half - d) * k >= 0 /\ (half + d) * k >= 0
      <4>1. half - d \in Nat /\ half + d \in Nat
        BY <1>1, <2>2
      <4>2. \A a, b \in Nat : a * b >= 0
        OBVIOUS
      <4> QED  BY <4>1, <4>2, <1>1
    <3>2. /\ (half - d) * k = half * k - d * k
          /\ (half + d) * k = half * k + d * k
      BY <1>1
    <3>3. d * k \in Int /\ half * k \in Int
      BY <1>1
    <3> QED  BY <3>1, <3>2, <3>3
  <2> DEFINE p == (i - half) * k
  <2>3. p \in Int /\ -(half * k) <= p /\ p <= half * k
    BY <2>1, <2>2
  <2>4. half * k <= middle /\ half * k \in Int
    <3> HIDE DEF half
    <3> QED  BY <1>1 DEF half
  <2>5. n(i) = middle + p
    OBVIOUS
  <2> HIDE DEF p, half, middle, n
  <2> QED  BY <2>3, <2>4, <2>5, <1>1
<1>3. n(c + 1) = n(c) + k
  <2> DEFINE p == (c - half) * k
  <2> DEFINE q == ((c + 1) - half) * k
  <2>1. n(c) = middle + p /\ n(c + 1) = middle + q
    OBVIOUS
  <2>2. q = p + k /\ p \in Int
    <3> HIDE DEF half
    <3>1. \A a \in Int, b \in Nat : (a + 1) * b = a * b + b
      OBVIOUS
    <3>2. c - half \in Int /\ (c + 1) - half = (c - half) + 1
      BY <1>1
    <3>3. ((c - half) + 1) * k = (c - half) * k + k
      BY <3>1, <3>2, <1>1
    <3>4. (c - half) * k \in Int
      BY <3>2, <1>1
    <3> QED  BY <3>2, <3>3, <3>4
  <2> HIDE DEF p, q, n, half, middle
  <2> QED  BY <2>1, <2>2, <1>1
<1>4. n(c) \in 0 .. Word - 1 /\ n(c + 1) \in 0 .. Word - 1
  <2> HIDE DEF n
  <2>1. c \in Nat /\ c + 1 \in Nat /\ c <= m /\ c + 1 <= m
    BY <1>1
  <2> QED  BY <1>2, <2>1
<1>5. \A v \in 0 .. Word - 1 : v % Word = v
  OBVIOUS
<1>6. /\ gridToDacValue(c, m, k) = n(c) % Word
      /\ gridToDacValue(c + 1, m, k) = n(c + 1) % Word
  BY DEF gridToDacValue
<1> HIDE DEF n
<1> QED  BY <1>3, <1>4, <1>5, <1>6

LEMMA IncrementInWord ==
    ASSUME NEW n \in Uint16
    PROVE  Increment(n) \in Uint16
BY DEF Uint16, Increment, DAC_VALUE_MAX

LEMMA DacOfInWord ==
    ASSUME par \in Parameters, NEW c \in Uint16
    PROVE  XDacOf(c) \in Uint16 /\ YDacOf(c) \in Uint16
BY DacInWord DEF Parameters, XDacOf, YDacOf

-----------------------------------------------------------------------------
(* Each operation on the grid keeps the range of its variables.            *)

LEMMA GridInitTyped == GridInit => GridTypeOK
<1>1. 0 \in Uint16
  BY DEF Uint16
<1>2. CompileTimeParameters \in Parameters
  BY <1>1, DefaultMaxAssumption DEF CompileTimeParameters, Parameters
<1> QED  BY <1>1, <1>2 DEF GridInit, GridTypeOK

LEMMA MoveTyped ==
    ASSUME GridTypeOK, MoveToNext
    PROVE  GridTypeOK'
<1> USE DEF GridTypeOK
<1>1. CASE MoveRight
  <2>1. currentX + 1 \in Uint16
    BY <1>1 DEF MoveRight, Parameters, Uint16
  <2> QED
    BY <1>1, <2>1, DacOfInWord DEF MoveToNext, MoveRight, StepX, KeepRow
<1>2. CASE MoveLeft
  <2>1. currentX - 1 \in Uint16
    BY <1>2 DEF MoveLeft, Uint16
  <2> QED
    BY <1>2, <2>1, DacOfInWord DEF MoveToNext, MoveLeft, StepX, KeepRow
<1>3. CASE Flyback
  <2>1. par.startX \in Uint16
    BY DEF Parameters
  <2> QED
    BY <1>3, <2>1, DacOfInWord, IncrementInWord
    DEF MoveToNext, Flyback, StepX, NextRow
<1>4. CASE Turn
  BY <1>4, DacOfInWord, IncrementInWord DEF MoveToNext, Turn, KeepX, NextRow
<1> QED  BY <1>1, <1>2, <1>3, <1>4 DEF MoveToNext

LEMMA CompleteTyped ==
    ASSUME GridTypeOK, GridComplete
    PROVE  GridTypeOK'
<1>1. par.startX \in Uint16
  BY DEF GridTypeOK, Parameters
<1> QED
  BY <1>1, DacOfInWord DEF GridComplete, KeepX, StepX, KeepRow, GridTypeOK

LEMMA SetStartTyped ==
    ASSUME GridTypeOK, SetStart
    PROVE  GridTypeOK'
BY DEF SetStart, GridTypeOK, dac, Parameters

LEMMA LoadTyped ==
    ASSUME GridTypeOK, NEW p \in ParameterSets, GetParametersFromFlash(p)
    PROVE  GridTypeOK'
<1>1. p \in Parameters
  BY ParameterSetsAssumption
<1> QED  BY <1>1 DEF GetParametersFromFlash, GridTypeOK, dac, Parameters

LEMMA DacToGridTyped ==
    ASSUME GridTypeOK, DacToGrid
    PROVE  GridTypeOK'
BY DacOfInWord DEF DacToGrid, GridTypeOK, position

LEMMA GridUntouched ==
    ASSUME GridTypeOK, UNCHANGED gridVars
    PROVE  GridTypeOK'
BY DEF GridTypeOK, gridVars, position, dac

-----------------------------------------------------------------------------
(* moveOn on a regular rectangle: the next point is the successor of the   *)
(* current one, and the grid is complete on the last one only.             *)

InRectangle ==
    /\ currentX \in par.startX .. par.maxX
    /\ currentY \in par.startY .. par.maxY

LEMMA ParametersAreNat ==
    ASSUME GridTypeOK
    PROVE  /\ par.startX \in Nat /\ par.startY \in Nat
           /\ par.maxX \in Nat /\ par.maxY \in Nat
           /\ par.maxX <= DAC_VALUE_MAX /\ par.maxY <= DAC_VALUE_MAX
           /\ par.direction \in BOOLEAN /\ currentDirection \in BOOLEAN
           /\ currentX \in Nat /\ currentY \in Nat
BY DEF GridTypeOK, Parameters, Uint16, DAC_VALUE_MAX

LEMMA MovesToSuccessor ==
    ASSUME GridTypeOK, NEW left, RegularScan(left), InRectangle, MoveToNext
    PROVE  /\ par' = par /\ InRectangle'
           /\ \A x \in par.startX .. par.maxX, y \in par.startY .. par.maxY :
                Before(x, y)' <=> Before(x, y) \/ (x = currentX /\ y = currentY)
<1>1. par' = par
  BY DEF MoveToNext
<1>2. /\ currentX \in par.startX .. par.maxX
      /\ currentY \in par.startY .. par.maxY
  BY DEF InRectangle
<1>3. CASE MoveRight
  BY <1>1, <1>2, <1>3, ParametersAreNat
  DEF MoveRight, StepX, KeepRow, Before, Leftward, InRectangle
<1>4. CASE MoveLeft
  BY <1>1, <1>2, <1>4, ParametersAreNat
  DEF MoveLeft, StepX, KeepRow, Before, Leftward, RegularScan, InRectangle
<1>5. CASE Flyback
  BY <1>1, <1>2, <1>5, ParametersAreNat
  DEF Flyback, StepX, NextRow, RowEnd, Before, Leftward, Increment,
      RegularScan, InRectangle
<1>6. CASE Turn
  <2>1. /\ par.direction /\ par.startX = 0
        /\ currentX' = currentX /\ currentY' = currentY + 1
        /\ currentY < par.maxY
    BY <1>2, <1>6, ParametersAreNat DEF Turn, KeepX, NextRow, Increment, RegularScan
  <2>2. CASE currentDirection = TRUE
    <3>1. currentDirection' = FALSE /\ currentX = 0
      BY <1>6, <2>1, <2>2 DEF Turn, RowEnd, Leftward
    <3> QED
      BY <1>1, <1>2, <2>1, <2>2, <3>1, ParametersAreNat
      DEF Before, Leftward, InRectangle
  <2>3. CASE currentDirection = FALSE
    <3>1. currentDirection' = TRUE
      BY <1>6, <2>3 DEF Turn
    <3>2. currentX = par.maxX
      BY <1>2, <1>6, <2>1, <2>3, ParametersAreNat DEF Turn, RowEnd, Leftward
    <3> QED
      BY <1>1, <1>2, <2>1, <2>3, <3>1, <3>2, ParametersAreNat
      DEF Before, Leftward, InRectangle
  <2> QED  BY <2>2, <2>3, ParametersAreNat
<1> QED  BY <1>1, <1>3, <1>4, <1>5, <1>6 DEF MoveToNext

LEMMA CompletesOnLast ==
    ASSUME GridTypeOK, NEW left, RegularScan(left), InRectangle, GridComplete
    PROVE  /\ par' = par /\ <<currentX, currentY>> \in Rectangle
           /\ \A p \in Rectangle : Before(p[1], p[2]) \/ p = <<currentX, currentY>>
<1>1. /\ RowEnd /\ currentY = par.maxY /\ par' = par
      /\ currentX \in par.startX .. par.maxX
  BY DEF GridComplete, InRectangle
<1>2. <<currentX, currentY>> \in Rectangle
  BY <1>1, ParametersAreNat DEF Rectangle, RegularScan
<1>3. ASSUME NEW p \in Rectangle
      PROVE  Before(p[1], p[2]) \/ p = <<currentX, currentY>>
  <2>1. /\ p[1] \in par.startX .. par.maxX /\ p[2] \in par.startY .. par.maxY
        /\ p = <<p[1], p[2]>>
    BY DEF Rectangle
  <2>2. p[2] < currentY \/ p[2] = currentY
    BY <1>1, <2>1, ParametersAreNat
  <2>3. ASSUME p[2] = currentY, p[1] # currentX
        PROVE  IF Leftward THEN p[1] > currentX ELSE p[1] < currentX
    BY <1>1, <2>1, <2>3, ParametersAreNat DEF RowEnd, Leftward, RegularScan
  <2> QED  BY <2>1, <2>2, <2>3 DEF Before
<1> QED  BY <1>1, <1>2, <1>3

-----------------------------------------------------------------------------
(* moveOn on any grid: the next point is later in the order of the scan.   *)

\* The grid is in a row of the scan and moves in the direction of that row.
OnCourse(left) ==
    /\ RowNumber(currentY) <= RowNumber(par.maxY)
    /\ Leftward <=> RowIsLeft(currentY, left)

LEMMA RowNumbers ==
    ASSUME par \in Parameters
    PROVE  /\ \A y \in Uint16 : RowNumber(y) \in 0 .. Word - 1
           /\ \A y, z \in Uint16 : RowNumber(y) = RowNumber(z) => y = z
           /\ \A y \in Uint16 :
                RowNumber(y) < Word - 1 => RowNumber(Increment(y)) = RowNumber(y) + 1
           /\ RowNumber(par.startY) = 0
<1>1. par.startY \in 0 .. Word - 1
  BY DEF Parameters, Uint16
<1> QED  BY <1>1 DEF RowNumber, Uint16, Increment, DAC_VALUE_MAX

LEMMA EarlierIsAnOrder ==
    ASSUME par \in Parameters, NEW left \in BOOLEAN,
           NEW p \in Uint16 \X Uint16, NEW q \in Uint16 \X Uint16,
           NEW r \in Uint16 \X Uint16
    PROVE  /\ ~Earlier(p, p, left)
           /\ Earlier(p, q, left) /\ Earlier(q, r, left) => Earlier(p, r, left)
<1>1. /\ RowNumber(p[2]) \in Int /\ RowNumber(q[2]) \in Int /\ RowNumber(r[2]) \in Int
      /\ p[1] \in Int /\ q[1] \in Int /\ r[1] \in Int
  BY RowNumbers DEF Uint16
<1> QED  BY <1>1 DEF Earlier

LEMMA StartsOnCourse ==
    ASSUME GridTypeOK, SetStart
    PROVE  OnCourse(currentDirection)'
<1>1. /\ currentY' = par.startY /\ par' = par
      /\ currentDirection' = currentDirection
      /\ currentDirection \in BOOLEAN /\ par.direction \in BOOLEAN
      /\ par.maxY \in Uint16 /\ par \in Parameters
  BY DEF SetStart, GridTypeOK, Parameters
<1>2. RowNumber(currentY)' = 0 /\ 0 <= RowNumber(par.maxY)
  <2>1. RowNumber(currentY)' = RowNumber(par.startY)
    BY <1>1 DEF RowNumber
  <2> QED  BY <1>1, <2>1, RowNumbers
<1>3. RowNumber(par.maxY)' = RowNumber(par.maxY)
  BY <1>1 DEF RowNumber
<1>4. RowIsLeft(currentY, currentDirection)' <=> par.direction /\ currentDirection
  BY <1>1, <1>2 DEF RowIsLeft
<1> QED  BY <1>1, <1>2, <1>3, <1>4 DEF OnCourse, Leftward

LEMMA MovesForward ==
    ASSUME GridTypeOK, NEW left \in BOOLEAN, OnCourse(left), MoveToNext
    PROVE  /\ par' = par /\ OnCourse(left)'
           /\ Earlier(<<currentX, currentY>>, <<currentX', currentY'>>, left)
<1>0. /\ par' = par /\ par \in Parameters /\ currentY \in Uint16
      /\ par.maxY \in Uint16 /\ currentX \in Int
      /\ currentDirection \in BOOLEAN /\ par.direction \in BOOLEAN
  BY ParametersAreNat DEF MoveToNext, GridTypeOK, Parameters
<1>1. \A y : RowNumber(y)' = RowNumber(y')
  BY <1>0 DEF RowNumber
<1>2. CASE MoveRight \/ MoveLeft
  <2>1. /\ UNCHANGED <<currentY, currentDirection>>
        /\ IF Leftward THEN currentX' = currentX - 1 ELSE currentX' = currentX + 1
    BY <1>2 DEF MoveRight, MoveLeft, StepX, KeepRow
  <2>2. OnCourse(left)'
    BY <1>0, <2>1 DEF OnCourse, RowNumber, RowIsLeft, Leftward
  <2> QED  BY <1>0, <2>1, <2>2 DEF OnCourse, Earlier
<1>3. CASE Flyback \/ Turn
  <2>1. /\ currentY # par.maxY /\ currentY' = Increment(currentY)
        /\ currentDirection' = IF par.direction THEN ~currentDirection
                               ELSE currentDirection
    BY <1>3 DEF Flyback, Turn, NextRow
  <2>2. RowNumber(currentY) < RowNumber(par.maxY)
    BY <1>0, <2>1, RowNumbers DEF OnCourse
  <2>3. RowNumber(currentY') = RowNumber(currentY) + 1
    BY <1>0, <2>1, <2>2, RowNumbers
  <2>4. RowIsLeft(currentY, left)' <=> par.direction /\ ~RowIsLeft(currentY, left)
    <3>1. RowNumber(currentY)' = RowNumber(currentY) + 1
      BY <1>0, <2>3 DEF RowNumber
    <3>2. RowNumber(currentY) \in Nat
      BY <1>0, RowNumbers
    <3>3. \A n \in Nat : (n + 1) % 2 = 1 <=> n % 2 # 1
      OBVIOUS
    <3> QED  BY <1>0, <3>1, <3>2, <3>3 DEF RowIsLeft
  <2>5. OnCourse(left)'
    <3>1. RowNumber(currentY)' <= RowNumber(par.maxY)'
      BY <1>0, <2>2, <2>3, RowNumbers DEF RowNumber
    <3>2. Leftward' <=> RowIsLeft(currentY, left)'
      BY <1>0, <2>1, <2>4 DEF OnCourse, Leftward, RowIsLeft
    <3> QED  BY <3>1, <3>2 DEF OnCourse
  <2>6. RowNumber(currentY) < RowNumber(currentY')
    BY <1>0, <2>3, RowNumbers
  <2> QED  BY <1>0, <2>5, <2>6 DEF Earlier
<1> QED  BY <1>0, <1>2, <1>3 DEF MoveToNext
=============================================================================
