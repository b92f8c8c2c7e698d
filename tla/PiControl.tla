------------------------------- MODULE PiControl -------------------------------
(***************************************************************************)
(* computePiDac of helper_functions.cpp: the next value of the Z DAC.  The *)
(* gains kP and kI are doubles; here they are fractions.  A double is cut  *)
(* to an int32_t by dropping its fraction.                                 *)
(***************************************************************************)
EXTENDS Integers

CONSTANTS
    Word,             \* number of values of a uint16_t: 65536 on the board
    HalfInt,          \* an int is in -HalfInt .. HalfInt - 1: 2^31
    kPNum, kPDen,     \* kP
    kINum, kIDen      \* kI

ASSUME WordAssumption == Word \in Nat /\ Word > 1
ASSUME HalfIntAssumption == HalfInt \in Nat \ {0}
ASSUME GainAssumption ==
    /\ kPNum \in Nat /\ kPDen \in Nat \ {0}
    /\ kINum \in Nat /\ kIDen \in Nat \ {0}

DAC_VALUE_MAX == Word - 1
Uint16 == 0 .. DAC_VALUE_MAX
MAX_PROPORTIONAL == DAC_VALUE_MAX \div 10
MAX_INTEGRAL == DAC_VALUE_MAX \div 10

Clamp(n, low, high) == IF n < low THEN low ELSE IF n > high THEN high ELSE n

\* (num / den) * n without its fraction.
Times(num, den, n) ==
    IF n >= 0 THEN (num * n) \div den ELSE -((num * (-n)) \div den)

\* integralError += error.  A signed overflow is undefined in C++; the build
\* wraps around.
Accumulate(integralError, error) ==
    ((integralError + error + HalfInt) % (2 * HalfInt)) - HalfInt

Proportional(error) ==
    Clamp(Times(kPNum, kPDen, error), -MAX_PROPORTIONAL, MAX_PROPORTIONAL)

\* Mutant: the integral term is not limited.
IntegralUnlimited(integralError) == Times(kINum, kIDen, integralError)

Integral(integralError) ==
    Clamp(Times(kINum, kIDen, integralError), -MAX_INTEGRAL, MAX_INTEGRAL)

\* Mutant: the result is not limited to the range of the DAC.
computePiDacUnlimited(currentZDac, error, integralError) ==
    currentZDac - Proportional(error) - Integral(integralError)

\* The result, integralError being the sum that includes this error.
computePiDac(currentZDac, error, integralError) ==
    Clamp(currentZDac - Proportional(error) - Integral(integralError),
          0, DAC_VALUE_MAX)

\* The proportional term is at its limit.
Saturated(error) ==
    Proportional(error) \in {-MAX_PROPORTIONAL, MAX_PROPORTIONAL}
=============================================================================
