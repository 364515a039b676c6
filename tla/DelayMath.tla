------------------------------ MODULE DelayMath ------------------------------
(***************************************************************************)
(* The arithmetic of simulated latency: how a request's delay is built     *)
(* from a fixed part and a part for each byte and then slept (delay.go),   *)
(* and how a bandwidth becomes a delay for each byte, lowered by what the  *)
(* backing directory takes anyway (profile.go, calibrate.go).              *)
(*                                                                         *)
(* Durations are int64 nanoseconds, MaxInt standing for the largest one.   *)
(* Bandwidths and speeds are float64 in the code and fractions <<p, q>>    *)
(* here; only the rounding of large values by float64 matters.             *)
(***************************************************************************)
EXTENDS BlockMath

CONSTANTS
  Second,      \* time.Second in nanoseconds
  FloatGrain   \* distance of neighbouring float64 in the upper half of int64

ASSUME DelayAssumption ==
  /\ Second \in 1..MaxInt
  /\ FloatGrain \in Nat \ {0}

(* Go's integer division truncates toward zero.                            *)
Quot(x, y) == IF x >= 0 THEN x \div y ELSE -((-x) \div y)

(* float64(x): a large x is rounded to the nearest multiple of the grain.  *)
Float64(x) ==
  IF x <= MaxInt \div 2 THEN x
  ELSE ((x + FloatGrain \div 2) \div FloatGrain) * FloatGrain

(* time.Duration(x) of a float64: truncated, and outside int64 whatever    *)
(* the processor makes of it, the lowest value or the nearest one.         *)
ToDuration(p, q) ==
  IF p \div q <= MaxInt THEN {p \div q} ELSE {-MaxInt - 1, MaxInt}

(* Mutant: only a negative product counts as an overflow.                  *)
ByteDelay_NegativeOnly(perByte, n) ==
  LET bd == Wrap(perByte * n)
  IN  IF bd < 0 THEN MaxInt ELSE bd

(* perByte * n, clamped when dividing the product back does not give n.    *)
ByteDelay(perByte, n) ==
  LET bd == Wrap(perByte * n)
  IN  IF Quot(bd, perByte) # n THEN MaxInt ELSE bd

(* The sum with the fixed part is a plain int64 addition.                  *)
AddByteDelay(d, perByte, n) ==
  IF n <= 0 \/ perByte <= 0 THEN d ELSE Wrap(d + ByteDelay(perByte, n))

(* The durations sleepFor may hand to time.Sleep; 0 is no sleep at all.    *)
SleepFor(d, speed) ==
  IF d <= 0 THEN {0}
  ELSE ToDuration(Float64(d) * speed[1], speed[2])

(* Mutant: no clamp for very low bandwidths.                               *)
BwToByteDur_NoClamp(bw) ==
  IF bw[1] <= 0 THEN 0 ELSE Wrap((Second * bw[2]) \div bw[1])

(* 1s / bw, 0 when unlimited, clamped when it does not fit.                *)
BwToByteDur(bw) ==
  IF bw[1] <= 0 THEN 0
  ELSE LET d == (Second * bw[2]) \div bw[1]
       IN  IF d >= MaxInt THEN MaxInt ELSE d

(* Mutant: the target itself is slept, on top of what the backing takes.   *)
SubClampDur_Whole(target, measured) == IF target > measured THEN target ELSE 0

(* What is added to the backing's own time to reach the target; a target   *)
(* faster than the backing is clamped to no delay.                         *)
SubClampDur(target, measured) ==
  IF target <= 0 THEN 0
  ELSE IF measured <= 0 THEN target
  ELSE IF target > measured THEN target - measured
  ELSE 0

(* AdjustProfile for one of the two byte fields.                           *)
AdjustByteDur(target, measuredBw) ==
  IF measuredBw[1] > 0 THEN SubClampDur(target, BwToByteDur(measuredBw)) ELSE target
=============================================================================
