------------------------------ MODULE SizeMath ------------------------------
(***************************************************************************)
(* The numbers a user gives or is shown: sizes and speeds as knob.go       *)
(* accepts them, the capacity that a mount accepts, and what statfs shows  *)
(* of it (faultfs.go, capacity.go).                                        *)
(*                                                                         *)
(* A parsed number is a float64, here a fraction <<p, q>> or NoNumber for  *)
(* NaN and the infinities; q is 1 in the upper half of int64 and beyond,   *)
(* where float64 has no fractions.  Refused stands for a knobParseError.   *)
(***************************************************************************)
EXTENDS DelayMath

CONSTANTS
  NoNumber, Refused,
  WholeWithin  \* a number this fraction 1/WholeWithin from an integer is whole; 1e9 in knob.go

ASSUME SizeAssumption == WholeWithin \in Nat \ {0}

(* math.Round, halves away from zero; only used on numbers >= 0.           *)
RoundHalfUp(p, q) == (2 * p + q) \div (2 * q)

(* Mutant: float64(MaxInt64), which is one more than MaxInt, is let in.    *)
FiniteNonNegInt64_Closed(x) ==
  IF x = NoNumber \/ x[1] < 0 THEN Refused
  ELSE LET r == RoundHalfUp(x[1], x[2]) IN IF r > MaxInt + 1 THEN Refused ELSE Wrap(r)

(* finiteNonNegInt64, the end of ParseCapacity and ParseSpareSpec.         *)
FiniteNonNegInt64(x) ==
  IF x = NoNumber \/ x[1] < 0 THEN Refused
  ELSE LET r == RoundHalfUp(x[1], x[2]) IN IF r >= MaxInt + 1 THEN Refused ELSE r

Distance(a, b) == IF a > b THEN a - b ELSE b - a

(* The block size of a spare spec: at least one, and whole up to the       *)
(* tolerance that lets a float64 be a little off.                          *)
SpareBlockSizeOf(x) ==
  IF x = NoNumber \/ x[1] < x[2]
       \/ WholeWithin * Distance(x[1], RoundHalfUp(x[1], x[2]) * x[2]) > x[2]
  THEN Refused ELSE FiniteNonNegInt64(x)

(* Mutant: any positive speed is accepted.                                 *)
SpeedOf_AnyPositive(x) == IF x = NoNumber \/ x[1] < 0 THEN Refused ELSE x

(* ParseSpeed: 0 is unlimited, anything else at least one byte a second.   *)
SpeedOf(x) ==
  IF x = NoNumber \/ x[1] < 0 \/ (x[1] > 0 /\ x[1] < x[2]) THEN Refused ELSE x

-----------------------------------------------------------------------------
(* Capacity; a backing is [blocks, free, frsize] as statfs reports it.     *)

UsedBytes(b) == IF b.blocks > b.free THEN (b.blocks - b.free) * b.frsize ELSE 0
TotalBytes(b) == b.blocks * b.frsize

(* Mutant: the whole of the backing may be given out.                      *)
MountAccepts_Total(capacity, b) ==
  capacity > 0 => UsedBytes(b) < capacity /\ capacity <= TotalBytes(b)

(* checkCapacityAtMount.                                                   *)
MountAccepts(capacity, b) ==
  capacity > 0 => UsedBytes(b) < capacity /\ capacity < TotalBytes(b)

(* Mutant: the capacity is rounded up to a whole block.                    *)
Reflected_Up(capacity, b) ==
  LET used == IF b.blocks > b.free THEN b.blocks - b.free ELSE 0
      total == DivUp(capacity, b.frsize)
  IN  [blocks |-> total, free |-> IF total > used THEN total - used ELSE 0, frsize |-> b.frsize]

(* reflectCapacity: what statfs shows of a capacity, in the blocks of the  *)
(* backing.                                                                *)
Reflected(capacity, b) ==
  LET used == IF b.blocks > b.free THEN b.blocks - b.free ELSE 0
      total == capacity \div b.frsize
  IN  [blocks |-> total, free |-> IF total > used THEN total - used ELSE 0, frsize |-> b.frsize]
=============================================================================
