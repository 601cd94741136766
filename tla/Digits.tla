------------------------------- MODULE Digits -------------------------------
(***************************************************************************)
(* Numbers written as digits, the highest first: what the wallet's loops   *)
(* over bytes, bits and amounts compute, and what they are checked         *)
(* against.  In radix 1 a number is the sum of its digits.                 *)
(***************************************************************************)
EXTENDS Integers, Sequences

\* What has been read after 0, 1, ... of the digits.
Readings(digits, radix) ==
  LET v[n \in 0..Len(digits)] == IF n = 0 THEN 0 ELSE radix * v[n - 1] + digits[n]
  IN  v

Value(digits, radix) == Readings(digits, radix)[Len(digits)]

SumOf(values) == Value(values, 1)

\* A one and n zeros.
Power(radix, n) == Value([i \in 1..(n + 1) |-> IF i = 1 THEN 1 ELSE 0], radix)
=============================================================================
