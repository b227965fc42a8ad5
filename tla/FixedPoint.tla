------------------------------- MODULE FixedPoint -------------------------------
(***************************************************************************)
(* The decimals the program rounds its means to, as integers: a constant   *)
(* Unit of the modules that use them stands for 1.0.                       *)
(***************************************************************************)
EXTENDS Integers

\* mistake: the quotient is truncated
TruncatedDiv(a, b) == a \div b

\* a / b to the nearest integer, a tie to the even one, for b > 0: round()
RoundedDiv(a, b) ==
  LET q == a \div b
      r == a % b
  IN  IF 2 * r > b \/ (2 * r = b /\ q % 2 = 1) THEN q + 1 ELSE q

Magnitude(x) == IF x < 0 THEN -x ELSE x

\* max(0.0, min(1.0, x))
Clipped(x, one) == IF x < 0 THEN 0 ELSE IF x > one THEN one ELSE x
=============================================================================
