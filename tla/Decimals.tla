------------------------------ MODULE Decimals ------------------------------
(***************************************************************************)
(* The part of Python's decimal arithmetic that money and measurements     *)
(* use.  A number is c * 10^e; a text is converted exactly, a product is   *)
(* rounded to Precision digits, half to even.                              *)
(***************************************************************************)
EXTENDS Integers

CONSTANT Precision     \* digits of the decimal context; 28 in Python

Pow10[n \in Nat] == IF n = 0 THEN 1 ELSE 10 * Pow10[n - 1]

D(c, e) == [c |-> c, e |-> e]

(* The digits that do not fit.                                             *)
Excess(c) == CHOOSE n \in 0..c :
               /\ c < Pow10[Precision + n]
               /\ n = 0 \/ c >= Pow10[Precision + n - 1]

HalfEven(c, unit) ==
  LET q == c \div unit
      twice == 2 * (c % unit)
  IN  IF twice > unit \/ (twice = unit /\ q % 2 = 1) THEN q + 1 ELSE q

Rounded(d) ==
  LET size == IF d.c < 0 THEN -d.c ELSE d.c
      n == Excess(size)
      c == HalfEven(size, Pow10[n])
  IN  D(IF d.c < 0 THEN -c ELSE c, d.e + n)

(* d * 10^k in the decimal context.                                        *)
TimesPow10(d, k) == Rounded(D(d.c, d.e + k))

IsIntegral(d) == d.e >= 0 \/ d.c % Pow10[-d.e] = 0

(* int(d): towards zero.                                                   *)
ToInt(d) ==
  IF d.e >= 0 THEN d.c * Pow10[d.e]
  ELSE IF d.c < 0 THEN -((-d.c) \div Pow10[-d.e]) ELSE d.c \div Pow10[-d.e]

(* Is the text d exactly n units of 10^-places?                            *)
Exactly(d, n, places) ==
  IF d.e + places >= 0 THEN d.c * Pow10[d.e + places] = n
                       ELSE d.c = n * Pow10[-(d.e + places)]
=============================================================================
