----------------------------- MODULE PiLeibniz -----------------------------
(***************************************************************************)
(* What foo.py promises, in one step: main() prints 4 times the sum of     *)
(* 1/d over the divisors d of the first `rounds` terms of the Leibniz      *)
(* series (negated for odd rounds).  PiSeries, the loop of sum(), is shown *)
(* to implement it.                                                        *)
(***************************************************************************)
EXTENDS Integers

CONSTANT Rounds

VARIABLES rounds, terms, printed

avars == <<rounds, terms, printed>>

\* The j-th divisor (from 0) of the Leibniz series 1 - 1/3 + 1/5 - 1/7 ...
LeibnizDivisor(j) == IF j % 2 = 0 THEN 2 * j + 1 ELSE -(2 * j + 1)

\* +1 when r is even, -1 when it is odd.
Parity(r) == IF r % 2 = 0 THEN 1 ELSE -1

\* The divisors of the first r Leibniz terms, negated when r is odd.
LeibnizSet(r) == {Parity(r) * LeibnizDivisor(j) : j \in 0..r - 1}

Init ==
    /\ rounds \in Rounds
    /\ terms = {}
    /\ printed = FALSE

\* pi = 4 * sum(...) over the Leibniz divisors; print(pi).
PrintPi ==
    /\ ~printed
    /\ terms' = LeibnizSet(rounds)
    /\ printed' = TRUE
    /\ UNCHANGED rounds

Spec == Init /\ [][PrintPi]_avars /\ WF_avars(PrintPi)
=============================================================================
