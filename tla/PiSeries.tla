------------------------------ MODULE PiSeries ------------------------------
(***************************************************************************)
(* foo.py: main() computes                                                 *)
(*     pi = 4 * sum(1 / i for i in range(1 - 2*n, 2*n + 1, 4))             *)
(* with n = rounds = 10^9 and prints it.  sum() pulls the generator one    *)
(* value at a time and adds 1 / i to a float accumulator.  The value of    *)
(* that accumulator is fixed by the sequence of divisors added, in order   *)
(* (float addition is not associative), so the model keeps that sequence, *)
(* addends, instead of a float.  rounds is the constant 10^9 in the code;  *)
(* here it ranges over a small set Rounds.                                 *)
(***************************************************************************)
EXTENDS Integers, Sequences

CONSTANT Rounds

ASSUME RoundsAssumption == Rounds \subseteq Nat \ {0}

VARIABLES n, addends, pc

vars == <<n, addends, pc>>

\* Mutant: range treated as if stop were inclusive (one term too many).
PyRangeLenInclusive(start, stop, step) ==
    IF stop >= start THEN (stop - start + step) \div step ELSE 0

\* len(range(start, stop, step)) for step > 0.
PyRangeLen(start, stop, step) ==
    IF stop > start THEN (stop - start + step - 1) \div step ELSE 0

\* range(start, stop, step) for step > 0, as the sequence it iterates.
PyRange(start, stop, step) ==
    [k \in 1..PyRangeLen(start, stop, step) |-> start + (k - 1) * step]

\* Mutant: the range starts at -2n instead of 1 - 2n.
TermsFromEven(r) == PyRange(-2 * r, 2 * r + 1, 4)

\* The divisors the generator expression yields for rounds r.
Terms(r) == PyRange(1 - 2 * r, 2 * r + 1, 4)

Init ==
    /\ n \in Rounds
    /\ addends = <<>>
    /\ pc = "sum"

\* One iteration of sum(): next i from the generator, acc += 1 / i.
SumStep ==
    /\ pc = "sum"
    /\ Len(addends) < Len(Terms(n))
    /\ addends' = Append(addends, Terms(n)[Len(addends) + 1])
    /\ UNCHANGED <<n, pc>>

\* The generator is exhausted: pi = 4 * acc is formatted, printed, and
\* main() returns.
SumDone ==
    /\ pc = "sum"
    /\ Len(addends) = Len(Terms(n))
    /\ pc' = "done"
    /\ UNCHANGED <<n, addends>>

Next == SumStep \/ SumDone

Spec == Init /\ [][Next]_vars /\ WF_vars(Next)

\* The values of a sequence.
SeqValues(s) == {s[k] : k \in DOMAIN s}

\* The refinement mapping: until sum() is done nothing is printed; then
\* the printed value is the sum over the divisors added.
Abstract == INSTANCE PiLeibniz
    WITH rounds <- n,
         terms <- IF pc = "done" THEN SeqValues(addends) ELSE {},
         printed <- (pc = "done")

-----------------------------------------------------------------------------
(* Properties.                                                             *)

TypeOK ==
    /\ n \in Rounds
    /\ addends \in Seq(Int)
    /\ pc \in {"sum", "done"}

\* No divisor that sum() reaches is 0: 1 / i never raises
\* ZeroDivisionError, whatever the value of rounds.
NoZeroDivision == \A k \in 1..Len(addends) : addends[k] # 0

\* When main() prints, it has added 1/i for exactly the first `rounds`
\* terms of the Leibniz series, each once, so it prints the Leibniz
\* approximation of pi; for an odd `rounds` every term has the opposite
\* sign and the printed value approximates -pi.
LeibnizTerms ==
    pc = "done" =>
        /\ Len(addends) = n
        /\ SeqValues(addends) = Abstract!LeibnizSet(n)
=============================================================================
