--------------------------- MODULE PiSeriesProofs ---------------------------
(* Proofs about foo.py for every value of rounds.                         *)
EXTENDS PiSeries, SequenceTheorems, TLAPS

\* The k-th value the generator yields, as a closed form.
TermAt(r, k) == 1 - 2 * r + 4 * (k - 1)

\* range(1 - 2r, 2r + 1, 4) has exactly r elements, the values TermAt.
LEMMA TermsShape ==
    ASSUME NEW r \in Nat \ {0}
    PROVE  /\ PyRangeLen(1 - 2 * r, 2 * r + 1, 4) = r
           /\ Len(Terms(r)) = r
           /\ Terms(r) \in Seq(Int)
           /\ \A k \in 1..r : Terms(r)[k] = TermAt(r, k)
           /\ Terms(r) = [k \in 1..r |-> TermAt(r, k)]
<1>1. PyRangeLen(1 - 2 * r, 2 * r + 1, 4) = r
  BY DEF PyRangeLen
<1>2. Terms(r) = [k \in 1..r |-> TermAt(r, k)]
  BY <1>1 DEF Terms, PyRange, TermAt
<1>3. \A k \in 1..r : TermAt(r, k) \in Int
  BY DEF TermAt
<1>4. Terms(r) \in Seq(Int)
  BY <1>2, <1>3
<1>. QED  BY <1>1, <1>2, <1>4

\* Every value the generator yields is odd, so 1 / i never divides by 0.
LEMMA TermsNonZero ==
    ASSUME NEW r \in Nat \ {0}, NEW k \in 1..r
    PROVE  Terms(r)[k] # 0
<1>1. Terms(r)[k] = TermAt(r, k)  BY TermsShape
<1>2. TermAt(r, k) # 0  BY DEF TermAt
<1>. QED  BY <1>1, <1>2

\* Every generated divisor is a (signed) Leibniz divisor ...
LEMMA TermsInLeibniz ==
    ASSUME NEW r \in Nat \ {0}, NEW k \in 1..r
    PROVE  TermAt(r, k) \in Abstract!LeibnizSet(r)
<1>. DEFINE x == TermAt(r, k)
<1>1. CASE x > 0
  <2>. DEFINE j == (x - 1) \div 2
  <2>1. j \in 0..r - 1 /\ 2 * j + 1 = x  BY <1>1 DEF TermAt
  <2>2. Abstract!Parity(r) * Abstract!LeibnizDivisor(j) = x
    BY <2>1 DEF Abstract!Parity, Abstract!LeibnizDivisor, TermAt
  <2>. QED  BY <2>1, <2>2 DEF Abstract!LeibnizSet
<1>2. CASE x < 0
  <2>. DEFINE j == (-x - 1) \div 2
  <2>1. j \in 0..r - 1 /\ 2 * j + 1 = -x  BY <1>2 DEF TermAt
  <2>2. Abstract!Parity(r) * Abstract!LeibnizDivisor(j) = x
    BY <2>1 DEF Abstract!Parity, Abstract!LeibnizDivisor, TermAt
  <2>. QED  BY <2>1, <2>2 DEF Abstract!LeibnizSet
<1>. QED  BY <1>1, <1>2 DEF TermAt

\* ... and every Leibniz divisor is generated.
LEMMA LeibnizInTerms ==
    ASSUME NEW r \in Nat \ {0}, NEW j \in 0..r - 1
    PROVE  \E k \in 1..r : TermAt(r, k) = Abstract!Parity(r) * Abstract!LeibnizDivisor(j)
<1>. DEFINE y == Abstract!Parity(r) * Abstract!LeibnizDivisor(j)
<1>1. CASE y > 0
  <2>. DEFINE k == (y + 2 * r + 3) \div 4
  <2>1. k \in 1..r /\ TermAt(r, k) = y
    BY <1>1 DEF Abstract!Parity, Abstract!LeibnizDivisor, TermAt
  <2>. QED  BY <2>1
<1>2. CASE y < 0
  <2>. DEFINE k == (y + 2 * r + 3) \div 4
  <2>1. k \in 1..r /\ TermAt(r, k) = y
    BY <1>2 DEF Abstract!Parity, Abstract!LeibnizDivisor, TermAt
  <2>. QED  BY <2>1
<1>. QED  BY <1>1, <1>2 DEF Abstract!Parity, Abstract!LeibnizDivisor

\* The generator yields exactly the Leibniz divisors of r terms.
LEMMA TermsLeibniz ==
    ASSUME NEW r \in Nat \ {0}
    PROVE  SeqValues(Terms(r)) = Abstract!LeibnizSet(r)
<1>1. SeqValues(Terms(r)) = {TermAt(r, k) : k \in 1..r}
  <2>1. Terms(r) = [k \in 1..r |-> TermAt(r, k)]  BY TermsShape
  <2>. QED  BY <2>1 DEF SeqValues
<1>2. {TermAt(r, k) : k \in 1..r} \subseteq Abstract!LeibnizSet(r)
  BY TermsInLeibniz
<1>3. Abstract!LeibnizSet(r) \subseteq {TermAt(r, k) : k \in 1..r}
  BY LeibnizInTerms DEF Abstract!LeibnizSet
<1>. QED  BY <1>1, <1>2, <1>3

-----------------------------------------------------------------------------
(* The inductive invariant: sum() has added a prefix of the generated    *)
(* divisors, and all of them once it is done.                            *)

IInv ==
    /\ TypeOK
    /\ Len(addends) <= n
    /\ \A k \in 1..Len(addends) : addends[k] = Terms(n)[k]
    /\ pc = "done" => Len(addends) = n

LEMMA IInvInit == Init => IInv
<1>. SUFFICES ASSUME Init PROVE IInv  OBVIOUS
<1>1. n \in Nat \ {0}  BY RoundsAssumption DEF Init
<1>. QED  BY <1>1 DEF Init, IInv, TypeOK

LEMMA IInvStep == IInv /\ [Next]_vars => IInv'
<1>. SUFFICES ASSUME IInv, [Next]_vars PROVE IInv'  OBVIOUS
<1>1. n \in Nat \ {0}  BY RoundsAssumption DEF IInv, TypeOK
<1>2. Len(Terms(n)) = n /\ Terms(n) \in Seq(Int)  BY <1>1, TermsShape
<1>3. CASE SumStep
  <2>1. Terms(n)[Len(addends) + 1] \in Int
    BY <1>1, <1>2, <1>3 DEF SumStep, IInv, TypeOK
  <2>2. addends' \in Seq(Int) /\ Len(addends') = Len(addends) + 1
    BY <2>1, <1>3, AppendProperties DEF SumStep, IInv, TypeOK
  <2>3. \A k \in 1..Len(addends') : addends'[k] = Terms(n)[k]
    BY <2>2, <1>3, AppendProperties DEF SumStep, IInv, TypeOK
  <2>. QED  BY <1>2, <1>3, <2>2, <2>3 DEF SumStep, IInv, TypeOK
<1>4. CASE SumDone
  BY <1>2, <1>4 DEF SumDone, IInv, TypeOK
<1>5. CASE UNCHANGED vars
  BY <1>5 DEF vars, IInv, TypeOK
<1>. QED  BY <1>3, <1>4, <1>5 DEF Next

\* sum() never divides by zero, for any value of rounds.
THEOREM ZeroFree == Spec => []NoZeroDivision
<1>1. IInv => NoZeroDivision
  <2>. SUFFICES ASSUME IInv, NEW k \in 1..Len(addends) PROVE addends[k] # 0
    BY DEF NoZeroDivision
  <2>1. n \in Nat \ {0} /\ k \in 1..n  BY RoundsAssumption DEF IInv, TypeOK
  <2>. QED  BY <2>1, TermsNonZero DEF IInv
<1>. QED  BY <1>1, IInvInit, IInvStep, PTL DEF Spec

LEMMA IInvLeibniz == IInv => LeibnizTerms
  <1>. SUFFICES ASSUME IInv, pc = "done"
                PROVE  Len(addends) = n /\ SeqValues(addends) = Abstract!LeibnizSet(n)
    BY DEF LeibnizTerms
  <1>1. n \in Nat \ {0}  BY RoundsAssumption DEF IInv, TypeOK
  <1>2. Len(addends) = n  BY DEF IInv
  <1>3. addends = Terms(n)
    <3>1. Terms(n) \in Seq(Int) /\ Len(Terms(n)) = n  BY <1>1, TermsShape
    <3>2. addends \in Seq(Int)  BY DEF IInv, TypeOK
    <3>3. \A i \in 1..Len(addends) : addends[i] = Terms(n)[i]  BY DEF IInv
    <3>. QED  BY <1>2, <3>1, <3>2, <3>3, SeqEqual
  <1>. QED  BY <1>1, <1>2, <1>3, TermsLeibniz

\* For every value of rounds, main() prints 4 times the sum of exactly the
\* first rounds Leibniz terms, negated when rounds is odd.
THEOREM LeibnizCorrect == Spec => []LeibnizTerms
BY IInvLeibniz, IInvInit, IInvStep, PTL DEF Spec

\* The loop of sum() refines the one-step specification PiLeibniz: no
\* step of the loop prints, and the step that ends it prints exactly
\* the Leibniz sum (the safety part of AbstractSpec).
THEOREM RefinesAbstract ==
    Spec => Abstract!Init /\ [][Abstract!PrintPi]_Abstract!avars
<1>1. Init => Abstract!Init
  BY DEF Init, Abstract!Init
<1>2. LeibnizTerms' /\ [Next]_vars => [Abstract!PrintPi]_Abstract!avars
  <2>. SUFFICES ASSUME LeibnizTerms', [Next]_vars
                PROVE  [Abstract!PrintPi]_Abstract!avars
    OBVIOUS
  <2>1. CASE SumStep
    BY <2>1 DEF SumStep, Abstract!avars
  <2>2. CASE SumDone
    BY <2>2 DEF SumDone, LeibnizTerms, Abstract!PrintPi
  <2>3. CASE UNCHANGED vars
    BY <2>3 DEF vars, Abstract!avars
  <2>. QED  BY <2>1, <2>2, <2>3 DEF Next
<1>3. Spec => []LeibnizTerms  BY LeibnizCorrect
<1>. QED  BY <1>1, <1>2, <1>3, PTL DEF Spec
=============================================================================
