------------------------------- MODULE QArith -------------------------------
(***************************************************************************)
(* Exact non-negative rationals, records [num, den] kept in lowest terms   *)
(* so that a value has one representation.  They stand for the Python      *)
(* floats of the weights and scores; the floats round them.                *)
(***************************************************************************)
EXTENDS Naturals, FiniteSetsExt

GcdOf(a, b) == CHOOSE g \in 1..(a + b) :
                  /\ a % g = 0 /\ b % g = 0
                  /\ \A h \in 1..(a + b) : (a % h = 0 /\ b % h = 0) => h <= g
Q(n, d) == [num |-> n \div GcdOf(n, d), den |-> d \div GcdOf(n, d)]
Zero == Q(0, 1)
One == Q(1, 1)
QAdd(a, b) == Q(a.num * b.den + b.num * a.den, a.den * b.den)
QMul(a, b) == Q(a.num * b.num, a.den * b.den)
QDiv(a, b) == Q(a.num * b.den, a.den * b.num)
QLess(a, b) == a.num * b.den < b.num * a.den
QSum(S, w(_)) == FoldSet(LAMBDA x, acc : QAdd(w(x), acc), Zero, S)

=============================================================================
