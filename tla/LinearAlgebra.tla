----------------------------- MODULE LinearAlgebra -----------------------------
(***************************************************************************)
(* The vectors and matrices of common/math.  A Vector is a sequence, so    *)
(* that vec[i - 1] of the code is v[i]; a Matrix keeps its rows one after  *)
(* the other in mData.  Numbers are whole numbers; a quotient is kept to   *)
(* hundredths, and a square root to ones, both rounded down.               *)
(***************************************************************************)
EXTENDS Integers, Sequences, SequencesExt, FiniteSetsExt

Sum(S, f(_)) == FoldSet(LAMBDA x, n : f(x) + n, 0, S)
Square(x) == x * x
Absolute(x) == IF x < 0 THEN -x ELSE x

\* floor(sqrt(n)), for n < 2^24.
SqrtFloor(n) ==
    FoldLeft(LAMBDA s, b : IF Square(s + 2^b) <= n THEN s + 2^b ELSE s, 0, [k \in 1..12 |-> 12 - k])

Hundredths(num, den) == IF den = 0 THEN 0 ELSE (100 * num) \div den
-----------------------------------------------------------------------------
(* Vector.                                                                 *)

VectorPlus(v, w) == [i \in DOMAIN v |-> v[i] + w[i]]
VectorMinus(v, w) == [i \in DOMAIN v |-> v[i] - w[i]]
NumberMinusVector(a, v) == [i \in DOMAIN v |-> a - v[i]]
NumberTimesVector(a, v) == [i \in DOMAIN v |-> a * v[i]]
MultiplyElementWise(v, w, x) == [i \in DOMAIN v |-> v[i] * w[i] * x[i]]

InnerProd(v, w) == Sum(DOMAIN v, LAMBDA i : v[i] * w[i])
NormL2Sqr(v) == Sum(DOMAIN v, LAMBDA i : Square(v[i]))

DistanceL1(v, w) == Sum(DOMAIN v, LAMBDA i : Absolute(v[i] - w[i]))
DistanceL2(v, w) == SqrtFloor(Sum(DOMAIN v, LAMBDA i : Square(v[i] - w[i])))

\* For a vector of norm 0 the code computes no number.
DistanceCosine(v, w) == 100 - Hundredths(InnerProd(v, w), SqrtFloor(NormL2Sqr(v) * NormL2Sqr(w)))

\* The vectors are taken Len(v) times.
DistanceCorrelation(v, w) ==
    LET minusAverage(x) == [i \in DOMAIN x |-> Len(x) * x[i] - Sum(DOMAIN x, LAMBDA j : x[j])]
    IN DistanceCosine(minusAverage(v), minusAverage(w))

\* The first of the greatest.
MaxIndex(v) == FoldLeft(LAMBDA max, i : IF v[max] < v[i] THEN i ELSE max, 1, [i \in DOMAIN v |-> i])
-----------------------------------------------------------------------------
(* Matrix.                                                                 *)

Matrix(rows, cols, data) == [rows |-> rows, cols |-> cols, data |-> data]

Entry(m, i, j) == m.data[(i - 1) * m.cols + j]

\* The matrix whose entries are f's.
MatrixOf(rows, cols, f(_, _)) ==
    Matrix(rows, cols, [k \in 1..rows * cols |-> f(((k - 1) \div cols) + 1, ((k - 1) % cols) + 1)])

MatrixPlus(m, n) == [m EXCEPT !.data = VectorPlus(m.data, n.data)]
MatrixMinus(m, n) == [m EXCEPT !.data = VectorMinus(m.data, n.data)]
NumberTimesMatrix(a, m) == [m EXCEPT !.data = NumberTimesVector(a, m.data)]
MatrixTimesVector(m, v) == [i \in 1..m.rows |-> Sum(1..m.cols, LAMBDA k : Entry(m, i, k) * v[k])]
OutterProd(v, w) == MatrixOf(Len(v), Len(w), LAMBDA i, j : v[i] * w[j])
Transpose(m) == MatrixOf(m.cols, m.rows, LAMBDA i, j : Entry(m, j, i))
NormFSqr(m) == NormL2Sqr(m.data)
=============================================================================
