--------------------------- MODULE GeometryAndNumbers ---------------------------
(***************************************************************************)
(* algorithm/geometry and algorithm/number_theory, over the integers:      *)
(* points, polygons, triangles and rectangles, where a numerator and a     *)
(* denominator are kept apart if the code divides; greatest common         *)
(* divisors, primes, powers, and integers modulo sModular kept in an       *)
(* unsigned int of the given width.                                        *)
(***************************************************************************)
EXTENDS Integers, Sequences, SequencesExt, FiniteSetsExt

CONSTANT UintLimit      \* 2^w for an unsigned int of w bits

Abs(x) == IF x < 0 THEN -x ELSE x

Point(x, y) == [x |-> x, y |-> y]

PointMinus(p, q) == Point(p.x - q.x, p.y - q.y)

DotProduct(p, q) == p.x * q.x + p.y * q.y
CrossProduct(p, q) == p.x * q.y - p.y * q.x

\* Distance without its square root.
DistanceSquared(p, q) == DotProduct(PointMinus(p, q), PointMinus(p, q))
-----------------------------------------------------------------------------
\* Mutant of DoubleArea: the polygon is not closed.
DoubleAreaOpen(vertices) ==
    Abs(FoldLeft(LAMBDA area, i : area + CrossProduct(vertices[i - 1], vertices[i]), 0,
                 [k \in 1..Len(vertices) - 1 |-> k + 1]))

\* Polygon::ComputeArea before it halves.
DoubleArea(vertices) ==
    Abs(FoldLeft(LAMBDA area, i : area + CrossProduct(vertices[i - 1], vertices[i]), 0,
                 [k \in 1..Len(vertices) - 1 |-> k + 1])
        + CrossProduct(vertices[Len(vertices)], vertices[1]))

\* Triangle::ComputeArea before it halves.
DoubleTriangleArea(a, b, c) == Abs(CrossProduct(PointMinus(b, a), PointMinus(c, a)))

\* Both coordinates have the same denominator up to its sign; c1 and c2
\* are doubled.
Circumcenter(a, b, c) ==
    LET c1 == DotProduct(a, a) - DotProduct(b, b)
        c2 == DotProduct(a, a) - DotProduct(c, c)
    IN [numX |-> c1 * (a.y - c.y) - c2 * (a.y - b.y),
        denX |-> 2 * ((a.x - b.x) * (a.y - c.y) - (a.x - c.x) * (a.y - b.y)),
        numY |-> c1 * (a.x - c.x) - c2 * (a.x - b.x),
        denY |-> 2 * ((a.y - b.y) * (a.x - c.x) - (a.y - c.y) * (a.x - b.x))]
-----------------------------------------------------------------------------
Rect(x, y, width, height) == [x |-> x, y |-> y, width |-> width, height |-> height]

Area(r) == r.width * r.height

IsOverlap(r, s) ==
    /\ r.x < s.x + s.width
    /\ r.x + r.width > s.x
    /\ r.y < s.y + s.height
    /\ r.y + r.height > s.y

\* What is left of "cut" outside of "ref": up to two rectangles left and
\* right of it, two below and above.
CutRect(cut, ref) ==
    LET x1 == cut.x
        x2 == cut.x + cut.width
        y1 == cut.y
        y2 == cut.y + cut.height
        kx1 == Max({ref.x, x1})
        kx2 == Min({ref.x + ref.width, x2})
        ky1 == Max({ref.y, y1})
        ky2 == Min({ref.y + ref.height, y2})
    IN (IF x1 < kx1 THEN <<Rect(x1, y1, kx1 - x1, y2 - y1)>> ELSE <<>>)
       \o (IF x2 > kx2 THEN <<Rect(kx2, y1, x2 - kx2, y2 - y1)>> ELSE <<>>)
       \o (IF y1 < ky1 THEN <<Rect(kx1, y1, kx2 - kx1, ky1 - y1)>> ELSE <<>>)
       \o (IF y2 > ky2 THEN <<Rect(kx1, ky2, kx2 - kx1, y2 - ky2)>> ELSE <<>>)

\* A rectangle that was cut is replaced by the last one of the vector, its
\* last piece or, if nothing is left of it, whatever is there; the loop
\* goes on behind it.
RECURSIVE CutFrom(_, _, _)
CutFrom(rects, rect, i) ==
    LET cut == rects \o CutRect(rects[i], rect)
    IN CASE i > Len(rects) -> rects
         [] i <= Len(rects) /\ ~IsOverlap(rect, rects[i]) -> CutFrom(rects, rect, i + 1)
         [] OTHER -> CutFrom(Front([cut EXCEPT ![i] = Last(cut)]), rect, i + 1)

AddRect(rects, rect) == Append(CutFrom(rects, rect, 1), rect)

ComputeUnionArea(rects) ==
    FoldLeft(LAMBDA area, r : area + Area(r), 0, FoldLeft(AddRect, <<>>, rects))
-----------------------------------------------------------------------------
RECURSIVE Euclid(_, _)
Euclid(a, b) == IF b = 0 THEN a ELSE Euclid(b, a % b)

Gcd(a, b) == IF a < b THEN Euclid(b, a) ELSE Euclid(a, b)

SqrtFloor(n) == Max({k \in 0..n : k * k <= n})

\* Mutant of IsPrime: the square root itself is not tried.
IsPrimeBelowRoot(n) ==
    \/ n = 2
    \/ n > 2 /\ n % 2 = 1 /\ \A t \in 3..SqrtFloor(n) - 1 : t % 2 = 1 => n % t # 0

IsPrime(n) ==
    \/ n = 2
    \/ n > 2 /\ n % 2 = 1 /\ \A t \in 3..SqrtFloor(n) : t % 2 = 1 => n % t # 0

\* What is left of n without the factor, and how often it was in n.
RECURSIVE DivideOut(_, _)
DivideOut(n, factor) ==
    IF n % factor # 0 THEN [rest |-> n, power |-> 0]
    ELSE LET d == DivideOut(n \div factor, factor) IN [d EXCEPT !.power = @ + 1]

RECURSIVE FactorsFrom(_, _)
FactorsFrom(n, factor) ==
    LET d == DivideOut(n, factor)
        found == IF d.power > 0 THEN <<[factor |-> factor, power |-> d.power]>> ELSE <<>>
    IN IF factor # 2 /\ factor > n \div factor
       THEN IF n > 1 THEN <<[factor |-> n, power |-> 1]>> ELSE <<>>
       ELSE found \o FactorsFrom(d.rest, IF factor = 2 THEN 3 ELSE factor + 2)

PrimeFactorization(n) == FactorsFrom(n, 2)
-----------------------------------------------------------------------------
\* ModularInteger(val): val is an unsigned int, and has wrapped.
Modular(val, m) == (val % UintLimit) % m

ModularPlus(a, b, m) == Modular(a + b, m)
ModularTimes(a, b, m) == Modular(a * b, m)

RECURSIVE SquareAndMultiply(_, _, _, _)
SquareAndMultiply(result, p, n, m) ==
    IF n = 0 THEN result
    ELSE SquareAndMultiply(IF n % 2 = 1 THEN ModularTimes(result, p, m) ELSE result,
                           ModularTimes(p, p, m), n \div 2, m)

\* FastPower<ModularInteger>; n is at least 1.
FastPower(x, n, m) == SquareAndMultiply(x, x, n - 1, m)
=============================================================================
