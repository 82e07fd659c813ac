------------------------------- MODULE Vectors -------------------------------
(***************************************************************************)
(* The vectors and matrices of include/buntils/vector.h, over the          *)
(* integers: everything but what takes a root. An angle is given by its    *)
(* cosine and sine, any two numbers: the formulas hold for them up to the  *)
(* factor c*c + s*s.  Behind them, the vector registers of sseVec.h.       *)
(*                                                                         *)
(* Last, the shapes of Geometry.h and the tests of Collision.h for them,   *)
(* on coordinates that are integers: a quotient is a fraction that is      *)
(* compared by cross-multiplication, a root is compared by its square, so  *)
(* no rounding is modelled.  A point is <<x, y>>, a circle is [c, r], a    *)
(* Rect is <<left, top, right, bottom>>.                                   *)
(***************************************************************************)
EXTENDS Integers, Sequences, FiniteSets, FiniteSetsExt, Bitwise

Seqs == INSTANCE SequencesExt

Magnitude(x) == IF x < 0 THEN -x ELSE x
Quot(a, b) == IF (a < 0) = (b < 0) THEN Magnitude(a) \div Magnitude(b) ELSE -(Magnitude(a) \div Magnitude(b))
Total(v) == Seqs!FoldLeft(LAMBDA s, x : s + x, 0, v)
Element(op, x, y) ==
  CASE op = "+" -> x + y   [] op = "-" -> x - y
    [] op = "*" -> x * y   [] op = "/" -> Quot(x, y)
Both(op, l, r) == [i \in DOMAIN l |-> Element(op, l[i], r[i])]

\* The operators on two vectors; the ones with a number on the right take a vector of it,
\* and only - and / have a form of their own for a number on the left.
PlusEq(l, r) == Both("+", l, r)
MinusEq(l, r) == Both("-", l, r)
TimesEq(l, r) == Both("*", l, r)
OverEq(l, r) == Both("/", l, r)
Scalar(n, k) == [i \in 1..n |-> k]
PlusScalar(l, k) == PlusEq(l, Scalar(Len(l), k))
ScalarMinus(k, r) == [i \in DOMAIN r |-> k - r[i]]
ScalarOver(k, r) == [i \in DOMAIN r |-> Quot(k, r[i])]
TimesScalar(l, k) == TimesEq(l, Scalar(Len(l), k))

\* The comparisons: in the order of the first element that differs with a vector,
\* element by element with a number.
SGNCOMPARE(l, r) == IF l > r THEN 1 ELSE IF l < r THEN -1 ELSE 0
Order(l, r) ==
  LET c[i \in 0..Len(l)] == IF i = 0 THEN 0 ELSE IF c[i - 1] # 0 THEN c[i - 1] ELSE SGNCOMPARE(l[i], r[i])
  IN  c[Len(l)]
Greater(l, r) == Order(l, r) > 0
Less(l, r) == Order(l, r) < 0
AtLeast(l, r) == ~Less(l, r)
AtMost(l, r) == ~Greater(l, r)
Equal(l, r) == \A i \in DOMAIN l : l[i] = r[i]
Unequal(l, r) == \E i \in DOMAIN l : l[i] # r[i]
AllGreater(l, k) == \A i \in DOMAIN l : l[i] > k
AllLess(l, k) == \A i \in DOMAIN l : l[i] < k

NVectorDot(l, r) == Total(TimesEq(l, r))
\* (l * r).Sum() for four floats or ints: two additions of a shuffled register.
NVectorDot4(l, r) ==
  LET p == TimesEq(l, r)
      x == PlusEq(p, <<p[2], p[1], p[4], p[3]>>)
  IN  PlusEq(x, <<x[3], x[4], x[1], x[2]>>)[1]
NVectorDistanceSq(l, r) == LET d == MinusEq(r, l) IN NVectorDot(d, d)
NVectorAbs(v) == [i \in DOMAIN v |-> Magnitude(v[i])]

\* Two and three elements.
DotProduct(X, Y, x, y) == X * x + Y * y
CrossProduct(X, Y, x, y) == x * Y - X * y
Dot2(l, r) == DotProduct(r[1], r[2], l[1], l[2])
Cross2(l, r) == CrossProduct(r[1], r[2], l[1], l[2])
DistanceSq2(l, r) == (r[1] - l[1]) * (r[1] - l[1]) + (r[2] - l[2]) * (r[2] - l[2])
RotatePoint(v, c, s, center) ==
  LET t == MinusEq(v, center)
  IN  PlusEq(<<t[1] * c - t[2] * s, t[2] * c + t[1] * s>>, center)
Dot3(l, r) == (l[1] * r[1]) + (l[2] * r[2]) + (l[3] * r[3])
DistanceSq3(l, r) == LET d == MinusEq(r, l) IN (d[1] * d[1]) + (d[2] * d[2]) + (d[3] * d[3])
DistanceSq4(l, r) == LET d == MinusEq(r, l) IN (d[1] * d[1]) + (d[2] * d[2]) + (d[3] * d[3]) + (d[4] * d[4])
Cross3(l, r) == <<l[2] * r[3] - l[3] * r[2], l[3] * r[1] - l[1] * r[3], l[1] * r[2] - r[1] * l[2]>>

\* A vector from a list is the front of the list; what the list lacks stays as it was.
FromList(e, n, old) == [i \in 1..n |-> IF i <= Len(e) THEN e[i] ELSE old[i]]
\* Swizzle<K...>
Swizzle(v, K) == [i \in DOMAIN K |-> v[K[i]]]
-----------------------------------------------------------------------------
Small == {-2, 0, 1, 3}
Fourth(v) == <<v[1], v[2], v[3], v[1] - v[2]>>
Inputs == {<<a, b>> : a \in [1..3 -> Small], b \in [1..3 -> {-1, 0, 2}]}

Right(q) ==
  LET l == q[1]
      r == q[2]
      l2 == <<l[1], l[2]>>
      r2 == <<r[1], r[2]>>
      c == l[3]
      s == r[3]
      turned == RotatePoint(l2, c, s, r2)
      x3 == Cross3(l, r)
  IN  \* the comparisons agree with each other
      /\ Equal(l, r) <=> ~Less(l, r) /\ ~Greater(l, r)
      /\ Less(l, r) <=> Greater(r, l)
      /\ AtMost(l, r) <=> Less(l, r) \/ Equal(l, r)
      /\ AtLeast(l, r) <=> Greater(l, r) \/ Equal(l, r)
      /\ Unequal(l, r) <=> ~Equal(l, r)
      /\ AllGreater(l, r[1]) => Greater(l, Scalar(3, r[1]))
      /\ AllLess(l, r[1]) => Less(l, Scalar(3, r[1]))
      \* every way to a product or a distance gives the same
      /\ NVectorDot(l, r) = Dot3(l, r) /\ NVectorDot(l2, r2) = Dot2(l2, r2)
      /\ NVectorDot4(Fourth(l), Fourth(r)) = NVectorDot(Fourth(l), Fourth(r))
      /\ NVectorDistanceSq(l, r) = DistanceSq3(l, r) /\ NVectorDistanceSq(l2, r2) = DistanceSq2(l2, r2)
      /\ NVectorDistanceSq(Fourth(l), Fourth(r)) = DistanceSq4(Fourth(l), Fourth(r))
      /\ DistanceSq3(l, r) = Dot3(l, l) + Dot3(r, r) - 2 * Dot3(l, r)
      \* the cross product stands on both and has the area of the two
      /\ Dot3(x3, l) = 0 /\ Dot3(x3, r) = 0 /\ x3 = ScalarMinus(0, Cross3(r, l))
      /\ Dot3(x3, x3) = Dot3(l, l) * Dot3(r, r) - Dot3(l, r) * Dot3(l, r)
      /\ Cross2(l2, r2) = Cross3(<<l[1], l[2], 0>>, <<r[1], r[2], 0>>)[3]
      \* a point turns about its centre, and turning back undoes it
      /\ DistanceSq2(turned, r2) = (c * c + s * s) * DistanceSq2(l2, r2)
      /\ MinusEq(RotatePoint(turned, c, -s, r2), r2) = TimesScalar(MinusEq(l2, r2), c * c + s * s)
      /\ RotatePoint(PlusScalar(l2, 5), c, s, PlusScalar(r2, 5)) = PlusScalar(turned, 5)
      /\ NVectorAbs(l) \in {l, ScalarMinus(0, l)} \cup [1..3 -> 0..3] /\ ~AllLess(NVectorAbs(l), 0)
      /\ 0 \in {r[1], r[2], r[3]} \/ OverEq(TimesEq(l, r), r) = l
      /\ FromList(l2, 3, r) = <<l[1], l[2], r[3]>> /\ FromList(Fourth(l), 3, r) = l
      /\ Swizzle(Swizzle(l, <<2, 3, 1>>), <<3, 1, 2>>) = l
      /\ 0 \in {l[1], l[2], l[3]} \/ ScalarOver(6, ScalarOver(6, l)) = l
-----------------------------------------------------------------------------
(***************************************************************************)
(* The matrices of include/buntils/vector.h, over the integers; an inverse *)
(* is kept apart as what is divided, and the determinant that divides it.  *)
(***************************************************************************)

Mat(m, n, f(_, _)) == [i \in 1..m |-> [j \in 1..n |-> f(i, j)]]
Rows(a) == Len(a)
Cols(a) == Len(a[1])
Kronecker(m, n) == Mat(m, n, LAMBDA i, j : IF i = j THEN 1 ELSE 0)

\* SetSubMatrix writes the first rows and columns of out, with Tp the transposed values.
Transposed(a) == Mat(Cols(a), Rows(a), LAMBDA i, j : a[j][i])
SetSubMatrix(Tp, out, a) ==
  LET b == IF Tp THEN Transposed(a) ELSE a
  IN  Mat(Rows(out), Cols(out), LAMBDA i, j : IF i <= Rows(a) /\ j <= Rows(a) THEN b[i][j] ELSE out[i][j])
Transpose(a) ==
  IF Rows(a) = Cols(a) /\ Rows(a) \in 2..4 THEN SetSubMatrix(TRUE, a, a) ELSE Transposed(a)

\* The operators element by element, where ^ multiplies, and the ones with a number.
CellWise(op, l, r) == Mat(Rows(l), Cols(l), LAMBDA i, j : Element(op, l[i][j], r[i][j]))
Plus(l, r) == CellWise("+", l, r)
Minus(l, r) == CellWise("-", l, r)
Hat(l, r) == CellWise("*", l, r)
Times(l, k) == Mat(Rows(l), Cols(l), LAMBDA i, j : l[i][j] * k)
NumberMinus(k, r) == Mat(Rows(r), Cols(r), LAMBDA i, j : k - r[i][j])
Negated(l) == Times(l, -1)
Same(l, r) == \A i \in 1..Rows(l) : \A j \in 1..Cols(l) : l[i][j] = r[i][j]
Diagonal(d, m, n) == Mat(m, n, LAMBDA i, j : IF i = j THEN d[i] ELSE 0)

\* MatrixMultiply into out, which may be l or r or both.  With four columns it loads the
\* rows of r first, and writes a row of out as soon as it has read that row of l; else it
\* goes through a matrix of its own.
Combined(row, r) ==
  PlusEq(PlusEq(PlusEq(TimesScalar(r[1], row[1]), TimesScalar(r[2], row[2])),
                TimesScalar(r[3], row[3])), TimesScalar(r[4], row[4]))
MultiplyRows(l, r, inPlace) ==
  LET out[k \in 0..Rows(l)] ==
        IF k = 0 THEN IF inPlace THEN l ELSE Mat(Rows(l), 4, LAMBDA i, j : 0)
        ELSE [out[k - 1] EXCEPT ![k] = Combined(IF inPlace THEN out[k - 1][k] ELSE l[k], r)]
  IN  out[Rows(l)]
MultiplyCells(l, r) ==
  Mat(Rows(l), Cols(r), LAMBDA i, j : Total([k \in 1..Cols(l) |-> l[i][k] * r[k][j]]))
MatrixMultiply(l, r, inPlace) ==
  IF Cols(l) = 4 /\ Cols(r) = 4 THEN MultiplyRows(l, r, inPlace) ELSE MultiplyCells(l, r)
\* A row vector on the left, a column vector on the right, and their outer product.
MatrixMultiply1x4(l, r) == Combined(l, r)
RowTimes(v, m) == MatrixMultiply(<<v>>, m, FALSE)[1]
TimesColumn(m, v) == LET p == MatrixMultiply(m, [i \in DOMAIN v |-> <<v[i]>>], FALSE)
                     IN  [i \in 1..Rows(m) |-> p[i][1]]
Outer(v, u) == MatrixMultiply([i \in DOMAIN v |-> <<v[i]>>], <<u>>, FALSE)

\* Determinants: the general ones, and those of floats in a register.
Det2(a, b, c, d) == (a * d) - (b * c)
Det3(a, b, c, d, e, f, g, h, i) == a * (e * i - f * h) - b * (i * d - f * g) + c * (d * h - e * g)
Det3Floats(a, b, c, d, e, f, g, h, i) ==
  LET v == <<e, i, d, f>>
      u == <<i, d, h, g>>
      r == TimesEq(<<a, b, c, 0>>, MinusEq(TimesEq(v, u), TimesEq(Swizzle(v, <<4, 4, 1, 1>>), Swizzle(u, <<3, 4, 4, 1>>))))
  IN  r[1] - r[2] + r[3]
MinorOf(m, k) ==
  LET c == [j \in 1..3 |-> IF j < k THEN j ELSE j + 1]
  IN  Det3(m[2][c[1]], m[2][c[2]], m[2][c[3]], m[3][c[1]], m[3][c[2]], m[3][c[3]], m[4][c[1]], m[4][c[2]], m[4][c[3]])
Det4(m) == m[1][1] * MinorOf(m, 1) - m[1][2] * MinorOf(m, 2) + m[1][3] * MinorOf(m, 3) - m[1][4] * MinorOf(m, 4)
ror(I, v) == [k \in 1..4 |-> v[((k - 1 + I) % 4) + 1]]
Det4Floats(m) ==
  LET t2 == ror(1, m[3])
      Vc == TimesEq(t2, m[4])
      Va == TimesEq(t2, ror(2, m[4]))
      Vb == TimesEq(t2, ror(3, m[4]))
      r1 == MinusEq(ror(1, Va), ror(2, Vc))
      r2 == MinusEq(ror(2, Vb), Vb)
      r3 == MinusEq(Va, ror(1, Vc))
      sum == PlusEq(PlusEq(TimesEq(ror(1, m[2]), r1), TimesEq(ror(2, m[2]), r2)), TimesEq(ror(3, m[2]), r3))
      D == TimesEq(sum, m[1])
  IN  (D[1] + D[3]) - (D[2] + D[4])
MatrixDeterminant(m) ==
  CASE Rows(m) = 2 -> Det2(m[1][1], m[1][2], m[2][1], m[2][2])
    [] Rows(m) = 3 -> Det3(m[1][1], m[1][2], m[1][3], m[2][1], m[2][2], m[2][3], m[3][1], m[3][2], m[3][3])
    [] Rows(m) = 4 -> Det4(m)

\* Inverses before the division by the determinant.
Inverse2(m) == <<<<m[2][2], -m[1][2]>>, <<-m[2][1], m[1][1]>>>>
Inverse3(m) ==
  LET D(p, q, r, s) == m[p][q] * m[r][s] - m[p][s] * m[r][q]
  IN  <<<<D(2, 2, 3, 3), D(1, 3, 3, 2), D(1, 2, 2, 3)>>,
        <<D(2, 3, 3, 1), D(1, 1, 3, 3), D(1, 3, 2, 1)>>,
        <<D(2, 1, 3, 2), D(1, 2, 3, 1), D(1, 1, 2, 2)>>>>
\* Cramer's rule on the transposed source: twelve pairs of its second half make the first
\* eight cofactors, three pairs added and three subtracted, and those of its first half the
\* other eight.  A row of Terms names pair, factor, pair, factor ... of one cofactor.
Pairs(src, o) == LET p(a, b) == src[o + a + 1] * src[o + b + 1]
                 IN  <<p(2, 7), p(3, 6), p(1, 7), p(3, 5), p(1, 6), p(2, 5),
                       p(0, 7), p(3, 4), p(0, 6), p(2, 4), p(0, 5), p(1, 4)>>
Terms == << <<0, 5, 3, 6, 4, 7, 1, 5, 2, 6, 5, 7>>,          <<1, 4, 6, 6, 9, 7, 0, 4, 7, 6, 8, 7>>,
            <<2, 4, 7, 5, 10, 7, 3, 4, 6, 5, 11, 7>>,        <<5, 4, 8, 5, 11, 6, 4, 4, 9, 5, 10, 6>>,
            <<1, 1, 2, 2, 5, 3, 0, 1, 3, 2, 4, 3>>,          <<0, 0, 7, 2, 8, 3, 1, 0, 6, 2, 9, 3>>,
            <<3, 0, 6, 1, 11, 3, 2, 0, 7, 1, 10, 3>>,        <<4, 0, 9, 1, 10, 2, 5, 0, 8, 1, 11, 2>>,
            <<0, 13, 3, 14, 4, 15, 1, 13, 2, 14, 5, 15>>,    <<1, 12, 6, 14, 9, 15, 0, 12, 7, 14, 8, 15>>,
            <<2, 12, 7, 13, 10, 15, 3, 12, 6, 13, 11, 15>>,  <<5, 12, 8, 13, 11, 14, 4, 12, 9, 13, 10, 14>>,
            <<2, 10, 5, 11, 1, 9, 4, 11, 0, 9, 3, 10>>,      <<8, 11, 0, 8, 7, 10, 6, 10, 9, 11, 1, 8>>,
            <<6, 9, 11, 11, 3, 8, 10, 11, 2, 8, 7, 9>>,      <<10, 10, 4, 8, 9, 9, 8, 9, 11, 10, 5, 8>> >>
Inverse4(m) ==
  LET src == [k \in 1..16 |-> m[((k - 1) % 4) + 1][((k - 1) \div 4) + 1]]
      Of(tmp, n) == LET t(k) == tmp[Terms[n][2 * k - 1] + 1] * src[Terms[n][2 * k] + 1]
                    IN  (t(1) + t(2) + t(3)) - (t(4) + t(5) + t(6))
      dst == [n \in 1..16 |-> Of(Pairs(src, IF n <= 8 THEN 8 ELSE 0), n)]
  IN  [det |-> src[1] * dst[1] + src[2] * dst[2] + src[3] * dst[3] + src[4] * dst[4],
       adj |-> Mat(4, 4, LAMBDA i, j : dst[4 * (i - 1) + j])]
\* By four blocks of 2x2, each a register; S shuffles one with the immediate's four fields.
Inverse4Floats(m) ==
  LET S(v, p, q, r, s) == Swizzle(v, <<p + 1, q + 1, r + 1, s + 1>>)
      LH(a, b) == <<a[1], a[2], b[1], b[2]>>
      HL(a, b) == <<b[3], b[4], a[3], a[4]>>
      A == LH(m[1], m[2])
      B == HL(m[2], m[1])
      C == LH(m[3], m[4])
      D == HL(m[4], m[3])
      AdjTimes(p, q) == MinusEq(TimesEq(S(p, 3, 3, 0, 0), q), TimesEq(S(p, 1, 1, 2, 2), S(q, 2, 3, 0, 1)))
      Det(p) == LET d == TimesEq(S(p, 3, 3, 1, 1), p) IN d[1] - d[3]
      Product(p, q) == PlusEq(TimesEq(S(p, 0, 0, 2, 2), LH(q, q)), TimesEq(S(p, 1, 1, 3, 3), HL(q, q)))
      TimesAdj(p, q) == MinusEq(TimesEq(p, S(q, 3, 0, 3, 0)), TimesEq(S(p, 1, 0, 3, 2), S(q, 2, 1, 2, 1)))
      AB == AdjTimes(A, B)
      DC == AdjTimes(D, C)
      sign == <<1, -1, -1, 1>>
      iA == TimesEq(MinusEq(TimesScalar(A, Det(D)), Product(B, DC)), sign)
      iD == TimesEq(MinusEq(TimesScalar(D, Det(A)), Product(C, AB)), sign)
      iB == TimesEq(MinusEq(TimesScalar(C, Det(B)), TimesAdj(D, AB)), sign)
      iC == TimesEq(MinusEq(TimesScalar(B, Det(C)), TimesAdj(A, DC)), sign)
  IN  [det |-> Det(A) * Det(D) + Det(B) * Det(C) - Total(TimesEq(S(DC, 0, 2, 1, 3), AB)),
       adj |-> << <<iA[4], iA[2], iB[4], iB[2]>>, <<iA[3], iA[1], iB[3], iB[1]>>,
                  <<iC[4], iC[2], iD[4], iD[2]>>, <<iC[3], iC[1], iD[3], iD[1]>> >>]

\* Rotations, translations and their composition.
Rotation(c, s) == <<<<c, -s>>, <<s, c>>>>
RotationX(c, s) == <<<<1, 0, 0>>, <<0, c, -s>>, <<0, s, c>>>>
RotationY(c, s) == <<<<c, 0, s>>, <<0, 1, 0>>, <<-s, 0, c>>>>
RotationZ(c, s) == <<<<c, -s, 0>>, <<s, c, 0>>, <<0, 0, 1>>>>
Translation(v) == <<<<1, 0, v[1]>>, <<0, 1, v[2]>>, <<0, 0, 1>>>>
AffineTransform(v, c, s, p) ==
  <<<<c, -s, v[1] - c * p[1] + p[1] + p[2] * s>>, <<s, c, v[2] - c * p[2] + p[2] - p[1] * s>>, <<0, 0, 1>>>>
Affine4(a) == SetSubMatrix(FALSE, Kronecker(4, 4), a)          \* __AffineRotationX, Y and Z
Translation4(v) == <<<<1, 0, 0, v[1]>>, <<0, 1, 0, v[2]>>, <<0, 0, 1, v[3]>>, <<0, 0, 0, 1>>>>
AffineTransform4(v, c, s, p) ==
  <<<<c, -s, 0, v[1] - c * p[1] + p[1] + p[2] * s>>, <<s, c, 0, v[2] - c * p[2] + p[2] - p[1] * s>>,
    <<0, 0, 1, v[3]>>, <<0, 0, 0, 1>>>>

\* GenericBSpline throws away what its two shuffles return.
GenericBSpline(t, p, m) ==
  LET r == TimesEq(MatrixMultiply1x4(<<t * t * t, t * t, t, 1>>, m), p)
  IN  (r[1] + r[1]) + r[1]
-----------------------------------------------------------------------------
Unit == {[j \in 1..4 |-> IF j = k THEN 1 ELSE 0] : k \in 1..4}
Dense == {[i \in 1..4 |-> [j \in 1..4 |-> (((i + a) * (j + b) * (i + j + a * b)) % 7) - 3]] : a \in 0..3, b \in 0..3}
\* Every formula is linear in each row, so the rows of Unit decide; Dense adds some others.
MatrixInputs == [1..4 -> Unit] \cup Dense

Part(m, k) == [i \in 1..k |-> [j \in 1..k |-> m[i][j]]]
\* The determinant by its definition: the signed products over the permutations.
Leibniz(m) ==
  LET n == Rows(m)
      Perms == {p \in [1..n -> 1..n] : \A i, j \in 1..n : i # j => p[i] # p[j]}
      Odd(p) == Cardinality({s \in (1..n) \X (1..n) : s[1] < s[2] /\ p[s[1]] > p[s[2]]}) % 2 = 1
      Term(p) == LET f[i \in 0..n] == IF i = 0 THEN 1 ELSE f[i - 1] * m[i][p[i]]
                 IN  IF Odd(p) THEN -f[n] ELSE f[n]
  IN  MapThenSumSet(Term, Perms)

MatrixRight(m) ==
  LET two == Part(m, 2)
      three == Part(m, 3)
      v == m[1]
      u == m[4]
      wide == <<m[1], m[2]>>
      c == m[2][2]
      s == m[3][1] + 2
      move == <<m[1][1], 5, m[1][3] - 1>>
      point == <<3, m[4][2]>>
      back == <<-point[1], -point[2]>>
      Scaled(k, n) == Times(Kronecker(n, n), k)
  IN  \* every determinant is the determinant
      /\ \A a \in {two, three, m} : MatrixDeterminant(a) = Leibniz(a)
      /\ Det3Floats(m[1][1], m[1][2], m[1][3], m[2][1], m[2][2], m[2][3], m[3][1], m[3][2], m[3][3]) = Leibniz(three)
      /\ Det4Floats(m) = Leibniz(m)
      \* and every inverse is one, from both sides
      /\ \A i \in {[m |-> two, det |-> Leibniz(two), adj |-> Inverse2(two)],
                   [m |-> three, det |-> Leibniz(three), adj |-> Inverse3(three)],
                   [m |-> m, det |-> Leibniz(m), adj |-> Inverse4(m).adj],
                   [m |-> m, det |-> Leibniz(m), adj |-> Inverse4Floats(m).adj]} :
           /\ Same(MultiplyCells(i.m, i.adj), Scaled(i.det, Rows(i.m)))
           /\ Same(MultiplyCells(i.adj, i.m), Scaled(i.det, Rows(i.m)))
      /\ Inverse4(m).det = Leibniz(m) /\ Inverse4Floats(m).det = Leibniz(m)
      \* the product by rows, in place or not, is the product
      /\ LET r == Transpose(m)
         IN  /\ \A inPlace \in BOOLEAN : MatrixMultiply(m, r, inPlace) = MultiplyCells(m, r)
                                         /\ MatrixMultiply(m, m, inPlace) = MultiplyCells(m, m)
             /\ Transpose(MatrixMultiply(m, m, TRUE)) = MatrixMultiply(r, r, FALSE)
      /\ MatrixMultiply(wide, m, TRUE) = MultiplyCells(wide, m)
      /\ Transpose(Transpose(wide)) = wide /\ Transpose(three) = Transposed(three)
      /\ RowTimes(v, m) = TimesColumn(Transpose(m), v)
      /\ TimesColumn(Outer(v, u), u) = TimesScalar(v, NVectorDot(u, u))
      \* the operators and what they abbreviate
      /\ Plus(Minus(m, Transpose(m)), Transpose(m)) = m /\ Negated(m) = NumberMinus(0, m)
      /\ Hat(m, Kronecker(4, 4)) = Diagonal(<<m[1][1], m[2][2], m[3][3], m[4][4]>>, 4, 4)
      \* the composed transformation turns about the point and then moves
      /\ AffineTransform(move, c, s, point)
           = MultiplyCells(Translation(move), MultiplyCells(Translation(point),
                           MultiplyCells(RotationZ(c, s), Translation(back))))
      /\ AffineTransform4(move, c, s, point)
           = MatrixMultiply(Translation4(move), MatrixMultiply(Translation4(<<point[1], point[2], 0>>),
               MatrixMultiply(Affine4(RotationZ(c, s)), Translation4(<<back[1], back[2], 0>>), FALSE), TRUE), FALSE)
      /\ TimesColumn(AffineTransform(<<0, 0, 0>>, c, s, point), <<v[1], v[2], 1>>)
           = RotatePoint(<<v[1], v[2]>>, c, s, point) \o <<1>>
      /\ SetSubMatrix(FALSE, RotationZ(c, s), Rotation(c, s)) = RotationZ(c, s)
      /\ \A R \in {RotationX(c, s), RotationY(c, s), RotationZ(c, s)} :   \* a rotation but for its axis
           LET k == c * c + s * s
           IN  Leibniz(R) = k /\ MultiplyCells(R, Transpose(R)) \in {Diagonal(d, 3, 3) : d \in [1..3 -> {1, k}]}

\* A cubic B-spline is the vector of the powers of t times the matrix times the points.
\* "This implements all possible B-spline functions using a given matrix m".
SplineSums(m) ==
  \A t \in {0, 1, 2} :
    GenericBSpline(t, m[4], m) = NVectorDot(RowTimes(<<t * t * t, t * t, t, 1>>, m), m[4])
-----------------------------------------------------------------------------
(***************************************************************************)
(* The vector registers of include/buntils/sseVec.h in both builds: the    *)
(* intrinsics of SSE2, with the ones the header makes itself, and the      *)
(* arrays that stand for them elsewhere.  A byte is narrowed to two bits:  *)
(* a register is 16 digits below 4, and lanes of 1, 2, 4 or 8 of them are  *)
(* words of 2, 4, 8 or 16 bits.  A float is a sign and a number of         *)
(* quarters.                                                               *)
(***************************************************************************)
Size == [char |-> 1, int16 |-> 2, int32 |-> 4, int64 |-> 8, float |-> 4, double |-> 8]
Width(T) == 2 * Size[T]
Lanes(T) == 16 \div Size[T]
Unsigned(r, T, i) ==               \* lane i of register r, from 0
  LET n == Size[T]
      f[k \in 0..n] == IF k = 0 THEN 0 ELSE f[k - 1] * 4 + r[i * n + n - k + 1]
  IN  f[n]
Register(T, lane(_)) ==
  [k \in 1..16 |-> ((lane((k - 1) \div Size[T]) % 2^Width(T)) \div 4^((k - 1) % Size[T])) % 4]
IsFloat(T) == T \in {"float", "double"}
LaneMagnitude(x, T) == x % 2^(Width(T) - 1)
Number(x, T) ==                    \* what a word stands for
  IF x < 2^(Width(T) - 1) THEN x
  ELSE IF IsFloat(T) THEN -LaneMagnitude(x, T) ELSE x - 2^Width(T)
Encode(v, T) ==
  LET sign == 2^(Width(T) - 1)
  IN  IF ~IsFloat(T) THEN v % 2^Width(T) ELSE IF v < 0 THEN sign + ((-v) % sign) ELSE v % sign
Mask(b, T) == IF b THEN 2^Width(T) - 1 ELSE 0
Quarters == 4
Toward0(v) == IF v < 0 THEN -((-v) \div Quarters) ELSE v \div Quarters

\* The functions on elements, which the intrinsics apply lane by lane.
Compare == {"eq", "ne", "lt", "le", "gt", "ge"}
Outcome(T, op, x, y, l, r) ==
  CASE op \in Compare ->
         Mask(CASE op = "eq" -> l = r   [] op = "ne" -> l # r
                [] op = "lt" -> l < r   [] op = "le" -> l <= r
                [] op = "gt" -> l > r   [] op = "ge" -> l >= r, T)
    [] op \in {"add", "sub", "mul", "floor", "ceil"} ->
         Encode(CASE op = "add" -> l + r   [] op = "sub" -> l - r
                  [] op = "mul" -> IF IsFloat(T) THEN Toward0(l * r) ELSE l * r
                  [] op = "floor" -> Quarters * (l \div Quarters)
                  [] op = "ceil" -> -(Quarters * ((-l) \div Quarters)), T)
    [] op = "min" -> IF l < r THEN x ELSE y
    [] op = "max" -> IF l > r THEN x ELSE y
    [] op = "and" -> x & y   [] op = "andnot" -> (2^Width(T) - 1 - x) & y
    [] op = "or" -> x | y    [] op = "xor" -> x ^^ y
LaneElement(T, op, x, y) == Outcome(T, op, x, y, Number(x, T), Number(y, T))
ArrayMap(T, op, a, b) ==
  Register(T, LAMBDA i : LaneElement(T, op, Unsigned(a, T, i), Unsigned(b, T, i)))
Shift(T, op, a, n) ==
  Register(T, LAMBDA i : CASE op = "sl" -> Unsigned(a, T, i) * 2^n
                           [] op = "sr" -> Unsigned(a, T, i) \div 2^n
                           [] op = "sra" -> Number(Unsigned(a, T, i), T) \div 2^n)
Convert(a, F(_), T) == Register(T, LAMBDA i : F(Unsigned(a, T, i)))

\* Four lanes chosen by four fields of two bits, the first field for the first lane; a
\* shuffle of half a register leaves the other half.
Field(p, k) == (p \div 4^k) % 4
Shuffle4(a, b, p) == Register("int32", LAMBDA i : Unsigned(IF i < 2 THEN a ELSE b, "int32", Field(p, i)))
Shuffle8(a, O, p) == Register("int16", LAMBDA i : Unsigned(a, "int16", IF i - O \in 0..3 THEN O + Field(p, i - O) ELSE i))
BUN_SSE_SHUFFLE(x, y, z, w) == w * 64 + z * 16 + y * 4 + x
MoveHL(a, b) == Register("float", LAMBDA i : IF i < 2 THEN Unsigned(b, "float", i + 2) ELSE Unsigned(a, "float", i))
MoveLH(a, b) == Register("float", LAMBDA i : IF i < 2 THEN Unsigned(a, "float", i) ELSE Unsigned(b, "float", i - 2))

\* What SSE2 lacks.  min and max keep a where the mask is set and b elsewhere.
Chosen(mask, a, b) ==
  ArrayMap("int64", "or", ArrayMap("int64", "and", a, mask), ArrayMap("int64", "andnot", mask, b))
MinMax(T, op, a, b) == Chosen(ArrayMap(T, IF op = "min" THEN "lt" ELSE "gt", a, b), a, b)
\* floor and ceil truncate and take or add one where that went the wrong way.
FloorCeil(op, x) ==
  LET fi == Convert(x, LAMBDA w : Encode(Quarters * Toward0(Number(w, "float")), "float"), "float")
      one == Convert(x, LAMBDA w : Encode(Quarters, "float"), "float")
      wrong == ArrayMap("float", IF op = "floor" THEN "gt" ELSE "lt", fi, x)
  IN  ArrayMap("float", IF op = "floor" THEN "sub" ELSE "add", fi, ArrayMap("int64", "and", wrong, one))
\* Products of lanes 0 and 2, and of 1 and 3 moved there, whose low halves are merged.
MulEven(a, b) == Register("int64", LAMBDA i : Unsigned(a, "int32", 2 * i) * Unsigned(b, "int32", 2 * i))
Mul32(a, b) ==
  LET Down(r) == [k \in 1..16 |-> IF k <= 12 THEN r[k + 4] ELSE 0]
      Low(r) == Shuffle4(r, r, BUN_SSE_SHUFFLE(0, 2, 0, 0))
      even == Low(MulEven(a, b))
      odd == Low(MulEven(Down(a), Down(b)))
  IN  Register("int32", LAMBDA i : Unsigned(IF i % 2 = 0 THEN even ELSE odd, "int32", i \div 2))

SSE2(T, op, a, b) ==
  CASE op \in {"min", "max"} -> MinMax(T, op, a, b)
    [] op \in {"floor", "ceil"} -> FloorCeil(op, a)
    [] op = "mul" /\ T = "int32" -> Mul32(a, b)
    [] OTHER -> ArrayMap(T, op, a, b)
Arrays(T, op, a, b) == ArrayMap(T, op, a, b)
I(build, T, op, a, b) == IF build = "SSE2" THEN SSE2(T, op, a, b) ELSE Arrays(T, op, a, b)

\* The classes.
Zero == [k \in 1..16 |-> 0]
SET(T, args) == Register(T, LAMBDA i : args[Len(args) - i])     \* the last argument is lane 0
SET1(T, v) == Register(T, LAMBDA i : v)
First(r, T) == Unsigned(r, T, 0)
Shuffle(r, x, y, z, w) == Shuffle4(r, r, BUN_SSE_SHUFFLE(x, y, z, w))
\* Halves are added, then what is left of them, until lane 0 has the sum of all.
Sum(T, build, a) ==
  LET Swap(r) == Register("double", LAMBDA i : Unsigned(r, "double", 1 - i))
      moved(r, k) == CASE T = "double" -> Swap(r)
                       [] T = "int64" \/ k = 2 -> Shuffle(r, 2, 3, 0, 1)
                       [] OTHER -> Shuffle(r, 1, 0, 3, 2)
      x[k \in 0..Lanes(T) \div 2] == IF k = 0 THEN a ELSE I(build, T, "add", x[k - 1], moved(x[k - 1], k))
  IN  First(x[Lanes(T) \div 2], T)
\* What is not there is the comparison that is, turned over by comparing with zeros; and
\* not is xor with ones.
Bitwises == {"and", "or", "xor", "not"}
Intrinsic(m) == CASE m = "ne" -> "eq" [] m = "le" -> "gt" [] m = "ge" -> "lt" [] m = "not" -> "xor" [] OTHER -> m
Integral(T, build, m, a, b) ==
  LET found == I(build, IF m \in Bitwises THEN "int64" ELSE T, Intrinsic(m), a,
                 IF m = "not" THEN SET1(T, 2^Width(T) - 1) ELSE b)
  IN  IF m \in {"ne", "le", "ge"} THEN ArrayMap(T, "eq", found, Zero) ELSE found
\* How each class makes its methods: as the integers do, by the intrinsic of that name, by
\* a shift, or by adding lanes.
sseVecT_char(m) == "integral"
sseVecT_int16(m) == CASE m = "shl" -> "sl" [] m = "shr" -> "sr" [] OTHER -> "integral"
sseVecT_int32(m) ==
  CASE m = "shl" -> "sl" [] m = "shr" -> "sra" [] m = "sum" -> "sum"
    [] m \in {"mul", "min", "max"} -> "intrinsic" [] OTHER -> "integral"
sseVecT_int64(m) == CASE m = "shl" -> "sl" [] m = "shr" -> "sr" [] m = "sum" -> "sum" [] OTHER -> "integral"
sseVecT_float(m) == IF m = "sum" THEN "sum" ELSE "intrinsic"
sseVecT_double(m) == IF m = "sum" THEN "sum" ELSE "intrinsic"
Method(T, build, m, a, b) ==
  LET how == CASE T = "char" -> sseVecT_char(m)   [] T = "int16" -> sseVecT_int16(m)
               [] T = "int32" -> sseVecT_int32(m) [] T = "int64" -> sseVecT_int64(m)
               [] T = "float" -> sseVecT_float(m) [] T = "double" -> sseVecT_double(m)
  IN  CASE how = "integral" -> Integral(T, build, m, a, b)
        [] how = "intrinsic" -> I(build, T, m, a, b)
        [] how = "sum" -> SET1(T, Sum(T, build, a))
        [] OTHER -> Shift(T, how, a, First(b, "int32"))
-----------------------------------------------------------------------------
Shifts == {"shl", "shr"}
Methods == [char |-> {"add", "sub"} \cup Bitwises \cup Compare,
            int16 |-> {"add", "sub"} \cup Bitwises \cup Shifts \cup Compare,
            int32 |-> {"add", "sub", "mul", "min", "max", "sum"} \cup Bitwises \cup Shifts \cup Compare,
            int64 |-> {"add", "sub", "sum"} \cup Bitwises \cup Shifts,
            float |-> {"add", "sub", "mul", "min", "max", "floor", "ceil", "sum"} \cup Compare,
            double |-> {"add", "sub", "mul", "min", "max", "sum"} \cup Compare]
Types == DOMAIN Size
Scatter(x, i) == IF i % 2 = 0 THEN x + i ELSE 3 * x - i
LaneInputs == {<<T, x, y>> : T \in Types, x \in {0, 2, 7, -1, -6}, y \in {1, 6, -3, -8}}

\* What lane i of the answer should be worth, from the lanes of the arguments.
Expected(T, m, L(_), R(_), i) ==
  LET Truth(b) == Number(Mask(b, T), T)
      total[k \in 0..Lanes(T)] == IF k = 0 THEN 0 ELSE total[k - 1] + L(k - 1)
  IN  CASE m = "add" -> L(i) + R(i)
        [] m = "sub" -> L(i) - R(i)
        [] m = "mul" -> IF IsFloat(T) THEN Toward0(L(i) * R(i)) ELSE L(i) * R(i)
        [] m = "min" -> IF R(i) <= L(i) THEN R(i) ELSE L(i)
        [] m = "max" -> IF R(i) >= L(i) THEN R(i) ELSE L(i)
        [] m = "eq" -> Truth(L(i) = R(i))   [] m = "ne" -> Truth(L(i) # R(i))
        [] m = "lt" -> Truth(L(i) < R(i))   [] m = "le" -> Truth(L(i) <= R(i))
        [] m = "gt" -> Truth(L(i) > R(i))   [] m = "ge" -> Truth(L(i) >= R(i))
        [] m = "not" -> -L(i) - 1
        [] m = "floor" -> L(i) - (L(i) % Quarters)
        [] m = "ceil" -> L(i) + ((-L(i)) % Quarters)
        [] m = "sum" -> total[Lanes(T)]
        [] m = "shl" -> L(i) * 2^R(0)
        [] m = "shr" -> (IF T = "int32" THEN L(i) ELSE L(i) % 2^Width(T)) \div 2^R(0)
        [] m = "and" -> (L(i) % 2^Width(T)) & (R(i) % 2^Width(T))
        [] m = "or" -> (L(i) % 2^Width(T)) | (R(i) % 2^Width(T))
        [] m = "xor" -> (L(i) % 2^Width(T)) ^^ (R(i) % 2^Width(T))

LanesRight(q) ==
  LET T == q[1]
      a == Register(T, LAMBDA i : Encode(Scatter(q[2], i), T))
      b == Register(T, LAMBDA i : Encode(Scatter(q[3], Lanes(T) - i), T))
      Value(r, i) == Number(Unsigned(r, T, i), T)
  IN  /\ \A m \in Methods[T] : \A build \in {"SSE2", "arrays"} :
           LET count == Register("int32", LAMBDA i : IF i = 0 THEN (q[3] % 8) % Width(T) ELSE 0)
               c == IF m \in {"shl", "shr"} THEN count ELSE b
               r == Method(T, build, m, a, c)
               R(i) == IF c = count THEN First(c, "int32") ELSE Value(b, i)
           IN  \A i \in 0..Lanes(T) - 1 :
                 Value(r, i) = Number(Encode(Expected(T, m, LAMBDA k : Value(a, k), R, i), T), T)
      /\ \A i \in 0..Lanes(T) - 1 :       \* constructors take the first lane first
           Unsigned(SET(T, [k \in 1..Lanes(T) |-> Unsigned(a, T, Lanes(T) - k)]), T, i) = Unsigned(a, T, i)
      /\ Lanes(T) = 4 => LET s == Shuffle(a, q[2] % 4, q[3] % 4, 3, 0)
                         IN  <<First(s, T), Unsigned(s, T, 1), Unsigned(s, T, 2), Unsigned(s, T, 3)>>
                               = [k \in 1..4 |-> Unsigned(a, T, <<q[2] % 4, q[3] % 4, 3, 0>>[k])]
      /\ \A O \in {0, 4} : \A i \in 0..7 :
           Unsigned(Shuffle8(a, O, q[2] % 256), "int16", i)
             = Unsigned(a, "int16", IF i \div 4 = O \div 4 THEN O + Field(q[2] % 256, i % 4) ELSE i)
      /\ MoveHL(MoveLH(a, b), a) = [k \in 1..16 |-> IF k <= 8 THEN a[k + 8] ELSE b[k - 8]]
-----------------------------------------------------------------------------
(* Geometry.h and Collision.h.                                             *)
From(p, q) == MinusEq(q, p)
Cross(r, s) == Cross2(r, s)
Dot(r, s) == NVectorDot(r, s)
Norm(p) == Dot(p, p)
Least(a, b) == IF a < b THEN a ELSE b
Most(a, b) == IF a > b THEN a ELSE b

\* n / d is in [0, 1]; a quotient by zero compares false.
InUnit(n, d) == d # 0 /\ (IF d > 0 THEN n \in 0..d ELSE -n \in 0..-d)
\* The root of d against x.
RootAtMost(d, x) == x >= 0 /\ d <= x * x
RootAtLeast(d, x) == x <= 0 \/ d >= x * x

(***************************************************************************)
(* Spheres and circles                                                     *)
(***************************************************************************)
SphereContainsPoint(p, center, radius) == NVectorDistanceSq(p, center) < radius * radius
SphereContainsSphere(c1, r1, c2, r2) == r1 > r2 /\ NVectorDistanceSq(c1, c2) < (r1 - r2) * (r1 - r2)
SphereSphereCollide(c1, r1, c2, r2) == NVectorDistanceSq(c1, c2) < (r1 + r2) * (r1 + r2)

RadiusContainsPoint(r, p) == Norm(p) < r * r
CircleContainsPoint(c, r, p) == RadiusContainsPoint(r, From(c, p))
CircleContainsCircle(c1, r1, c2, r2) == r1 > r2 /\ RadiusContainsPoint(r1 - r2, From(c1, c2))
CircleCircleCollide(c1, r1, c2, r2) == RadiusContainsPoint(r1 + r2, From(c1, c2))
\* CircleCircleIntersect, for circles around the origin and p: the points, when there are
\* two, are (k * p -+ sqrt(e) * p turned) / (2 * Norm(p)).
CircleRadiusIntersect(r, p, R) ==
  LET dsq == Norm(p)
      k == r * r - R * R + dsq
  IN  [n |-> IF dsq > (r + R) * (r + R) \/ dsq < (r - R) * (r - R) THEN 0 ELSE 2, k |-> k, e |-> 4 * r * r * dsq - k * k]

(***************************************************************************)
(* Lines, rays and segments                                                *)
(***************************************************************************)
\* The circle r around the origin is met at the roots (-b -+ sqrt(d)) / (2 * a).
LineRadiusParametricIntersect(p1, p2, r) ==
  LET D == From(p1, p2)
      a == Norm(D)
      b == 2 * Dot(p1, D)
      d == b * b - 4 * a * (Norm(p1) - r * r)
  IN  [n |-> IF d < 0 THEN 0 ELSE 2, a |-> a, b |-> b, d |-> d]
RootsFrom(t, x) ==
  LET m == t.b + 2 * t.a * x
  IN  {i \in 1..t.n : t.a # 0 /\ IF i = 1 THEN RootAtMost(t.d, -m) ELSE RootAtLeast(t.d, m)}
RootsTo(t, x) ==
  LET m == t.b + 2 * t.a * x
  IN  {i \in 1..t.n : t.a # 0 /\ IF i = 1 THEN RootAtLeast(t.d, -m) ELSE RootAtMost(t.d, m)}
LineRadiusIntersect(p1, p2, r) == 1..LineRadiusParametricIntersect(p1, p2, r).n
RayRadiusIntersect(p1, p2, r) == RootsFrom(LineRadiusParametricIntersect(p1, p2, r), 0)
LineSegmentRadiusIntersect(p1, p2, r) ==
  LET t == LineRadiusParametricIntersect(p1, p2, r) IN RootsFrom(t, 0) \cap RootsTo(t, 1)
LineRadiusCollide(p1, p2, r) == LineRadiusParametricIntersect(p1, p2, r).n > 0
RayRadiusCollide(p1, p2, r) == RootsFrom(LineRadiusParametricIntersect(p1, p2, r), 0) # {}
LineSegmentRadiusCollide(p1, p2, r) ==
  \E i \in {1, 2} : LET t == LineRadiusParametricIntersect(p1, p2, r) IN i \in RootsFrom(t, 0) /\ i \in RootsTo(t, 1)

\* The projection u = n / d of p on a line, and the points nearest to p, times d.
LinePointParametricProject(p1, p2, p) == [n |-> Dot(From(p1, p), From(p1, p2)), d |-> Norm(From(p1, p2))]
Along(p1, p2, n, d) == [i \in {1, 2} |-> d * p1[i] + n * (p2[i] - p1[i])]
LineNearestPoint(p1, p2, p) == LET u == LinePointParametricProject(p1, p2, p) IN Along(p1, p2, u.n, u.d)
RayNearestPoint(p1, p2, p) == LET u == LinePointParametricProject(p1, p2, p) IN Along(p1, p2, Most(u.n, 0), u.d)
LineSegmentNearestPoint(p1, p2, p) ==
  LET u == LinePointParametricProject(p1, p2, p) IN Along(p1, p2, IF u.n <= 0 THEN 0 ELSE IF u.n >= u.d THEN u.d ELSE u.n, u.d)
LinePointDistanceSqr(p1, p2, p) ==
  LET det == Cross(From(p1, p2), From(p, p1)) IN [n |-> det * det, d |-> Norm(From(p1, p2))]
LineSegmentPointDistanceSqr(p1, p2, p) ==
  LET length == Norm(From(p1, p2))
      det == Dot(From(p1, p), From(p1, p2))
      area == Cross(From(p1, p2), From(p, p1))
  IN  IF det < 0 \/ det > length THEN [n |-> Least(Norm(From(p, p1)), Norm(From(p, p2))), d |-> 1]
      ELSE [n |-> area * area, d |-> length]

\* Lines that the code takes for parallel do not meet; the point is p + r * t.
Parallel(r, s) == Cross(r, s) \in {-1, 0}
LineLineIntersect(p, p2, q, q2) ==
  LET r == From(p, p2)
      s == From(q, q2)
      t == [n |-> Cross(s, From(p, q)), d |-> Cross(r, s)]
  IN  [met |-> ~Parallel(r, s), at |-> Along(p, p2, t.n, t.d), d |-> t.d]
LineSegmentLineSegmentIntersect(p, p2, q, q2) ==
  LET r == From(p, p2)
      s == From(q, q2)
      t == Cross(s, From(p, q))
      u == Cross(r, From(p, q))
  IN  ~Parallel(r, s) /\ InUnit(u, Cross(r, s)) /\ InUnit(t, Cross(r, s))

LineSegmentLineSegmentCollide(p, p2, q, q2) ==
  LET D == From(q, q2)
      d == From(p, p2)
  IN  /\ InUnit(d[1] * (q[2] - p[2]) + d[2] * (p[1] - q[1]), D[1] * d[2] - D[2] * d[1])
      /\ InUnit(D[1] * (p[2] - q[2]) + D[2] * (q[1] - p[1]), D[2] * d[1] - D[1] * d[2])
LineSegmentLineVertCollide(p, p2, X, Y1, Y2) ==
  LET d == From(p, p2)
  IN  /\ InUnit(d[1] * (Y1 - p[2]) + d[2] * (p[1] - X), -(Y2 - Y1) * d[1])
      /\ InUnit((Y2 - Y1) * (X - p[1]), (Y2 - Y1) * d[1])
LineSegmentLineHorzCollide(p, p2, X1, X2, Y) ==
  LET d == From(p, p2)
  IN  /\ InUnit(d[1] * (Y - p[2]) + d[2] * (p[1] - X1), (X2 - X1) * d[2])
      /\ InUnit((X2 - X1) * (p[2] - Y), -(X2 - X1) * d[2])

\* The methods of a circle o, for which lines are taken relative to its centre.
HasPoint(o, p) == RadiusContainsPoint(o.r, From(o.c, p))
HasCircle(o, i) == o.r > i.r /\ RadiusContainsPoint(o.r - i.r, From(o.c, i.c))
MeetsCircle(o, i) == RadiusContainsPoint(o.r + i.r, From(o.c, i.c))
MeetsLine(o, p1, p2) ==
  LET a == From(o.c, p1)
      b == From(o.c, p2)
  IN  [line |-> LineRadiusCollide(a, b, o.r), ray |-> RayRadiusCollide(a, b, o.r), segment |-> LineSegmentRadiusCollide(a, b, o.r),
       lineCuts |-> LineRadiusIntersect(a, b, o.r), rayCuts |-> RayRadiusIntersect(a, b, o.r), cuts |-> LineSegmentRadiusIntersect(a, b, o.r)]

(***************************************************************************)
(* Rectangles                                                              *)
(***************************************************************************)
\* In halves: the distances from the centre are doubled.
RectCircleCollide(l, t, r, b, X, Y, R) ==
  LET w == r - l
      h == b - t
      cx == Magnitude(2 * X - (r + l))
      cy == Magnitude(2 * Y - (b + t))
  IN  /\ cx <= w + 2 * R /\ cy <= h + 2 * R
      /\ cx <= w \/ cy <= h \/ (cx - w) * (cx - w) + (cy - h) * (cy - h) <= 4 * R * R

\* Heights are times the width of the line, which is not zero where they are used.
RectLineCollide(l, t, r, b, X1, Y1, X2, Y2) ==
  LET w == Magnitude(X2 - X1)
      rise == IF X2 > X1 THEN Y2 - Y1 ELSE Y1 - Y2
      At(x) == w * Y1 + rise * (x - X1)
      ti == Most(At(IF rise > 0 THEN l ELSE r), w * Least(Y1, Y2))
      bi == Least(At(IF rise > 0 THEN r ELSE l), w * Most(Y1, Y2))
  IN  IF w = 0 THEN ~(X1 < l \/ X2 > r \/ (Y1 < t /\ Y2 < t) \/ (Y1 > b /\ Y2 < b))
      ELSE ti < bi /\ ~(bi < w * t \/ ti > w * b)

RectContainsPoint(l, t, r, b, X, Y) == X >= l /\ Y >= t /\ X < r /\ Y < b
RectContainsRect(L, T, R, B, l, t, r, b) == l >= L /\ t >= T /\ r <= R /\ b <= B
RectRectCollide(L, T, R, B, l, t, r, b) == l <= R /\ t <= B /\ r >= L /\ b >= T

\* The methods of Rect.
ContainsPoint(s, p) == RectContainsPoint(s[1], s[2], s[3], s[4], p[1], p[2])
ContainsRect(s, q) == RectContainsRect(s[1], s[2], s[3], s[4], q[1], q[2], q[3], q[4])
CircleCollide(s, o) == RectCircleCollide(s[1], s[2], s[3], s[4], o.c[1], o.c[2], o.r)
LineCollide(s, p1, p2) == RectLineCollide(s[1], s[2], s[3], s[4], p1[1], p1[2], p2[1], p2[2])
RectCollide(s, q) == RectRectCollide(s[1], s[2], s[3], s[4], q[1], q[2], q[3], q[4])
Area(s) == (s[3] - s[1]) * (s[4] - s[2])
Abs(s) == [i \in 1..4 |-> Magnitude(s[i])]
Dim(s) == <<s[3] - s[1], s[4] - s[2]>>
Inflate(s, amount) == <<s[1] - amount, s[2] - amount, s[3] + amount, s[4] + amount>>
IsCanonical(s) == s[1] <= s[3] /\ s[2] <= s[4]
Canonical(s) == <<Least(s[1], s[3]), Least(s[2], s[4]), Most(s[1], s[3]), Most(s[2], s[4])>>
Union(s, q) == <<Least(s[1], q[1]), Least(s[2], q[2]), Most(s[3], q[3]), Most(s[4], q[4])>>
ExpandTo(s, p) == <<Least(s[1], p[1]), Least(s[2], p[2]), Most(s[3], p[1]), Most(s[4], p[2])>>
Intersection(s, q) ==
  IF ~RectCollide(s, q) THEN <<s[1], s[2], s[1], s[2]>>
  ELSE <<Most(s[1], q[1]), Most(s[2], q[2]), Least(s[3], q[3]), Least(s[4], q[4])>>
RectExpandTo(s, p) ==
  [i \in 1..4 |-> LET x == p[IF i \in {1, 3} THEN 1 ELSE 2]
                      low == s[IF i \in {1, 3} THEN 1 ELSE 2]
                  IN  IF i <= 2 THEN Least(s[i], x) ELSE IF x >= low THEN Most(s[i], x) ELSE s[i]]

\* The operators: with another Rect, with a vector for both corners, with one number.
Corners(v) == v \o v
Sides(k) == <<k, k, k, k>>
Quotient(x, y) == IF (x < 0) = (y < 0) THEN Magnitude(x) \div Magnitude(y) ELSE -(Magnitude(x) \div Magnitude(y))
EachSide(op, s, o) ==
  [i \in 1..4 |-> CASE op = "+" -> s[i] + o[i]
                    [] op = "-" -> s[i] - o[i]
                    [] op = "*" -> s[i] * o[i]
                    [] op = "/" -> Quotient(s[i], o[i])]
RectPlus(s, o) == EachSide("+", s, o)
RectMinus(s, o) == EachSide("-", s, o)
RectTimes(s, o) == EachSide("*", s, o)
Over(s, o) == EachSide("/", s, o)
RectNegated(s) == [i \in 1..4 |-> -s[i]]
RectSame(s, q) == s[1] = q[1] /\ s[2] = q[2] /\ s[3] = q[3] /\ s[4] = q[4]
RectGreater(s, q) ==
  s[1] > q[1] \/ (s[1] = q[1] /\ (s[2] > q[2] \/ (s[2] = q[2] /\ (s[3] > q[3] \/ (s[3] = q[3] /\ s[4] > q[4])))))
RectLess(s, q) ==
  s[1] < q[1] \/ (s[1] = q[1] /\ (s[2] < q[2] \/ (s[2] = q[2] /\ (s[3] < q[3] \/ (s[3] = q[3] /\ s[4] < q[4])))))

(***************************************************************************)
(* Triangles, ellipses and polygons                                        *)
(***************************************************************************)
TriangleContainsPoint(p, at) ==
  LET v0 == From(p[1], p[3])
      v1 == From(p[1], p[2])
      v2 == From(p[1], at)
      d == Norm(v0) * Norm(v1) - Dot(v0, v1) * Dot(v0, v1)
      x == Norm(v1) * Dot(v0, v2) - Dot(v0, v1) * Dot(v1, v2)
      y == Norm(v0) * Dot(v1, v2) - Dot(v0, v1) * Dot(v0, v2)
  IN  d # 0 /\ x > 0 /\ y > 0 /\ x + y < d
TriangleArea2(v) == Cross(From(v[1], v[2]), From(v[1], v[3]))   \* twice the area

EllipseContainsPoint(X, Y, A, B, x, y) == (X - x) * (X - x) * B * B + (Y - y) * (Y - y) * A * A <= A * A * B * B
\* Everything is times B, so that the ellipse becomes a circle of A * B.
EllipseRectCollide(X, Y, A, B, l, t, r, b) == RectCircleCollide(l * B, t * A, r * B, b * A, X * B, Y * A, A * B)

Prev(i, verts) == IF i = 1 THEN Len(verts) ELSE i - 1
Succ(i, verts) == (i % Len(verts)) + 1
\* Twice the area that the edge to vertex i adds.
EdgeArea(verts, i) == LET j == Prev(i, verts) IN verts[j][1] * verts[i][2] - verts[i][1] * verts[j][2]
PolygonArea2(verts) == MapThenSumSet(LAMBDA i : EdgeArea(verts, i), DOMAIN verts)
\* The sum starts with what memory held, and is over six times the area.
PolygonCentroid(verts, memory) ==
  [k \in {1, 2} |-> memory[k] + MapThenSumSet(LAMBDA i : (verts[Prev(i, verts)][k] + verts[i][k]) * EdgeArea(verts, i), DOMAIN verts)]
CenterPolygon(verts, memory) ==   \* times six times the area
  LET a6 == 3 * PolygonArea2(verts)
      c == PolygonCentroid(verts, memory)
  IN  [i \in DOMAIN verts |-> <<a6 * verts[i][1] - c[1], a6 * verts[i][2] - c[2]>>]
PolygonAABB(verts) ==
  LET retval[i \in DOMAIN verts] == IF i = 1 THEN verts[1] \o verts[1] ELSE RectExpandTo(retval[i - 1], verts[i])
  IN  retval[Len(verts)]

Crossed(verts, i, p) ==
  LET a == verts[i]
      e == From(a, verts[Prev(i, verts)])
  IN  /\ (a[2] > p[2]) # (a[2] + e[2] > p[2])
      /\ IF e[2] > 0 THEN (p[1] - a[1]) * e[2] < e[1] * (p[2] - a[2]) ELSE (p[1] - a[1]) * e[2] > e[1] * (p[2] - a[2])
PolygonContainsPoint(p, verts) == Cardinality({i \in DOMAIN verts : Crossed(verts, i, p)}) % 2 = 1

Turn(verts, i) == Cross(From(verts[Prev(i, verts)], verts[i]), From(verts[i], verts[Succ(i, verts)]))
PolygonIsConvex(verts) == ~(\E i \in DOMAIN verts : Turn(verts, i) < 0) \/ ~(\E i \in DOMAIN verts : Turn(verts, i) > 0)

\* The edges are compared with the closing one, which is taken in the other direction.
Side(a, b, p) == (p[2] - a[2]) * (b[1] - a[1]) - (p[1] - a[1]) * (b[2] - a[2])
ConvexPolygonContainsPoint(p, verts) ==
  LET last == Side(verts[1], verts[Len(verts)], p)
  IN  \A i \in 2..Len(verts) : LET cur == Side(verts[i - 1], verts[i], p)
                               IN  ~((cur < 0 /\ last > 0) \/ (cur > 0 /\ last < 0))
-----------------------------------------------------------------------------
Grid(n) == (0..n) \X (0..n)
Rects(n) == {s \in [1..4 -> 0..n] : IsCanonical(s)}
Triangles == {v \in [1..3 -> Grid(3)] : TriangleArea2(v) # 0}
Quads == [1..4 -> Grid(2)]

ShapeInputs ==
  [f : {"circles"}, a : [c : {<<0, 0>>, <<1, 2>>}, r : 1..3], b : [c : Grid(4), r : 1..3]]
  \cup {q \in [f : {"line"}, p1 : Grid(3), p2 : Grid(3), at : Grid(2), r : 1..3] : q.p1 # q.p2}
  \cup {q \in [f : {"segments"}, p : Grid(2), p2 : Grid(2), q : Grid(2), q2 : Grid(2)] : q.p # q.p2 /\ q.q # q.q2}
  \cup [f : {"rects"}, s : Rects(2), t : Rects(2)]
  \cup [f : {"rect"}, s : Rects(2), p1 : {<<x - 1, y - 1>> : x, y \in {0, 2, 4}}, p2 : {<<x - 1, y - 1>> : x, y \in 0..4}]
  \cup [f : {"triangle"}, v : Triangles] \cup [f : {"quad"}, v : Quads]

\* Two circles are apart, touch or cross, or one is inside the other, and what holds a
\* circle holds its points.
CirclesRight(a, b) ==
  LET p == From(a.c, b.c)
      cut == CircleRadiusIntersect(a.r, p, b.r)
      Holds(o, i) == SphereContainsSphere(o.c, o.r, i.c, i.r)
  IN  /\ cut.n = 2 <=> cut.e >= 0
      /\ cut.n = 0 <=> Holds(a, b) \/ Holds(b, a) \/ Norm(p) > (a.r + b.r) * (a.r + b.r)
      /\ Holds(a, b) = CircleContainsCircle(a.c, a.r, b.c, b.r) /\ HasCircle(a, b) = Holds(a, b)
      /\ MeetsCircle(a, b) = SphereSphereCollide(a.c, a.r, b.c, b.r) /\ MeetsCircle(a, b) = CircleCircleCollide(b.c, b.r, a.c, a.r)
      /\ \A q \in Grid(4) : SphereContainsPoint(q, b.c, b.r) =>
                             /\ HasPoint(b, q) /\ CircleContainsPoint(b.c, b.r, q)
                             /\ Holds(a, b) => HasPoint(a, q)
                             /\ ~MeetsCircle(a, b) => ~HasPoint(a, q)

\* The nearest points are nearer than all that are tried, and a circle is met exactly when
\* its radius is between the distances of the nearest and of the farthest point.
DistancesRight(p1, p2, at, d, line, ray, segment) ==
  LET Sample(k) == Norm([i \in {1, 2} |-> Along(p1, p2, k, 4)[i] - 4 * at[i]]) * d * d   \* times 16 d^2
      From1 == LinePointDistanceSqr(p1, p2, at)
      From2 == LineSegmentPointDistanceSqr(p1, p2, at)
  IN  /\ \A k \in -6..10 : /\ 16 * line <= Sample(k)
                          /\ (k >= 0 => 16 * ray <= Sample(k))
                          /\ (k \in 0..4 => 16 * segment <= Sample(k))
      /\ line * From1.d = From1.n * d * d
      /\ segment * From2.d = From2.n * d * d
CutsRight(o, back, d, r, a, b, line, ray, segment) ==
  /\ o.line <=> line <= r * r * d * d
  /\ o.ray <=> ray <= r * r * d * d
  /\ o.segment <=> segment <= r * r * d * d /\ r * r <= Most(a, b)
  /\ o.cuts = o.lineCuts \cap o.rayCuts \cap {3 - i : i \in back.rayCuts}
  /\ Least(a, b) < r * r /\ r * r < Most(a, b) => Cardinality(o.cuts) = 1
  /\ o.segment <=> o.cuts # {}
LineRight(p1, p2, at, r) ==
  LET d == Norm(From(p1, p2))
      To(near) == Norm([i \in {1, 2} |-> near[i] - d * at[i]])      \* times d^2
      line == To(LineNearestPoint(p1, p2, at))
      ray == To(RayNearestPoint(p1, p2, at))
      segment == To(LineSegmentNearestPoint(p1, p2, at))
      o == [c |-> at, r |-> r]
  IN  /\ DistancesRight(p1, p2, at, d, line, ray, segment)
      /\ CutsRight(MeetsLine(o, p1, p2), MeetsLine(o, p2, p1), d, r, Norm(From(at, p1)), Norm(From(at, p2)), line, ray, segment)

Across(a, b, p, q) == Cross(From(a, b), From(a, p)) * Cross(From(a, b), From(a, q)) <= 0
\* Segments that are not parallel collide when each has its ends on both sides of the
\* other. What Intersect answers is so for the segments turned around their first ends.
SegmentsRight(p, p2, q, q2) ==
  LET apart == Cross(From(p, p2), From(q, q2)) # 0
      Turned(a, b) == [i \in {1, 2} |-> 2 * a[i] - b[i]]
      at == LineLineIntersect(p, p2, q, q2)
  IN  /\ LineSegmentLineSegmentCollide(p, p2, q, q2) <=> apart /\ Across(p, p2, q, q2) /\ Across(q, q2, p, p2)
      /\ q[1] = q2[1] /\ apart => (LineSegmentLineVertCollide(p, p2, q[1], q[2], q2[2]) <=> LineSegmentLineSegmentCollide(p, p2, q, q2))
      /\ q[2] = q2[2] /\ apart => (LineSegmentLineHorzCollide(p, p2, q[1], q2[1], q[2]) <=> LineSegmentLineSegmentCollide(p, p2, q, q2))
      /\ LineSegmentLineSegmentIntersect(p, p2, q, q2) <=> at.met /\ LineSegmentLineSegmentCollide(p, Turned(p, p2), q, Turned(q, q2))
      /\ at.met => LET i == [k \in {1, 2} |-> 2 * at.d * p[k] - at.at[k] - at.d * q[k]] IN Cross(From(q, q2), i) = 0

Closed(s) == (s[1]..s[3]) \X (s[2]..s[4])
\* The rectangles as sets of points, closed but for ContainsPoint, and their order.
RectsRight(s, t) ==
  LET u == Union(s, t)
      i == Intersection(s, t)
  IN  /\ RectCollide(s, t) <=> Closed(s) \cap Closed(t) # {}
      /\ ContainsRect(s, t) <=> Closed(t) \subseteq Closed(s)
      /\ IF RectCollide(s, t) THEN Closed(i) = Closed(s) \cap Closed(t) ELSE Area(i) = 0
      /\ ContainsRect(u, s) /\ ContainsRect(u, t) /\ \A v \in Rects(2) : ContainsRect(v, s) /\ ContainsRect(v, t) => ContainsRect(v, u)
      /\ Area(s) = Cardinality({p \in Grid(2) : ContainsPoint(s, p)})
      /\ \A p \in Grid(2) : RectExpandTo(s, p) = ExpandTo(s, p) /\ ExpandTo(s, p) = Union(s, Corners(p))
      /\ Canonical(RectNegated(s)) = <<-s[3], -s[4], -s[1], -s[2]>> /\ Abs(RectNegated(s)) = s
      /\ RectMinus(RectPlus(s, t), t) = s /\ Dim(RectPlus(s, Corners(<<t[1], t[2]>>))) = Dim(s) /\ Over(RectTimes(s, Sides(t[3] + 1)), Sides(t[3] + 1)) = s
      /\ ContainsRect(Inflate(s, 1), s) /\ Dim(Inflate(s, 1)) = <<Dim(s)[1] + 2, Dim(s)[2] + 2>>
      /\ Cardinality({b \in {1, 2, 3} : <<RectLess(s, t), RectSame(s, t), RectGreater(s, t)>>[b]}) = 1 /\ (RectLess(s, t) <=> RectGreater(t, s))

\* The point of the rectangle that is nearest to p.
Clamp(s, p) == <<Most(s[1], Least(s[3], p[1])), Most(s[2], Least(s[4], p[2]))>>
CornersOf(s) == {s[1], s[3]} \X {s[2], s[4]}
\* A circle or an ellipse meets a rectangle when it holds its point nearest to the centre.
\* A segment meets it when no side and no line parts them: but a level one never does, and a
\* slanted one that only touches a side's line from outside does not either.  Left out is an
\* upright one that begins below the bottom side, which RectLineCollide gets wrong (line 389).
RectRight(s, p1, p2) ==
  LET overlap == \A i \in {1, 2} : Least(p1[i], p2[i]) <= s[i + 2] /\ Most(p1[i], p2[i]) >= s[i]
      through == \E c, k \in CornersOf(s) : Across(p1, p2, c, k)
      inner == Most(s[1], Least(p1[1], p2[1])) < Least(s[3], Most(p1[1], p2[1]))
  IN  /\ \A r \in 0..2 : CircleCollide(s, [c |-> p2, r |-> r]) <=> Norm(From(p2, Clamp(s, p2))) <= r * r
      /\ \A A, B \in 1..2 : EllipseRectCollide(p2[1], p2[2], A, B, s[1], s[2], s[3], s[4])
                            <=> EllipseContainsPoint(p2[1], p2[2], A, B, Clamp(s, p2)[1], Clamp(s, p2)[2])
      /\ (p1[1] = p2[1] /\ p1[2] > s[4])
         \/ (LineCollide(s, p1, p2) <=> overlap /\ through /\ (p1[1] # p2[1] => p1[2] # p2[2] /\ inner))

Inside(v, p) == \A i, j \in 1..3 : Side(v[i], v[Succ(i, v)], p) * Side(v[j], v[Succ(j, v)], p) > 0
Outside(v, p) == \E i, j \in 1..3 : Side(v[i], v[Succ(i, v)], p) * Side(v[j], v[Succ(j, v)], p) < 0
\* The points in a triangle, its area by Pick's theorem, its centroid and its bounds.
TriangleRight(v) ==
  LET area == PolygonArea2(v)
      inside == {p \in Grid(3) : Inside(v, p)}
      rim == {p \in Grid(3) : ~Inside(v, p) /\ ~Outside(v, p)}
  IN  /\ \A p \in Grid(3) : /\ TriangleContainsPoint(v, p) <=> Inside(v, p)
                            /\ Inside(v, p) => PolygonContainsPoint(p, v)
                            /\ Outside(v, p) => ~PolygonContainsPoint(p, v)
      /\ area = TriangleArea2(v) /\ Magnitude(area) = 2 * Cardinality(inside) + Cardinality(rim) - 2
      /\ \A k \in {1, 2} : /\ PolygonCentroid(v, <<0, 0>>)[k] = area * (v[1][k] + v[2][k] + v[3][k])
                           /\ LET c == CenterPolygon(v, <<0, 0>>) IN c[1][k] + c[2][k] + c[3][k] = 0
                           /\ PolygonAABB(v)[k] = Min({v[i][k] : i \in 1..3}) /\ PolygonAABB(v)[k + 2] = Max({v[i][k] : i \in 1..3})
      /\ PolygonIsConvex(v)

\* A polygon has the points and the area of the triangles it is cut into, and is convex
\* exactly when its diagonals cross.
QuadRight(v) ==
  LET half == <<<<v[1], v[2], v[3]>>, <<v[1], v[3], v[4]>>>>
  IN  /\ \A p \in Grid(2) : PolygonContainsPoint(p, v) <=> (PolygonContainsPoint(p, half[1]) # PolygonContainsPoint(p, half[2]))
      /\ PolygonArea2(v) = PolygonArea2(half[1]) + PolygonArea2(half[2])
      /\ \A k \in {1, 2} : PolygonCentroid(v, <<0, 0>>)[k] = PolygonCentroid(half[1], <<0, 0>>)[k] + PolygonCentroid(half[2], <<0, 0>>)[k]
      /\ (\A i \in 1..4 : Turn(v, i) # 0) => (PolygonIsConvex(v) <=> LineSegmentLineSegmentCollide(v[1], v[3], v[2], v[4]))

ShapeRight(q) ==
  CASE q.f = "circles" -> CirclesRight(q.a, q.b)
    [] q.f = "line" -> LineRight(q.p1, q.p2, q.at, q.r)
    [] q.f = "segments" -> SegmentsRight(q.p, q.p2, q.q, q.q2)
    [] q.f = "rects" -> RectsRight(q.s, q.t)
    [] q.f = "rect" -> RectRight(q.s, q.p1, q.p2)
    [] q.f = "triangle" -> TriangleRight(q.v)
    [] q.f = "quad" -> QuadRight(q.v)

\* "This is written so that being on the line counts as an intersection" (Collision.h).
OnTheLineCounts(v) ==
  \A i \in DOMAIN v, p \in Grid(3) :
    Side(v[i], v[Succ(i, v)], p) = 0 /\ ~Outside(v, p) => ConvexPolygonContainsPoint(p, v)
=============================================================================
