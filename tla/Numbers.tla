------------------------------- MODULE Numbers -------------------------------
(***************************************************************************)
(* The integer tricks of include/buntils/buntils.h and BitField.h, on      *)
(* words of w bits (a word is a number in 0..2^w - 1, a signed one is read *)
(* through Signed), and the numbers of Rational.h, FixedPt.h and Dual.h: a *)
(* fraction in lowest terms, an integer of `width' bits with a binary      *)
(* point before its last D bits, and a value with its derivatives.         *)
(*                                                                         *)
(* Behind them algo.h and AliasTable.h: binary searches, shuffling, random *)
(* choice by weights, subdivision, breadth-first search, splines and       *)
(* Bezier curves, roots of polynomials, quadrature and base64.             *)
(***************************************************************************)
EXTENDS Integers, Sequences, FiniteSets, FiniteSetsExt, Bitwise

Seqs == INSTANCE SequencesExt

Word(w) == 0..2^w - 1
SignedWord(w) == -(2^(w - 1))..2^(w - 1) - 1
Trunc(x, w) == x % 2^w
Signed(x, w) == IF Trunc(x, w) >= 2^(w - 1) THEN Trunc(x, w) - 2^w ELSE Trunc(x, w)
Flip(x, w) == 2^w - 1 - x
Shl(x, n, w) == (x * 2^n) % 2^w
Shr(x, n) == x \div 2^n            \* arithmetic when x is negative
Magnitude(x) == IF x < 0 THEN -x ELSE x
Quot(a, b) == IF (a < 0) = (b < 0) THEN Magnitude(a) \div Magnitude(b) ELSE -(Magnitude(a) \div Magnitude(b))
Rem(a, b) == a - b * Quot(a, b)    \* / and % truncate in C
Fact(b) == IF b THEN 1 ELSE 0
BitsOf(x) == {b \in 0..30 : (x \div 2^b) % 2 = 1}
OfBits(s) == FoldSet(LAMBDA b, x : x + 2^b, 0, s)

\* T_CHARGETMSB and BitLimit: the bytes of the type it picks, and the limits in it.
CharGetMsb(i) == LET s == i | Shr(i, 1)
                     r == s | Shr(s, 2)
                     q == r | Shr(r, 4)
                 IN  q - Shr(q, 1)
Bytes(bits) == Shr(CharGetMsb(bits), 3) * 2^Fact(bits % 8 > 0) + Fact(bits < 8)
BitLimit(bits) ==
  LET w == 8 * Bytes(bits)
      max == Trunc(Shl(2, bits - 1, w) - 1, w)
  IN  [UNSIGNED_MAX |-> max,
       SIGNED_MIN |-> Signed(Shl(2^w - 1, bits - 1, w), w),
       SIGNED_MAX |-> Flip(Shl(1, bits - 1, w), w) & max]

\* T_GETBIT and T_GETBITRANGE, whose range may begin below bit 0 and then wraps.
GetBitMask(bit, w) == 2^(bit % w)
GetBitRange(low, high, w) ==
  LET mask == 2^(high - low + 1) - 1
  IN  Trunc(IF low > 0 THEN mask * 2^low ELSE Shr(mask, -low), w) | Shl(mask, low % w, w)
SetBit(word, bit, v, w) == (word & Flip(bit, w)) | (Trunc(-Fact(v), w) & bit)
GetBit(p, index, w) == (p[index \div w + 1] & 2^(index % w)) # 0
NextMultiple(x, t, w) == Trunc(x + t, w) & Flip(t, w)

IntDiv(i, div) == Quot(i, div) - Fact(i < 0 /\ Rem(i, div) # 0)
Mod(x, m) == LET r == Rem(x, m) IN r + (IF r < 0 THEN m ELSE 0)
tsign(n, w) == Signed(1 | Trunc(Shr(n, w - 1), w), w)

\* fCompare on the bits of two floats: test is -1 when the signs differ, and turns a
\* into the number that continues the order of b through zero.
fCompare(a, b, maxDiff, w) ==
  LET differ == (a < 0) # (b < 0)
      test == IF differ THEN -1 ELSE 0
      flipped == Trunc(a + test, w) ^^ (Trunc(test, w) & (2^(w - 1) - 1))
      diff == Signed(flipped - b, w)
  IN  Signed(maxDiff + diff, w) >= 0 /\ Signed(maxDiff - diff, w) >= 0
fSmall(f, eps, w) == Trunc(f, w) & (2^(w - 1) - 1) <= eps
fCompareSmall(a, b, maxDiff, eps, w) ==
  CASE Trunc(a, w - 1) = 0 -> fSmall(b, eps, w)
    [] Trunc(a, w - 1) # 0 /\ Trunc(b, w - 1) = 0 -> fSmall(a, eps, w)
    [] OTHER -> fCompare(a, b, maxDiff, w)

\* IntFastSqrt decides the root bit by bit; bits is half the width.
IntFastSqrt(n, bits) ==
  LET Step(s, k) == LET i == bits - k
                        t == (s.root + 2^i) * 2^i
                    IN  IF s.n >= t THEN [n |-> s.n - t, root |-> s.root | 2^(i + 1)] ELSE s
  IN  Seqs!FoldLeft(Step, [n |-> n, root |-> 0], [k \in 1..bits |-> k]).root \div 2
Dist(X, Y, x, y, bits) == IntFastSqrt((X - x) * (X - x) + (Y - y) * (Y - y), bits)

\* BitCount adds neighbouring fields in parallel.
BitCount(x, w) ==
  LET ones == 2^w - 1
      a == x - (Shr(x, 1) & (ones \div 3))
      m == (ones \div 15) * 3
      b == (a & m) + (Shr(a, 2) & m)
      c == Trunc(b + Shr(b, 4), w) & ((ones \div 255) * 15)
  IN  Shr(Trunc(c * (ones \div 255), w), w - 8)

\* NextPow2 smears the top bit of v - 1 to the right; one body per width.
NextPow2(v, w) ==
  LET Smear(x, k) == IF 2^k < w THEN x | Shr(x, 2^k) ELSE x
  IN  Trunc(Seqs!FoldLeft(Smear, v - 1, <<0, 1, 2, 3, 4, 5>>) + 1, w)

\* Mutation: the comparison with the second mask is left out.
BugLog2(v, w) ==
  LET Step(s, k) == IF 2^k < w /\ k # 1 /\ Shr(s.v, 2^k) # 0
                    THEN [v |-> Shr(s.v, 2^k), r |-> s.r + 2^k] ELSE s
  IN  Seqs!FoldLeft(Step, [v |-> v, r |-> 0], <<5, 4, 3, 2, 1, 0>>).r

\* bun_Log2 with its masks, halving the part that can hold the top bit.
Log2(v, w) ==
  LET Step(s, k) == IF 2^k < w /\ s.v & ((2^(2^k) - 1) * 2^(2^k)) # 0
                    THEN [v |-> Shr(s.v, 2^k), r |-> s.r | 2^k] ELSE s
  IN  Seqs!FoldLeft(Step, [v |-> v, r |-> 0], <<3, 2, 1, 0>>).r

\* bun_Log2_p2: each bit of the answer has a mask of the powers that have it.
Log2p2(v, w) ==
  FoldSet(LAMBDA k, r : r + 2^k * Fact(v & OfBits({b \in 0..w - 1 : k \in BitsOf(b)}) # 0),
          0, {k \in 0..3 : 2^k < w})

bun_Abs(x, w) == LET mask == Shr(x, w - 1)
                 IN  Trunc(x + mask, w) ^^ Trunc(mask, w)
Negate(x, negate, w) == Signed((x ^^ Trunc(-negate, w)) + negate, w)

\* _bunmultiplyextract: a product of twice the width from four of half of it, with the
\* sign put back by hand, shifted right and cut.
MultiplyExtractHalves(xs, ys, shift, signed, w) ==
  LET x == IF signed THEN bun_Abs(xs, w) ELSE xs
      y == IF signed THEN bun_Abs(ys, w) ELSE ys
      h == w \div 2
      Low(v) == v & (2^h - 1)
      ac == Shr(x, h) * Shr(y, h)
      bc == Low(x) * Shr(y, h)
      ad == Shr(x, h) * Low(y)
      bd == Low(x) * Low(y)
      mid34 == Trunc(Shr(bd, h) + Low(bc) + Low(ad), w)
      high == Trunc(ac + Shr(bc, h) + Shr(ad, h) + Shr(mid34, h), w)
      low == Shl(mid34, h, w) | Low(bd)
      negate == signed /\ ((xs < 0) # (ys < 0))
      hi == IF negate THEN Trunc(Flip(high, w) + Fact(low = 0), w) ELSE high
      lo == IF negate THEN Trunc(Flip(low, w) + 1, w) ELSE low
      wide == IF signed THEN Signed(hi, w) ELSE hi
  IN  IF shift >= w THEN Trunc(Shr(wide, shift - w), w)
      ELSE Shr(lo, shift) | (IF shift > 0 THEN Shl(hi, w - shift, w) ELSE 0)
\* bun_MultiplyExtract where there is a type of twice the width.
MultiplyExtract(x, y, shift, w) == Trunc(Shr(x * y, shift), w)

\* BitField: a bit or a group of bits of a word that others share.
RefAssign(bits, bit, v, w) == SetBit(bits, bit, v, w)
RefFlip(bits, bit) == bits ^^ bit
GroupAssign(bits, group, right, w) == (bits & Flip(group, w)) | (right & group)
FieldSet(bits, right, mask) == bits ^^ (right ^^ (bits & mask))
FieldPlus(bits, bit) == bits | bit
FieldMinus(bits, bit, w) == bits & Flip(bit, w)
\* The place <<word, bit>> of an iterator moves into the next word, or the one before.
Incremented(at, w) == IF Shl(at[2], 1, w) = 0 THEN <<at[1] + 1, 1>> ELSE <<at[1], Shl(at[2], 1, w)>>
Decremented(at, w) == IF Shr(at[2], 1) = 0 THEN <<at[1] - 1, 2^(w - 1)>> ELSE <<at[1], Shr(at[2], 1)>>

\* Days since 1970 of a date of the Gregorian calendar.
DaysFromCivil(year, m, d) ==
  LET y == year - Fact(m <= 2)
      era == Quot(IF y >= 0 THEN y ELSE y - 399, 400)
      yoe == y - era * 400
      doy == (153 * (m + (IF m > 2 THEN -3 ELSE 9)) + 2) \div 5 + d - 1
      doe == yoe * 365 + yoe \div 4 - yoe \div 100 + doy
  IN  era * 146097 + doe - 719468

\* bun_Avg after one more value; averages are scaled so that divisions are exact.
Avg(curavg, nvalue, nextnum) == curavg + Quot(nvalue - curavg, nextnum)

(***************************************************************************)
(* Rational                                                                *)
(***************************************************************************)
RECURSIVE Euclid(_, _)
Euclid(a, b) == IF b > 1 THEN Euclid(b, a % b) ELSE IF b = 0 THEN a ELSE b
GCD(x, y) == LET a == Magnitude(x)
                 b == Magnitude(y)
             IN  IF b > a THEN Euclid(b, a) ELSE Euclid(a, b)

Fraction(n, d) == [n |-> n, d |-> d]
Positive(r) == IF r.d < 0 THEN Fraction(-r.n, -r.d) ELSE r
Simplify(n, d) == LET g == GCD(n, d) IN IF n = 0 THEN Fraction(0, 1) ELSE Positive(Fraction(Quot(n, g), Quot(d, g)))
Whole(i) == Fraction(i, 1)

Plus(l, r, sign) ==
  LET g == GCD(l.d, r.d)
      d == Quot(l.d, g)
      n == l.n * Quot(r.d, g) + sign * r.n * d
      h == GCD(n, g)
  IN  Fraction(Quot(n, h), d * Quot(r.d, h))
Times(l, r) ==
  LET g == GCD(l.n, r.d)
      h == GCD(r.n, l.d)
  IN  Fraction(Quot(l.n, g) * Quot(r.n, h), Quot(l.d, h) * Quot(r.d, g))
Over(l, r) ==
  LET g == GCD(l.n, r.n)
      h == GCD(r.d, l.d)
  IN  IF l.n = 0 THEN l
      ELSE Positive(Fraction(Quot(l.n, g) * Quot(r.d, h), Quot(l.d, h) * Quot(r.n, g)))
\* The operators with an integer on the right.
PlusWhole(l, i) == Fraction(l.n + i * l.d, l.d)
TimesWhole(l, i) == LET g == GCD(i, l.d) IN Fraction(l.n * Quot(i, g), Quot(l.d, g))
OverWhole(l, i) == LET g == GCD(l.n, i)
                   IN  IF l.n = 0 THEN l ELSE Positive(Fraction(Quot(l.n, g), l.d * Quot(i, g)))
\* The operators with an integer on the left.
WholeMinus(i, r) == Plus(Whole(i), r, -1)
WholeOver(i, r) == Over(Whole(i), r)
Truncate(r) == Quot(r.n, r.d)
AbsFraction(r) == Fraction(Magnitude(r.n), r.d)

\* Two fractions are compared as doubles, a fraction and an integer by the floor.
LessThan(l, r) == l.n * r.d < r.n * l.d
EqualWhole(l, i) == l.d = 1 /\ i = l.n
Floored(r) == LET m == Rem(r.n, r.d) IN Quot(r.n, r.d) - (IF m < 0 THEN 1 ELSE 0)
LessWhole(l, i) == Floored(l) < i
GreaterWhole(l, i) == ~EqualWhole(l, i) /\ ~LessWhole(l, i)
AtMostWhole(l, i) == EqualWhole(l, i) \/ ~GreaterWhole(l, i)
AtLeastWhole(l, i) == EqualWhole(l, i) \/ ~LessWhole(l, i)

(***************************************************************************)
(* Fixed<D, T>: the number v is the bits v * 2^D.  A floating-point        *)
(* operand is given in units of 1 / Unit.                                  *)
(***************************************************************************)
Unit == 16
Width == 10
Wrapped(x) == Signed(x, Width)
FixedPtConv(f, D) == Wrapped(Quot(f * 2^D, Unit))
SafeShift(v, s) == IF s >= 0 THEN Wrapped(v * 2^s) ELSE Shr(v, -s)
OfInt(v, D) == SafeShift(v, D)
ToInt(x, D) == Shr(x, D)
Converted(x, B, D) == SafeShift(x, B - D)       \* from B bits behind the point to D
fixedpt_add(x, D, y, B) == Wrapped(x + SafeShift(y, D - B))
fixedpt_mul(x, y, B) == Signed(MultiplyExtract(x, y, B, Width), Width)
fixedpt_recip(x) == Quot(2^(Width - 2), x)
fixedpt_div(x, y, B) == Wrapped(Quot(x * 2^B, y))
fixedpt_div64(x, y, B) == fixedpt_mul(x, fixedpt_recip(y), Width - 2 - B)
\* The operators of the class with a number of B bits behind the point, and with a float.
FixedBy(x, D, y, B, op) ==
  CASE op = "+" -> fixedpt_add(x, D, y, B)
    [] op = "-" -> fixedpt_add(x, D, Wrapped(-y), B)
    [] op = "*" -> fixedpt_mul(x, y, B)
    [] op = "/" -> fixedpt_div(x, y, B)
FixedByFloat(x, D, f, op) == FixedBy(x, D, FixedPtConv(f, D), D, op)
\* has Width - D bits behind the point
Reciprocal(x) == Wrapped(fixedpt_recip(x) * 4)
\* A double of M bits drops what is below them; the result is in units of 2^-D.
FixedPtConvd(x, D, M) ==
  LET smin == IF D > M THEN D - M ELSE 0
  IN  Shr(x, D) * 2^D + Shr(x % 2^D, smin) * 2^smin

(***************************************************************************)
(* Dual<T, O>: the value and its first O derivatives.                      *)
(***************************************************************************)
Low(d) == SubSeq(d, 1, Len(d) - 1)
Dx(d) == Tail(d)
Const(k, n) == [i \in 1..n |-> IF i = 1 THEN k ELSE 0]
DualPlus(l, r, sign) == [i \in DOMAIN l |-> l[i] + sign * r[i]]
RECURSIVE DualTimes(_, _)
DualTimes(l, r) ==
  <<l[1] * r[1]>> \o (IF Len(l) = 1 THEN <<>> ELSE DualPlus(DualTimes(Dx(l), Low(r)), DualTimes(Dx(r), Low(l)), 1))
RECURSIVE DualOver(_, _)
DualOver(l, r) ==
  <<Quot(l[1], r[1])>> \o
    (IF Len(l) = 1 THEN <<>>
     ELSE DualOver(DualPlus(DualTimes(Dx(l), Low(r)), DualTimes(Dx(r), Low(l)), -1), DualTimes(Low(r), Low(r))))
RECURSIVE DualPow(_, _)
DualPow(d, k) ==
  <<IF k = 0 THEN 1 ELSE d[1]^k>> \o (IF Len(d) = 1 THEN <<>> ELSE DualTimes(DualTimes(Dx(d), Const(k, Len(d) - 1)), DualPow(Low(d), k - 1)))
DualAbs(d) == LET s == IF d[1] > 0 THEN 1 ELSE IF d[1] < 0 THEN -1 ELSE 0
              IN  <<Magnitude(d[1])>> \o DualTimes(Dx(d), Const(s, Len(d) - 1))
-----------------------------------------------------------------------------
Scale == 12
IsLeap(y) == y % 4 = 0 /\ (y % 100 # 0 \/ y % 400 = 0)
Days(y, m) == IF m = 2 THEN 28 + Fact(IsLeap(y)) ELSE 30 + Fact(m \in {1, 3, 5, 7, 8, 10, 12})
NextDate(y, m, d) == CASE d < Days(y, m) -> <<y, m, d + 1>>
                       [] d = Days(y, m) /\ m < 12 -> <<y, m + 1, 1>>
                       [] OTHER -> <<y + 1, 1, 1>>
\* Where the bits of a float of w bits stand on the line of floats.
Position(i, w) == IF i >= 0 THEN i ELSE -(i + 2^(w - 1))
Infinity(w) == 2^(w - 1) - 8
FloatBits(w) == {i \in SignedWord(w) : Magnitude(Position(i, w)) <= Infinity(w)}

BitInputs ==
  {<<"limit", b>> : b \in 1..64} \cup {<<"word", v>> : v \in Word(8)}
  \cup {<<"range", low, high>> : low \in -7..7, high \in -7..7}
  \cup {<<"field", v, g>> : v \in Word(4), g \in Word(4)}
  \cup {<<"setbit", v, b>> : v \in Word(4), b \in 0..3}
  \cup {<<"divide", i, d>> : i \in -9..9, d \in 1..4}
  \cup {<<"floats", a, b>> : a \in FloatBits(6), b \in FloatBits(6)}
  \cup {<<"multiply", x, y>> : x \in Word(4), y \in Word(4)}
  \cup {<<"date", y, m>> : y \in {-401, -400, -1, 0, 1900, 1970, 2000, 2023, 2024}, m \in 1..12}
  \cup {<<"average", a, b, c>> : a \in -2..2, b \in -2..2, c \in -2..2}
  \cup {<<"dist", x, y>> : x \in -5..5, y \in 0..5}

\* What each function should compute, said without its trick.
BitRight(q) ==
  CASE q[1] = "limit" ->
         LET b == q[2]
         IN  \* a width of whole bytes that is no power of two gets too small a type
             /\ b % 8 # 0 \/ b \in {8, 16, 32, 64} => 8 * Bytes(b) >= b /\ Bytes(b) \in {1, 2, 4, 8}
             /\ b <= 16 => /\ BitLimit(b).UNSIGNED_MAX = 2^b - 1
                           /\ BitLimit(b).SIGNED_MIN = -(2^(b - 1))
                           /\ BitLimit(b).SIGNED_MAX = 2^(b - 1) - 1
    [] q[1] = "word" ->
         LET v == q[2]
             top == IF v = 0 THEN 0 ELSE Max(BitsOf(v))
         IN  /\ BitCount(v, 8) = Cardinality(BitsOf(v)) /\ BitCount(v * 257, 16) = 2 * BitCount(v, 8)
             /\ Log2(v, 8) = top /\ Log2(v * 64 + 5, 16) = (IF v = 0 THEN 2 ELSE top + 6)
             /\ v \in {2^b : b \in 0..7} => Log2p2(v, 8) = top
             /\ v > 0 => NextPow2(v, 8) = Trunc(Min({2^b : b \in {e \in 0..8 : 2^e >= v}}), 8)
             /\ IntFastSqrt(v, 4) = Max({r \in 0..16 : r * r <= v})
             /\ bun_Abs(Signed(v, 8), 8) = Magnitude(Signed(v, 8))
             /\ Negate(v, 1, 8) = Signed(-v, 8) /\ Negate(v, 0, 8) = Signed(v, 8)
             /\ tsign(Signed(v, 8), 8) = IF v >= 128 THEN -1 ELSE 1
             /\ v < 249 => NextMultiple(v, 7, 8) \in v..v + 7 /\ NextMultiple(v, 7, 8) % 8 = 0
    [] q[1] = "range" -> q[2] <= q[3] =>
         GetBitRange(q[2], q[3], 8) = OfBits({b % 8 : b \in q[2]..q[3]})
    [] q[1] = "setbit" ->
         /\ \A v \in BOOLEAN : BitsOf(SetBit(q[2], GetBitMask(q[3], 4), v, 4))
                                 = IF v THEN BitsOf(q[2]) \cup {q[3]} ELSE BitsOf(q[2]) \ {q[3]}
         /\ GetBit(<<0, q[2]>>, 4 + q[3], 4) <=> q[3] \in BitsOf(q[2])
    [] q[1] = "field" ->
         LET v == BitsOf(q[2])
             g == BitsOf(q[3])
         IN  /\ \A r \in Word(4) : BitsOf(GroupAssign(q[2], q[3], r, 4)) = (v \ g) \cup (BitsOf(r) \cap g)
             \* a value with bits outside of the mask flips those
             /\ \A r \in Word(4) : BitsOf(r) \subseteq g => FieldSet(q[2], r, q[3]) = GroupAssign(q[2], q[3], r, 4)
             /\ BitsOf(FieldPlus(q[2], q[3])) = v \cup g /\ BitsOf(FieldMinus(q[2], q[3], 4)) = v \ g
             /\ \A b \in 0..3 :
                  /\ BitsOf(RefFlip(q[2], 2^b)) = BitsOf(RefAssign(q[2], 2^b, b \notin v, 4))
                  /\ Incremented(<<0, 2^b>>, 4) = <<(b + 1) \div 4, 2^((b + 1) % 4)>>
                  /\ Decremented(Incremented(<<0, 2^b>>, 4), 4) = <<0, 2^b>>
    [] q[1] = "divide" -> IntDiv(q[2], q[3]) = q[2] \div q[3] /\ Mod(q[2], q[3]) = q[2] % q[3]
    [] q[1] = "floats" ->
         LET far == Magnitude(Position(q[2], 6) - Position(q[3], 6))
         IN  \A d \in 0..3 : /\ fCompare(q[2], q[3], d, 6) <=> far <= d
                             /\ fCompareSmall(q[2], q[3], 0, d, 6)
                                  <=> far <= IF 0 \in {Position(q[2], 6), Position(q[3], 6)} THEN d ELSE 0
    [] q[1] = "multiply" ->
         \A s \in 0..7 :
           /\ MultiplyExtractHalves(q[2], q[3], s, FALSE, 4) = MultiplyExtract(q[2], q[3], s, 4)
           /\ MultiplyExtractHalves(Signed(q[2], 4), Signed(q[3], 4), s, TRUE, 4)
                = MultiplyExtract(Signed(q[2], 4), Signed(q[3], 4), s, 4)
    [] q[1] = "date" ->
         /\ DaysFromCivil(1970, 1, 1) = 0
         /\ \A d \in 1..Days(q[2], q[3]) :
              LET next == NextDate(q[2], q[3], d)
              IN  DaysFromCivil(next[1], next[2], next[3]) = DaysFromCivil(q[2], q[3], d) + 1
    [] q[1] = "average" ->
         LET two == Avg(Avg(0, Scale * q[2], 1), Scale * q[3], 2)
         IN  2 * two = Scale * (q[2] + q[3]) /\ 3 * Avg(two, Scale * q[4], 3) = Scale * (q[2] + q[3] + q[4])
    [] q[1] = "dist" ->
         LET d == Dist(q[2], 0, 0, q[3], 4)
         IN  d * d <= q[2] * q[2] + q[3] * q[3] /\ (d + 1) * (d + 1) > q[2] * q[2] + q[3] * q[3]
Tiny == {-3, -1, 0, 2}
Duals == {<<x, y, z>> : x \in Tiny, y \in Tiny, z \in {-2, 0, 1}}
Inputs == [t : {"rational"}, n : -6..6, d : {-4, -3, 1, 2, 6}, m : -4..4, e : {-6, 1, 3, 4}]
          \cup [t : {"fixed"}, x : -90..90, D : {2, 3}, y : {-37, -8, -3, 1, 2, 5, 16, 60}, B : 1..3]
          \cup [t : {"dual"}, l : Duals, r : Duals]

Lowest(r) == r.d > 0 /\ (IF r.n = 0 THEN r.d = 1 ELSE GCD(r.n, r.d) = 1)
Is(r, n, d) == Lowest(r) /\ r.n * d = n * r.d

\* Every operation on two fractions in lowest terms gives the one that is right, in
\* lowest terms, and the comparisons with an integer are those of the fractions.
RationalRight(n, d, m, e) ==
  LET l == Simplify(n, d)
      r == Simplify(m, e)
  IN  /\ Is(l, n, d)
      /\ Is(Plus(l, r, 1), l.n * r.d + r.n * l.d, l.d * r.d) /\ Is(Plus(l, r, -1), l.n * r.d - r.n * l.d, l.d * r.d)
      /\ Is(Times(l, r), l.n * r.n, l.d * r.d)
      /\ m # 0 => Is(Over(l, r), l.n * r.d, l.d * r.n)
      /\ Is(PlusWhole(l, m), l.n + m * l.d, l.d) /\ Is(TimesWhole(l, m), l.n * m, l.d)
      /\ m # 0 => Is(OverWhole(l, m), l.n, l.d * m)
      /\ Is(WholeMinus(m, l), m * l.d - l.n, l.d)
      /\ n # 0 => Is(WholeOver(m, l), m * l.d, l.n)
      /\ LessWhole(l, m) <=> LessThan(l, Whole(m))
      /\ GreaterWhole(l, m) <=> LessThan(Whole(m), l)
      /\ AtMostWhole(l, m) <=> ~LessThan(Whole(m), l)
      /\ AtLeastWhole(l, m) <=> ~LessThan(l, Whole(m))
      /\ Truncate(AbsFraction(l)) = Magnitude(Truncate(l))

\* Whatever fits comes out as the exact result rounded down, a quotient rounded to 0; the
\* quotient of 64 bits is off by no more than its reciprocal was rounded.
InRange(v) == v = Wrapped(v)
FixedRight(x, D, y, B) ==
  LET shifted == IF D >= B THEN y * 2^(D - B) ELSE y \div 2^(B - D)
  IN  /\ InRange(shifted) /\ InRange(x + shifted) => FixedBy(x, D, y, B, "+") = x + shifted
      /\ InRange((x * y) \div 2^B) => FixedBy(x, D, y, B, "*") = (x * y) \div 2^B
      /\ InRange(Quot(x * 2^B, y)) =>
           LET q == FixedBy(x, D, y, B, "/")
               off == fixedpt_div64(x, y, B) - q
           IN  /\ Magnitude(x * 2^B - q * y) < Magnitude(y) /\ (q = 0 \/ (q < 0) = ((x < 0) # (y < 0)))
               /\ Magnitude(off) <= 1 + Magnitude(x) \div 2^(Width - 2 - B)
      /\ Magnitude(y) > 2 => LET p == Reciprocal(y) * y IN p <= 2^Width /\ p > 2^Width - 4 * Magnitude(y)
      /\ ToInt(x, D) = x \div 2^D /\ ToInt(OfInt(y, 1), 1) = y
      /\ Converted(Converted(x, 1, 0), 0, 1) = x \/ ~InRange(2 * x)
      /\ FixedPtConvd(x, D, 9) = x /\ x - FixedPtConvd(x, D, 1) \in 0..2^(D - 1) - 1
      /\ FixedPtConv(x, 4) = x
      \* what is taken away can be put back, a number or a float in sixteenths
      /\ FixedBy(FixedBy(x, D, y, B, "-"), D, y, B, "+") = x \/ (D < B /\ y % 2^(B - D) # 0)
      /\ FixedByFloat(FixedByFloat(x, D, y, "-"), D, y, "+") = x
      /\ InRange(8 * x) => FixedByFloat(FixedByFloat(x, D, 4, "/"), D, 4, "*") = x

\* The product rule, and that quotients and powers are those of products.
DualRight(l, r) ==
  LET p == DualTimes(l, r)
  IN  /\ p = <<l[1] * r[1], l[2] * r[1] + l[1] * r[2], l[3] * r[1] + 2 * l[2] * r[2] + l[1] * r[3]>>
      /\ r[1] # 0 => DualOver(p, r) = l
      /\ DualPow(l, 2) = DualTimes(l, l) /\ DualPow(l, 3) = DualTimes(DualPow(l, 2), l)
      /\ l[1] # 0 => DualTimes(DualAbs(l), DualAbs(l)) = DualPow(l, 2)

Right(q) == CASE q.t = "rational" -> RationalRight(q.n, q.d, q.m, q.e)
              [] q.t = "fixed" -> FixedRight(q.x, q.D, q.y, q.B)
              [] q.t = "dual" -> DualRight(q.l, q.r)
-----------------------------------------------------------------------------
(* algo.h and AliasTable.h.  A curve is over whole numbers, and so is its  *)
(* parameter; where the code divides the result is a fraction or is kept   *)
(* that many times as large.                                               *)
F(n) == Whole(n)
Add(l, r) == Plus(l, r, 1)
Subtract(l, r) == Plus(l, r, -1)
Sum(s) == Seqs!FoldLeft(LAMBDA a, b : a + b, 0, s)
-----------------------------------------------------------------------------
\* The searches, over sequences of numbers whose indices count from 0 as in the code.
None == -1

\* BinarySearchNear on c candidates from index first: before tells an upper bound from
\* a lower one.
RECURSIVE Near(_, _, _, _, _)
Near(before, arr, data, first, c) ==
  LET m == first + c \div 2
      below == IF before THEN arr[m + 1] <= data ELSE arr[m + 1] < data
  IN  IF c <= 0 THEN first
      ELSE IF below THEN Near(before, arr, data, m + 1, c - c \div 2 - 1)
      ELSE Near(before, arr, data, first, c \div 2)

SearchBefore(arr, data) == Near(TRUE, arr, data, 0, Len(arr)) - 1
SearchAfter(arr, data) == Near(FALSE, arr, data, 0, Len(arr))

\* BinarySearchExact between the indices f and l, both inclusive.
RECURSIVE ExactIn(_, _, _, _)
ExactIn(arr, data, f, l) ==
  LET m == f + (l - f) \div 2
  IN  IF l < f THEN None
      ELSE IF arr[m + 1] < data THEN ExactIn(arr, data, m + 1, l)
      ELSE IF arr[m + 1] > data THEN ExactIn(arr, data, f, m - 1)
      ELSE m
SearchExact(arr, data) == ExactIn(arr, data, 0, Len(arr) - 1)
-----------------------------------------------------------------------------
\* bun_rand of a canonical number k / 16.
bun_rand(min, max, k) == min + (k * (max - min)) \div 16

\* Shuffle with the numbers that bun_rand gives: choice[i] is below i.
RECURSIVE Shuffled(_, _, _)
Shuffled(p, i, choice) ==
  IF i = 0 THEN p
  ELSE Shuffled([p EXCEPT ![i] = p[choice[i] + 1], ![choice[i] + 1] = p[i]], i - 1, choice)
Shuffle(p, choice) == Shuffled(p, Len(p), choice)
Draws(n) == {c \in [1..n -> 0..n] : \A i \in 1..n : c[i] < i}

\* AliasTable: weights times their number n, so that the average is their sum; prob is in
\* parts of the sum.  Both stacks are filled in order and used from their ends.
RECURSIVE Matched(_, _, _)
Matched(t, small, large) ==
  IF small = <<>> \/ large = <<>>
  THEN [t EXCEPT !.prob = [i \in DOMAIN @ |-> IF \E k \in DOMAIN (small \o large) : (small \o large)[k] = i
                                              THEN t.average ELSE t.prob[i]]]
  ELSE LET l == small[Len(small)]
           g == large[Len(large)]
           left == (t.weight[g] + t.weight[l]) - t.average
           u == [t EXCEPT !.prob[l] = t.weight[l], !.alias[l] = g, !.weight[g] = left]
       IN  IF left >= t.average THEN Matched(u, Seqs!Front(small), large)
           ELSE Matched(u, Append(Seqs!Front(small), g), Seqs!Front(large))
AliasTable(p) ==
  LET n == Len(p)
      t == [weight |-> [i \in 1..n |-> p[i] * n], average |-> Sum(p),
            prob |-> [i \in 1..n |-> 0], alias |-> [i \in 1..n |-> 0]]
      AtLeast(yes) == SelectSeq([i \in 1..n |-> i], LAMBDA i : (t.weight[i] >= t.average) = yes)
  IN  Matched(t, AtLeast(FALSE), AtLeast(TRUE))
\* Get: the part of the column c that is its own, and the part that is its alias'.
GetWeight(t, i) ==
  Sum([c \in DOMAIN t.prob |-> IF c = i THEN t.prob[c] ELSE 0])
    + Sum([c \in DOMAIN t.prob |-> IF t.alias[c] = i THEN t.average - t.prob[c] ELSE 0])

\* StochasticSubdivider by a plan: <<>> stops at a rectangle, and <<k, p, q>> cuts it at k
\* halves of its side.  The leaves in the order of the calls.
RECURSIVE StochasticSubdivider(_, _, _)
StochasticSubdivider(rect, plan, depth) ==
  LET axis == depth % 2
      div == ((2 - plan[1]) * rect[axis + 1] + plan[1] * rect[axis + 3]) \div 2
  IN  IF plan = <<>> THEN <<rect>>
      ELSE StochasticSubdivider([rect EXCEPT ![axis + 1] = div], plan[2], depth + 1)
             \o StochasticSubdivider([rect EXCEPT ![axis + 3] = div], plan[3], depth + 1)
Plans == {<<>>} \cup {<<k, <<>>, <<>>>> : k \in 0..2}
Cells(r) == {<<x, y>> \in (0..3) \X (0..3) : x >= r[1] /\ x < r[3] /\ y >= r[2] /\ y < r[4]}
-----------------------------------------------------------------------------
\* BreadthFirstTree: a tree is a function from node to its children, Null where there is
\* none; the queue is a ring of n \div 2 + 1 nodes.  What is visited, and the most that waited.
Null == 0
RECURSIVE Visit(_, _, _, _, _)
Visit(tree, queue, i, l, most) ==
  LET n == Len(queue)
      cur == queue[i + 1]
      q1 == [queue EXCEPT ![l + 1] = tree[cur][1]]
      l1 == (l + IF q1[l + 1] # Null THEN 1 ELSE 0) % n
      q2 == [q1 EXCEPT ![l1 + 1] = tree[cur][2]]
      l2 == (l1 + IF q2[l1 + 1] # Null THEN 1 ELSE 0) % n
      waiting == ((l + n - i) % n) + Cardinality({d \in {1, 2} : tree[cur][d] # Null})
  IN  IF i = l THEN [seen |-> <<>>, most |-> most]
      ELSE LET rest == Visit(tree, q2, (i + 1) % n, l2, IF waiting > most THEN waiting ELSE most)
           IN  [rest EXCEPT !.seen = <<cur>> \o @]
BreadthFirstTree(tree, root, n) ==
  IF n = 0 THEN [seen |-> <<>>, most |-> 0]
  ELSE IF n = 1 THEN [seen |-> <<root>>, most |-> 0]
  ELSE Visit(tree, [k \in 1..n \div 2 + 1 |-> IF k = 1 THEN root ELSE Null], 0, 1, 0)

RECURSIVE Levels(_, _)
Levels(tree, level) ==
  IF level = <<>> THEN <<>>
  ELSE level \o Levels(tree, SelectSeq(Seqs!FoldLeft(LAMBDA s, x : s \o tree[x], <<>>, level), LAMBDA x : x # Null))
\* The trees of the nodes 1..n in which a child comes after its parent.
Trees(n) ==
  {[x \in 1..n |-> [d \in 1..2 |-> IF \E y \in 2..n : up[y] = <<x, d>> THEN CHOOSE y \in 2..n : up[y] = <<x, d>> ELSE Null]] :
     up \in {u \in [2..n -> (1..n) \X {1, 2}] : /\ \A y \in 2..n : u[y][1] < y
                                             /\ \A y, z \in 2..n : u[y] = u[z] => y = z}}
-----------------------------------------------------------------------------
\* The splines, times 2 and 6 as each divides.
UniformQuadraticBSpline(t, p) == p[1] * (1 - 2 * t + t * t) + p[2] * (1 + 2 * t - 2 * t * t) + p[3] * t * t
UniformCubicBSpline(t, p) ==
  LET t2 == t * t
      t3 == t2 * t
  IN  p[1] * (1 - 3 * t + 3 * t2 - t3) + p[2] * (4 - 6 * t2 + 3 * t3) + p[3] * (1 + 3 * t + 3 * t2 - 3 * t3) + p[4] * t3
CubicBSpline(t, p) ==
  LET t2 == t * t
      t3 == t2 * t
  IN  p[1] * (2 * t2 - t3 - t) + p[2] * (3 * t3 - 5 * t2 + 2) + p[3] * (4 * t2 - 3 * t3 + t) + p[4] * (t3 - t2)

\* StaticGenericSpline: column i of the matrix weighs p[i].
StaticGenericSpline(m, t, p) ==
  Sum([i \in 1..4 |-> p[i] * (m[1][i] * t * t * t + m[2][i] * t * t + m[3][i] * t + m[4][i])])
BezierMatrix == <<<<-1, 3, -3, 1>>, <<3, -6, 3, 0>>, <<-3, 3, 0, 0>>, <<1, 0, 0, 0>>>>
BezierCurve(t, p) == StaticGenericSpline(BezierMatrix, t, p)
\* The matrices in the comments above the cubic splines.
UniformCubicMatrix == <<<<-1, 3, -3, 1>>, <<3, -6, 3, 0>>, <<-3, 0, 3, 0>>, <<1, 4, 1, 0>>>>
CubicMatrix == <<<<-1, 3, -3, 1>>, <<2, -5, 4, -1>>, <<-1, 0, 1, 0>>, <<0, 2, 0, 0>>>>
QuadraticBezierCurve(t, p) == (1 - t) * (1 - t) * p[1] + 2 * (1 - t) * t * p[2] + t * t * p[3]

lerp(a, b, num, den) == ((den - num) * a + num * b) \div den
\* SplitCubic and SplitQuadratic at num / den: the points of both parts.
SplitCubic(num, den, P) ==
  LET L(a, b) == lerp(a, b, num, den)
      N1 == L(P[1], P[2])
      M == L(P[2], P[3])
      R2 == L(P[3], P[4])
      N2 == L(N1, M)
      R1 == L(M, R2)
      N3 == L(N2, R1)
  IN  <<<<P[1], N1, N2, N3>>, <<N3, R1, R2, P[4]>>>>
SplitQuadratic(num, den, P) ==
  LET L(a, b) == lerp(a, b, num, den)
      N1 == L(P[1], P[2])
      R1 == L(P[2], P[3])
      N2 == L(N1, R1)
  IN  <<<<P[1], N1, N2>>, <<N2, R1, P[3]>>>>

\* ApproxCubicError, squared and without its constant factor, of points in the plane.
Each(P, axis) == [i \in DOMAIN P |-> P[i][axis]]
ErrorTerm(P) == 3 * P[2] - 3 * P[3] - P[1] + P[4]
ApproxCubicError(P) == ErrorTerm(Each(P, 1)) * ErrorTerm(Each(P, 1)) + ErrorTerm(Each(P, 2)) * ErrorTerm(Each(P, 2))
Planar(x, y) == [i \in DOMAIN x |-> <<x[i], y[i]>>]
Quadratic(P) == LET C(axis) == (3 * (P[3][axis] + P[2][axis]) - P[4][axis] - P[1][axis]) \div 4
                IN  <<P[1], <<C(1), C(2)>>, P[4]>>
\* ApproxCubicR for t[0] = a / den, t[1] = b / den, t[2] = c / den: the quadratics given to fn.
RECURSIVE ApproxCubicR(_, _, _, _, _, _)
ApproxCubicR(a, b, c, den, P, maxerror) ==
  LET xs == SplitCubic(b, den, Each(P, 1))
      ys == SplitCubic(b, den, Each(P, 2))
      Part(k) == Planar(xs[k], ys[k])
      Approximated(k, from, to) ==
        IF ApproxCubicError(Part(k)) > maxerror
        THEN ApproxCubicR(2 * from, from + to, 2 * to, 2 * den, Part(k), maxerror)
        ELSE <<Quadratic(Part(k))>>
  IN  Approximated(1, a, b) \o Approximated(2, b, c)
-----------------------------------------------------------------------------
\* QuadraticFit of three points, and QuadraticCanonicalFit, at t.
QuadraticFit(t, x, y) ==
  LET A == Simplify((y[2] - y[1]) * (x[1] - x[3]) + (y[3] - y[1]) * (x[2] - x[1]),
                      (x[1] - x[3]) * (x[2] * x[2] - x[1] * x[1]) + (x[2] - x[1]) * (x[3] * x[3] - x[1] * x[1]))
      B == Over(Subtract(F(y[2] - y[1]), Times(A, F(x[2] * x[2] - x[1] * x[1]))), F(x[2] - x[1]))
      C == Subtract(Subtract(F(y[1]), Times(A, F(x[1] * x[1]))), Times(B, F(x[1])))
  IN  Add(Add(Times(A, F(t * t)), Times(B, F(t))), C)
QuadraticCanonicalFit(t, x1, x2, x3) ==
  LET s == Simplify(t - x1, x3 - x1)
      x == Simplify(x2 - x1, x3 - x1)
      H == Simplify(1, 2)
      At(A) == Add(Times(A, Times(s, s)), Times(Subtract(Over(H, x), Times(A, x)), s))
  IN  Add(Times(At(Over(Subtract(x, H), Subtract(x, Times(x, x)))), F(x3 - x1)), F(x1))

\* FastSqrt of a square and cbrt of a cube, whole or of a fraction; both are the library's.
Root(n) == CHOOSE k \in 0..200 : k * k = n
SolveQuadratic(a, b, c) ==
  LET d == Root(b * b - 4 * a * c) IN <<Simplify(-b - d, 2 * a), Simplify(d - b, 2 * a)>>
CubicInflectionPoints(P0, P1, P2, P3) ==
  LET a == [i \in 1..2 |-> P1[i] - P0[i]]
      b == [i \in 1..2 |-> P2[i] - P1[i] - a[i]]
      c == [i \in 1..2 |-> P3[i] - P2[i] - a[i] - 2 * b[i]]
  IN  [A |-> b[1] * c[2] - b[2] * c[1], B |-> a[1] * c[2] - a[2] * c[1], C |-> a[1] * b[2] - a[2] * b[1]]
Square(n) == n >= 0 /\ \E k \in 0..60 : k * k = n

Cubed(k) == k * k * k
\* solveCubic of one root, for coefficients whose roots on the way are whole.
solveCubic(at, bt, ct, dt) ==
  LET a == bt \div at
      b == ct \div at
      c == dt \div at
      p == b - (a * a) \div 3
      q == (a * (2 * a * a - 9 * b)) \div 27 + c
      d == q * q + (4 * p * p * p) \div 27
      z == Root(d)
      Cbrt(n) == CHOOSE k \in -20..20 : Cubed(k) = n
  IN  -(a \div 3) + Cbrt((z - q) \div 2) + Cbrt((-q - z) \div 2)

\* NewtonRaphson of a polynomial c[1] + c[2] x + ..: the outcome after the iterations.
Poly(c, x) == Seqs!FoldRight(LAMBDA k, r : Add(F(k), Times(r, x)), c, F(0))
Derived(c) == [i \in 1..Len(c) - 1 |-> i * c[i + 1]]
Small(f, den) == AbsFraction(f).n * den <= f.d     \* fSmall with 1 / den
Tangent(c, x) == Subtract(x, Over(Poly(c, x), Poly(Derived(c), x)))
RECURSIVE NewtonRaphson(_, _, _, _)
NewtonRaphson(c, x, den, k) ==
  IF k = 0 THEN [ok |-> FALSE, x |-> x]
  ELSE IF Small(Poly(c, x), den) THEN [ok |-> TRUE, x |-> x]
  ELSE NewtonRaphson(c, Tangent(c, x), den, k - 1)
\* The point, or the middle of the interval where it is not inside.
Inside(y, lo, hi) ==
  IF LessThan(lo, y) /\ LessThan(y, hi) THEN y ELSE Times(Simplify(1, 2), Add(lo, hi))
RECURSIVE NewtonRaphsonBisection(_, _, _, _, _, _)
NewtonRaphsonBisection(c, x, min, max, den, k) ==
  LET above == Poly(c, x).n > 0
      lo == IF above THEN min ELSE x
      hi == IF above THEN x ELSE max
  IN  IF k = 0 \/ Small(Poly(c, x), den) THEN x
      ELSE NewtonRaphsonBisection(c, Inside(Tangent(c, x), lo, hi), lo, hi, den, k - 1)

\* GaussianQuadrature for N = 1, 2 and 3 of a polynomial, with numbers a + b * root: the
\* points are 0, +- root / 3 of root 3 and +- root / 5 of root 15; times the weights' 9.
Mul(l, r, root2) == <<l[1] * r[1] + root2 * l[2] * r[2], l[1] * r[2] + l[2] * r[1]>>
Value(c, x, root2) == Seqs!FoldRight(LAMBDA k, r : LET m == Mul(r, x, root2) IN <<m[1] + k, m[2]>>, c, <<0, 0>>)
Points == <<<<0>>, <<-1, 1>>, <<0, -1, 1>>>>
Weights == <<<<18>>, <<9, 9>>, <<8, 5, 5>>>>
GaussianQuadrature(n, a, b, c) ==
  LET scale == (b - a) \div 2
      avg == (a + b) \div 2
      root2 == IF n = 2 THEN 3 ELSE 15
      part == IF n = 2 THEN 3 ELSE 5
      At(i) == Value(c, <<avg, (scale * Points[n][i]) \div part>>, root2)
  IN  [k \in 1..2 |-> scale * Sum([i \in 1..n |-> Weights[n][i] * At(i)[k]])]
-----------------------------------------------------------------------------
\* The table of Base64Encode, as characters, and the one of Base64Decode.
Code(v) == CASE v < 26 -> 65 + v
             [] v \in 26..51 -> 97 + v - 26
             [] v \in 52..61 -> 48 + v - 52
             [] v = 62 -> 45
             [] v = 63 -> 95
Map(ch) == CASE ch \in 65..90 -> ch - 65
             [] ch \in 97..122 -> ch - 97 + 26
             [] ch \in 48..57 -> ch - 48 + 52
             [] ch = 45 -> 62
             [] ch = 95 -> 63
             [] OTHER -> 0
\* The bits of two bytes side by side that make a digit, and back.
Base64Encode(src) ==
  LET cnt == Len(src)
      Of(i) == LET g == 3 * (i \div 4) \* the group, and the byte that digit i begins in
                   B(k) == IF g + k < cnt THEN src[g + k + 1] ELSE 0
               IN  CASE i % 4 = 0 -> B(0) \div 4
                     [] i % 4 = 1 -> (B(0) % 4) * 16 + B(1) \div 16
                     [] i % 4 = 2 -> (B(1) % 16) * 4 + B(2) \div 64
                     [] i % 4 = 3 -> B(2) % 64
      cn == (cnt \div 3) * 4 + (cnt % 3) + IF cnt % 3 # 0 THEN 1 ELSE 0
  IN  [i \in 1..cn |-> Code(Of(i - 1))]
Base64Decode(src) ==
  LET cnt == Len(src)
      cn == (cnt \div 4) * 3 + (cnt % 4) - IF cnt % 4 # 0 THEN 1 ELSE 0
      M(k) == Map(src[k + 1])
      Of(c) == LET g == 4 * (c \div 3)
               IN  CASE c % 3 = 0 -> M(g) * 4 + M(g + 1) \div 16
                     [] c % 3 = 1 -> M(g + 1) * 16 + M(g + 2) \div 4
                     [] c % 3 = 2 -> M(g + 2) * 64 + M(g + 3)
  IN  IF cnt % 4 = 1 THEN <<>> ELSE [c \in 1..cn |-> Of(c - 1) % 256]
-----------------------------------------------------------------------------
Ends == {-1, 0, 2}
SampleBytes == {0, 27, 150, 255}
AlgoInputs ==
  [f : {"shuffle"}, n : 0..4] \cup [f : {"tree"}, n : 1..5] \cup [f : {"rand"}, min : {-3, 0}, max : {1, 5}, k : 0..15]
  \cup [f : {"alias"}, p : UNION {[1..n -> 0..3] : n \in 1..4}]
  \cup [f : {"rects"}, k : 0..2, p : Plans, q : Plans]
  \cup [f : {"cubic"}, p : [1..4 -> Ends], t : -1..2]
  \cup [f : {"approx"}, p : [1..3 -> {0, 512} \X {0, 512}], limit : {512 * 512, 1200 * 1200}]
  \cup [f : {"fit"}, x : {x \in [1..3 -> {0, 1, 3}] : x[1] # x[2] /\ x[2] # x[3] /\ x[1] # x[3]}, y : [1..3 -> Ends]]
  \cup [f : {"roots"}, a : {-2, 1, 3}, b : -5..5, c : -4..4]
  \cup [f : {"inflection"}, p : [1..3 -> {-1, 0, 2} \X {0, 1, 3}]]
  \cup [f : {"newton"}, c : [1..2 -> {-2, 1, 3}] \cup {<<k, 0, 1>> : k \in {-1, -2, -4}}, x : 1..2]
  \cup [f : {"quadrature"}, c : [1..4 -> {-1, 0, 2}], avg : {0, 1}]
  \cup [f : {"base64"}, b : UNION {[1..n -> SampleBytes] : n \in 0..4} \cup {<<7, 255, 0, 129, 64, x, y>> : x \in SampleBytes, y \in SampleBytes}]

\* As many orders as there are choices: none is more likely than another.
ShuffleRight(n) ==
  LET p == [i \in 1..n |-> i]
      orders == {Shuffle(p, c) : c \in Draws(n)}
  IN  /\ Cardinality(orders) = Cardinality(Draws(n))
      /\ \A s \in orders : {s[i] : i \in 1..n} = 1..n

AliasRight(p) == LET t == AliasTable(p)
                 IN  Sum(p) > 0 => /\ \A i \in DOMAIN p : GetWeight(t, i) = p[i] * Len(p) /\ t.prob[i] <= t.average
                                   /\ \A i \in DOMAIN p : t.prob[i] < t.average => t.alias[i] \in DOMAIN p

RectsRight(plan) ==
  LET leaves == StochasticSubdivider(<<0, 0, 4, 4>>, plan, 0)
  IN  \A cell \in (0..3) \X (0..3) : Cardinality({i \in DOMAIN leaves : cell \in Cells(leaves[i])}) = 1

\* Each node once and level by level, when no more wait than the ring has places and one.
TreeRight(n) == \A t \in Trees(n) : LET v == BreadthFirstTree(t, 1, n)
                                    IN  v.most <= n \div 2 + 1 => v.seen = Levels(t, <<1>>)

\* The formulas are the matrices of their comments, join where two segments meet, and split
\* into parts of the same curve.
CubicRight(p, t) ==
  LET next == Append(Tail(p), t)
      parts == SplitCubic(t, 1, p)
      q == SubSeq(p, 1, 3)
      halves == SplitQuadratic(t, 1, q)
  IN  /\ UniformCubicBSpline(t, p) = StaticGenericSpline(UniformCubicMatrix, t, p)
      /\ CubicBSpline(t, p) = StaticGenericSpline(CubicMatrix, t, p)
      /\ UniformQuadraticBSpline(1, q) = UniformQuadraticBSpline(0, SubSeq(next, 1, 3))
      /\ UniformCubicBSpline(1, p) = UniformCubicBSpline(0, next)
      /\ CubicBSpline(1, p) = 2 * p[3] /\ CubicBSpline(0, p) = 2 * p[2]
      /\ \A u \in {-1, 0, 1, 3} : /\ BezierCurve(u, parts[1]) = BezierCurve(u * t, p)
                                  /\ BezierCurve(u, parts[2]) = BezierCurve(t + u * (1 - t), p)
                                  /\ QuadraticBezierCurve(u, halves[1]) = QuadraticBezierCurve(u * t, q)
                                  /\ QuadraticBezierCurve(u, halves[2]) = QuadraticBezierCurve(t + u * (1 - t), q)

\* The quadratics lead from the first point to the last without a gap.
ApproxRight(points, limit) ==
  LET P == <<<<0, 0>>>> \o points
  IN  \A qs \in {ApproxCubicR(0, 1, 2, 2, P, limit)} :
      /\ qs[1][1] = P[1] /\ qs[Len(qs)][3] = P[4] /\ Len(qs) >= 2
      /\ \A i \in 1..Len(qs) - 1 : qs[i][3] = qs[i + 1][1]
      /\ (ApproxCubicError(P) = 0 => \A i \in DOMAIN qs : \* the points of a quadratic, made a cubic
            qs[i][2] = [k \in 1..2 |-> (3 * P[2][k] - P[1][k]) \div 2] \/ Len(qs) > 1)

FitRight(x, y) ==
  /\ \A i \in 1..3 : QuadraticFit(x[i], x, y) = F(y[i])
  /\ QuadraticCanonicalFit(x[1], x[1], x[2], x[3]) = F(x[1]) /\ QuadraticCanonicalFit(x[3], x[1], x[2], x[3]) = F(x[3])
  /\ QuadraticCanonicalFit(x[2], x[1], x[2], x[3]) = Simplify(x[1] + x[3], 2)

RootsRight(a, b, c) ==
  /\ (b * b > 4 * a * c /\ Square(b * b - 4 * a * c)) =>
       LET r == SolveQuadratic(a, b, c)
       IN  r[1] # r[2] /\ \A i \in 1..2 : Poly(<<c, b, a>>, r[i]).n = 0
  \* the cubic whose depressed form has the parts b and c, moved by 1
  /\ LET p == -3 * b * c
         q == -(Cubed(b) + Cubed(c))
         x == solveCubic(a, -3 * a, a * (3 + p), a * (q - p - 1))
     IN  Cubed(x) - 3 * x * x + (3 + p) * x + (q - p - 1) = 0

\* The velocity and the acceleration are parallel at an inflection point.
InflectionRight(p) ==
  LET q == CubicInflectionPoints(<<0, 0>>, p[1], p[2], p[3])
      P == <<<<0, 0>>>> \o p
      D(t, k) == LET d == [i \in 1..3 |-> P[i + 1][k] - P[i][k]]
                 IN  [v |-> QuadraticBezierCurve(t, d), a |-> (1 - t) * (d[2] - d[1]) + t * (d[3] - d[2])]
  IN  \A t \in -2..2 : D(t, 1).v * D(t, 2).a - D(t, 2).v * D(t, 1).a = q.A * t * t + q.B * t + q.C

NewtonRight(c, x) ==
  c[2] # 0 \/ Len(c) = 3 =>
    /\ \A r \in {NewtonRaphson(c, F(x), 25, 3)} :
         /\ r.ok => Small(Poly(c, r.x), 25)
         /\ Len(c) = 2 => r.ok /\ Poly(c, r.x).n = 0
    /\ \A y \in {NewtonRaphsonBisection(c, F(x), F(0), F(5), 25, 3)} :
         /\ ~LessThan(y, F(0)) /\ ~LessThan(F(5), y)
         \* between ends of different sign each step ends closer to the root
         /\ Len(c) = 3 => LessThan(AbsFraction(Subtract(Times(y, y), F(-c[1]))), F(2)) \/ y = F(x)

\* N points are exact for polynomials of a degree below 2 N.
QuadratureRight(c, avg) ==
  \A n \in 1..3 :
    LET a == avg - (IF n = 2 THEN 3 ELSE 5)
        b == avg + (IF n = 2 THEN 3 ELSE 5)
        low == SubSeq(c, 1, IF n = 1 THEN 2 ELSE 4)
        Power(x, k) == x^k
        twelve == Sum([i \in DOMAIN low |-> low[i] * (12 \div i) * (Power(b, i) - Power(a, i))])
    IN  GaussianQuadrature(n, a, b, low) = <<(9 * twelve) \div 12, 0>>

\* What is encoded is decoded, each three bytes are four digits to the base of 64.
Base64Right(b) ==
  LET e == Base64Encode(b)
  IN  /\ Base64Decode(e) = b
      /\ \A i \in 1..Len(b) \div 3 :
           ((Map(e[4 * i - 3]) * 64 + Map(e[4 * i - 2])) * 64 + Map(e[4 * i - 1])) * 64 + Map(e[4 * i])
             = (b[3 * i - 2] * 256 + b[3 * i - 1]) * 256 + b[3 * i]

AlgoRight(q) ==
  CASE q.f = "shuffle" -> ShuffleRight(q.n)
    [] q.f = "tree" -> TreeRight(q.n)
    [] q.f = "rand" -> bun_rand(q.min, q.max, q.k) \in q.min..q.max - 1
    [] q.f = "alias" -> AliasRight(q.p)
    [] q.f = "rects" -> RectsRight(<<q.k, q.p, q.q>>)
    [] q.f = "cubic" -> CubicRight(q.p, q.t)
    [] q.f = "approx" -> ApproxRight(q.p, q.limit)
    [] q.f = "fit" -> FitRight(q.x, q.y)
    [] q.f = "roots" -> RootsRight(q.a, q.b, q.c)
    [] q.f = "inflection" -> InflectionRight(q.p)
    [] q.f = "newton" -> NewtonRight(q.c, q.x)
    [] q.f = "quadrature" -> QuadratureRight(q.c, q.avg)
    [] q.f = "base64" -> Base64Right(q.b)
=============================================================================
