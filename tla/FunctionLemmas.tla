---------------------------- MODULE FunctionLemmas ----------------------------
(***************************************************************************)
(* The pure functions that several components compute with: the cut of a   *)
(* key range into partitions, and the text of CHARACTER SET NONE columns.  *)
(*                                                                         *)
(* The cut: the partitions tile the key range, for any range of 64-bit     *)
(* keys, any number of partitions asked for and any number of cores.       *)
(*                                                                         *)
(* The text, of any length: the bytes that a literal is re-encoded into    *)
(* are the stored bytes that DuckDB would see as that literal, and no      *)
(* others: the two tables of the code are inverse to each other            *)
(* (EncodeInverts), UTF-8 writes no two texts alike (Utf8Injective), and   *)
(* reading a literal loses nothing (ReadingLosesNothing).  What the        *)
(* single-byte decoders make of stored bytes is valid UTF-8                *)
(* (TranscodedIsValid), and the two readers of UTF-8 in the code accept    *)
(* the same bytes (DecodersAgree).                                         *)
(*                                                                         *)
(* The induction over texts is over sets, from the library's theorem that  *)
(* the natural numbers are well founded; that a recursive function of the  *)
(* model is defined is shown by a solution of its equation.                *)
(***************************************************************************)
EXTENDS NoneCharset, PartitionBounds, WellFoundedInduction, TLAPS

-----------------------------------------------------------------------------
(* The cut.  The boundaries are lo + Offset(i), where Offset grows with i; *)
(* that a product too large for the cast ends up at one place, whatever    *)
(* the cast returns, is all the proof needs to know of the overflow.       *)

\* Integer division, as a quotient and a remainder.
LEMMA DivBounds ==
  ASSUME NEW a \in Int, NEW n \in Nat \ {0}
  PROVE  /\ a \div n \in Int
         /\ n * (a \div n) <= a
         /\ a < n * (a \div n) + n
OBVIOUS

LEMMA TimesMonotone ==
  ASSUME NEW a \in Int, NEW b \in Int, a <= b, NEW n \in Nat
  PROVE  n * a <= n * b
OBVIOUS

LEMMA TimesCancel ==
  ASSUME NEW a \in Int, NEW b \in Int, NEW n \in Nat \ {0}, n * a < n * b
  PROVE  a < b
OBVIOUS

LEMMA DivMonotone ==
  ASSUME NEW a \in Int, NEW b \in Int, a <= b, NEW n \in Nat \ {0}
  PROVE  a \div n <= b \div n
OBVIOUS

\* How 64-bit arithmetic wraps, on both sides of its range.
LEMMA WrapInside == \A x \in Int64 : Wrap64(x) = x
BY BoundsAssumption DEF Wrap64, Int64, IntMin

LEMMA WrapAbove ==
  \A x \in (IntMax + 1)..(2 * IntMax + 2) : Wrap64(x) = x - 2 * (IntMax + 1)
<1> SUFFICES ASSUME NEW x \in (IntMax + 1)..(2 * IntMax + 2)
             PROVE  Wrap64(x) = x - 2 * (IntMax + 1)
  OBVIOUS
<1> DEFINE m == 2 * (IntMax + 1)
<1>1. m \in Nat \ {0} /\ x - IntMin \in m..(2 * m - 1)
  BY BoundsAssumption DEF IntMin
<1>2. Wrap64(x) = ((x - IntMin) % m) + IntMin
  BY DEF Wrap64
<1> HIDE DEF m
<1>3. \A a \in m..(2 * m - 1) : a % m = a - m
  BY <1>1
<1>4. (x - IntMin) % m = x - IntMin - m
  BY <1>1, <1>3
<1> QED BY <1>1, <1>2, <1>4, BoundsAssumption DEF m, IntMin

LEMMA WrapBelow ==
  \A x \in (2 * IntMin)..(IntMin - 1) : Wrap64(x) = x + 2 * (IntMax + 1)
<1> SUFFICES ASSUME NEW x \in (2 * IntMin)..(IntMin - 1)
             PROVE  Wrap64(x) = x + 2 * (IntMax + 1)
  OBVIOUS
<1> DEFINE m == 2 * (IntMax + 1)
<1>1. m \in Nat \ {0} /\ x - IntMin \in (-m)..(-1)
  BY BoundsAssumption DEF IntMin
<1>2. Wrap64(x) = ((x - IntMin) % m) + IntMin
  BY DEF Wrap64
<1> HIDE DEF m
<1>3. \A a \in (-m)..(-1) : a % m = a + m
  BY <1>1
<1>4. (x - IntMin) % m = x - IntMin + m
  BY <1>1, <1>3
<1> QED BY <1>1, <1>2, <1>4, BoundsAssumption DEF m, IntMin

-----------------------------------------------------------------------------
(* The number of partitions.                                               *)

\* There are at most as many partitions as keys, and the automatic choice for
\* a range that does not fit in an int64_t is one.
LEMMA CountFits ==
  ASSUME NEW lo \in Int64, NEW hi \in Int64, lo <= hi,
         NEW override \in 0..IntMax, NEW hw \in Nat
  PROVE  /\ PartitionCount(lo, hi, override, hw) \in 1..(hi - lo + 1)
         /\ override = 0 /\ hi - lo + 1 > IntMax => PartitionCount(lo, hi, override, hw) = 1
<1> DEFINE width == hi - lo + 1
           range == Wrap64(width)
           n == IF override > 0 THEN override ELSE PickPartitionCount(lo, hi, hw)
<1>1. width \in 1..(2 * IntMax + 2)
  BY BoundsAssumption DEF Int64, IntMin
<1>2. PickPartitionCount(lo, hi, hw) =
        IF range < 2 * MinRows THEN 1
        ELSE Greatest(1, Least(range \div MinRows, IF hw <= 0 THEN 4 ELSE hw))
  BY DEF PickPartitionCount
<1>3. PartitionCount(lo, hi, override, hw) = IF range > 0 THEN Least(n, range) ELSE n
  BY DEF PartitionCount
<1>4. width <= IntMax => range = width
  BY <1>1, WrapInside, BoundsAssumption DEF Int64, IntMin
<1>5. width > IntMax => range <= 0 /\ range \in Int
  BY <1>1, WrapAbove, BoundsAssumption
<1> HIDE DEF width, range
<1>6. range \in Int /\ MinRows \in Nat \ {0}
  BY <1>1, <1>4, <1>5, BoundsAssumption
<1>7. PickPartitionCount(lo, hi, hw) \in Nat \ {0}
  <2>1. range \div MinRows \in Int
    BY <1>6, DivBounds
  <2> QED BY <1>2, <1>6, <2>1 DEF Greatest, Least
<1>8. range <= 0 => PickPartitionCount(lo, hi, hw) = 1
  BY <1>2, <1>6
<1>9. n \in Nat \ {0} /\ (override > 0 => n <= IntMax)
  BY <1>7, BoundsAssumption
<1>10. override = 0 => n = PickPartitionCount(lo, hi, hw)
  OBVIOUS
<1> HIDE DEF n
<1>11. CASE width <= IntMax
  <2>1. range = width /\ range > 0
    BY <1>1, <1>4, <1>11
  <2>2. Least(n, range) \in 1..width
    BY <1>9, <2>1, <1>6 DEF Least
  <2>3. PartitionCount(lo, hi, override, hw) = Least(n, range)
    BY <1>3, <2>1
  <2>4. ~(width > IntMax)
    BY <1>1, <1>11, BoundsAssumption
  <2> QED BY <2>2, <2>3, <2>4 DEF width
<1>12. CASE width > IntMax
  <2>1. range <= 0
    BY <1>5, <1>12
  <2>2. PartitionCount(lo, hi, override, hw) = n
    BY <1>3, <1>6, <2>1
  <2>3. override = 0 => n = 1
    BY <1>8, <1>10, <2>1
  <2>4. n \in 1..width
    BY <1>1, <1>9, <1>12, <2>3, BoundsAssumption
  <2> QED BY <2>2, <2>3, <2>4 DEF width
<1> QED BY <1>1, <1>11, <1>12, BoundsAssumption

-----------------------------------------------------------------------------
(* The boundaries.                                                         *)

\* Where the products that overflow the cast end up.
Collapsed == IF CastOverflow = IntMax THEN IntMax ELSE IntMax + 1
Offset(width, n, i) == Least((width * i) \div n, Collapsed)

LEMMA OffsetFacts ==
  ASSUME NEW width \in Nat \ {0}, NEW n \in 1..width
  PROVE  /\ \A i \in Nat : Offset(width, n, i) \in Nat
         /\ Offset(width, n, 0) = 0
         /\ \A i, j \in Nat : i <= j => Offset(width, n, i) <= Offset(width, n, j)
         /\ \A i \in Nat \ {0} : Offset(width, n, i) >= 1
         /\ \A i \in 0..(n - 1) : (width * i) \div n < width
<1>0. Collapsed \in Nat \ {0}
  BY BoundsAssumption DEF Collapsed
<1>1. ASSUME NEW i \in Nat
      PROVE  /\ (width * i) \div n \in Nat
             /\ i = 0 => (width * i) \div n = 0
             /\ i > 0 => (width * i) \div n >= 1
             /\ i < n => (width * i) \div n < width
  <2> DEFINE q == (width * i) \div n
  <2>1. width * i \in Nat
    OBVIOUS
  <2>2. q \in Int /\ n * q <= width * i /\ width * i < n * q + n
    BY <2>1, DivBounds
  <2>3. i > 0 => width * i >= n
    OBVIOUS
  <2>4. i < n => width * i < width * n
    OBVIOUS
  <2> HIDE DEF q
  <2>5. q >= 0
    BY <2>1, <2>2
  <2>6. i = 0 => q = 0
    BY <2>2, <2>5
  <2>7. i > 0 => q >= 1
    BY <2>2, <2>3, <2>5
  <2>8. i < n => q < width
    BY <2>2, <2>4, <2>5
  <2> QED BY <2>2, <2>5, <2>6, <2>7, <2>8 DEF q
<1>2. ASSUME NEW i \in Nat, NEW j \in Nat, i <= j
      PROVE  (width * i) \div n <= (width * j) \div n
  <2>1. width * i \in Int /\ width * j \in Int /\ width * i <= width * j
    BY <1>2, TimesMonotone
  <2> QED BY <2>1, DivMonotone
<1>3. ASSUME NEW i \in Nat
      PROVE  /\ Offset(width, n, i) \in Nat
             /\ i = 0 => Offset(width, n, i) = 0
             /\ i > 0 => Offset(width, n, i) >= 1
  <2>1. PICK q \in Nat : q = (width * i) \div n
    BY <1>1
  <2>2. Offset(width, n, i) = Least(q, Collapsed)
    BY <2>1 DEF Offset
  <2> QED BY <1>0, <1>1, <2>1, <2>2 DEF Least
<1>4. ASSUME NEW i \in Nat, NEW j \in Nat, i <= j
      PROVE  Offset(width, n, i) <= Offset(width, n, j)
  <2>1. PICK p \in Nat : p = (width * i) \div n
    BY <1>1
  <2>2. PICK q \in Nat : q = (width * j) \div n
    BY <1>1
  <2>3. Offset(width, n, i) = Least(p, Collapsed) /\ Offset(width, n, j) = Least(q, Collapsed)
    BY <2>1, <2>2 DEF Offset
  <2>4. (width * i) \div n <= (width * j) \div n
    BY <1>2, <1>4
  <2>5. p <= q
    BY <2>1, <2>2, <2>4
  <2> QED BY <1>0, <2>3, <2>5 DEF Least
<1> QED BY <1>1, <1>3, <1>4

\* A boundary stays in the range, and is what the cast and the wrapping make
\* of the exact one.
LEMMA BoundaryIsOffset ==
  ASSUME NEW lo \in Int64, NEW hi \in Int64, lo <= hi,
         NEW n \in 1..(hi - lo + 1), NEW i \in 0..(n - 1)
  PROVE  /\ Boundary(lo, hi, n, i) = lo + Offset(hi - lo + 1, n, i)
         /\ Boundary(lo, hi, n, i) \in lo..hi
<1> DEFINE width == hi - lo + 1
<1>0. /\ width \in Nat \ {0} /\ lo \in Int /\ hi \in Int
      /\ IntMin <= lo /\ hi <= IntMax /\ IntMin \in Int /\ IntMin = -IntMax - 1 /\ IntMax \in Nat
  BY BoundsAssumption DEF Int64, IntMin
<1>1. PICK q \in Nat : q = (width * i) \div n /\ q < width
  <2>1. width \in Nat \ {0} /\ n \in 1..width /\ i \in Nat
    BY <1>0
  <2> HIDE DEF width
  <2>1a. (width * i) \div n < width
    BY <2>1, OffsetFacts
  <2>2. width * i \in Nat /\ n \in Nat \ {0}
    BY <1>0
  <2>3. (width * i) \div n \in Int /\ (width * i) < n * ((width * i) \div n) + n
    BY <2>2, DivBounds
  <2>4. (width * i) \div n \in Nat
    BY <2>2, <2>3
  <2> QED BY <2>1a, <2>4
<1>2. Boundary(lo, hi, n, i) = Wrap64(lo + CastInt64(q))
  BY <1>1 DEF Boundary
<1>3. Offset(width, n, i) = Least(q, Collapsed)
  BY <1>1 DEF Offset
<1>4. lo + q <= hi
  BY <1>0, <1>1
<1>5. CASE q <= IntMax
  <2>1. CastInt64(q) = q /\ Least(q, Collapsed) = q
    BY <1>0, <1>1, <1>5 DEF CastInt64, Least, Collapsed
  <2>2. lo + q \in Int64
    BY <1>0, <1>1, <1>4 DEF Int64
  <2> QED BY <1>0, <1>1, <1>2, <1>3, <1>4, <2>1, <2>2, WrapInside
<1>6. CASE q > IntMax
  <2>1. lo < 0 /\ CastInt64(q) = CastOverflow /\ Least(q, Collapsed) = Collapsed
        /\ Collapsed \in Nat
    BY <1>0, <1>1, <1>4, <1>6 DEF CastInt64, Least, Collapsed
  <2>2. Collapsed <= q
    BY <1>0, <1>1, <1>6 DEF Collapsed
  <2>3. CASE CastOverflow = IntMax
    <3>1. Collapsed = IntMax /\ lo + IntMax \in Int64
      BY <1>0, <2>1, <2>3 DEF Collapsed, Int64
    <3> QED BY <1>0, <1>1, <1>2, <1>3, <1>4, <2>1, <2>2, <2>3, <3>1, WrapInside
  <2>4. CASE CastOverflow = IntMin
    <3>1. Collapsed = IntMax + 1 /\ lo + IntMin \in (2 * IntMin)..(IntMin - 1)
      BY <1>0, <2>1, <2>4 DEF Collapsed
    <3>2. Wrap64(lo + IntMin) = lo + IntMin + 2 * (IntMax + 1)
      BY <3>1, WrapBelow
    <3> QED BY <1>0, <1>1, <1>2, <1>3, <1>4, <2>1, <2>2, <2>4, <3>1, <3>2
  <2> QED BY <2>3, <2>4, BoundsAssumption
<1> QED BY <1>0, <1>1, <1>5, <1>6

\* The ends of a partition, without wrapping.
LEMMA PartitionEnds ==
  ASSUME NEW lo \in Int64, NEW hi \in Int64, lo <= hi,
         NEW n \in 1..(hi - lo + 1), NEW i \in 0..(n - 1)
  PROVE  /\ PartLo(lo, hi, n, i) = lo + Offset(hi - lo + 1, n, i)
         /\ i = n - 1 => PartHi(lo, hi, n, i) = hi
         /\ i # n - 1 => PartHi(lo, hi, n, i) = lo + Offset(hi - lo + 1, n, i + 1) - 1
         /\ PartLo(lo, hi, n, i) \in lo..hi /\ PartHi(lo, hi, n, i) \in lo..hi
<1> DEFINE width == hi - lo + 1
<1>0. width \in Nat \ {0} /\ lo \in Int /\ hi \in Int
  BY BoundsAssumption DEF Int64, IntMin
<1>1. PartLo(lo, hi, n, i) = lo + Offset(width, n, i) /\ PartLo(lo, hi, n, i) \in lo..hi
  BY BoundaryIsOffset DEF PartLo
<1>2. CASE i = n - 1
  BY <1>0, <1>1, <1>2 DEF PartHi
<1>3. CASE i # n - 1
  <2>1. i + 1 \in 0..(n - 1) /\ i + 1 \in Nat \ {0}
    BY <1>3
  <2>2. /\ Boundary(lo, hi, n, i + 1) = lo + Offset(width, n, i + 1)
        /\ Boundary(lo, hi, n, i + 1) \in lo..hi
    BY <2>1, BoundaryIsOffset
  <2>3. Offset(width, n, i + 1) \in Nat /\ Offset(width, n, i + 1) >= 1
    BY <1>0, <2>1, OffsetFacts
  <2>4. PartHi(lo, hi, n, i) = Wrap64(Boundary(lo, hi, n, i + 1) - 1)
    BY <1>3 DEF PartHi
  <2>5. /\ Boundary(lo, hi, n, i + 1) - 1 \in lo..hi
        /\ Boundary(lo, hi, n, i + 1) - 1 \in Int64
    BY <1>0, <2>2, <2>3, BoundsAssumption DEF Int64, IntMin
  <2>6. PartHi(lo, hi, n, i) = Boundary(lo, hi, n, i + 1) - 1
    BY <2>4, <2>5, WrapInside
  <2>7. PartHi(lo, hi, n, i) = lo + Offset(width, n, i + 1) - 1
    <3>1. Boundary(lo, hi, n, i + 1) = lo + Offset(width, n, i + 1)
      BY <2>2
    <3> QED BY <1>0, <2>3, <2>6, <3>1
  <2>8. PartHi(lo, hi, n, i) \in lo..hi
    BY <2>5, <2>6
  <2> QED BY <1>1, <1>3, <2>7, <2>8
<1> QED BY <1>2, <1>3

-----------------------------------------------------------------------------
(* The partitions.                                                         *)

\* No key belongs to two partitions.
LEMMA PartitionsDisjoint ==
  ASSUME NEW lo \in Int64, NEW hi \in Int64, lo <= hi,
         NEW n \in 1..(hi - lo + 1), NEW i \in 0..(n - 1), NEW j \in 0..(n - 1),
         NEW k \in Int, Covers(lo, hi, n, i, k), Covers(lo, hi, n, j, k)
  PROVE  i = j
<1> DEFINE width == hi - lo + 1
<1>0. width \in Nat \ {0} /\ lo \in Int /\ hi \in Int /\ n \in 1..width
  BY BoundsAssumption DEF Int64, IntMin
<1>1. ASSUME NEW p \in 0..(n - 1), NEW q \in 0..(n - 1), p < q,
             Covers(lo, hi, n, p, k), Covers(lo, hi, n, q, k)
      PROVE  FALSE
  <2>1. p # n - 1 /\ p + 1 \in Nat /\ q \in Nat /\ p + 1 <= q
    BY <1>1
  <2>2. PartHi(lo, hi, n, p) = lo + Offset(width, n, p + 1) - 1
    BY <2>1, PartitionEnds
  <2>3. PartLo(lo, hi, n, q) = lo + Offset(width, n, q)
    BY PartitionEnds
  <2>4. /\ Offset(width, n, p + 1) \in Nat /\ Offset(width, n, q) \in Nat
        /\ Offset(width, n, p + 1) <= Offset(width, n, q)
    BY <1>0, <2>1, OffsetFacts
  <2>5. k <= PartHi(lo, hi, n, p) /\ PartLo(lo, hi, n, q) <= k
    BY <1>1 DEF Covers
  <2> QED BY <1>0, <2>2, <2>3, <2>4, <2>5
<1> QED BY <1>1

\* Some partition is the last one that starts at or before the key d.
LEMMA LastStart ==
  ASSUME NEW width \in Nat \ {0}, NEW n \in 1..width, NEW d \in 0..(width - 1)
  PROVE  \E i \in 0..(n - 1) :
           (width * i) \div n <= d /\ (width * (i + 1)) \div n >= d + 1
<1>1. PICK m \in Int : m = (d + 1) * n
  OBVIOUS
<1>2. m >= 1 /\ m <= width * n
  BY <1>1, TimesMonotone
<1>3. PICK i \in Int : i = (m - 1) \div width /\ width * i <= m - 1 /\ m - 1 < width * i + width
  <2>1. m - 1 \in Int
    OBVIOUS
  <2> QED BY <2>1, DivBounds
<1>4. PICK x \in Int : x = width * i
  OBVIOUS
<1>5. width * (i + 1) = x + width
  BY <1>4
<1>6. i >= 0 /\ i < n
  <2>1. width * 0 < width * (i + 1)
    BY <1>2, <1>3, <1>4, <1>5
  <2>2. width * i < width * n
    BY <1>2, <1>3
  <2>3. 0 < i + 1
    BY <2>1, TimesCancel
  <2>4. i < n
    BY <2>2, TimesCancel
  <2> QED BY <2>3, <2>4
<1>7. x \div n <= d
  <2>1. PICK q \in Int : q = x \div n /\ n * q <= x
    BY DivBounds
  <2>2. n * q < n * (d + 1)
    BY <1>1, <1>3, <1>4, <2>1
  <2>3. q < d + 1
    BY <2>2, TimesCancel
  <2> QED BY <2>1, <2>3
<1>8. (x + width) \div n >= d + 1
  <2>1. PICK q \in Int : q = (x + width) \div n /\ x + width < n * q + n
    <3>1. x + width \in Int
      OBVIOUS
    <3> QED BY <3>1, DivBounds
  <2>2. n * (q + 1) = n * q + n
    OBVIOUS
  <2>3. n * (d + 1) < n * (q + 1)
    BY <1>1, <1>3, <1>4, <2>1, <2>2
  <2>4. d + 1 < q + 1
    BY <2>3, TimesCancel
  <2> QED BY <2>1, <2>4
<1>9. (width * i) \div n <= d
  BY ONLY <1>4, <1>7
<1>10. (width * (i + 1)) \div n >= d + 1
  BY ONLY <1>5, <1>8
<1>11. i \in 0..(n - 1)
  BY <1>6
<1> QED BY ONLY <1>9, <1>10, <1>11

\* Every key of the range belongs to some partition: the last one that starts
\* at or before it.
LEMMA PartitionOfKey ==
  ASSUME NEW lo \in Int64, NEW hi \in Int64, lo <= hi,
         NEW n \in 1..(hi - lo + 1), NEW k \in lo..hi
  PROVE  \E i \in 0..(n - 1) : Covers(lo, hi, n, i, k)
<1> DEFINE width == hi - lo + 1
           d == k - lo
<1>0. /\ width \in Nat \ {0} /\ lo \in Int /\ hi \in Int /\ n \in 1..width
      /\ d \in Nat /\ d < width /\ Collapsed \in Nat \ {0}
  BY BoundsAssumption DEF Int64, IntMin, Collapsed
<1>1. CASE d >= Collapsed
  <2>1. n - 1 \in 0..(n - 1)
    BY <1>0
  <2>2. PartLo(lo, hi, n, n - 1) = lo + Offset(width, n, n - 1) /\ PartHi(lo, hi, n, n - 1) = hi
    BY <2>1, PartitionEnds
  <2>3. Offset(width, n, n - 1) \in Nat /\ Offset(width, n, n - 1) <= Collapsed
    <3>1. Offset(width, n, n - 1) \in Nat
      BY <1>0, <2>1, OffsetFacts
    <3>2. (width * (n - 1)) \div n \in Int
      BY <1>0
    <3> QED BY <1>0, <3>1, <3>2 DEF Offset, Least
  <2> QED BY <1>0, <1>1, <2>1, <2>2, <2>3 DEF Covers
<1>2. CASE d < Collapsed
  <2>1. PICK i \in 0..(n - 1) :
          (width * i) \div n <= d /\ (width * (i + 1)) \div n >= d + 1
    <3>1. d \in 0..(width - 1)
      BY <1>0
    <3> HIDE DEF width, d
    <3> QED BY <1>0, <3>1, LastStart
  <2>4. i \in Nat /\ i + 1 \in Nat
    BY <1>0, <2>1
  <2>7. PartLo(lo, hi, n, i) <= k
    <3>1. PartLo(lo, hi, n, i) = lo + Offset(width, n, i)
      BY <2>4, PartitionEnds
    <3>2. (width * i) \div n \in Int
      BY <1>0, <2>4
    <3>3. Offset(width, n, i) <= d /\ Offset(width, n, i) \in Int
      BY <1>0, <1>2, <2>1, <3>2 DEF Offset, Least
    <3> QED BY <1>0, <3>1, <3>3
  <2>8. k <= PartHi(lo, hi, n, i)
    <3>1. CASE i = n - 1
      BY <2>4, <3>1, PartitionEnds
    <3>2. CASE i # n - 1
      <4>1. PartHi(lo, hi, n, i) = lo + Offset(width, n, i + 1) - 1
        BY <2>4, <3>2, PartitionEnds
      <4>2. (width * (i + 1)) \div n \in Int
        BY <1>0, <2>4
      <4>3. Offset(width, n, i + 1) >= d + 1 /\ Offset(width, n, i + 1) \in Int
        BY <1>0, <1>2, <2>1, <4>2 DEF Offset, Least
      <4> QED BY <1>0, <4>1, <4>3
    <3> QED BY <3>1, <3>2
  <2> QED BY <2>4, <2>7, <2>8 DEF Covers
<1> QED BY <1>0, <1>1, <1>2

\* While no product overflows the cast, every partition has a key.
LEMMA PartitionsNotEmpty ==
  ASSUME NEW lo \in Int64, NEW hi \in Int64, lo <= hi,
         NEW n \in 1..(hi - lo + 1), hi - lo + 1 <= IntMax \/ n = 1
  PROVE  NoEmptyPartition(lo, hi, n)
<1> DEFINE width == hi - lo + 1
<1>0. width \in Nat \ {0} /\ lo \in Int /\ hi \in Int /\ n \in 1..width /\ IntMax \in Nat
  BY BoundsAssumption DEF Int64, IntMin
<1> SUFFICES ASSUME NEW i \in 0..(n - 1)
             PROVE  PartLo(lo, hi, n, i) <= PartHi(lo, hi, n, i)
  BY <1>0, PartitionEnds DEF NoEmptyPartition
<1>1. CASE i = n - 1
  <2>1. PartHi(lo, hi, n, i) = hi /\ PartLo(lo, hi, n, i) \in lo..hi
    BY <1>1, PartitionEnds
  <2> QED BY <1>0, <2>1
<1>2. CASE i # n - 1
  <2>1. width <= IntMax /\ i + 1 \in 0..(n - 1) /\ i \in Nat
    BY <1>0, <1>2
  <2>2. /\ PartLo(lo, hi, n, i) = lo + Offset(width, n, i)
        /\ PartHi(lo, hi, n, i) = lo + Offset(width, n, i + 1) - 1
    BY <1>2, PartitionEnds
  <2>3. (width * i) \div n < width /\ (width * (i + 1)) \div n < width
    BY <1>0, <2>1, OffsetFacts
  <2>4. /\ width * i \in Int /\ width * (i + 1) = width * i + width
        /\ width * (i + 1) \in Int /\ width * (i + 1) >= width * i + n
    BY <1>0, <2>1
  <2>5. PICK p \in Int : p = (width * i) \div n /\ n * p <= width * i
    BY <1>0, <2>4, DivBounds
  <2>6. PICK q \in Int : q = (width * (i + 1)) \div n /\ width * (i + 1) < n * q + n
    BY <1>0, <2>4, DivBounds
  <2>7. n * (p + 1) < n * (q + 1)
    BY <1>0, <2>4, <2>5, <2>6
  <2>8. p < q
    BY <1>0, <2>5, <2>6, <2>7
  <2>9. Offset(width, n, i) = p /\ Offset(width, n, i + 1) = q
    BY <1>0, <2>1, <2>3, <2>5, <2>6 DEF Offset, Least, Collapsed
  <2> QED BY <1>0, <2>2, <2>5, <2>6, <2>8, <2>9
<1> QED BY <1>1, <1>2

-----------------------------------------------------------------------------

\* The cut of FirebirdScanInitGlobal is right for every range of 64-bit keys,
\* every partitions= and every number of cores, on either architecture: each
\* key is scanned by exactly one partition, and no partition is empty while
\* the range fits in an int64_t or the count was chosen automatically.
THEOREM CutIsRight ==
  ASSUME NEW lo \in Int64, NEW hi \in Int64, lo <= hi,
         NEW override \in 0..IntMax, NEW hw \in Nat
  PROVE  CutTiles(lo, hi, override, hw)
<1> DEFINE n == PartitionCount(lo, hi, override, hw)
<1>1. n \in 1..(hi - lo + 1) /\ (override = 0 /\ hi - lo + 1 > IntMax => n = 1)
  BY CountFits
<1> HIDE DEF n
<1>2. lo \in Int /\ hi \in Int /\ IntMax \in Nat
  BY BoundsAssumption DEF Int64, IntMin
<1>3. Tiles(lo, hi, n)
  <2> SUFFICES ASSUME NEW k \in lo..hi
               PROVE  \E i \in 0..(n - 1) :
                        Covers(lo, hi, n, i, k)
                          /\ \A j \in 0..(n - 1) : Covers(lo, hi, n, j, k) => j = i
    BY DEF Tiles
  <2>1. PICK i \in 0..(n - 1) : Covers(lo, hi, n, i, k)
    BY <1>1, PartitionOfKey
  <2>2. \A j \in 0..(n - 1) : Covers(lo, hi, n, j, k) => j = i
    BY <1>1, <1>2, <2>1, PartitionsDisjoint
  <2> QED BY <2>1, <2>2
<1>4. hi - lo + 1 <= IntMax \/ override = 0 => NoEmptyPartition(lo, hi, n)
  BY <1>1, <1>2, PartitionsNotEmpty
<1> QED BY <1>3, <1>4 DEF CutTiles, n

-----------------------------------------------------------------------------
(* Text.                                                                   *)

\* What holds of 0, and of n + 1 if it holds of n, holds of every number.
LEMMA Induction ==
  ASSUME NEW S, 0 \in S, \A n \in Nat : n \in S => n + 1 \in S
  PROVE  Nat \subseteq S
<1> DEFINE T == Nat \ S
           R == OpToRel(<, Nat)
<1> SUFFICES ASSUME T # {} PROVE FALSE
  OBVIOUS
<1>1. PICK m \in T : \A k \in T : ~ <<k, m>> \in R
  <2>1. IsWellFoundedOn(R, Nat) /\ T \subseteq Nat
    BY NatLessThanWellFounded
  <2> HIDE DEF T, R
  <2> QED BY <2>1, WFMin
<1>2. m # 0 /\ m - 1 \in Nat /\ m - 1 < m
  OBVIOUS
<1>3. <<m - 1, m>> \in R
  BY <1>2 DEF OpToRel
<1>4. m - 1 \in S
  BY <1>1, <1>2, <1>3
<1> QED BY <1>2, <1>4

\* f joins the first n elements of s, one by one.
Joins(f, s, n) == f[0] = << >> /\ \A k \in 1..n : f[k] = f[k - 1] \o s[k]
Agree(s, t, n) == \A k \in 1..n : s[k] = t[k]

\* Two functions that join the same sequences agree.
LEMMA JoinsUnique ==
  ASSUME NEW n \in Nat, NEW s, NEW t, Agree(s, t, n), NEW f, NEW g, Joins(f, s, n), Joins(g, t, n)
  PROVE  \A k \in 0..n : f[k] = g[k]
<1> DEFINE S == {k \in Nat : k <= n => f[k] = g[k]}
<1>1. 0 \in S
  BY DEF Joins
<1>2. ASSUME NEW k \in Nat, k \in S PROVE k + 1 \in S
  <2> SUFFICES ASSUME k + 1 <= n PROVE f[k + 1] = g[k + 1]
    OBVIOUS
  <2>1. k + 1 \in 1..n /\ (k + 1) - 1 = k /\ f[k] = g[k]
    BY <1>2
  <2>2. f[k + 1] = f[k] \o s[k + 1] /\ g[k + 1] = g[k] \o t[k + 1]
    BY <2>1 DEF Joins
  <2> QED BY <2>1, <2>2 DEF Agree
<1> HIDE DEF S
<1>3. Nat \subseteq S
  BY <1>1, <1>2, Induction
<1> QED BY <1>3 DEF S

\* There is one for each number of sequences: it is extended by one more.
LEMMA JoinsExists ==
  ASSUME NEW s
  PROVE  \A n \in Nat : \E f : Joins(f, s, n)
<1> DEFINE S == {n \in Nat : \E f : DOMAIN f = Nat /\ f = [k \in Nat |-> f[k]] /\ Joins(f, s, n)}
<1>1. 0 \in S
  <2>1. LET f == [k \in Nat |-> << >>] IN DOMAIN f = Nat /\ f = [k \in Nat |-> f[k]] /\ Joins(f, s, 0)
    BY DEF Joins
  <2> QED BY <2>1
<1>2. ASSUME NEW n \in Nat, n \in S PROVE n + 1 \in S
  <2>1. PICK f : DOMAIN f = Nat /\ f = [k \in Nat |-> f[k]] /\ Joins(f, s, n)
    BY <1>2
  <2> DEFINE g == [k \in Nat |-> IF k = n + 1 THEN f[n] \o s[n + 1] ELSE f[k]]
  <2>2. \A k \in 1..(n + 1) : g[k] = g[k - 1] \o s[k]
    <3> SUFFICES ASSUME NEW k \in 1..(n + 1) PROVE g[k] = g[k - 1] \o s[k]
      OBVIOUS
    <3>0. \A j \in Nat : g[j] = IF j = n + 1 THEN f[n] \o s[n + 1] ELSE f[j]
      OBVIOUS
    <3> HIDE DEF g
    <3>1. CASE k = n + 1
      <4>1. k - 1 = n /\ n # n + 1 /\ k \in Nat
        BY <3>1
      <4> QED BY <3>0, <3>1, <4>1
    <3>2. CASE k # n + 1
      <4>1. k \in 1..n /\ k - 1 # n + 1 /\ k - 1 \in Nat /\ k \in Nat
        BY <3>2
      <4>2. f[k] = f[k - 1] \o s[k]
        BY <2>1, <4>1 DEF Joins
      <4>3. g[k] = f[k] /\ g[k - 1] = f[k - 1]
        BY ONLY <3>0, <3>2, <4>1
      <4> QED BY ONLY <4>2, <4>3
    <3> QED BY <3>1, <3>2
  <2>3. g[0] = << >>
    BY <2>1 DEF Joins
  <2>4. DOMAIN g = Nat /\ g = [k \in Nat |-> g[k]] /\ Joins(g, s, n + 1)
    BY <2>2, <2>3 DEF Joins
  <2> QED BY <2>4
<1> HIDE DEF S
<1>3. Nat \subseteq S
  BY <1>1, <1>2, Induction
<1> QED BY <1>3 DEF S

\* The definition of Joined has a solution.
LEMMA JoinedJoins ==
  ASSUME NEW s
  PROVE  \E f : Joined(s) = f[Len(s)] /\ \A n \in Nat : Joins(f, s, n)
<1> DEFINE F(n) == CHOOSE f : Joins(f, s, n)
           g == [n \in Nat |-> F(n)[n]]
<1>1. \A n \in Nat : Joins(F(n), s, n)
  BY JoinsExists
<1>2. ASSUME NEW n \in Nat \ {0} PROVE g[n] = g[n - 1] \o s[n]
  <2>1. n - 1 \in Nat /\ n \in 1..n /\ n - 1 \in 0..(n - 1) /\ n \in Nat
    OBVIOUS
  <2>2. Joins(F(n - 1), s, n - 1) /\ Joins(F(n), s, n)
    BY <1>1, <2>1
  <2>3. Joins(F(n), s, n - 1) /\ Agree(s, s, n - 1)
    <3> HIDE DEF F
    <3>1. 1..(n - 1) \subseteq 1..n
      BY <2>1
    <3>2. Joins(F(n), s, n)
      BY <2>2
    <3> QED BY ONLY <3>1, <3>2 DEF Joins, Agree
  <2>4. F(n)[n - 1] = F(n - 1)[n - 1]
    <3> HIDE DEF F
    <3> QED BY <2>1, <2>2, <2>3, JoinsUnique
  <2>5. F(n)[n] = F(n)[n - 1] \o s[n]
    BY <2>1, <2>2 DEF Joins
  <2>6. g[n] = F(n)[n] /\ g[n - 1] = F(n - 1)[n - 1]
    BY <2>1
  <2> HIDE DEF F, g
  <2> QED BY <2>4, <2>5, <2>6
<1>3. g[0] = << >>
  BY <1>1 DEF Joins
<1>4. g = [n \in Nat |-> IF n = 0 THEN << >> ELSE g[n - 1] \o s[n]]
  <2>1. g = [n \in Nat |-> g[n]]
    OBVIOUS
  <2> HIDE DEF g
  <2> QED BY <1>2, <1>3, <2>1
<1> DEFINE U == CHOOSE h : h = [n \in Nat |-> IF n = 0 THEN << >> ELSE h[n - 1] \o s[n]]
<1>5. U = [n \in Nat |-> IF n = 0 THEN << >> ELSE U[n - 1] \o s[n]]
  <2> HIDE DEF g
  <2> QED BY <1>4
<1>6. Joined(s) = U[Len(s)]
  BY DEF Joined
<1> HIDE DEF U
<1>7. U[0] = << >> /\ \A n \in Nat \ {0} : U[n] = U[n - 1] \o s[n]
  BY <1>5
<1>8. \A n \in Nat : Joins(U, s, n)
  <2> SUFFICES ASSUME NEW n \in Nat PROVE Joins(U, s, n)
    OBVIOUS
  <2>1. \A k \in 1..n : k \in Nat \ {0}
    OBVIOUS
  <2> QED BY ONLY <1>7, <2>1 DEF Joins
<1> QED BY <1>6, <1>8

\* Nothing joined is nothing.
LEMMA JoinedEmpty == Joined(<< >>) = << >>
<1>1. PICK f : Joined(<< >>) = f[Len(<< >>)] /\ \A n \in Nat : Joins(f, << >>, n)
  BY JoinedJoins
<1> QED BY <1>1 DEF Joins

\* One more sequence comes after the others.
LEMMA JoinedAppend ==
  ASSUME NEW T, NEW s \in Seq(T), NEW x \in T
  PROVE  Joined(Append(s, x)) = Joined(s) \o x
<1> DEFINE t == Append(s, x)
           n == Len(s)
<1>1. n \in Nat /\ n \in 0..n /\ Len(t) = n + 1 /\ t[n + 1] = x /\ Agree(s, t, n)
  BY DEF Agree
<1>2. PICK f : Joined(s) = f[n] /\ \A k \in Nat : Joins(f, s, k)
  BY JoinedJoins
<1>3. PICK g : Joined(t) = g[Len(t)] /\ \A k \in Nat : Joins(g, t, k)
  BY JoinedJoins
<1> HIDE DEF t, n
<1>4. f[n] = g[n]
  BY <1>1, <1>2, <1>3, JoinsUnique
<1>5. n + 1 \in 1..(n + 1) /\ (n + 1) - 1 = n /\ n + 1 \in Nat
  BY <1>1
<1>6. g[n + 1] = g[n] \o t[n + 1]
  BY <1>3, <1>5 DEF Joins
<1>7. Joined(t) = Joined(s) \o x
  BY <1>1, <1>2, <1>3, <1>4, <1>6
<1> QED BY <1>7 DEF t

\* One sequence joined is that sequence.
LEMMA JoinedOne == ASSUME NEW T, NEW x \in Seq(T) PROVE Joined(<<x>>) = x
<1>1. << >> \in Seq(Seq(T)) /\ Append(<< >>, x) = <<x>>
  OBVIOUS
<1>2. Joined(<<x>>) = << >> \o x
  BY <1>1, JoinedAppend, JoinedEmpty
<1> QED BY <1>2

\* What is said of the empty sequence and of each longer one is said of all.
LEMMA SeqInduction ==
  ASSUME NEW T, NEW S, << >> \in S,
         \A s \in Seq(T), x \in T : s \in S => Append(s, x) \in S
  PROVE  Seq(T) \subseteq S
<1> DEFINE N == {n \in Nat : \A s \in Seq(T) : Len(s) = n => s \in S}
<1>1. 0 \in N
  <2>1. \A s \in Seq(T) : Len(s) = 0 => s = << >>
    OBVIOUS
  <2> QED BY <2>1
<1>2. ASSUME NEW n \in Nat, n \in N PROVE n + 1 \in N
  <2> SUFFICES ASSUME NEW s \in Seq(T), Len(s) = n + 1 PROVE s \in S
    OBVIOUS
  <2> DEFINE r == SubSeq(s, 1, n)
  <2>1. r \in Seq(T) /\ Len(r) = n /\ s[n + 1] \in T /\ s = Append(r, s[n + 1])
    OBVIOUS
  <2>2. r \in S
    BY <1>2, <2>1
  <2> HIDE DEF r
  <2> QED BY <2>1, <2>2
<1> HIDE DEF N
<1>3. Nat \subseteq N
  BY <1>1, <1>2, Induction
<1>4. \A s \in Seq(T) : Len(s) \in N
  BY <1>3
<1> QED BY <1>4 DEF N

\* Sequences of one type are joined into a sequence of that type.
LEMMA JoinedType == ASSUME NEW T, NEW s \in Seq(Seq(T)) PROVE Joined(s) \in Seq(T)
<1> DEFINE S == {r \in Seq(Seq(T)) : Joined(r) \in Seq(T)}
<1>1. << >> \in S
  <2>1. << >> \in Seq(T) /\ << >> \in Seq(Seq(T))
    OBVIOUS
  <2> QED BY <2>1, JoinedEmpty
<1>2. ASSUME NEW r \in Seq(Seq(T)), NEW x \in Seq(T), r \in S PROVE Append(r, x) \in S
  <2>1. Joined(Append(r, x)) = Joined(r) \o x /\ Joined(r) \in Seq(T)
    BY <1>2, JoinedAppend
  <2>2. Joined(r) \o x \in Seq(T) /\ Append(r, x) \in Seq(Seq(T))
    BY ONLY <2>1, x \in Seq(T), r \in Seq(Seq(T))
  <2> QED BY ONLY <2>1, <2>2
<1> HIDE DEF S
<1>3. \A r \in Seq(Seq(T)), x \in Seq(T) : r \in S => Append(r, x) \in S
  BY <1>2
<1>4. Seq(Seq(T)) \subseteq S
  BY <1>1, <1>3, SeqInduction
<1> QED BY <1>4 DEF S

\* Two sequences of sequences can be joined each for itself.
LEMMA JoinedConcat ==
  ASSUME NEW T, NEW s \in Seq(Seq(T)), NEW t \in Seq(Seq(T))
  PROVE  Joined(s \o t) = Joined(s) \o Joined(t)
<1> DEFINE S == {r \in Seq(Seq(T)) : Joined(s \o r) = Joined(s) \o Joined(r)}
<1>0. Joined(s) \in Seq(T)
  BY JoinedType
<1>1. << >> \in S
  <2>1. s \o << >> = s /\ Joined(s) \o << >> = Joined(s)
    BY <1>0
  <2>2. << >> \in Seq(Seq(T))
    OBVIOUS
  <2> QED BY ONLY <2>1, <2>2, JoinedEmpty
<1>2. ASSUME NEW r \in Seq(Seq(T)), NEW x \in Seq(T), r \in S PROVE Append(r, x) \in S
  <2>1. s \o Append(r, x) = Append(s \o r, x) /\ s \o r \in Seq(Seq(T))
    OBVIOUS
  <2>2. Joined(s \o Append(r, x)) = Joined(s \o r) \o x
    BY <2>1, JoinedAppend
  <2>3. Joined(Append(r, x)) = Joined(r) \o x
    BY JoinedAppend
  <2>4. Joined(s \o r) = Joined(s) \o Joined(r) /\ Joined(r) \in Seq(T)
    BY <1>2, JoinedType
  <2>5. (Joined(s) \o Joined(r)) \o x = Joined(s) \o (Joined(r) \o x)
    BY ONLY <1>0, <2>4, x \in Seq(T)
  <2>6. Append(r, x) \in Seq(Seq(T))
    BY ONLY x \in Seq(T), r \in Seq(Seq(T))
  <2> QED BY ONLY <2>2, <2>3, <2>4, <2>5, <2>6
<1> HIDE DEF S
<1>3. \A r \in Seq(Seq(T)), x \in Seq(T) : r \in S => Append(r, x) \in S
  BY <1>2
<1>4. Seq(Seq(T)) \subseteq S
  BY <1>1, <1>3, SeqInduction
<1> QED BY <1>4 DEF S

-----------------------------------------------------------------------------

Transcoding == {"WIN1252", "ISO_8859_1"}

\* A byte stands for a code point that UTF-8 writes in up to three bytes.
LEMMA CodePointType ==
  ASSUME NEW mode, NEW b \in Byte
  PROVE  CodePoint(mode, b) \in Bmp
<1>1. CASE mode = "WIN1252" /\ b \in 128..159
  <2>1. b - 127 \in 1..32
    BY <1>1
  <2>2. \A k \in 1..32 : Cp1252High[k] \in Bmp
    <3>1. \A k \in 1..32 : Cp1252High[k] \in Nat /\ Cp1252High[k] < 65536
      BY DEF Cp1252High
    <3> QED BY <3>1 DEF Bmp
  <2>3. CodePoint(mode, b) = Cp1252High[b - 127]
    BY <1>1 DEF CodePoint
  <2> QED BY ONLY <2>1, <2>2, <2>3
<1>2. CASE ~(mode = "WIN1252" /\ b \in 128..159)
  <2>1. CodePoint(mode, b) = b
    BY <1>2 DEF CodePoint
  <2> QED BY <2>1 DEF Byte, Bmp
<1> QED BY <1>1, <1>2

\* No two bytes have the same code point.
LEMMA CodePointInjective ==
  ASSUME NEW mode, NEW b \in Byte, NEW c \in Byte, CodePoint(mode, b) = CodePoint(mode, c)
  PROVE  b = c
<1>1. \A j, k \in 1..32 : Cp1252High[j] = Cp1252High[k] => j = k
  BY DEF Cp1252High
<1>2. \A k \in 1..32 : Cp1252High[k] > 255 \/ Cp1252High[k] = k + 127
  BY DEF Cp1252High
<1>3. \A x \in 128..159 : x - 127 \in 1..32
  OBVIOUS
<1>4. CASE mode # "WIN1252"
  BY <1>4 DEF CodePoint
<1>5. CASE mode = "WIN1252"
  BY <1>1, <1>2, <1>3, <1>5 DEF CodePoint, Byte
<1> QED BY <1>4, <1>5

\* What encodes a code point is transcoded back to it.
LEMMA EncodedCodePoint ==
  ASSUME NEW mode \in Transcoding, NEW cp \in Bmp, NEW b \in EncodeCodePoint(mode, cp)
  PROVE  b \in Byte /\ CodePoint(mode, b) = cp
<1>1. CASE mode = "ISO_8859_1"
  BY <1>1 DEF EncodeCodePoint, CodePoint
<1>2. CASE mode = "WIN1252"
  <2>1. CASE b \in Byte /\ b = cp /\ (b < 128 \/ b >= 160)
    BY <1>2, <2>1 DEF CodePoint
  <2>2. ASSUME NEW s \in Win1252Special, s[2] = cp, b = s[1] PROVE b \in Byte /\ CodePoint(mode, b) = cp
    <3>1. \A r \in Win1252Special : r[1] \in 128..159 /\ Cp1252High[r[1] - 127] = r[2]
      BY DEF Win1252Special, Cp1252High
    <3> QED BY <1>2, <2>2, <3>1 DEF CodePoint, Byte
  <2> QED BY <1>2, <2>1, <2>2 DEF EncodeCodePoint
<1> QED BY <1>1, <1>2 DEF Transcoding

\* A literal that can be encoded is encoded into the bytes that are transcoded to it.
LEMMA EncodeInverts ==
  ASSUME NEW mode \in Transcoding, NEW text \in BmpText, Encodable(mode, text),
         NEW raw \in Seq(Byte)
  PROVE  Encode(mode, text) = raw
           <=> [i \in 1..Len(raw) |-> CodePoint(mode, raw[i])] = text
<1> DEFINE e == Encode(mode, text)
           t == [i \in 1..Len(raw) |-> CodePoint(mode, raw[i])]
<1>0. text \in Seq(Bmp)
  BY DEF BmpText
<1>1. \A i \in 1..Len(text) : text[i] \in Bmp /\ e[i] \in EncodeCodePoint(mode, text[i])
  BY <1>0 DEF Encodable, Encode
<1>2. \A i \in 1..Len(text) : e[i] \in Byte /\ CodePoint(mode, e[i]) = text[i]
  <2> HIDE DEF e
  <2> QED BY <1>1, EncodedCodePoint
<1>3. \A i \in 1..Len(raw) : raw[i] \in Byte
  OBVIOUS
<1>4. DOMAIN e = 1..Len(text) /\ e = [i \in 1..Len(text) |-> e[i]]
  BY DEF Encode
<1>5. DOMAIN t = 1..Len(raw) /\ \A i \in 1..Len(raw) : t[i] = CodePoint(mode, raw[i])
  OBVIOUS
<1>6. raw = [i \in 1..Len(raw) |-> raw[i]] /\ text = [i \in 1..Len(text) |-> text[i]]
      /\ t = [i \in 1..Len(raw) |-> t[i]]
  BY <1>0
<1>7. Len(raw) \in Nat /\ Len(text) \in Nat /\ DOMAIN raw = 1..Len(raw) /\ DOMAIN text = 1..Len(text)
  BY <1>0
<1> HIDE DEF e, t
<1>8. ASSUME e = raw PROVE t = text
  <2>1. 1..Len(text) = 1..Len(raw)
    BY ONLY <1>4, <1>7, <1>8
  <2>2. \A i \in 1..Len(raw) : t[i] = text[i]
    BY <1>2, <1>5, <1>8, <2>1
  <2> QED BY <1>6, <2>1, <2>2
<1>9. ASSUME t = text PROVE e = raw
  <2>1. 1..Len(text) = 1..Len(raw)
    BY ONLY <1>5, <1>7, <1>9
  <2>2. \A i \in 1..Len(raw) : CodePoint(mode, raw[i]) = CodePoint(mode, e[i])
    BY <1>2, <1>5, <1>9, <2>1
  <2>3. \A i \in 1..Len(raw) : raw[i] = e[i]
    BY <1>2, <1>3, <2>1, <2>2, CodePointInjective
  <2> QED BY <1>4, <1>6, <2>1, <2>3
<1>10. e = raw <=> t = text
  BY <1>8, <1>9
<1> QED BY <1>10 DEF e, t

-----------------------------------------------------------------------------
(* How UTF-8 ends: the last byte tells one byte from more, the one before   *)
(* it two from three.                                                      *)

\* u is a lead byte and its continuation bytes, and they stand for cp.
Writes(u, cp) ==
  /\ u \in Seq(Byte) /\ Len(u) \in {1, 2, 3} /\ cp \in Nat
  /\ Len(u) = 1 => u[1] = cp /\ u[1] < 128
  /\ Len(u) = 2 => /\ u[1] \in 192..223 /\ u[2] \in 128..191
                   /\ cp = (u[1] - 192) * 64 + (u[2] - 128)
  /\ Len(u) = 3 => /\ u[1] \in 224..239 /\ u[2] \in 128..191 /\ u[3] \in 128..191
                   /\ cp = (u[1] - 224) * 4096 + (u[2] - 128) * 64 + (u[3] - 128)

\* n bytes that end with `before` and `last`.
Ends(n, before, last) ==
  \/ n = 1 /\ last \in 0..127
  \/ n = 2 /\ last \in 128..191 /\ before \in 192..223
  \/ n = 3 /\ last \in 128..191 /\ before \in 128..191

\* What AppendUtf8 writes ends like a sequence of its length.
LEMMA WritesEnd == ASSUME NEW u, NEW cp, Writes(u, cp) PROVE Ends(Len(u), u[Len(u) - 1], u[Len(u)])
<1>1. CASE Len(u) = 1
  <2>1. u[1] = cp /\ u[1] < 128 /\ cp \in Nat
    BY <1>1 DEF Writes
  <2> QED BY <1>1, <2>1 DEF Ends
<1>2. CASE Len(u) = 2
  <2>1. u[1] \in 192..223 /\ u[2] \in 128..191
    BY <1>2 DEF Writes
  <2>2. Len(u) - 1 = 1
    BY <1>2
  <2> QED BY <1>2, <2>1, <2>2 DEF Ends
<1>3. CASE Len(u) = 3
  <2>1. u[2] \in 128..191 /\ u[3] \in 128..191
    BY <1>3 DEF Writes
  <2>2. Len(u) - 1 = 2
    BY <1>3
  <2> QED BY <1>3, <2>1, <2>2 DEF Ends
<1> QED BY <1>1, <1>2, <1>3 DEF Writes

\* The last two bytes tell how many there are.
LEMMA SameEnd ==
  ASSUME NEW n, NEW m, NEW a, NEW b, NEW c, Ends(n, b, a), Ends(m, c, a), n > 1 /\ m > 1 => b = c
  PROVE  n = m
<1>1. CASE a \in 0..127
  <2>1. a \notin 128..191
    BY <1>1
  <2> QED BY <2>1 DEF Ends
<1>2. CASE a \notin 0..127
  <2>1. n \in {2, 3} /\ m \in {2, 3}
    BY <1>2 DEF Ends
  <2>2. b = c
    BY <2>1
  <2>3. CASE b \in 192..223
    <3>1. b \notin 128..191
      BY <2>3
    <3> QED BY <1>2, <2>2, <3>1 DEF Ends
  <2>4. CASE b \notin 192..223
    BY <1>2, <2>2, <2>4 DEF Ends
  <2> QED BY <2>3, <2>4
<1> QED BY <1>1, <1>2

\* Two code points whose bytes end alike have as many bytes.
LEMMA SameLength ==
  ASSUME NEW u, NEW v, NEW c, NEW d, Writes(u, c), Writes(v, d), u[Len(u)] = v[Len(v)],
         Len(u) > 1 /\ Len(v) > 1 => u[Len(u) - 1] = v[Len(v) - 1]
  PROVE  Len(u) = Len(v)
<1>1. Ends(Len(u), u[Len(u) - 1], u[Len(u)]) /\ Ends(Len(v), v[Len(v) - 1], u[Len(u)])
  BY WritesEnd
<1> QED BY <1>1, SameEnd

\* No two code points are written alike.
LEMMA SameCodePoint ==
  ASSUME NEW u, NEW v, NEW c, NEW d, Writes(u, c), Writes(v, d), Len(u) = Len(v),
         \A k \in 1..Len(u) : u[k] = v[k]
  PROVE  c = d
<1>1. CASE Len(u) = 1
  BY <1>1 DEF Writes
<1>2. CASE Len(u) = 2
  BY <1>2 DEF Writes
<1>3. CASE Len(u) = 3
  BY <1>3 DEF Writes
<1> QED BY <1>1, <1>2, <1>3 DEF Writes

\* Pairs and triples of bytes.
LEMMA ByteSums ==
  ASSUME NEW a \in Byte, NEW b \in Byte, NEW c \in Byte
  PROVE  /\ <<a, b>> \in Seq(Byte) /\ Len(<<a, b>>) = 2
         /\ <<a, b, c>> \in Seq(Byte) /\ Len(<<a, b, c>>) = 3
OBVIOUS

\* AppendUtf8 writes a lead byte and its continuation bytes.
LEMMA AppendUtf8Bytes == ASSUME NEW cp \in Bmp PROVE Writes(AppendUtf8(cp), cp)
<1> USE DEF Writes
<1>0. cp \in Nat /\ cp < 65536
  BY DEF Bmp
<1>1. CASE cp < 128
  BY <1>0, <1>1 DEF AppendUtf8, Byte
<1>2. CASE cp >= 128 /\ cp < 2048
  <2>1. PICK q \in Int : q = cp \div 64
    BY <1>0
  <2>2. PICK r \in Int : r = cp % 64
    BY <1>0
  <2>3. q \in 2..31 /\ r \in 0..63 /\ cp = q * 64 + r
    BY <1>0, <1>2, <2>1, <2>2
  <2>4. AppendUtf8(cp) = <<192 + q, 128 + r>>
    BY <1>0, <1>2, <2>1, <2>2 DEF AppendUtf8
  <2>5. 192 + q \in 192..223 /\ 128 + r \in 128..191 /\ cp = (192 + q - 192) * 64 + (128 + r - 128)
    BY ONLY <2>3
  <2>6. 192 + q \in Byte /\ 128 + r \in Byte
    BY <2>5 DEF Byte
  <2>7. <<192 + q, 128 + r>> \in Seq(Byte) /\ Len(<<192 + q, 128 + r>>) = 2
    BY <2>6, ByteSums
  <2> QED BY <2>4, <2>5, <2>7
<1>3. CASE cp >= 2048
  <2>1. PICK q \in Int : q = cp \div 4096
    BY <1>0
  <2>2. PICK m \in Int : m = (cp \div 64) % 64
    BY <1>0
  <2>3. PICK r \in Int : r = cp % 64
    BY <1>0
  <2>4. PICK h \in Int : h = cp \div 64
    BY <1>0
  <2>5. h * 64 + r = cp /\ r \in 0..63 /\ h \in 32..1023
    BY <1>0, <1>3, <2>3, <2>4
  <2>6. m = h % 64
    BY <2>2, <2>4
  <2>10. PICK d \in Int : d = h \div 64
    BY <2>5
  <2>11. m \in 0..63 /\ d * 64 + m = h
    BY <2>5, <2>6, <2>10
  <2>7. d = q
    BY <1>0, <2>1, <2>5, <2>11
  <2>8. q \in 0..15 /\ cp = q * 4096 + m * 64 + r
    BY <2>5, <2>7, <2>11
  <2>9. AppendUtf8(cp) = <<224 + q, 128 + m, 128 + r>>
    BY <1>0, <1>3, <2>1, <2>2, <2>3 DEF AppendUtf8
  <2> DEFINE x == 224 + q
             y == 128 + m
             z == 128 + r
  <2>12. /\ x \in 224..239 /\ y \in 128..191 /\ z \in 128..191
         /\ cp = (x - 224) * 4096 + (y - 128) * 64 + (z - 128)
    BY ONLY <2>5, <2>8, <2>11
  <2>13. x \in Byte /\ y \in Byte /\ z \in Byte
    BY <2>12 DEF Byte
  <2>14. <<x, y, z>> \in Seq(Byte) /\ Len(<<x, y, z>>) = 3
    BY <2>13, ByteSums
  <2> QED BY <2>9, <2>12, <2>14
<1> QED BY <1>0, <1>1, <1>2, <1>3

\* The empty text has no bytes.
LEMMA Utf8Empty == Utf8(<< >>) = << >>
<1>1. [i \in 1..Len(<< >>) |-> AppendUtf8(<< >>[i])] = << >>
  OBVIOUS
<1> QED BY <1>1, JoinedEmpty DEF Utf8

\* UTF-8 is a sequence of bytes.
LEMMA Utf8Type == ASSUME NEW t \in BmpText PROVE Utf8(t) \in Seq(Byte)
<1> DEFINE us == [i \in 1..Len(t) |-> AppendUtf8(t[i])]
<1>1. \A i \in 1..Len(t) : AppendUtf8(t[i]) \in Seq(Byte)
  BY AppendUtf8Bytes DEF BmpText, Writes
<1>2. us \in Seq(Seq(Byte))
  BY <1>1 DEF BmpText
<1> HIDE DEF us
<1>3. Joined(us) \in Seq(Byte)
  BY <1>2, JoinedType
<1> QED BY <1>3 DEF us, Utf8

\* One more code point appends its bytes.
LEMMA Utf8Append ==
  ASSUME NEW t \in BmpText, NEW cp \in Bmp
  PROVE  Utf8(Append(t, cp)) = Utf8(t) \o AppendUtf8(cp)
<1> DEFINE us == [i \in 1..Len(t) |-> AppendUtf8(t[i])]
           vs == [i \in 1..Len(Append(t, cp)) |-> AppendUtf8(Append(t, cp)[i])]
<1>1. \A i \in 1..Len(t) : AppendUtf8(t[i]) \in Seq(Byte)
  BY AppendUtf8Bytes DEF BmpText, Writes
<1>2. us \in Seq(Seq(Byte)) /\ AppendUtf8(cp) \in Seq(Byte)
  BY <1>1, AppendUtf8Bytes DEF BmpText, Writes
<1>3. vs = Append(us, AppendUtf8(cp))
  BY <1>2 DEF BmpText
<1> HIDE DEF us, vs
<1>4. Joined(vs) = Joined(us) \o AppendUtf8(cp)
  BY <1>2, <1>3, JoinedAppend
<1> QED BY <1>4 DEF us, vs, Utf8

\* Where the last code point begins can be read from the end.
LEMMA LastCodePoint ==
  ASSUME NEW s \in Seq(Byte), NEW t \in Seq(Byte), NEW c \in Bmp, NEW d \in Bmp,
         s \o AppendUtf8(c) = t \o AppendUtf8(d)
  PROVE  s = t /\ c = d
<1> DEFINE u == AppendUtf8(c)
           v == AppendUtf8(d)
           w == s \o u
<1>1. Writes(u, c) /\ u \in Seq(Byte) /\ Len(u) \in {1, 2, 3}
  BY AppendUtf8Bytes DEF Writes
<1>2. Writes(v, d) /\ v \in Seq(Byte) /\ Len(v) \in {1, 2, 3}
  BY AppendUtf8Bytes DEF Writes
<1> HIDE DEF u, v
<1>3. /\ Len(w) = Len(s) + Len(u) /\ Len(s) \in Nat
      /\ \A k \in 1..Len(s) : w[k] = s[k]
      /\ \A k \in 1..Len(u) : w[Len(s) + k] = u[k]
  BY <1>1
<1>4. /\ Len(w) = Len(t) + Len(v) /\ Len(t) \in Nat
      /\ \A k \in 1..Len(t) : w[k] = t[k]
      /\ \A k \in 1..Len(v) : w[Len(t) + k] = v[k]
  <2>1. w = t \o v
    BY DEF u, v
  <2> HIDE DEF w
  <2> QED BY <1>2, <2>1
<1> HIDE DEF w
<1>5. w[Len(w)] = u[Len(u)] /\ w[Len(w)] = v[Len(v)]
  <2>0. \A k \in {1, 2, 3} : k \in 1..k
    OBVIOUS
  <2>1. Len(u) \in 1..Len(u) /\ Len(v) \in 1..Len(v)
    BY ONLY <1>1, <1>2, <2>0
  <2>2. w[Len(s) + Len(u)] = u[Len(u)] /\ w[Len(t) + Len(v)] = v[Len(v)]
    BY <1>3, <1>4, <2>1
  <2> QED BY <1>3, <1>4, <2>2
<1>6. Len(u) > 1 => w[Len(w) - 1] = u[Len(u) - 1]
  <2> SUFFICES ASSUME Len(u) > 1 PROVE w[Len(w) - 1] = u[Len(u) - 1]
    OBVIOUS
  <2>1. Len(u) - 1 \in 1..Len(u) /\ Len(w) - 1 = Len(s) + (Len(u) - 1)
    BY <1>1, <1>3
  <2> QED BY <1>3, <2>1
<1>7. Len(v) > 1 => w[Len(w) - 1] = v[Len(v) - 1]
  <2> SUFFICES ASSUME Len(v) > 1 PROVE w[Len(w) - 1] = v[Len(v) - 1]
    OBVIOUS
  <2>1. Len(v) - 1 \in 1..Len(v) /\ Len(w) - 1 = Len(t) + (Len(v) - 1)
    BY <1>2, <1>4
  <2> QED BY <1>4, <2>1
<1>8. Len(u) = Len(v)
  <2>1. u[Len(u)] = v[Len(v)]
    BY <1>5
  <2>2. Len(u) > 1 /\ Len(v) > 1 => u[Len(u) - 1] = v[Len(v) - 1]
    BY <1>6, <1>7
  <2> QED BY <1>1, <1>2, <2>1, <2>2, SameLength
<1>9. Len(s) = Len(t)
  BY <1>3, <1>4, <1>8, <1>1, <1>2
<1>10. s = t
  BY <1>3, <1>4, <1>9
<1>11. \A k \in 1..Len(u) : u[k] = v[k]
  BY <1>3, <1>4, <1>8, <1>9
<1>12. c = d
  BY <1>1, <1>2, <1>8, <1>11, SameCodePoint
<1> QED BY <1>10, <1>12

\* No two texts have the same UTF-8: the last code point can be told off, and so
\* can the others.
LEMMA Utf8Injective ==
  ASSUME NEW s \in BmpText, NEW t \in BmpText, Utf8(s) = Utf8(t)
  PROVE  s = t
<1> DEFINE S == {r \in BmpText : \A x \in BmpText : Utf8(r) = Utf8(x) => r = x}
<1>0. BmpText = Seq(Bmp)
  BY DEF BmpText
<1>1. ASSUME NEW x \in BmpText, x # << >>
      PROVE  \E r \in BmpText, c \in Bmp :
               x = Append(r, c) /\ Utf8(x) = Utf8(r) \o AppendUtf8(c) /\ Utf8(x) # << >>
  <2> DEFINE n == Len(x) - 1
             r == SubSeq(x, 1, n)
  <2>1. r \in Seq(Bmp) /\ x[n + 1] \in Bmp /\ x = Append(r, x[n + 1])
    BY <1>0, <1>1
  <2> HIDE DEF r, n
  <2>2. Utf8(x) = Utf8(r) \o AppendUtf8(x[n + 1])
    BY <1>0, <2>1, Utf8Append
  <2>3. Utf8(r) \in Seq(Byte) /\ AppendUtf8(x[n + 1]) \in Seq(Byte) /\ Len(AppendUtf8(x[n + 1])) > 0
    <3>1. Utf8(r) \in Seq(Byte)
      BY <1>0, <2>1, Utf8Type
    <3>2. AppendUtf8(x[n + 1]) \in Seq(Byte) /\ Len(AppendUtf8(x[n + 1])) \in {1, 2, 3}
      BY <2>1, AppendUtf8Bytes DEF Writes
    <3>3. \A k \in {1, 2, 3} : k > 0
      OBVIOUS
    <3> QED BY ONLY <3>1, <3>2, <3>3
  <2>4. Utf8(x) # << >>
    BY <2>2, <2>3
  <2> QED BY <1>0, <2>1, <2>2, <2>4
<1>2. << >> \in S
  <2>1. << >> \in BmpText
    BY <1>0
  <2>2. \A x \in BmpText : Utf8(<< >>) = Utf8(x) => << >> = x
    BY <1>1, Utf8Empty
  <2> QED BY <2>1, <2>2
<1>3. ASSUME NEW r \in Seq(Bmp), NEW c \in Bmp, r \in S PROVE Append(r, c) \in S
  <2>1. Append(r, c) \in BmpText /\ Append(r, c) # << >>
    BY <1>0
  <2>2. Utf8(Append(r, c)) = Utf8(r) \o AppendUtf8(c)
    BY <1>0, Utf8Append
  <2>3. Utf8(r) \in Seq(Byte)
    BY <1>0, Utf8Type
  <2>4. Utf8(Append(r, c)) # << >>
    <3>1. AppendUtf8(c) \in Seq(Byte) /\ Len(AppendUtf8(c)) \in {1, 2, 3}
      BY AppendUtf8Bytes DEF Writes
    <3>2. \A k \in {1, 2, 3} : k > 0
      OBVIOUS
    <3>3. Len(AppendUtf8(c)) > 0
      BY ONLY <3>1, <3>2
    <3> QED BY <2>2, <2>3, <3>1, <3>3
  <2>5. ASSUME NEW x \in BmpText, Utf8(Append(r, c)) = Utf8(x) PROVE Append(r, c) = x
    <3>1. x # << >>
      BY <2>4, <2>5, Utf8Empty
    <3>2. PICK q \in BmpText, d \in Bmp : x = Append(q, d) /\ Utf8(x) = Utf8(q) \o AppendUtf8(d)
      BY <1>1, <3>1
    <3>3. Utf8(q) \in Seq(Byte) /\ Utf8(r) \o AppendUtf8(c) = Utf8(q) \o AppendUtf8(d)
      BY <2>2, <2>5, <3>2, Utf8Type
    <3>4. Utf8(r) = Utf8(q) /\ c = d
      <4>1. Utf8(r) \in Seq(Byte) /\ c \in Bmp /\ d \in Bmp
        BY <2>3
      <4> QED BY ONLY <4>1, <3>3, LastCodePoint
    <3>5. r = q
      BY <1>3, <3>4
    <3> QED BY <3>2, <3>4, <3>5
  <2> QED BY <2>1, <2>5
<1> HIDE DEF S
<1>4. \A r \in Seq(Bmp), c \in Bmp : r \in S => Append(r, c) \in S
  BY <1>3
<1>5. Seq(Bmp) \subseteq S
  BY <1>2, <1>4, SeqInduction
<1> QED BY <1>0, <1>5 DEF S

\* A literal that is re-encoded is equal to the stored bytes that DuckDB would
\* see as that literal, and to no others, for texts and bytes of any length
\* (TranscodeNoneCharset, TryEncodeNoneLiteral).
THEOREM ReencodingIsExact ==
  ASSUME NEW mode \in Transcoding, NEW text \in BmpText, Encodable(mode, text),
         NEW raw \in Seq(Byte)
  PROVE  Encode(mode, text) = raw <=> Utf8(text) = Transcode(mode, raw)
<1> DEFINE t == [i \in 1..Len(raw) |-> CodePoint(mode, raw[i])]
<1>1. Encode(mode, text) = raw <=> t = text
  BY EncodeInverts
<1>2. \A i \in 1..Len(raw) : CodePoint(mode, raw[i]) \in Bmp
  BY CodePointType
<1>3. t \in BmpText
  BY <1>2 DEF BmpText
<1>4. Transcode(mode, raw) = Utf8(t)
  BY DEF Transcode, Transcoding
<1> HIDE DEF t
<1>5. Utf8(text) = Utf8(t) => text = t
  BY <1>3, Utf8Injective
<1> QED BY <1>1, <1>4, <1>5

-----------------------------------------------------------------------------
(* Valid UTF-8: the text can be cut into sequences that are each accepted. *)


\* What IsValidUtf8 asks of the sequence at p, and where the next one is.
Sound(s, p) ==
  LET want == Lead(s[p]) - 1 IN
  \/ want = 0
  \/ /\ want \in 1..3 /\ p + 1 + want <= Len(s) + 1
     /\ \A i \in 1..want : s[p + i] \in 128..191
     /\ Scalar(Sequence(s, p, want + 1), want + 1)

\* B has the places where the sequences of s begin, and its end.
Boundaries(B, s) ==
  /\ B \subseteq 1..(Len(s) + 1)
  /\ \A p \in B : p <= Len(s) => Sound(s, p) /\ p + Lead(s[p]) \in B

\* One step of IsValidUtf8.
Step(v, s, p) ==
  IF p > Len(s) THEN TRUE
  ELSE LET want == Lead(s[p]) - 1 IN
       \/ want = 0 /\ v[p + 1]
       \/ /\ want \in 1..3
          /\ p + 1 + want <= Len(s) + 1
          /\ \A i \in 1..want : s[p + i] \in 128..191
          /\ Scalar(Sequence(s, p, want + 1), want + 1)
          /\ v[p + 1 + want]

LEMMA LeadType == ASSUME NEW b PROVE Lead(b) \in 0..4
BY DEF Lead

\* The lead bytes of one, two and three bytes, and their payloads.
LEMMA LeadByte ==
  ASSUME NEW b
  PROVE  /\ b \in 0..127 => Lead(b) = 1
         /\ b \in 192..223 => Lead(b) = 2 /\ Payload(b, 2) = b - 192
         /\ b \in 224..239 => Lead(b) = 3 /\ Payload(b, 3) = b - 224
<1>1. CASE b \in 0..127
  <2>1. b < 128 /\ b \notin 192..223 /\ b \notin 224..239
    BY <1>1
  <2> QED BY <1>1, <2>1 DEF Lead
<1>2. CASE b \in 192..223
  <2>1. ~(b < 128) /\ b \notin 224..239 /\ b % 32 = b - 192
    BY <1>2
  <2>2. Payload(b, 2) = b % 32
    BY DEF Payload
  <2> QED BY <1>2, <2>1, <2>2 DEF Lead
<1>3. CASE b \in 224..239
  <2>1. ~(b < 128) /\ b \notin 192..223 /\ b % 16 = b - 224
    BY <1>3
  <2>2. Payload(b, 3) = b % 16
    BY DEF Payload
  <2> QED BY <1>3, <2>1, <2>2 DEF Lead
<1> QED BY <1>1, <1>2, <1>3

\* A continuation byte carries six bits.
LEMMA ContinuationByte == ASSUME NEW b \in 128..191 PROVE b \in Int /\ b % 64 = b - 128
OBVIOUS

LEMMA StepIsSound ==
  ASSUME NEW s \in Seq(Byte), NEW v, NEW p \in 1..Len(s)
  PROVE  Step(v, s, p) <=> Sound(s, p) /\ v[p + Lead(s[p])]
<1> DEFINE want == Lead(s[p]) - 1
<1>1. want \in Int /\ p + 1 + want = p + Lead(s[p]) /\ ~(p > Len(s)) /\ (want = 0 => p + 1 = p + Lead(s[p]))
  BY LeadType
<1>2. Step(v, s, p) <=>
       \/ want = 0 /\ v[p + 1]
       \/ /\ want \in 1..3
          /\ p + 1 + want <= Len(s) + 1
          /\ \A i \in 1..want : s[p + i] \in 128..191
          /\ Scalar(Sequence(s, p, want + 1), want + 1)
          /\ v[p + 1 + want]
  BY <1>1 DEF Step
<1>3. Sound(s, p) <=> 
  \/ want = 0
  \/ /\ want \in 1..3 /\ p + 1 + want <= Len(s) + 1
     /\ \A i \in 1..want : s[p + i] \in 128..191
     /\ Scalar(Sequence(s, p, want + 1), want + 1)
  BY DEF Sound
<1> HIDE DEF want
<1> QED BY <1>1, <1>2, <1>3

\* The definition of IsValidUtf8 has a solution: what can be cut into sound
\* sequences up to the end.
LEMMA ValidSteps ==
  ASSUME NEW s \in Seq(Byte)
  PROVE  \E v : /\ IsValidUtf8(s) = v[1]
                /\ \A p \in 1..(Len(s) + 1) : v[p] = Step(v, s, p)
<1> DEFINE D == 1..(Len(s) + 1)
           g == [p \in D |-> \E B : Boundaries(B, s) /\ p \in B]
<1>0. Len(s) \in Nat
  OBVIOUS
<1>1. ASSUME NEW p \in D PROVE g[p] = Step(g, s, p)
  <2>0. g[p] = (\E B : Boundaries(B, s) /\ p \in B)
    OBVIOUS
  <2>1. CASE p > Len(s)
    <3>1. Boundaries({p}, s) /\ p \in {p}
      BY <1>0, <2>1 DEF Boundaries
    <3>2. \E B : Boundaries(B, s) /\ p \in B
      BY <3>1
    <3>3. g[p] = TRUE
      BY ONLY <2>0, <3>2
    <3> QED BY <2>1, <3>3 DEF Step
  <2>2. CASE ~(p > Len(s))
    <3>0. p \in 1..Len(s)
      BY <1>0, <2>2
    <3>1. ASSUME NEW B, Boundaries(B, s), p \in B PROVE Sound(s, p) /\ p + Lead(s[p]) \in D /\ g[p + Lead(s[p])]
      <4>0. p <= Len(s)
        BY <3>0
      <4>1. Sound(s, p) /\ p + Lead(s[p]) \in B /\ p + Lead(s[p]) \in D
        BY ONLY <4>0, <3>1 DEF Boundaries
      <4> QED BY <3>1, <4>1
    <3>2. ASSUME Sound(s, p), p + Lead(s[p]) \in D, NEW B, Boundaries(B, s), p + Lead(s[p]) \in B
          PROVE  \E C : Boundaries(C, s) /\ p \in C
      <4>1. Boundaries(B \cup {p}, s) /\ p \in B \cup {p}
        BY <3>0, <3>2 DEF Boundaries
      <4> QED BY <4>1
    <3>3. Sound(s, p) => p + Lead(s[p]) \in D
      <4>1. ASSUME NEW n \in 0..4, \/ n - 1 = 0
                                   \/ n - 1 \in 1..3 /\ p + 1 + (n - 1) <= Len(s) + 1
            PROVE  p + n \in D
        BY <1>0, <3>0, <4>1
      <4> QED BY <4>1, LeadType DEF Sound
    <3>4. (\E B : Boundaries(B, s) /\ p \in B) <=> Sound(s, p) /\ g[p + Lead(s[p])]
      <4>1. p + Lead(s[p]) \in D => g[p + Lead(s[p])] = (\E B : Boundaries(B, s) /\ p + Lead(s[p]) \in B)
        OBVIOUS
      <4> HIDE DEF g, D
      <4> QED BY <3>1, <3>2, <3>3, <4>1
    <3>5. Step(g, s, p) \in BOOLEAN
      BY <2>2 DEF Step
    <3> HIDE DEF g
    <3> QED BY <2>0, <3>0, <3>4, <3>5, StepIsSound
  <2> QED BY <2>1, <2>2
<1> DEFINE U == CHOOSE v : v = [p \in D |-> Step(v, s, p)]
<1>2. g = [p \in D |-> Step(g, s, p)]
  <2>1. g = [p \in D |-> g[p]]
    OBVIOUS
  <2> HIDE DEF g
  <2> QED BY <1>1, <2>1
<1>3. U = [p \in D |-> Step(U, s, p)]
  <2> HIDE DEF g, D
  <2> QED BY <1>2
<1>4. IsValidUtf8(s) = U[1]
  BY DEF IsValidUtf8, Step
<1> HIDE DEF U
<1> QED BY <1>3, <1>4

\* What can be cut is valid.
LEMMA CutIsValid ==
  ASSUME NEW s \in Seq(Byte), NEW B, Boundaries(B, s), 1 \in B
  PROVE  IsValidUtf8(s)
<1>0. Len(s) \in Nat
  OBVIOUS
<1>1. PICK v : IsValidUtf8(s) = v[1] /\ \A p \in 1..(Len(s) + 1) : v[p] = Step(v, s, p)
  BY ValidSteps
<1> DEFINE S == {n \in Nat : \A p \in B : Len(s) + 1 - p <= n => v[p] = TRUE}
<1>2. ASSUME NEW p \in B PROVE p \in 1..(Len(s) + 1)
  BY DEF Boundaries
<1>3. ASSUME NEW p \in B, p > Len(s) PROVE v[p] = TRUE
  BY <1>1, <1>2, <1>3 DEF Step
<1>4. 0 \in S
  <2>1. ASSUME NEW p \in B, Len(s) + 1 - p <= 0 PROVE p > Len(s)
    BY <1>0, <1>2, <2>1
  <2> QED BY <1>3, <2>1
<1>5. ASSUME NEW n \in Nat, n \in S PROVE n + 1 \in S
  <2>0. n + 1 \in Nat
    OBVIOUS
  <2> SUFFICES ASSUME NEW p \in B, Len(s) + 1 - p <= n + 1 PROVE v[p] = TRUE
    BY <2>0
  <2>1. CASE p > Len(s)
    BY <1>3, <2>1
  <2>2. CASE ~(p > Len(s))
    <3>1. p \in 1..Len(s) /\ p <= Len(s) /\ p \in 1..(Len(s) + 1)
      BY <1>0, <1>2, <2>2
    <3>2. Sound(s, p) /\ p + Lead(s[p]) \in B
      BY <3>1 DEF Boundaries
    <3>3. Lead(s[p]) \in 1..4
      <4>1. Lead(s[p]) \in 0..4
        BY LeadType
      <4>2. Lead(s[p]) - 1 = 0 \/ Lead(s[p]) - 1 \in 1..3
        BY <3>2 DEF Sound
      <4> QED BY <4>1, <4>2
    <3>4. Len(s) + 1 - (p + Lead(s[p])) <= n
      BY <1>0, <3>1, <3>3
    <3>5. v[p + Lead(s[p])] = TRUE
      BY <1>5, <3>2, <3>4
    <3>6. Step(v, s, p)
      BY <3>1, <3>2, <3>5, StepIsSound
    <3>7. Step(v, s, p) \in BOOLEAN
      BY <2>2 DEF Step
    <3> QED BY <1>1, <3>1, <3>6, <3>7
  <2> QED BY <2>1, <2>2
<1> HIDE DEF S
<1>6. Nat \subseteq S
  BY <1>4, <1>5, Induction
<1>7. Len(s) + 1 - 1 \in Nat /\ Len(s) + 1 - 1 \in S /\ Len(s) + 1 - 1 <= Len(s) + 1 - 1
  BY <1>0, <1>6
<1>8. v[1] = TRUE
  BY <1>7 DEF S
<1> QED BY <1>1, <1>8

-----------------------------------------------------------------------------
(* Transcoded text is valid                                                *)

\* A sequence stands for its payloads, six bits a byte behind the lead byte.
LEMMA SequenceSteps ==
  ASSUME NEW s \in Seq(Byte), NEW pos \in Int, NEW len \in 1..4
  PROVE  \E v : /\ Sequence(s, pos, len) = v[len]
                /\ v[1] = Payload(s[pos], len)
                /\ \A n \in 2..len : v[n] = v[n - 1] * 64 + (s[pos + n - 1] % 64)
<1> DEFINE D == 1..len
           a == Payload(s[pos], len)
           x(n) == s[pos + n - 1] % 64
           two == a * 64 + x(2)
           three == two * 64 + x(3)
           four == three * 64 + x(4)
           g == [n \in D |-> IF n = 1 THEN a ELSE IF n = 2 THEN two ELSE IF n = 3 THEN three ELSE four]
<1>1. \A n \in D : g[n] = IF n = 1 THEN a ELSE g[n - 1] * 64 + x(n)
  <2>1. \A n \in D : g[n] = IF n = 1 THEN a ELSE IF n = 2 THEN two ELSE IF n = 3 THEN three ELSE four
    OBVIOUS
  <2>2. \A n \in D : n \in {1, 2, 3, 4} /\ (n # 1 => n - 1 \in D)
    OBVIOUS
  <2> SUFFICES ASSUME NEW n \in D PROVE g[n] = IF n = 1 THEN a ELSE g[n - 1] * 64 + x(n)
    OBVIOUS
  <2>3. n \in {1, 2, 3, 4} /\ (n # 1 => n - 1 \in D)
    BY <2>2
  <2> HIDE DEF g, D, a, x, two, three, four
  <2>4. CASE n = 1
    BY <2>1, <2>4
  <2>5. CASE n = 2
    <3>1. n # 1 /\ n - 1 = 1 /\ n - 1 \in D
      BY <2>3, <2>5
    <3>2. g[n - 1] = a /\ g[n] = two
      BY <2>1, <2>5, <3>1
    <3> QED BY <2>5, <3>1, <3>2 DEF two
  <2>6. CASE n = 3
    <3>1. n # 1 /\ n # 2 /\ n - 1 = 2 /\ n - 1 # 1 /\ n - 1 \in D
      BY <2>3, <2>6
    <3>2. g[n - 1] = two /\ g[n] = three
      BY <2>1, <2>6, <3>1
    <3> QED BY <2>6, <3>1, <3>2 DEF three
  <2>7. CASE n = 4
    <3>1. n # 1 /\ n # 2 /\ n # 3 /\ n - 1 = 3 /\ n - 1 # 1 /\ n - 1 # 2 /\ n - 1 \in D
      BY <2>3, <2>7
    <3>2. g[n - 1] = three /\ g[n] = four
      BY <2>1, <2>7, <3>1
    <3> QED BY <2>7, <3>1, <3>2 DEF four
  <2> QED BY <2>3, <2>4, <2>5, <2>6, <2>7
<1>2. g = [n \in D |-> IF n = 1 THEN a ELSE g[n - 1] * 64 + x(n)]
  <2>1. g = [n \in D |-> g[n]]
    OBVIOUS
  <2> HIDE DEF g
  <2> QED BY <1>1, <2>1
<1> DEFINE U == CHOOSE v : v = [n \in D |-> IF n = 1 THEN a ELSE v[n - 1] * 64 + x(n)]
<1>3. U = [n \in D |-> IF n = 1 THEN a ELSE U[n - 1] * 64 + x(n)]
  <2> HIDE DEF g
  <2> QED BY <1>2
<1>4. Sequence(s, pos, len) = U[len]
  BY DEF Sequence
<1> HIDE DEF U
<1>5. U[1] = a /\ \A n \in 2..len : U[n] = U[n - 1] * 64 + x(n)
  BY <1>3
<1> QED BY <1>4, <1>5

LEMMA SequenceOfOne ==
  ASSUME NEW s \in Seq(Byte), NEW pos \in Int
  PROVE  Sequence(s, pos, 1) = s[pos]
<1>1. 1 \in 1..4
  OBVIOUS
<1>2. \E v : /\ Sequence(s, pos, 1) = v[1]
             /\ v[1] = Payload(s[pos], 1)
             /\ \A n \in 2..1 : v[n] = v[n - 1] * 64 + (s[pos + n - 1] % 64)
  BY <1>1, SequenceSteps
<1> QED BY <1>2 DEF Payload

LEMMA SequenceOfTwo ==
  ASSUME NEW s \in Seq(Byte), NEW pos \in Int
  PROVE  Sequence(s, pos, 2) = Payload(s[pos], 2) * 64 + (s[pos + 1] % 64)
<1>1. 2 \in 1..4 /\ 2 \in 2..2 /\ 2 - 1 = 1 /\ pos + 2 - 1 = pos + 1
  OBVIOUS
<1>2. \E v : /\ Sequence(s, pos, 2) = v[2]
             /\ v[1] = Payload(s[pos], 2)
             /\ \A n \in 2..2 : v[n] = v[n - 1] * 64 + (s[pos + n - 1] % 64)
  BY <1>1, SequenceSteps
<1> QED BY <1>1, <1>2

LEMMA SequenceOfThree ==
  ASSUME NEW s \in Seq(Byte), NEW pos \in Int
  PROVE  Sequence(s, pos, 3) = (Payload(s[pos], 3) * 64 + (s[pos + 1] % 64)) * 64 + (s[pos + 2] % 64)
<1>1. /\ 3 \in 1..4 /\ 3 \in 2..3 /\ 2 \in 2..3 /\ 2 - 1 = 1 /\ 3 - 1 = 2
      /\ pos + 2 - 1 = pos + 1 /\ pos + 3 - 1 = pos + 2
  OBVIOUS
<1>2. \E v : /\ Sequence(s, pos, 3) = v[3]
             /\ v[1] = Payload(s[pos], 3)
             /\ \A n \in 2..3 : v[n] = v[n - 1] * 64 + (s[pos + n - 1] % 64)
  BY <1>1, SequenceSteps
<1> QED BY <1>1, <1>2

LEMMA SequenceOfFour ==
  ASSUME NEW s \in Seq(Byte), NEW pos \in Int
  PROVE  Sequence(s, pos, 4) =
           ((Payload(s[pos], 4) * 64 + (s[pos + 1] % 64)) * 64 + (s[pos + 2] % 64)) * 64 + (s[pos + 3] % 64)
<1>1. /\ 4 \in 1..4 /\ 4 \in 2..4 /\ 3 \in 2..4 /\ 2 \in 2..4 /\ 2 - 1 = 1 /\ 3 - 1 = 2 /\ 4 - 1 = 3
      /\ pos + 2 - 1 = pos + 1 /\ pos + 3 - 1 = pos + 2 /\ pos + 4 - 1 = pos + 3
  OBVIOUS
<1>2. \E v : /\ Sequence(s, pos, 4) = v[4]
             /\ v[1] = Payload(s[pos], 4)
             /\ \A n \in 2..4 : v[n] = v[n - 1] * 64 + (s[pos + n - 1] % 64)
  <2>1. PICK len \in 1..4 : len = 4
    OBVIOUS
  <2>2. \E v : /\ Sequence(s, pos, len) = v[len]
               /\ v[1] = Payload(s[pos], len)
               /\ \A n \in 2..len : v[n] = v[n - 1] * 64 + (s[pos + n - 1] % 64)
    BY SequenceSteps
  <2> QED BY <2>1, <2>2
<1> QED BY <1>1, <1>2

\* The code points of the basic plane that UTF-8 may write.
Plain == Bmp \ 55296..57343

\* The bytes of s from p on begin with those of cp.
Stands(s, p, cp) ==
  /\ p + Len(AppendUtf8(cp)) <= Len(s) + 1
  /\ \A k \in 1..Len(AppendUtf8(cp)) : s[p + k - 1] = AppendUtf8(cp)[k]

\* AppendUtf8 writes no more bytes than it must.
LEMMA AppendUtf8Length ==
  ASSUME NEW cp \in Bmp
  PROVE  /\ cp \in Nat /\ cp < 65536
         /\ Len(AppendUtf8(cp)) = 2 => cp >= 128
         /\ Len(AppendUtf8(cp)) = 3 => cp >= 2048
<1>0. cp \in Nat /\ cp < 65536
  BY DEF Bmp
<1>1. \A a, b, c : Len(<<a>>) = 1 /\ Len(<<a, b>>) = 2 /\ Len(<<a, b, c>>) = 3
  OBVIOUS
<1>2. CASE cp < 128
  <2>1. Len(AppendUtf8(cp)) = 1
    BY <1>2, <1>1 DEF AppendUtf8
  <2> QED BY <1>0, <2>1
<1>3. CASE cp >= 128 /\ cp < 2048
  <2>1. Len(AppendUtf8(cp)) = 2
    BY <1>0, <1>3, <1>1 DEF AppendUtf8
  <2> QED BY <1>0, <1>3, <2>1
<1>4. CASE cp >= 2048
  <2>1. Len(AppendUtf8(cp)) = 3
    BY <1>0, <1>4, <1>1 DEF AppendUtf8
  <2> QED BY <1>0, <1>4, <2>1
<1> QED BY <1>0, <1>2, <1>3, <1>4

\* Where a code point stands the loop of IsValidUtf8 goes on behind it.
LEMMA StandsSound ==
  ASSUME NEW s \in Seq(Byte), NEW p \in 1..Len(s), NEW cp \in Plain, Stands(s, p, cp)
  PROVE  Sound(s, p) /\ Lead(s[p]) = Len(AppendUtf8(cp))
<1> DEFINE u == AppendUtf8(cp)
<1>1. cp \in Bmp /\ cp \notin 55296..57343
  BY DEF Plain
<1>2. /\ Writes(u, cp) /\ cp \in Nat /\ cp < 65536
      /\ Len(u) = 2 => cp >= 128
      /\ Len(u) = 3 => cp >= 2048
  <2>0. cp \in Bmp
    BY <1>1
  <2>1. Writes(AppendUtf8(cp), cp)
    BY ONLY <2>0, AppendUtf8Bytes
  <2>2. /\ cp \in Nat /\ cp < 65536
        /\ Len(AppendUtf8(cp)) = 2 => cp >= 128
        /\ Len(AppendUtf8(cp)) = 3 => cp >= 2048
    BY ONLY <2>0, AppendUtf8Length
  <2> QED BY <2>1, <2>2
<1>3. p + Len(u) <= Len(s) + 1 /\ \A k \in 1..Len(u) : s[p + k - 1] = u[k]
  BY DEF Stands
<1>4. Len(u) \in {1, 2, 3}
  BY <1>2 DEF Writes
<1> HIDE DEF u
<1>5. p \in Int /\ p + 1 - 1 = p /\ p + 2 - 1 = p + 1 /\ p + 3 - 1 = p + 2
  OBVIOUS
<1>6. CASE Len(u) = 1
  <2>9. cp \in Nat /\ u[1] = cp /\ cp < 128
    BY <1>2, <1>6 DEF Writes
  <2>1. u[1] \in 0..127
    BY ONLY <2>9
  <2>2. s[p] = u[1]
    BY <1>3, <1>5, <1>6
  <2>3. Lead(s[p]) = 1
    BY <2>1, <2>2, LeadByte
  <2> QED BY <1>6, <2>3 DEF Sound, u
<1>7. CASE Len(u) = 2
  <2>1. u[1] \in 192..223 /\ u[2] \in 128..191
    BY <1>2, <1>7 DEF Writes
  <2>9. cp = (u[1] - 192) * 64 + (u[2] - 128)
    BY <1>2, <1>7 DEF Writes
  <2>2. s[p] = u[1] /\ s[p + 1] = u[2]
    BY <1>3, <1>5, <1>7
  <2>3. Lead(s[p]) = 2 /\ Payload(s[p], 2) = u[1] - 192
    <3>1. s[p] \in 192..223
      BY ONLY <2>1, <2>2
    <3> QED BY ONLY <2>2, <3>1, LeadByte
  <2>4. Sequence(s, p, 2) = cp
    <3>1. Sequence(s, p, 2) = Payload(s[p], 2) * 64 + (s[p + 1] % 64)
      BY SequenceOfTwo
    <3>2. s[p + 1] % 64 = u[2] - 128
      BY ONLY <2>1, <2>2, ContinuationByte
    <3> QED BY ONLY <2>1, <2>3, <2>9, <3>1, <3>2
  <2>5. Scalar(cp, 2)
    BY <1>1, <1>2, <1>7 DEF Scalar, MinCp
  <2>6. Lead(s[p]) - 1 = 1 /\ 1 \in 1..3 /\ p + 1 + 1 <= Len(s) + 1 /\ 1 + 1 = 2
    BY <1>3, <1>7, <2>3
  <2>7. \A i \in 1..1 : s[p + i] \in 128..191
    BY <2>1, <2>2
  <2>8. Sound(s, p)
    BY ONLY <2>4, <2>5, <2>6, <2>7 DEF Sound
  <2> QED BY <1>7, <2>3, <2>8 DEF u
<1>8. CASE Len(u) = 3
  <2>1. u[1] \in 224..239 /\ u[2] \in 128..191 /\ u[3] \in 128..191
    BY <1>2, <1>8 DEF Writes
  <2>9. cp = (u[1] - 224) * 4096 + (u[2] - 128) * 64 + (u[3] - 128)
    BY <1>2, <1>8 DEF Writes
  <2>2. s[p] = u[1] /\ s[p + 1] = u[2] /\ s[p + 2] = u[3]
    BY <1>3, <1>5, <1>8
  <2>3. Lead(s[p]) = 3 /\ Payload(s[p], 3) = u[1] - 224
    <3>1. s[p] \in 224..239
      BY ONLY <2>1, <2>2
    <3> QED BY ONLY <2>2, <3>1, LeadByte
  <2>4. Sequence(s, p, 3) = cp
    <3>1. Sequence(s, p, 3) = (Payload(s[p], 3) * 64 + (s[p + 1] % 64)) * 64 + (s[p + 2] % 64)
      BY SequenceOfThree
    <3>2. s[p + 1] % 64 = u[2] - 128 /\ s[p + 2] % 64 = u[3] - 128
      BY ONLY <2>1, <2>2, ContinuationByte
    <3>3. PICK x \in 224..239, y \in 128..191, z \in 128..191 : x = u[1] /\ y = u[2] /\ z = u[3]
      BY ONLY <2>1
    <3>4. Payload(s[p], 3) = x - 224 /\ s[p + 1] % 64 = y - 128 /\ s[p + 2] % 64 = z - 128
      BY ONLY <2>3, <3>2, <3>3
    <3>5. Sequence(s, p, 3) = ((x - 224) * 64 + (y - 128)) * 64 + (z - 128)
      BY ONLY <3>1, <3>4
    <3>6. cp = (x - 224) * 4096 + (y - 128) * 64 + (z - 128)
      BY ONLY <2>9, <3>3
    <3>7. ((x - 224) * 64 + (y - 128)) * 64 + (z - 128) = (x - 224) * 4096 + (y - 128) * 64 + (z - 128)
      BY ONLY x \in 224..239, y \in 128..191, z \in 128..191
    <3> QED BY ONLY <3>5, <3>6, <3>7
  <2>5. Scalar(cp, 3)
    BY <1>1, <1>2, <1>8 DEF Scalar, MinCp
  <2>6. Lead(s[p]) - 1 = 2 /\ 2 \in 1..3 /\ p + 1 + 2 <= Len(s) + 1 /\ 2 + 1 = 3
    BY <1>3, <1>8, <2>3
  <2>7. ASSUME NEW i \in 1..2 PROVE s[p + i] \in 128..191
    <3>1. s[p + 1] \in 128..191 /\ s[p + 2] \in 128..191
      BY ONLY <2>1, <2>2
    <3>2. CASE i = 1
      BY ONLY <3>1, <3>2
    <3>3. CASE i = 2
      BY ONLY <3>1, <3>3
    <3>4. i = 1 \/ i = 2
      BY ONLY i \in 1..2
    <3> QED BY ONLY <3>2, <3>3, <3>4
  <2>8. Sound(s, p)
    BY ONLY <2>4, <2>5, <2>6, <2>7 DEF Sound
  <2> QED BY <1>8, <2>3, <2>8 DEF u
<1> QED BY <1>4, <1>6, <1>7, <1>8

\* B has the places where the code points of s begin, and its end.
Cuts(B, s) ==
  /\ B \subseteq 1..(Len(s) + 1) /\ 1 \in B /\ Len(s) + 1 \in B
  /\ \A p \in B : p <= Len(s) =>
       \E cp \in Plain : Stands(s, p, cp) /\ p + Len(AppendUtf8(cp)) \in B

LEMMA CutsAreBoundaries ==
  ASSUME NEW s \in Seq(Byte), NEW B, Cuts(B, s)
  PROVE  Boundaries(B, s)
<1>1. ASSUME NEW p \in B, p <= Len(s) PROVE Sound(s, p) /\ p + Lead(s[p]) \in B
  <2>1. PICK cp \in Plain : Stands(s, p, cp) /\ p + Len(AppendUtf8(cp)) \in B
    BY <1>1 DEF Cuts
  <2>2. p \in 1..Len(s)
    BY <1>1 DEF Cuts
  <2>3. Sound(s, p) /\ Lead(s[p]) = Len(AppendUtf8(cp))
    BY <2>1, <2>2, StandsSound
  <2> QED BY <2>1, <2>3
<1> QED BY <1>1 DEF Boundaries, Cuts

\* One more code point is cut off behind the others.
LEMMA OneMoreCut ==
  ASSUME NEW s \in Seq(Byte), NEW B, Cuts(B, s), NEW cp \in Plain
  PROVE  Cuts(B \cup {Len(s) + Len(AppendUtf8(cp)) + 1}, s \o AppendUtf8(cp))
<1> DEFINE u == AppendUtf8(cp)
           w == s \o u
           C == B \cup {Len(s) + Len(u) + 1}
<1>1. Writes(u, cp)
  <2>1. cp \in Bmp
    BY DEF Plain
  <2> QED BY <2>1, AppendUtf8Bytes
<1>2. u \in Seq(Byte) /\ Len(u) \in {1, 2, 3} /\ Len(u) \in Nat
  BY <1>1 DEF Writes
<1>0. u = AppendUtf8(cp)
  OBVIOUS
<1> HIDE DEF u
<1>3. /\ Len(w) = Len(s) + Len(u) /\ Len(s) \in Nat
      /\ \A k \in 1..Len(s) : w[k] = s[k]
      /\ \A k \in 1..Len(u) : w[Len(s) + k] = u[k]
  BY <1>2
<1> HIDE DEF w
<1>4. C \subseteq 1..(Len(w) + 1) /\ 1 \in C /\ Len(w) + 1 \in C
  <2>1. B \subseteq 1..(Len(s) + 1) /\ 1 \in B
    BY DEF Cuts
  <2>2. 1..(Len(s) + 1) \subseteq 1..(Len(w) + 1)
    BY <1>2, <1>3
  <2>3. Len(s) + Len(u) + 1 = Len(w) + 1 /\ Len(w) + 1 \in 1..(Len(w) + 1)
    BY <1>2, <1>3
  <2> QED BY <2>1, <2>2, <2>3
<1>5. ASSUME NEW p \in C, p <= Len(w)
      PROVE  \E c \in Plain : Stands(w, p, c) /\ p + Len(AppendUtf8(c)) \in C
  <2>1. p \in B /\ p \in 1..(Len(s) + 1)
    BY <1>2, <1>3, <1>5 DEF Cuts
  <2>2. CASE p <= Len(s)
    <3>1. PICK c \in Plain : Stands(s, p, c) /\ p + Len(AppendUtf8(c)) \in B
      BY <2>1, <2>2 DEF Cuts
    <3>2. PICK n \in Nat : n = Len(AppendUtf8(c))
      <4>1. c \in Bmp
        BY DEF Plain
      <4>2. Writes(AppendUtf8(c), c)
        BY <4>1, AppendUtf8Bytes
      <4> QED BY <4>2 DEF Writes
    <3>3. p + n <= Len(s) + 1 /\ \A k \in 1..n : s[p + k - 1] = AppendUtf8(c)[k]
      BY <3>1, <3>2 DEF Stands
    <3>4. \A k \in 1..n : p + k - 1 \in 1..Len(s)
      BY <1>3, <2>1, <3>3
    <3>5. p + n <= Len(w) + 1
      BY <1>2, <1>3, <2>1, <3>3
    <3>6. \A k \in 1..n : w[p + k - 1] = AppendUtf8(c)[k]
      BY <1>3, <3>3, <3>4
    <3>7. Stands(w, p, c)
      BY <3>2, <3>5, <3>6 DEF Stands
    <3> QED BY <3>1, <3>7
  <2>3. CASE p = Len(s) + 1
    <3>1. \A k \in 1..Len(u) : p + k - 1 = Len(s) + k
      BY <1>2, <1>3, <2>3
    <3>2. p + Len(u) <= Len(w) + 1 /\ p + Len(u) = Len(s) + Len(u) + 1
      BY <1>2, <1>3, <2>3
    <3>3. \A k \in 1..Len(u) : w[p + k - 1] = u[k]
      BY <1>3, <3>1
    <3>4. Stands(w, p, cp)
      BY <1>0, <3>2, <3>3 DEF Stands
    <3> QED BY <1>0, <3>2, <3>4
  <2> QED BY <1>3, <2>1, <2>2, <2>3
<1> HIDE DEF C
<1>6. Cuts(C, w)
  BY <1>4, <1>5 DEF Cuts
<1> QED BY <1>0, <1>6 DEF C, w

\* UTF-8 of a text without surrogates can be cut, from its beginning to its end.
LEMMA Utf8Cuts ==
  ASSUME NEW t \in Seq(Plain)
  PROVE  \E B : Cuts(B, Utf8(t))
<1> DEFINE S == {r \in Seq(Plain) : \E B : Cuts(B, Utf8(r))}
<1>0. Plain \subseteq Bmp
  BY DEF Plain
<1>1. << >> \in S
  <2>1. Len(<< >>) = 0 /\ << >> \in Seq(Plain)
    OBVIOUS
  <2>2. Cuts({1}, << >>)
    BY <2>1 DEF Cuts
  <2> QED BY <2>1, <2>2, Utf8Empty
<1>2. ASSUME NEW r \in Seq(Plain), NEW c \in Plain, r \in S PROVE Append(r, c) \in S
  <2>1. r \in BmpText /\ c \in Bmp
    BY <1>0 DEF BmpText
  <2>2. Utf8(Append(r, c)) = Utf8(r) \o AppendUtf8(c) /\ Utf8(r) \in Seq(Byte)
    BY <2>1, Utf8Append, Utf8Type
  <2>3. PICK B : Cuts(B, Utf8(r))
    BY <1>2
  <2>4. \E C : Cuts(C, Utf8(r) \o AppendUtf8(c))
    BY <2>2, <2>3, OneMoreCut
  <2>5. \E C : Cuts(C, Utf8(Append(r, c)))
    BY <2>2, <2>4
  <2>6. Append(r, c) \in Seq(Plain)
    OBVIOUS
  <2> QED BY <2>5, <2>6
<1> HIDE DEF S
<1>3. \A r \in Seq(Plain), c \in Plain : r \in S => Append(r, c) \in S
  BY <1>2
<1>4. Seq(Plain) \subseteq S
  BY <1>1, <1>3, SeqInduction
<1> QED BY <1>4 DEF S

\* No byte of a single-byte encoding stands for a surrogate.
LEMMA CodePointPlain ==
  ASSUME NEW mode, NEW b \in Byte
  PROVE  CodePoint(mode, b) \in Plain
<1>1. CodePoint(mode, b) \in Bmp
  BY CodePointType
<1>2. CASE mode = "WIN1252" /\ b \in 128..159
  <2>1. b - 127 \in 1..32
    BY <1>2
  <2>2. \A k \in 1..32 : Cp1252High[k] < 55296
    BY DEF Cp1252High
  <2>3. CodePoint(mode, b) = Cp1252High[b - 127]
    BY <1>2 DEF CodePoint
  <2>4. CodePoint(mode, b) < 55296
    BY <2>1, <2>2, <2>3
  <2> QED BY <1>1, <2>4 DEF Plain
<1>3. CASE ~(mode = "WIN1252" /\ b \in 128..159)
  <2>1. CodePoint(mode, b) = b /\ b < 55296
    BY <1>3 DEF CodePoint, Byte
  <2> QED BY <1>1, <2>1 DEF Plain
<1> QED BY <1>2, <1>3

\* What the single-byte decoders hand to DuckDB is valid UTF-8, whatever bytes are
\* stored: IsValidUtf8, which the strict mode asks of the bytes themselves, would
\* let it pass (TranscodeNoneCharset).
THEOREM TranscodedIsValid ==
  ASSUME NEW mode \in Transcoding, NEW raw \in Seq(Byte)
  PROVE  IsValidUtf8(Transcode(mode, raw))
<1> DEFINE t == [i \in 1..Len(raw) |-> CodePoint(mode, raw[i])]
<1>1. \A i \in 1..Len(raw) : CodePoint(mode, raw[i]) \in Plain
  BY CodePointPlain
<1>2. t \in Seq(Plain) /\ t \in BmpText
  BY <1>1 DEF BmpText, Plain
<1>3. Transcode(mode, raw) = Utf8(t)
  BY DEF Transcode, Transcoding
<1> HIDE DEF t
<1>4. Utf8(t) \in Seq(Byte)
  BY <1>2, Utf8Type
<1>5. PICK B : Cuts(B, Utf8(t))
  BY <1>2, Utf8Cuts
<1>6. Boundaries(B, Utf8(t)) /\ 1 \in B
  BY <1>4, <1>5, CutsAreBoundaries DEF Cuts
<1> QED BY <1>3, <1>4, <1>6, CutIsValid

-----------------------------------------------------------------------------
(* The readers of UTF-8 in the code agree, and reading loses nothing.       *)


\* What a lead byte's length says of it.
LEMMA LeadMeans ==
  ASSUME NEW b \in Byte
  PROVE  /\ Lead(b) = 1 => b \in 0..127
         /\ Lead(b) = 2 => b \in 192..223
         /\ Lead(b) = 3 => b \in 224..239
<1>1. CASE b < 128
  BY <1>1 DEF Lead, Byte
<1>2. CASE b \in 192..223
  BY <1>2, LeadByte
<1>3. CASE b \in 224..239
  BY <1>3, LeadByte
<1>4. CASE ~(b < 128) /\ b \notin 192..223 /\ b \notin 224..239
  <2>1. Lead(b) = 4 \/ Lead(b) = 0
    BY <1>4 DEF Lead
  <2> QED BY <2>1
<1> QED BY <1>1, <1>2, <1>3, <1>4

\* A sequence of bytes stands for a number.
LEMMA SequenceType ==
  ASSUME NEW s \in Seq(Byte), NEW p \in 1..Len(s), NEW len \in 1..4, p + len - 1 <= Len(s)
  PROVE  Sequence(s, p, len) \in Nat
<1>1. \A i \in 0..(len - 1) : s[p + i] \in Byte
  <2>1. \A i \in 0..(len - 1) : p + i \in 1..Len(s)
    OBVIOUS
  <2> QED BY <2>1
<1>2. \A b \in Byte : b \in Nat /\ b % 8 \in Nat /\ b % 16 \in Nat /\ b % 32 \in Nat /\ b % 64 \in Nat
  BY DEF Byte
<1>3. \A a \in Nat, b \in Nat : a * 64 + b \in Nat
  OBVIOUS
<1>4. \A b \in Byte : Payload(b, 2) \in Nat /\ Payload(b, 3) \in Nat /\ Payload(b, 4) \in Nat
  BY <1>2 DEF Payload
<1>5. p \in Int /\ s[p] \in Byte
  OBVIOUS
<1>6. CASE len = 1
  BY <1>2, <1>5, <1>6, SequenceOfOne
<1>7. CASE len = 2
  <2>1. s[p + 1] \in Byte
    BY <1>1, <1>7
  <2>2. Sequence(s, p, 2) = Payload(s[p], 2) * 64 + (s[p + 1] % 64)
    BY <1>5, SequenceOfTwo
  <2>3. Payload(s[p], 2) \in Nat /\ s[p + 1] % 64 \in Nat
    BY ONLY <1>2, <1>4, <1>5, <2>1
  <2> QED BY ONLY <1>3, <1>7, <2>2, <2>3
<1>8. CASE len = 3
  <2>1. s[p + 1] \in Byte /\ s[p + 2] \in Byte
    BY <1>1, <1>8
  <2>2. Sequence(s, p, 3) = (Payload(s[p], 3) * 64 + (s[p + 1] % 64)) * 64 + (s[p + 2] % 64)
    BY <1>5, SequenceOfThree
  <2>3. Payload(s[p], 3) \in Nat /\ s[p + 1] % 64 \in Nat /\ s[p + 2] % 64 \in Nat
    BY ONLY <1>2, <1>4, <1>5, <2>1
  <2> QED BY ONLY <1>3, <1>8, <2>2, <2>3
<1>9. CASE len = 4
  <2>1. s[p + 1] \in Byte /\ s[p + 2] \in Byte /\ s[p + 3] \in Byte
    BY <1>1, <1>9
  <2>2. Sequence(s, p, 4) =
          ((Payload(s[p], 4) * 64 + (s[p + 1] % 64)) * 64 + (s[p + 2] % 64)) * 64 + (s[p + 3] % 64)
    BY <1>5, SequenceOfFour
  <2>3. Payload(s[p], 4) \in Nat /\ s[p + 1] % 64 \in Nat /\ s[p + 2] % 64 \in Nat /\ s[p + 3] % 64 \in Nat
    BY ONLY <1>2, <1>4, <1>5, <2>1
  <2>4. ASSUME NEW x \in Nat, NEW y \in Nat, NEW z \in Nat, NEW u \in Nat
        PROVE  ((x * 64 + y) * 64 + z) * 64 + u \in Nat
    OBVIOUS
  <2>5. Sequence(s, p, 4) \in Nat
    <3>1. PICK x \in Nat, y \in Nat, z \in Nat, u \in Nat :
            /\ x = Payload(s[p], 4) /\ y = s[p + 1] % 64
            /\ z = s[p + 2] % 64 /\ u = s[p + 3] % 64
      BY ONLY <2>3
    <3>2. Sequence(s, p, 4) = ((x * 64 + y) * 64 + z) * 64 + u
      BY ONLY <2>2, <3>1
    <3>3. ((x * 64 + y) * 64 + z) * 64 + u \in Nat
      BY ONLY <2>4
    <3> QED BY ONLY <3>2, <3>3
  <2> QED BY ONLY <1>3, <1>9, <2>5
<1>10. len \in {1, 2, 3, 4}
  OBVIOUS
<1> QED BY <1>6, <1>7, <1>8, <1>9, <1>10

\* The decoder of literals reads the sequences that IsValidUtf8 lets pass.
LEMMA SoundIsDecoded ==
  ASSUME NEW s \in Seq(Byte), NEW p \in 1..Len(s)
  PROVE  /\ Sound(s, p) => DecodeUtf8Codepoint(s, p) = Lead(s[p])
         /\ ~Sound(s, p) => DecodeUtf8Codepoint(s, p) = 0
         /\ Sound(s, p) => /\ Lead(s[p]) \in 1..4 /\ p + Lead(s[p]) - 1 <= Len(s)
                           /\ Scalar(Sequence(s, p, Lead(s[p])), Lead(s[p]))
                           /\ \A i \in 1..(Lead(s[p]) - 1) : s[p + i] \in 128..191
<1>0. PICK len \in 0..4 : len = Lead(s[p])
  BY LeadType
<1>1. DecodeUtf8Codepoint(s, p) =
        IF len > 0 /\ Continues(s, p, len) /\ Scalar(Sequence(s, p, len), len) THEN len ELSE 0
  BY <1>0 DEF DecodeUtf8Codepoint
<1>2. Sound(s, p) <=>
        \/ len - 1 = 0
        \/ /\ len - 1 \in 1..3 /\ p + 1 + (len - 1) <= Len(s) + 1
           /\ \A i \in 1..(len - 1) : s[p + i] \in 128..191
           /\ Scalar(Sequence(s, p, (len - 1) + 1), (len - 1) + 1)
  BY <1>0 DEF Sound
<1>3. (len - 1) + 1 = len /\ Len(s) \in Nat
  BY <1>0
<1>4. Continues(s, p, len) <=> p + len - 1 <= Len(s) /\ \A i \in 1..(len - 1) : s[p + i] \in 128..191
  <2>1. ASSUME \A i \in 1..(len - 1) : s[p + i] \in 128..191, NEW k \in (p + 1)..(p + len - 1)
        PROVE  s[k] \in 128..191
    <3>1. k - p \in 1..(len - 1) /\ p + (k - p) = k
      BY <1>0
    <3>2. s[p + (k - p)] \in 128..191
      BY <2>1, <3>1
    <3> QED BY <3>1, <3>2
  <2>2. ASSUME \A k \in (p + 1)..(p + len - 1) : s[k] \in 128..191, NEW i \in 1..(len - 1)
        PROVE  s[p + i] \in 128..191
    <3>1. p + i \in (p + 1)..(p + len - 1)
      BY <1>0
    <3> QED BY <2>2, <3>1
  <2> QED BY <2>1, <2>2 DEF Continues
<1>5. CASE len = 0
  BY <1>1, <1>2, <1>5
<1>6. CASE len = 1
  <2>1. s[p] \in 0..127
    <3>1. s[p] \in Byte /\ Lead(s[p]) = 1
      BY <1>0, <1>6
    <3> QED BY ONLY <3>1, LeadMeans
  <2>2. Sequence(s, p, 1) = s[p]
    BY SequenceOfOne
  <2>3. \A b \in 0..127 : Scalar(b, 1)
    BY DEF Scalar, MinCp
  <2>4. Scalar(Sequence(s, p, 1), 1)
    BY ONLY <2>1, <2>2, <2>3
  <2>5. p + len - 1 <= Len(s) /\ \A i \in 1..(len - 1) : FALSE
    BY <1>6
  <2> QED BY <1>0, <1>1, <1>2, <1>4, <1>6, <2>4, <2>5
<1>7. CASE len \in 2..4
  <2>1. len > 0 /\ len - 1 # 0 /\ len - 1 \in 1..3 /\ (p + 1 + (len - 1) <= Len(s) + 1 <=> p + len - 1 <= Len(s))
    BY <1>3, <1>7
  <2>2. Sound(s, p) <=> Continues(s, p, len) /\ Scalar(Sequence(s, p, len), len)
    BY <1>2, <1>3, <1>4, <2>1
  <2>3. Sound(s, p) => DecodeUtf8Codepoint(s, p) = len
    BY <1>1, <2>1, <2>2
  <2>4. ~Sound(s, p) => DecodeUtf8Codepoint(s, p) = 0
    BY <1>1, <2>1, <2>2
  <2>5. len \in 1..4
    BY <1>7
  <2> QED BY <1>0, <1>4, <2>2, <2>3, <2>4, <2>5
<1>8. len = 0 \/ len = 1 \/ len \in 2..4
  BY <1>0
<1> QED BY <1>5, <1>6, <1>7, <1>8

-----------------------------------------------------------------------------
(* The text of a literal                                                   *)

\* One step of DecodeUtf8.
Read(f, s, pos) ==
  IF pos > Len(s) THEN <<>>
  ELSE LET len == DecodeUtf8Codepoint(s, pos) IN
       IF len = 0 \/ f[pos + len] = Malformed THEN Malformed
       ELSE <<Sequence(s, pos, len)>> \o f[pos + len]

\* Reading goes on behind what was read.
LEMMA ReadsOn ==
  ASSUME NEW s \in Seq(Byte), NEW p \in 1..(Len(s) + 1), NEW f, NEW g,
         \A q \in 1..(Len(s) + 1) : q > p => f[q] = g[q]
  PROVE  Read(f, s, p) = Read(g, s, p)
<1>0. Len(s) \in Nat
  OBVIOUS
<1>1. CASE p > Len(s)
  BY <1>1 DEF Read
<1>2. CASE ~(p > Len(s))
  <2>1. p \in 1..Len(s)
    BY <1>0, <1>2
  <2>2. PICK len : len = DecodeUtf8Codepoint(s, p)
    OBVIOUS
  <2>3. CASE len = 0
    BY <1>2, <2>2, <2>3 DEF Read
  <2>4. CASE len # 0
    <3>1. len \in 1..4 /\ p + len - 1 <= Len(s)
      BY <2>1, <2>2, <2>4, SoundIsDecoded
    <3>2. p + len \in 1..(Len(s) + 1) /\ p + len > p
      BY <1>0, <2>1, <3>1
    <3>3. f[p + len] = g[p + len]
      BY <3>2
    <3> QED BY <1>2, <2>2, <3>3 DEF Read
  <2> QED BY <2>3, <2>4
<1> QED BY <1>1, <1>2

\* The definition of DecodeUtf8 has a solution: one byte after the other, from
\* the end.
LEMMA ReadSteps ==
  ASSUME NEW s \in Seq(Byte)
  PROVE  \E f : DecodeUtf8(s) = f[1] /\ \A p \in 1..(Len(s) + 1) : f[p] = Read(f, s, p)
<1>0. Len(s) \in Nat
  OBVIOUS
<1> DEFINE D == 1..(Len(s) + 1)
           Solves(f, n) == f = [p \in D |-> f[p]] /\ \A p \in D : p > n => f[p] = Read(f, s, p)
           S == {n \in Nat : \E f : Solves(f, Len(s) + 1 - n)}
<1>1. 0 \in S
  <2> DEFINE f == [p \in D |-> p]
  <2>1. f = [p \in D |-> f[p]]
    OBVIOUS
  <2>2. \A p \in D : ~(p > Len(s) + 1 - 0)
    BY <1>0
  <2> HIDE DEF f, D
  <2>3. Solves(f, Len(s) + 1 - 0)
    BY <2>1, <2>2
  <2> QED BY <2>3
<1>2. ASSUME NEW n \in Nat, n \in S PROVE n + 1 \in S
  <2>1. PICK f : Solves(f, Len(s) + 1 - n)
    BY <1>2
  <2> DEFINE k == Len(s) + 1 - n
             g == [p \in D |-> IF p = k THEN Read(f, s, p) ELSE f[p]]
  <2>2. k \in Int /\ k - 1 = Len(s) + 1 - (n + 1)
    BY <1>0
  <2>3. \A p \in D : g[p] = IF p = k THEN Read(f, s, p) ELSE f[p]
    OBVIOUS
  <2>4. g = [p \in D |-> g[p]]
    OBVIOUS
  <2>5. \A p \in D : p \in Int
    OBVIOUS
  <2>6. \A p \in D : p > k => f[p] = Read(f, s, p)
    BY <2>1
  <2>7. ASSUME NEW p \in D, p > k - 1 PROVE g[p] = Read(g, s, p)
    <3>1. \A q \in D : q > p => f[q] = g[q]
      <4> HIDE DEF g, k, D
      <4>1. \A q \in D : q > p => q # k
        BY <2>2, <2>5, <2>7
      <4> QED BY <2>3, <4>1
    <3>2. Read(f, s, p) = Read(g, s, p)
      <4>1. p \in 1..(Len(s) + 1) /\ \A q \in 1..(Len(s) + 1) : q > p => f[q] = g[q]
        BY <3>1
      <4> HIDE DEF g, k, D
      <4> QED BY ONLY <4>1, s \in Seq(Byte), ReadsOn
    <3>3. g[p] = Read(f, s, p)
      <4> HIDE DEF g, k, D
      <4>1. p = k \/ p > k
        BY <2>2, <2>5, <2>7
      <4> QED BY <2>3, <2>6, <4>1
    <3> QED BY <3>2, <3>3
  <2> HIDE DEF g, k, D
  <2>8. Solves(g, k - 1)
    BY <2>4, <2>7
  <2>9. Solves(g, Len(s) + 1 - (n + 1)) /\ n + 1 \in Nat
    BY <2>2, <2>8
  <2> QED BY <2>9
<1> HIDE DEF S
<1>3. Nat \subseteq S
  BY <1>1, <1>2, Induction
<1>4. Len(s) + 1 \in S /\ Len(s) + 1 - (Len(s) + 1) = 0
  BY <1>0, <1>3
<1>5. PICK g : Solves(g, 0)
  BY <1>4 DEF S
<1>6. \A p \in D : p > 0
  OBVIOUS
<1>7. g = [p \in D |-> Read(g, s, p)]
  <2> HIDE DEF D
  <2>1. \A p \in D : g[p] = Read(g, s, p)
    BY <1>5, <1>6
  <2>2. g = [p \in D |-> g[p]]
    BY <1>5
  <2> QED BY <2>1, <2>2
<1> DEFINE U == CHOOSE f : f = [p \in D |-> Read(f, s, p)]
<1>8. U = [p \in D |-> Read(U, s, p)]
  <2> HIDE DEF D
  <2> QED BY <1>7
<1>9. DecodeUtf8(s) = U[1]
  BY DEF DecodeUtf8, Read
<1> HIDE DEF U
<1> QED BY <1>8, <1>9

\* A place where IsValidUtf8 goes on is one where the decoder does.
LEMMA DecodersMeet ==
  ASSUME NEW s \in Seq(Byte),
         NEW v, \A p \in 1..(Len(s) + 1) : v[p] = Step(v, s, p),
         NEW f, \A p \in 1..(Len(s) + 1) : f[p] = Read(f, s, p)
  PROVE  \A p \in 1..(Len(s) + 1) : /\ v[p] <=> f[p] # Malformed
                                    /\ f[p] # Malformed => f[p] \in Seq(Nat)
<1>0. Len(s) \in Nat
  OBVIOUS
<1> DEFINE Meet(p) == /\ v[p] <=> f[p] # Malformed
                      /\ f[p] # Malformed => f[p] \in Seq(Nat)
           D == 1..(Len(s) + 1)
           S == {n \in Nat : \A p \in D : Len(s) + 1 - p <= n => Meet(p)}
<1>1. ASSUME NEW p \in D, p > Len(s) PROVE Meet(p)
  <2>1. f[p] = << >> /\ (v[p] <=> TRUE)
    BY <1>1 DEF Step, Read
  <2>2. << >> \in Seq(Nat) /\ << >> # Malformed
    BY DEF Malformed
  <2> QED BY <2>1, <2>2
<1>2. ASSUME NEW p \in D, ~(p > Len(s)), ~Sound(s, p) PROVE Meet(p)
  <2>1. p \in 1..Len(s)
    BY <1>0, <1>2
  <2>2. DecodeUtf8Codepoint(s, p) = 0
    BY <1>2, <2>1, SoundIsDecoded
  <2>3. f[p] = Malformed
    BY <1>2, <2>2 DEF Read
  <2>4. ~v[p]
    BY <1>2, <2>1, StepIsSound
  <2> QED BY <2>3, <2>4
<1>3. ASSUME NEW p \in D, ~(p > Len(s)), Sound(s, p), Meet(p + Lead(s[p])) PROVE Meet(p)
  <2>1. p \in 1..Len(s)
    BY <1>0, <1>3
  <2>2. PICK len : len = Lead(s[p])
    OBVIOUS
  <2>3. DecodeUtf8Codepoint(s, p) = len /\ len \in 1..4 /\ p + len - 1 <= Len(s)
    BY <1>3, <2>1, <2>2, SoundIsDecoded
  <2>4. v[p] <=> v[p + len]
    BY <1>3, <2>1, <2>2, StepIsSound
  <2>5. Sequence(s, p, len) \in Nat
    BY <2>1, <2>3, SequenceType
  <2>6. len # 0
    BY <2>3
  <2>7. f[p] = IF f[p + len] = Malformed THEN Malformed ELSE <<Sequence(s, p, len)>> \o f[p + len]
    BY <1>3, <2>3, <2>6 DEF Read
  <2>8. Meet(p + len)
    BY <1>3, <2>2
  <2>9. CASE f[p + len] = Malformed
    BY <2>4, <2>7, <2>8, <2>9
  <2>10. CASE f[p + len] # Malformed
    <3>1. PICK t \in Seq(Nat), c \in Nat : t = f[p + len] /\ c = Sequence(s, p, len)
      BY <2>5, <2>8, <2>10
    <3>2. <<c>> \o t \in Seq(Nat) /\ (<<c>> \o t)[1] = c
      OBVIOUS
    <3>3. <<c>> \o t # Malformed
      <4>1. Malformed[1] = -1 /\ c # -1
        BY DEF Malformed
      <4> QED BY ONLY <3>2, <4>1
    <3>4. f[p] = <<c>> \o t
      BY <2>7, <2>10, <3>1
    <3> QED BY <2>4, <2>8, <2>10, <3>2, <3>3, <3>4
  <2> QED BY <2>9, <2>10
<1>4. 0 \in S
  <2>1. ASSUME NEW p \in D, Len(s) + 1 - p <= 0 PROVE p > Len(s)
    BY <1>0, <2>1
  <2> HIDE DEF Meet, D
  <2> QED BY <1>1, <2>1
<1>5. ASSUME NEW n \in Nat, n \in S PROVE n + 1 \in S
  <2>1. ASSUME NEW p \in D, Len(s) + 1 - p <= n + 1 PROVE Meet(p)
    <3>1. CASE ~(p > Len(s)) /\ Sound(s, p)
      <4>1. p \in 1..Len(s)
        BY <1>0, <3>1
      <4>2. PICK len : len = Lead(s[p])
        OBVIOUS
      <4>3. len \in 1..4 /\ p + len - 1 <= Len(s)
        BY <3>1, <4>1, <4>2, SoundIsDecoded
      <4>4. p + len \in D /\ Len(s) + 1 - (p + len) <= n
        BY <1>0, <2>1, <4>1, <4>3
      <4> HIDE DEF Meet, D
      <4>5. Meet(p + len)
        BY <1>5, <4>4
      <4> QED BY <1>3, <3>1, <4>2, <4>5
    <3> HIDE DEF Meet, D
    <3> QED BY <1>1, <1>2, <3>1
  <2> HIDE DEF Meet, D
  <2> QED BY <2>1
<1> HIDE DEF S
<1>6. Nat \subseteq S
  BY <1>4, <1>5, Induction
<1>7. \A p \in D : Len(s) + 1 - p <= Len(s) + 1
  BY <1>0
<1>8. \A p \in D : Meet(p)
  <2>1. Len(s) + 1 \in S
    BY <1>0, <1>6
  <2> HIDE DEF Meet, D
  <2> QED BY <1>7, <2>1 DEF S
<1> QED BY <1>8

\* Sequences of bytes that agree byte by byte are the same.
LEMMA SameBytes ==
  ASSUME NEW u \in Seq(Byte), NEW w \in Seq(Byte), Len(u) = Len(w), \A k \in 1..Len(u) : u[k] = w[k]
  PROVE  u = w
OBVIOUS

\* Two writings of a code point of the same length are the same.
LEMMA WrittenOnce ==
  ASSUME NEW u, NEW w, NEW cp, Writes(u, cp), Writes(w, cp), Len(u) = Len(w)
  PROVE  u = w
<1>1. u \in Seq(Byte) /\ w \in Seq(Byte) /\ Len(u) \in {1, 2, 3}
  BY DEF Writes
<1>2. ASSUME Len(u) = 1 PROVE \A k \in 1..Len(u) : u[k] = w[k]
  <2>1. u[1] = w[1]
    BY <1>2 DEF Writes
  <2>2. \A k \in 1..1 : k = 1
    OBVIOUS
  <2> QED BY ONLY <1>2, <2>1, <2>2
<1>3. ASSUME Len(u) = 2 PROVE \A k \in 1..Len(u) : u[k] = w[k]
  <2>1. PICK a \in 192..223, b \in 128..191 : a = u[1] /\ b = u[2] /\ cp = (a - 192) * 64 + (b - 128)
    <3>1. u[1] \in 192..223 /\ u[2] \in 128..191
      BY <1>3 DEF Writes
    <3>2. cp = (u[1] - 192) * 64 + (u[2] - 128)
      BY <1>3 DEF Writes
    <3> QED BY ONLY <3>1, <3>2, Zenon
  <2>2. PICK c \in 192..223, d \in 128..191 : c = w[1] /\ d = w[2] /\ cp = (c - 192) * 64 + (d - 128)
    <3>1. w[1] \in 192..223 /\ w[2] \in 128..191
      BY <1>3 DEF Writes
    <3>2. cp = (w[1] - 192) * 64 + (w[2] - 128)
      BY <1>3 DEF Writes
    <3> QED BY ONLY <3>1, <3>2, Zenon
  <2>3. a = c /\ b = d
    <3>1. (a - 192) * 64 + (b - 128) = (c - 192) * 64 + (d - 128)
      BY ONLY <2>1, <2>2
    <3> QED BY ONLY <3>1, a \in 192..223, b \in 128..191, c \in 192..223, d \in 128..191
  <2>4. \A k \in 1..2 : k = 1 \/ k = 2
    OBVIOUS
  <2>5. u[1] = w[1] /\ u[2] = w[2]
    BY ONLY <2>1, <2>2, <2>3, Zenon
  <2> QED BY ONLY <1>3, <2>4, <2>5
<1>4. ASSUME Len(u) = 3 PROVE \A k \in 1..Len(u) : u[k] = w[k]
  <2>1. /\ u[1] \in 224..239 /\ u[2] \in 128..191 /\ u[3] \in 128..191
        /\ w[1] \in 224..239 /\ w[2] \in 128..191 /\ w[3] \in 128..191
    BY <1>4 DEF Writes
  <2>2. PICK a \in 224..239, b \in 128..191, c \in 128..191 : a = u[1] /\ b = u[2] /\ c = u[3]
    BY ONLY <2>1
  <2>3. PICK d \in 224..239, e \in 128..191, g \in 128..191 : d = w[1] /\ e = w[2] /\ g = w[3]
    BY ONLY <2>1
  <2>4. cp = (a - 224) * 4096 + (b - 128) * 64 + (c - 128)
    BY <1>4, <2>2 DEF Writes
  <2>5. cp = (d - 224) * 4096 + (e - 128) * 64 + (g - 128)
    BY <1>4, <2>3 DEF Writes
  <2>6. a = d /\ b = e /\ c = g
    <3>1. (a - 224) * 4096 + (b - 128) * 64 + (c - 128) = (d - 224) * 4096 + (e - 128) * 64 + (g - 128)
      BY ONLY <2>4, <2>5
    <3> QED BY ONLY <3>1, a \in 224..239, b \in 128..191, c \in 128..191,
                    d \in 224..239, e \in 128..191, g \in 128..191
  <2>7. \A k \in 1..3 : k = 1 \/ k = 2 \/ k = 3
    OBVIOUS
  <2>8. u[1] = w[1] /\ u[2] = w[2] /\ u[3] = w[3]
    BY ONLY <2>2, <2>3, <2>6
  <2> QED BY ONLY <1>4, <2>7, <2>8
<1>5. \A k \in 1..Len(u) : u[k] = w[k]
  BY <1>1, <1>2, <1>3, <1>4
<1> QED BY <1>1, <1>5, SameBytes

\* AppendUtf8 writes as many bytes as the code point needs.
LEMMA AppendUtf8Fits ==
  ASSUME NEW cp \in Bmp
  PROVE  /\ cp < 128 => Len(AppendUtf8(cp)) = 1
         /\ cp >= 128 /\ cp < 2048 => Len(AppendUtf8(cp)) = 2
         /\ cp >= 2048 => Len(AppendUtf8(cp)) = 3
<1>0. cp \in Nat
  BY DEF Bmp
<1>1. \A a, b, c : Len(<<a>>) = 1 /\ Len(<<a, b>>) = 2 /\ Len(<<a, b, c>>) = 3
  OBVIOUS
<1>2. ASSUME cp < 128 PROVE Len(AppendUtf8(cp)) = 1
  BY <1>2, <1>1 DEF AppendUtf8
<1>3. ASSUME cp >= 128, cp < 2048 PROVE Len(AppendUtf8(cp)) = 2
  BY <1>0, <1>3, <1>1 DEF AppendUtf8
<1>4. ASSUME cp >= 2048 PROVE Len(AppendUtf8(cp)) = 3
  BY <1>0, <1>4, <1>1 DEF AppendUtf8
<1> QED BY <1>2, <1>3, <1>4

\* What is read as a code point of the basic plane is written as it was.
LEMMA WrittenAsRead ==
  ASSUME NEW s \in Seq(Byte), NEW p \in 1..Len(s), Sound(s, p),
         Sequence(s, p, Lead(s[p])) \in Bmp
  PROVE  AppendUtf8(Sequence(s, p, Lead(s[p]))) = SubSeq(s, p, p + Lead(s[p]) - 1)
<1>1. PICK len \in 1..4 : len = Lead(s[p])
  BY SoundIsDecoded
<1>2. PICK cp \in Bmp : cp = Sequence(s, p, len)
  BY <1>1
<1>3. /\ p + len - 1 <= Len(s) /\ Scalar(cp, len)
      /\ \A i \in 1..(len - 1) : s[p + i] \in 128..191
  BY <1>1, <1>2, SoundIsDecoded
<1>4. s[p] \in Byte /\ p \in Int /\ Len(s) \in Nat /\ cp \in Nat /\ cp < 65536
  BY DEF Bmp
<1> DEFINE w == SubSeq(s, p, p + len - 1)
<1>5. w \in Seq(Byte) /\ Len(w) = len /\ \A k \in 1..len : w[k] = s[p + k - 1]
  BY <1>3, <1>4
<1> HIDE DEF w
<1> DEFINE Same == Writes(w, cp) /\ Len(AppendUtf8(cp)) = Len(w)
<1>6. p + 1 - 1 = p /\ p + 2 - 1 = p + 1 /\ p + 3 - 1 = p + 2
  BY <1>4
<1>7. ASSUME len = 1 PROVE Same
  <2>0. s[p] \in 0..127
    <3>1. Lead(s[p]) = 1
      BY <1>1, <1>7
    <3> QED BY ONLY <1>4, <3>1, LeadMeans
  <2>1. cp = s[p] /\ w[1] = s[p]
    BY <1>2, <1>4, <1>5, <1>6, <1>7, SequenceOfOne
  <2>2. cp < 128
    <3>1. \A b \in 0..127 : b < 128
      OBVIOUS
    <3> QED BY ONLY <2>0, <2>1, <3>1
  <2>3. Len(AppendUtf8(cp)) = 1
    BY <2>2, AppendUtf8Fits
  <2>4. Writes(w, cp)
    <3>1. w \in Seq(Byte) /\ Len(w) = 1 /\ cp \in Nat
      BY <1>4, <1>5, <1>7
    <3> QED BY ONLY <3>1, <2>1, <2>2 DEF Writes
  <2> QED BY <1>5, <1>7, <2>3, <2>4
<1>8. ASSUME len = 2 PROVE Same
  <2>1. s[p] \in 192..223
    <3>1. Lead(s[p]) = 2
      BY <1>1, <1>8
    <3> QED BY ONLY <1>4, <3>1, LeadMeans
  <2>2. s[p + 1] \in 128..191
    BY <1>3, <1>8
  <2>3. PICK x \in 192..223, y \in 128..191 : x = s[p] /\ y = s[p + 1]
    BY ONLY <2>1, <2>2
  <2>4. Payload(s[p], 2) = x - 192
    BY ONLY <2>3, LeadByte
  <2>5. s[p + 1] % 64 = y - 128
    BY ONLY <2>3, ContinuationByte
  <2>6. cp = Payload(s[p], 2) * 64 + (s[p + 1] % 64)
    BY <1>2, <1>4, <1>8, SequenceOfTwo
  <2>7. cp = (x - 192) * 64 + (y - 128)
    BY ONLY <2>4, <2>5, <2>6
  <2>8. cp < 2048
    BY ONLY <2>7, x \in 192..223, y \in 128..191
  <2>9. cp >= 128
    BY <1>3, <1>8 DEF Scalar, MinCp
  <2>10. Len(AppendUtf8(cp)) = 2
    BY <2>8, <2>9, AppendUtf8Fits
  <2>11. w[1] = x /\ w[2] = y
    BY <1>5, <1>6, <1>8, <2>3
  <2>12. Writes(w, cp)
    <3>1. w \in Seq(Byte) /\ Len(w) = 2 /\ cp \in Nat
      BY <1>4, <1>5, <1>8
    <3> QED BY ONLY <3>1, <2>7, <2>11, x \in 192..223, y \in 128..191 DEF Writes
  <2> QED BY <1>5, <1>8, <2>10, <2>12
<1>9. ASSUME len = 3 PROVE Same
  <2>1. s[p] \in 224..239
    <3>1. Lead(s[p]) = 3
      BY <1>1, <1>9
    <3> QED BY ONLY <1>4, <3>1, LeadMeans
  <2>2. s[p + 1] \in 128..191 /\ s[p + 2] \in 128..191
    BY <1>3, <1>9
  <2>3. PICK x \in 224..239, y \in 128..191, z \in 128..191 : x = s[p] /\ y = s[p + 1] /\ z = s[p + 2]
    BY ONLY <2>1, <2>2
  <2>4. Payload(s[p], 3) = x - 224
    BY ONLY <2>3, LeadByte
  <2>5. s[p + 1] % 64 = y - 128 /\ s[p + 2] % 64 = z - 128
    BY ONLY <2>3, ContinuationByte
  <2>6. cp = (Payload(s[p], 3) * 64 + (s[p + 1] % 64)) * 64 + (s[p + 2] % 64)
    BY <1>2, <1>4, <1>9, SequenceOfThree
  <2>7. cp = ((x - 224) * 64 + (y - 128)) * 64 + (z - 128)
    BY ONLY <2>4, <2>5, <2>6
  <2>8. ((x - 224) * 64 + (y - 128)) * 64 + (z - 128) = (x - 224) * 4096 + (y - 128) * 64 + (z - 128)
    BY ONLY x \in 224..239, y \in 128..191, z \in 128..191
  <2>9. cp >= 2048
    BY <1>3, <1>9 DEF Scalar, MinCp
  <2>10. Len(AppendUtf8(cp)) = 3
    BY <2>9, AppendUtf8Fits
  <2>11. w[1] = x /\ w[2] = y /\ w[3] = z
    BY <1>5, <1>6, <1>9, <2>3
  <2>12. Writes(w, cp)
    <3>1. w \in Seq(Byte) /\ Len(w) = 3 /\ cp \in Nat
      BY <1>4, <1>5, <1>9
    <3>2. cp = (x - 224) * 4096 + (y - 128) * 64 + (z - 128)
      BY ONLY <2>7, <2>8
    <3> QED BY ONLY <3>1, <3>2, <2>11, x \in 224..239, y \in 128..191, z \in 128..191 DEF Writes
  <2> QED BY <1>5, <1>9, <2>10, <2>12
<1>10. len # 4
  BY <1>3, <1>4 DEF Scalar, MinCp
<1>11. Same
  <2>1. len = 1 \/ len = 2 \/ len = 3
    BY <1>10
  <2> QED BY <1>7, <1>8, <1>9, <2>1
<1>12. AppendUtf8(cp) = w
  BY <1>11, AppendUtf8Bytes, WrittenOnce
<1> QED BY <1>1, <1>2, <1>12 DEF w

\* The first code point and the others are written one after the other.
LEMMA Utf8Cons ==
  ASSUME NEW cp \in Bmp, NEW t \in BmpText
  PROVE  Utf8(<<cp>> \o t) = AppendUtf8(cp) \o Utf8(t)
<1> DEFINE r == <<cp>> \o t
           us == [i \in 1..Len(r) |-> AppendUtf8(r[i])]
           vs == [i \in 1..Len(t) |-> AppendUtf8(t[i])]
<1>0. t \in Seq(Bmp)
  BY DEF BmpText
<1>1. /\ r \in Seq(Bmp) /\ Len(r) = Len(t) + 1 /\ r[1] = cp /\ Len(t) \in Nat
      /\ \A i \in 1..Len(t) : r[i + 1] = t[i]
  BY <1>0
<1>2. \A c \in Bmp : AppendUtf8(c) \in Seq(Byte)
  BY AppendUtf8Bytes DEF Writes
<1>3. vs \in Seq(Seq(Byte)) /\ AppendUtf8(cp) \in Seq(Byte) /\ Len(vs) = Len(t)
      /\ \A i \in 1..Len(t) : vs[i] = AppendUtf8(t[i])
  BY <1>0, <1>2
<1> HIDE DEF r, vs
<1>4. Len(us) = Len(t) + 1 /\ \A i \in 1..(Len(t) + 1) : us[i] = AppendUtf8(r[i])
  BY <1>1
<1>5. us \in Seq(Seq(Byte))
  <2>1. \A i \in 1..Len(r) : AppendUtf8(r[i]) \in Seq(Byte)
    BY <1>1, <1>2
  <2> QED BY <1>1, <2>1
<1> HIDE DEF us
<1>6. us = <<AppendUtf8(cp)>> \o vs
  <2>1. us[1] = AppendUtf8(cp)
    BY <1>1, <1>4
  <2>2. \A i \in 1..Len(t) : us[i + 1] = vs[i]
    <3> SUFFICES ASSUME NEW i \in 1..Len(t) PROVE us[i + 1] = vs[i]
      OBVIOUS
    <3>1. i + 1 \in 1..(Len(t) + 1)
      BY <1>1
    <3> QED BY <1>1, <1>3, <1>4, <3>1
  <2>3. <<AppendUtf8(cp)>> \in Seq(Seq(Byte))
    BY <1>3
  <2> DEFINE ws == <<AppendUtf8(cp)>> \o vs
  <2>4. ws \in Seq(Seq(Byte)) /\ Len(ws) = Len(t) + 1
    BY <1>1, <1>3, <2>3
  <2>5. ws[1] = AppendUtf8(cp) /\ \A i \in 1..Len(t) : ws[i + 1] = vs[i]
    BY <1>1, <1>3, <2>3
  <2>6. Len(us) = Len(t) + 1 /\ us \in Seq(Seq(Byte))
    BY <1>4, <1>5
  <2> HIDE DEF ws
  <2>7. \A k \in 1..(Len(t) + 1) : us[k] = ws[k]
    <3> SUFFICES ASSUME NEW k \in 1..(Len(t) + 1) PROVE us[k] = ws[k]
      OBVIOUS
    <3>1. CASE k = 1
      BY <2>1, <2>5, <3>1
    <3>2. CASE k # 1
      <4>1. PICK i \in 1..Len(t) : i + 1 = k
        <5>1. k - 1 \in 1..Len(t) /\ (k - 1) + 1 = k
          BY <1>1, <3>2
        <5> QED BY <5>1
      <4> QED BY <2>2, <2>5, <4>1
    <3> QED BY <3>1, <3>2
  <2>8. us = ws
    BY <2>4, <2>6, <2>7
  <2> QED BY <2>8 DEF ws
<1>7. <<AppendUtf8(cp)>> \in Seq(Seq(Byte)) /\ Joined(<<AppendUtf8(cp)>>) = AppendUtf8(cp)
  <2>1. AppendUtf8(cp) \in Seq(Byte)
    BY <1>3
  <2> QED BY <2>1, JoinedOne
<1>8. Joined(us) = AppendUtf8(cp) \o Joined(vs)
  BY <1>3, <1>6, <1>7, JoinedConcat
<1> QED BY <1>8 DEF Utf8, us, vs, r

\* Where an element of the second of two sequences is in their concatenation.
LEMMA BehindFirst ==
  ASSUME NEW a \in Seq(Byte), NEW b \in Seq(Byte), NEW k \in 1..(Len(a) + Len(b)), k > Len(a)
  PROVE  (a \o b)[k] = b[k - Len(a)]
OBVIOUS

\* What has been read and what is left are the bytes from there on.
LEMMA CutInTwo ==
  ASSUME NEW s \in Seq(Byte), NEW p \in 1..Len(s), NEW n \in 1..4, p + n - 1 <= Len(s)
  PROVE  SubSeq(s, p, p + n - 1) \o SubSeq(s, p + n, Len(s)) = SubSeq(s, p, Len(s))
<1> DEFINE a == SubSeq(s, p, p + n - 1)
           b == SubSeq(s, p + n, Len(s))
           c == SubSeq(s, p, Len(s))
<1>0. Len(s) \in Nat /\ p \in Int
  OBVIOUS
<1>1. a \in Seq(Byte) /\ Len(a) = n /\ \A k \in 1..n : a[k] = s[p + k - 1]
  BY <1>0
<1>2. b \in Seq(Byte) /\ Len(b) = Len(s) + 1 - (p + n) /\ \A k \in 1..Len(b) : b[k] = s[p + n + k - 1]
  <2>1. CASE p + n = Len(s) + 1
    <3>1. b = << >>
      BY <2>1
    <3> HIDE DEF b
    <3>2. Len(b) = 0 /\ b \in Seq(Byte)
      <4>1. Len(<< >>) = 0 /\ << >> \in Seq(Byte)
        OBVIOUS
      <4> QED BY ONLY <3>1, <4>1
    <3> QED BY <1>0, <2>1, <3>2
  <2>2. CASE p + n # Len(s) + 1
    <3>1. PICK q \in 1..Len(s) : q = p + n
      BY <1>0, <2>2
    <3>2. Len(SubSeq(s, q, Len(s))) = Len(s) + 1 - q /\ SubSeq(s, q, Len(s)) \in Seq(Byte)
      BY <1>0
    <3>3. \A k \in 1..(Len(s) + 1 - q) : SubSeq(s, q, Len(s))[k] = s[q + k - 1]
      BY <1>0
    <3> HIDE DEF b
    <3>4. b = SubSeq(s, q, Len(s))
      BY <3>1 DEF b
    <3> QED BY <3>1, <3>2, <3>3, <3>4
  <2> QED BY <2>1, <2>2
<1>3. c \in Seq(Byte) /\ Len(c) = Len(s) + 1 - p /\ \A k \in 1..Len(c) : c[k] = s[p + k - 1]
  BY <1>0
<1> HIDE DEF a, b, c
<1>4. a \o b \in Seq(Byte) /\ Len(a \o b) = Len(c)
  <2>1. a \o b \in Seq(Byte) /\ Len(a \o b) = Len(a) + Len(b)
    BY <1>1, <1>2
  <2>2. n + (Len(s) + 1 - (p + n)) = Len(s) + 1 - p
    BY <1>0
  <2> QED BY <1>1, <1>2, <1>3, <2>1, <2>2
<1>5. \A k \in 1..Len(c) : (a \o b)[k] = c[k]
  <2> SUFFICES ASSUME NEW k \in 1..Len(c) PROVE (a \o b)[k] = c[k]
    OBVIOUS
  <2>1. CASE k <= n
    <3>1. k \in 1..Len(a)
      BY <1>0, <1>1, <1>3, <2>1
    <3>2. (a \o b)[k] = a[k]
      BY ONLY <1>1, <1>2, <3>1
    <3>3. a[k] = s[p + k - 1] /\ c[k] = s[p + k - 1]
      BY ONLY <1>1, <1>3, <3>1, k \in 1..Len(c)
    <3> QED BY ONLY <3>2, <3>3
  <2>2. CASE k > n
    <3>1. k - n \in 1..Len(b) /\ p + n + (k - n) - 1 = p + k - 1
      BY <1>0, <1>2, <1>3, <2>2
    <3>2. (a \o b)[k] = b[k - n]
      <4>1. k \in 1..(Len(a) + Len(b)) /\ k > Len(a)
        BY <1>0, <1>1, <1>2, <1>3, <2>2
      <4>2. (a \o b)[k] = b[k - Len(a)]
        BY ONLY <1>1, <1>2, <4>1, BehindFirst
      <4> QED BY ONLY <1>1, <4>2
    <3> QED BY <1>2, <1>3, <3>1, <3>2
  <2>3. k \in Int /\ n \in Int
    BY <1>0, <1>3
  <2>4. k <= n \/ k > n
    BY ONLY <2>3
  <2> QED BY ONLY <2>1, <2>2, <2>4
<1>6. a \o b = c
  BY <1>3, <1>4, <1>5, SameBytes
<1> QED BY <1>6 DEF a, b, c

\* A text is a sequence of numbers.
LEMMA TextOfNumbers == ASSUME NEW t \in Seq(Bmp) PROVE t \in Seq(Nat)
<1>1. \A i \in 1..Len(t) : t[i] \in Bmp
  OBVIOUS
<1>2. \A i \in 1..Len(t) : t[i] \in Nat
  BY <1>1 DEF Bmp
<1>3. t = [i \in 1..Len(t) |-> t[i]] /\ Len(t) \in Nat
  OBVIOUS
<1> QED BY <1>2, <1>3

\* What is read of a literal is written as it was.
LEMMA ReadBack ==
  ASSUME NEW s \in Seq(Byte),
         NEW v, \A p \in 1..(Len(s) + 1) : v[p] = Step(v, s, p),
         NEW f, \A p \in 1..(Len(s) + 1) : f[p] = Read(f, s, p)
  PROVE  \A p \in 1..(Len(s) + 1) : f[p] \in BmpText => Utf8(f[p]) = SubSeq(s, p, Len(s))
<1>0. Len(s) \in Nat
  OBVIOUS
<1> DEFINE D == 1..(Len(s) + 1)
           Back(p) == f[p] \in BmpText => Utf8(f[p]) = SubSeq(s, p, Len(s))
           S == {n \in Nat : \A p \in D : Len(s) + 1 - p <= n => Back(p)}
<1>1. ASSUME NEW p \in D, p > Len(s) PROVE Back(p)
  <2>1. f[p] = << >>
    BY <1>1 DEF Read
  <2>2. SubSeq(s, p, Len(s)) = << >>
    BY <1>0, <1>1
  <2> QED BY <2>1, <2>2, Utf8Empty
<1>2. ASSUME NEW p \in D, ~(p > Len(s)), Sound(s, p) => Back(p + Lead(s[p])) PROVE Back(p)
  <2> SUFFICES ASSUME f[p] \in BmpText PROVE Utf8(f[p]) = SubSeq(s, p, Len(s))
    OBVIOUS
  <2>1. p \in 1..Len(s)
    BY <1>0, <1>2
  <2>2. PICK len : len = DecodeUtf8Codepoint(s, p)
    OBVIOUS
  <2>3. f[p] = IF len = 0 \/ f[p + len] = Malformed THEN Malformed
               ELSE <<Sequence(s, p, len)>> \o f[p + len]
    BY <1>2, <2>2 DEF Read
  <2>4. f[p] # Malformed
    <3>1. Malformed \notin Seq(Nat)
      <4>1. Malformed[1] = -1 /\ Len(Malformed) = 1
        BY DEF Malformed
      <4>2. \A t \in Seq(Nat) : Len(t) = 1 => t[1] \in Nat
        <5> SUFFICES ASSUME NEW t \in Seq(Nat), Len(t) = 1 PROVE t[1] \in Nat
          OBVIOUS
        <5>1. 1 \in 1..Len(t)
          OBVIOUS
        <5> QED BY ONLY <5>1, t \in Seq(Nat)
      <4>3. -1 \notin Nat
        OBVIOUS
      <4> QED BY <4>1, <4>2, <4>3
    <3>2. f[p] \in Seq(Nat)
      <4>1. Bmp \subseteq Nat
        BY DEF Bmp
      <4>2. f[p] \in Seq(Bmp)
        BY DEF BmpText
      <4> QED BY ONLY <4>1, <4>2, TextOfNumbers
    <3> QED BY <3>1, <3>2
  <2>5. len # 0 /\ f[p + len] # Malformed /\ f[p] = <<Sequence(s, p, len)>> \o f[p + len]
    BY <2>3, <2>4
  <2>6. Sound(s, p) /\ len = Lead(s[p]) /\ len \in 1..4 /\ p + len - 1 <= Len(s)
    BY <2>1, <2>2, <2>5, SoundIsDecoded
  <2>7. p + len \in D
    BY <1>0, <2>1, <2>6
  <2>8. f[p + len] \in Seq(Nat)
    BY <2>5, <2>7, DecodersMeet
  <2>9. PICK t \in Seq(Nat), c \in Nat : t = f[p + len] /\ c = Sequence(s, p, len)
    BY <2>1, <2>6, <2>8, SequenceType
  <2>10. c \in Bmp /\ t \in BmpText
    <3>1. <<c>> \o t \in Seq(Bmp)
      BY <2>5, <2>9 DEF BmpText
    <3>2. Len(<<c>> \o t) = Len(t) + 1 /\ (<<c>> \o t)[1] = c /\ \A i \in 1..Len(t) : (<<c>> \o t)[i + 1] = t[i]
      OBVIOUS
    <3> DEFINE r == <<c>> \o t
    <3>3. \A i \in 1..Len(r) : r[i] \in Bmp
      BY <3>1
    <3> HIDE DEF r
    <3>4. r[1] = c /\ Len(r) = Len(t) + 1 /\ \A i \in 1..Len(t) : r[i + 1] = t[i]
      BY <3>2 DEF r
    <3>5. Len(t) \in Nat /\ t = [i \in 1..Len(t) |-> t[i]]
      OBVIOUS
    <3>6. c \in Bmp
      <4>1. 1 \in 1..Len(r)
        BY ONLY <3>4, <3>5
      <4> QED BY ONLY <3>3, <3>4, <4>1
    <3>7. ASSUME NEW i \in 1..Len(t) PROVE t[i] \in Bmp
      <4>1. i + 1 \in 1..Len(r)
        BY ONLY <3>4, <3>5
      <4> QED BY ONLY <3>3, <3>4, <4>1
    <3>8. t \in Seq(Bmp)
      BY <3>5, <3>7
    <3> QED BY <3>6, <3>8 DEF BmpText
  <2>11. Utf8(f[p]) = AppendUtf8(c) \o Utf8(t)
    BY <2>5, <2>9, <2>10, Utf8Cons
  <2>12. AppendUtf8(c) = SubSeq(s, p, p + len - 1)
    BY <2>1, <2>6, <2>9, <2>10, WrittenAsRead
  <2>13. Utf8(t) = SubSeq(s, p + len, Len(s))
    <3>1. Back(p + len)
      BY <1>2, <2>6
    <3> QED BY <2>9, <2>10, <3>1
  <2>14. SubSeq(s, p, p + len - 1) \o SubSeq(s, p + len, Len(s)) = SubSeq(s, p, Len(s))
    BY <2>1, <2>6, CutInTwo
  <2> QED BY ONLY <2>11, <2>12, <2>13, <2>14
<1>3. 0 \in S
  <2>1. ASSUME NEW p \in D, Len(s) + 1 - p <= 0 PROVE p > Len(s)
    BY <1>0, <2>1
  <2> HIDE DEF Back, D
  <2> QED BY <1>1, <2>1
<1>4. ASSUME NEW n \in Nat, n \in S PROVE n + 1 \in S
  <2>1. ASSUME NEW p \in D, Len(s) + 1 - p <= n + 1 PROVE Back(p)
    <3>1. CASE ~(p > Len(s)) /\ Sound(s, p)
      <4>1. p \in 1..Len(s)
        BY <1>0, <3>1
      <4>2. PICK len : len = Lead(s[p])
        OBVIOUS
      <4>3. len \in 1..4 /\ p + len - 1 <= Len(s)
        BY <3>1, <4>1, <4>2, SoundIsDecoded
      <4>4. p + len \in D /\ Len(s) + 1 - (p + len) <= n
        BY <1>0, <2>1, <4>1, <4>3
      <4> HIDE DEF Back, D
      <4>5. Back(p + len)
        BY <1>4, <4>4
      <4> QED BY <1>2, <3>1, <4>2, <4>5
    <3> HIDE DEF Back, D
    <3> QED BY <1>1, <1>2, <3>1
  <2> HIDE DEF Back, D
  <2> QED BY <2>1
<1> HIDE DEF S
<1>5. Nat \subseteq S
  BY <1>3, <1>4, Induction
<1>6. \A p \in D : Len(s) + 1 - p <= Len(s) + 1
  BY <1>0
<1>7. \A p \in D : Back(p)
  <2>1. Len(s) + 1 \in S
    BY <1>0, <1>5
  <2> HIDE DEF Back, D
  <2> QED BY <1>6, <2>1 DEF S
<1> QED BY <1>7

\* The two readers of UTF-8 in the code accept the same bytes: those of a row
\* that STRICT lets pass (IsValidUtf8) and those of a literal that can be read
\* (the loop of TryEncodeNoneLiteral over DecodeUtf8Codepoint).
THEOREM DecodersAgree ==
  ASSUME NEW s \in Seq(Byte)
  PROVE  IsValidUtf8(s) <=> DecodeUtf8(s) # Malformed
<1>1. PICK v : IsValidUtf8(s) = v[1] /\ \A p \in 1..(Len(s) + 1) : v[p] = Step(v, s, p)
  BY ValidSteps
<1>2. PICK f : DecodeUtf8(s) = f[1] /\ \A p \in 1..(Len(s) + 1) : f[p] = Read(f, s, p)
  BY ReadSteps
<1>3. 1 \in 1..(Len(s) + 1)
  OBVIOUS
<1> QED BY <1>1, <1>2, <1>3, DecodersMeet

\* Reading a literal loses nothing: written again, its text has its bytes.
THEOREM ReadingLosesNothing ==
  ASSUME NEW s \in Seq(Byte), DecodeUtf8(s) \in BmpText
  PROVE  Utf8(DecodeUtf8(s)) = s
<1>1. PICK v : IsValidUtf8(s) = v[1] /\ \A p \in 1..(Len(s) + 1) : v[p] = Step(v, s, p)
  BY ValidSteps
<1>2. PICK f : DecodeUtf8(s) = f[1] /\ \A p \in 1..(Len(s) + 1) : f[p] = Read(f, s, p)
  BY ReadSteps
<1>3. 1 \in 1..(Len(s) + 1) /\ SubSeq(s, 1, Len(s)) = s
  OBVIOUS
<1>4. Utf8(f[1]) = SubSeq(s, 1, Len(s))
  BY <1>1, <1>2, <1>3, ReadBack
<1> QED BY <1>2, <1>3, <1>4

\* A code point that has a byte is in the basic plane.
LEMMA EncodableIsBmp ==
  ASSUME NEW mode \in Transcoding, NEW cp, EncodeCodePoint(mode, cp) # {}
  PROVE  cp \in Bmp
<1>1. PICK b : b \in EncodeCodePoint(mode, cp)
  OBVIOUS
<1>2. CASE b \in Byte /\ b = cp
  BY <1>2 DEF Byte, Bmp
<1>3. ASSUME NEW r \in Win1252Special, r[2] = cp PROVE cp \in Bmp
  <2>1. \A q \in Win1252Special : q[2] \in Nat /\ q[2] < 65536
    BY DEF Win1252Special
  <2> QED BY <1>3, <2>1 DEF Bmp
<1> QED BY <1>1, <1>2, <1>3 DEF EncodeCodePoint

\* From the bytes of a literal to the bytes it is compared with, end to end: a
\* literal that can be read and encoded is pushed as the stored bytes that DuckDB
\* would see as that very literal, and as no others (TryEncodeNoneLiteral against
\* TranscodeNoneCharset).
THEOREM LiteralIsExact ==
  ASSUME NEW mode \in Transcoding, NEW literal \in Seq(Byte), NEW raw \in Seq(Byte),
         IsValidUtf8(literal), Encodable(mode, DecodeUtf8(literal))
  PROVE  Encode(mode, DecodeUtf8(literal)) = raw <=> literal = Transcode(mode, raw)
<1> DEFINE text == DecodeUtf8(literal)
<1>1. text \in Seq(Nat)
  <2>1. PICK v : IsValidUtf8(literal) = v[1] /\ \A p \in 1..(Len(literal) + 1) : v[p] = Step(v, literal, p)
    BY ValidSteps
  <2>2. PICK f : DecodeUtf8(literal) = f[1] /\ \A p \in 1..(Len(literal) + 1) : f[p] = Read(f, literal, p)
    BY ReadSteps
  <2>3. 1 \in 1..(Len(literal) + 1)
    OBVIOUS
  <2>4. f[1] # Malformed => f[1] \in Seq(Nat)
    BY <2>1, <2>2, <2>3, DecodersMeet
  <2>5. DecodeUtf8(literal) # Malformed
    BY DecodersAgree
  <2> QED BY <2>2, <2>4, <2>5
<1>2. \A i \in 1..Len(text) : text[i] \in Bmp
  <2> HIDE DEF text
  <2> QED BY EncodableIsBmp DEF Encodable, text
<1> HIDE DEF text
<1>3. text \in BmpText
  <2>1. text = [i \in 1..Len(text) |-> text[i]] /\ Len(text) \in Nat
    BY <1>1
  <2> QED BY <1>2, <2>1 DEF BmpText
<1>4. Utf8(text) = literal
  BY <1>3, ReadingLosesNothing DEF text
<1>5. Encode(mode, text) = raw <=> Utf8(text) = Transcode(mode, raw)
  BY <1>3, ReencodingIsExact DEF text
<1> QED BY <1>4, <1>5 DEF text

=============================================================================
