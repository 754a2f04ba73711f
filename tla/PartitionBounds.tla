--------------------------- MODULE PartitionBounds --------------------------
(***************************************************************************)
(* How a primary-key range [lo, hi] is cut into partitions:                *)
(* PickPartitionCount and the first half of FirebirdScanInitGlobal         *)
(* (src/src/firebird_scanner.cpp).                                         *)
(*                                                                         *)
(* Arithmetic on int64_t wraps at IntMax; width is a long double in the    *)
(* code and an exact rational here.  The code computes the end of a        *)
(* partition and the start of the next with the same product, so rounding  *)
(* moves a boundary but never opens a gap.                                 *)
(***************************************************************************)
EXTENDS Integers

CONSTANTS
  IntMax,       \* INT64_MAX
  MinRows,      \* MIN_ROWS_PER_PARTITION
  CastOverflow  \* (int64_t)x for a long double x > INT64_MAX (undefined
                \* behaviour: INT64_MIN on x86-64, INT64_MAX on AArch64)

IntMin == -IntMax - 1
Int64 == IntMin..IntMax

ASSUME BoundsAssumption ==
  /\ IntMax \in Nat \ {0}
  /\ MinRows \in Nat \ {0}
  /\ CastOverflow \in {IntMin, IntMax}

Wrap64(x) == ((x - IntMin) % (2 * (IntMax + 1))) + IntMin
CastInt64(x) == IF x <= IntMax THEN x ELSE CastOverflow

Least(a, b) == IF a <= b THEN a ELSE b
Greatest(a, b) == IF a >= b THEN a ELSE b

\* hw is hardware_concurrency(), 0 when unknown.
PickPartitionCount(lo, hi, hw) ==
  LET range == Wrap64(hi - lo + 1) IN
  IF range < 2 * MinRows THEN 1
  ELSE Greatest(1, Least(range \div MinRows, IF hw <= 0 THEN 4 ELSE hw))

\* partitions= as given (0: pick), clamped to the number of key values.
PartitionCount(lo, hi, override, hw) ==
  LET n == IF override > 0 THEN override ELSE PickPartitionCount(lo, hi, hw)
      row_capacity == Wrap64(hi - lo + 1)
  IN IF row_capacity > 0 THEN Least(n, row_capacity) ELSE n

\* lo + static_cast<int64_t>(width * i)
Boundary(lo, hi, n, i) == Wrap64(lo + CastInt64(((hi - lo + 1) * i) \div n))

\* Partition i of n, for i in 0..n-1; the last one absorbs the remainder.
PartLo(lo, hi, n, i) == Boundary(lo, hi, n, i)
\* Fault: a partition ends on the first key of the next one.
PartHiInclusive(lo, hi, n, i) ==
  IF i = n - 1 THEN hi ELSE Boundary(lo, hi, n, i + 1)

PartHi(lo, hi, n, i) ==
  IF i = n - 1 THEN hi ELSE Wrap64(Boundary(lo, hi, n, i + 1) - 1)
Covers(lo, hi, n, i, k) == PartLo(lo, hi, n, i) <= k /\ k <= PartHi(lo, hi, n, i)

-----------------------------------------------------------------------------
(* What a cut should be.                                                   *)

\* Every key of the range belongs to exactly one partition.
Tiles(lo, hi, n) ==
  \A k \in lo..hi :
    \E i \in 0..(n - 1) :
      Covers(lo, hi, n, i, k) /\ \A j \in 0..(n - 1) : Covers(lo, hi, n, j, k) => j = i

\* No partition is empty or reaches outside the range.
NoEmptyPartition(lo, hi, n) ==
  \A i \in 0..(n - 1) :
    /\ lo <= PartLo(lo, hi, n, i)
    /\ PartLo(lo, hi, n, i) <= PartHi(lo, hi, n, i)
    /\ PartHi(lo, hi, n, i) <= hi

\* Every key is scanned by exactly one partition, also for a range wider than
\* INT64_MAX: there the products that overflow the cast all collapse onto one
\* boundary, which is still in order.  No worker gets an empty partition
\* ("Never produce empty partitions") while the range fits in an int64_t, and
\* the automatic choice never makes one: it falls back to one partition.
CutTiles(lo, hi, override, hw) ==
  LET n == PartitionCount(lo, hi, override, hw) IN
  /\ Tiles(lo, hi, n)
  /\ hi - lo + 1 <= IntMax \/ override = 0 => NoEmptyPartition(lo, hi, n)
=============================================================================
