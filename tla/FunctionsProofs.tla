---------------------------- MODULE FunctionsProofs ----------------------------
(***************************************************************************)
(* What the functions without state are for, for every input: any width of *)
(* the integers, texts of any length, any number of calls.                 *)
(***************************************************************************)
EXTENDS PureFunctions, FunctionLemmas, FiniteSetTheorems

\* An input stays in its family.
InputInv == family \in DOMAIN Families /\ input \in Families[family]

FamilyNames ==
  {"ranges", "literals", "strings", "columns", "lengths", "days", "times", "loads", "reports",
   "databases", "servers", "generators", "views", "settings"}

LEMMA FamilyDomain == DOMAIN Families = FamilyNames
BY DEF Families, FamilyNames

LEMMA FamilyOf ==
  /\ Families["ranges"] = KeyRanges /\ Families["literals"] = Literals
  /\ Families["strings"] = Strings /\ Families["columns"] = Columns
  /\ Families["lengths"] = Lengths /\ Families["days"] = Days /\ Families["times"] = Times
  /\ Families["loads"] = Loads /\ Families["reports"] = Reports
  /\ Families["servers"] = Servers /\ Families["generators"] = Generators
BY DEF Families

LEMMA NextInputInv == InputInv /\ [Next]_<<family, input>> => InputInv'
<1> SUFFICES ASSUME InputInv, [Next]_<<family, input>> PROVE InputInv'
  OBVIOUS
<1>1. CASE Grow
  <2>1. family = "ranges" /\ family' = family /\ input' = [input EXCEPT !.hi = input.hi + 1] /\ input.hi < IntMax
    BY <1>1 DEF Grow
  <2>2. input \in KeyRanges
    BY <2>1, FamilyOf DEF InputInv
  <2>3. input' \in KeyRanges
    BY <2>1, <2>2, BoundsAssumption DEF KeyRanges, Int64, IntMin
  <2> QED BY <2>1, <2>3, FamilyOf, FamilyDomain DEF InputInv, FamilyNames
<1>2. CASE UNCHANGED <<family, input>>
  BY <1>2 DEF InputInv
<1> QED BY <1>1, <1>2 DEF Next

LEMMA Inputs == Spec => []InputInv
<1>1. Init => InputInv
  BY DEF Init, InputInv
<1> QED BY <1>1, NextInputInv, PTL DEF Spec

-----------------------------------------------------------------------------
(* The cut, and literals of one character.                                 *)

\* Every key range that a primary key may report is tiled by its partitions,
\* also after it has grown (FirebirdScanInitGlobal, PickPartitionCount).
THEOREM RangesAlwaysTile == Spec => []KeyRangesTile
<1>1. InputInv => KeyRangesTile
  <2> SUFFICES ASSUME InputInv, family = "ranges"
               PROVE  CutTiles(input.lo, input.hi, input.override, input.hw)
    BY DEF KeyRangesTile
  <2>1. input \in KeyRanges
    BY FamilyOf DEF InputInv
  <2>2. /\ input.lo \in Int64 /\ input.hi \in Int64 /\ input.lo < input.hi
        /\ input.override \in Overrides /\ input.hw \in Cores
    BY <2>1 DEF KeyRanges
  <2>3. \A lo, hi \in Int64 : lo < hi => lo <= hi
    BY BoundsAssumption DEF Int64, IntMin
  <2>4. input.lo <= input.hi
    BY <2>2, <2>3
  <2>5. input.override \in 0..IntMax /\ input.hw \in Nat
    BY <2>2, TextAssumption
  <2> QED BY <2>2, <2>4, <2>5, CutIsRight
<1> QED BY <1>1, Inputs, PTL

\* A code point that can be encoded has one byte, and that byte alone is
\* transcoded to it.
LEMMA OneByte ==
  ASSUME NEW mode \in Transcoding, NEW cp \in Bmp, EncodeCodePoint(mode, cp) # {}
  PROVE  \E b \in Byte : EncodeCodePoint(mode, cp) = {b}
<1>1. PICK b : b \in EncodeCodePoint(mode, cp)
  OBVIOUS
<1>2. \A c \in EncodeCodePoint(mode, cp) : c \in Byte /\ CodePoint(mode, c) = cp
  BY EncodedCodePoint
<1>3. \A c \in EncodeCodePoint(mode, cp) : c = b
  BY <1>1, <1>2, CodePointInjective
<1> QED BY <1>1, <1>2, <1>3

\* The two tables of a NONE column are inverse to each other: a stored byte
\* reads as a character exactly if the character is re-encoded as that byte
\* (TranscodeNoneCharset, TryEncodeNoneLiteral).
THEOREM EqualityIsAlwaysLossless == Spec => []EqualityIsLossless
<1>1. InputInv => EqualityIsLossless
  <2> SUFFICES ASSUME InputInv, family = "literals", Encodable(input.mode, <<input.code_point>>), NEW b \in Byte
               PROVE  Transcode(input.mode, <<b>>) = Utf8(<<input.code_point>>)
                        <=> EncodeCodePoint(input.mode, input.code_point) = {b}
    BY DEF EqualityIsLossless
  <2>1. input \in Literals
    BY FamilyOf DEF InputInv
  <2> DEFINE mode == input.mode
             cp == input.code_point
  <2>2. mode \in Transcoding /\ cp \in Bmp
    BY <2>1, TextAssumption DEF Literals, Transcoding
  <2> HIDE DEF mode, cp
  <2>3. <<cp>> \in BmpText /\ Len(<<cp>>) = 1 /\ <<cp>>[1] = cp /\ <<b>> \in Seq(Byte) /\ Encodable(mode, <<cp>>)
    BY <2>2 DEF BmpText, mode, cp
  <2>4. EncodeCodePoint(mode, cp) # {}
    BY <2>3 DEF Encodable
  <2>5. PICK c \in Byte : EncodeCodePoint(mode, cp) = {c}
    BY <2>2, <2>4, OneByte
  <2>6. Encode(mode, <<cp>>) = <<c>>
    <3>1. (CHOOSE d \in EncodeCodePoint(mode, cp) : TRUE) = c
      BY <2>5
    <3>2. Encode(mode, <<cp>>) = [i \in 1..1 |-> c]
      <4>1. \A i \in 1..1 : <<cp>>[i] = cp
        BY <2>3
      <4> QED BY <2>3, <3>1, <4>1 DEF Encode
    <3>3. [i \in 1..1 |-> c] = <<c>>
      OBVIOUS
    <3> QED BY <3>2, <3>3
  <2>7. Encode(mode, <<cp>>) = <<b>> <=> Utf8(<<cp>>) = Transcode(mode, <<b>>)
    BY <2>2, <2>3, ReencodingIsExact
  <2>8. <<c>> = <<b>> <=> c = b
    OBVIOUS
  <2> QED BY <2>5, <2>6, <2>7, <2>8 DEF mode, cp
<1> QED BY <1>1, Inputs, PTL

-----------------------------------------------------------------------------
(* Valid UTF-8 piece by piece.                                             *)

\* The n bytes of s from p on are those of t from q on.
Copied(s, p, t, q, n) == q + n - 1 <= Len(t) /\ \A i \in 0..(n - 1) : t[q + i] = s[p + i]

\* A sequence of bytes is read alike wherever it stands.
LEMMA SequenceMoved ==
  ASSUME NEW s \in Seq(Byte), NEW t \in Seq(Byte), NEW p \in Int, NEW q \in Int, NEW len \in 1..4,
         \A i \in 0..(len - 1) : t[q + i] = s[p + i]
  PROVE  Sequence(t, q, len) = Sequence(s, p, len)
<1>1. q + 0 = q /\ p + 0 = p /\ 0 \in 0..(len - 1)
  OBVIOUS
<1>2. t[q] = s[p]
  BY <1>1
<1>3. CASE len = 1
  BY <1>2, <1>3, SequenceOfOne
<1>4. CASE len = 2
  <2>1. t[q + 1] = s[p + 1]
    BY <1>4
  <2> QED BY <1>2, <1>4, <2>1, SequenceOfTwo
<1>5. CASE len = 3
  <2>1. t[q + 1] = s[p + 1] /\ t[q + 2] = s[p + 2]
    BY <1>5
  <2> QED BY <1>2, <1>5, <2>1, SequenceOfThree
<1>6. CASE len = 4
  <2>1. t[q + 1] = s[p + 1] /\ t[q + 2] = s[p + 2] /\ t[q + 3] = s[p + 3]
    BY <1>6
  <2> QED BY <1>2, <1>6, <2>1, SequenceOfFour
<1> QED BY <1>3, <1>4, <1>5, <1>6

LEMMA SoundMoved ==
  ASSUME NEW s \in Seq(Byte), NEW t \in Seq(Byte), NEW p \in 1..Len(s), NEW q \in 1..Len(t),
         Sound(s, p), Copied(s, p, t, q, Lead(s[p]))
  PROVE  Sound(t, q) /\ Lead(t[q]) = Lead(s[p])
<1>0. q + Lead(s[p]) - 1 <= Len(t) /\ \A i \in 0..(Lead(s[p]) - 1) : t[q + i] = s[p + i]
  BY DEF Copied
<1>1. PICK len \in 1..4 : len = Lead(s[p])
  BY SoundIsDecoded
<1>2. /\ Scalar(Sequence(s, p, len), len) /\ \A i \in 1..(len - 1) : s[p + i] \in 128..191
  BY <1>1, SoundIsDecoded
<1>3. p \in Int /\ q \in Int /\ q + 0 = q /\ p + 0 = p /\ 0 \in 0..(len - 1) /\ Len(t) \in Nat
  OBVIOUS
<1>4. t[q] = s[p]
  BY <1>0, <1>1, <1>3
<1>5. Sequence(t, q, len) = Sequence(s, p, len)
  BY <1>0, <1>1, <1>3, SequenceMoved
<1>6. \A i \in 1..(len - 1) : t[q + i] \in 128..191
  <2>1. \A i \in 1..(len - 1) : i \in 0..(len - 1)
    OBVIOUS
  <2> QED BY <1>0, <1>1, <1>2, <2>1
<1>7. Lead(t[q]) = len
  BY <1>1, <1>4
<1>8. (len - 1) + 1 = len /\ (len - 1 = 0 \/ len - 1 \in 1..3) /\ q + 1 + (len - 1) <= Len(t) + 1
  BY <1>0, <1>1, <1>3
<1>9. Sound(t, q)
  BY <1>2, <1>5, <1>6, <1>7, <1>8 DEF Sound
<1> QED BY <1>1, <1>7, <1>9

\* s is a row of sequences that are each accepted.
Cuttable(s) == \E B : Boundaries(B, s) /\ 1 \in B

LEMMA ValidIsCuttable ==
  ASSUME NEW s \in Seq(Byte), IsValidUtf8(s)
  PROVE  Cuttable(s)
<1>1. PICK v : IsValidUtf8(s) = v[1] /\ \A p \in 1..(Len(s) + 1) : v[p] = Step(v, s, p)
  BY ValidSteps
<1> DEFINE B == {p \in 1..(Len(s) + 1) : v[p]}
<1>2. Len(s) \in Nat /\ 1 \in B
  <2>1. Len(s) \in Nat /\ 1 \in 1..(Len(s) + 1)
    OBVIOUS
  <2>2. v[1]
    BY <1>1
  <2> QED BY <2>1, <2>2
<1>3. ASSUME NEW p \in B, p <= Len(s) PROVE Sound(s, p) /\ p + Lead(s[p]) \in B
  <2>1. p \in 1..Len(s) /\ p \in 1..(Len(s) + 1) /\ v[p]
    BY <1>3
  <2>2. Sound(s, p) /\ v[p + Lead(s[p])]
    <3>1. v[p] = Step(v, s, p)
      BY <1>1, <2>1
    <3> QED BY <2>1, <3>1, StepIsSound
  <2>3. Lead(s[p]) \in 1..4 /\ p + Lead(s[p]) - 1 <= Len(s)
    BY <2>1, <2>2, SoundIsDecoded
  <2>4. p + Lead(s[p]) \in 1..(Len(s) + 1)
    BY <1>2, <2>1, <2>3
  <2> QED BY <2>2, <2>4
<1>4. B \subseteq 1..(Len(s) + 1)
  OBVIOUS
<1> HIDE DEF B
<1> QED BY <1>2, <1>3, <1>4 DEF Cuttable, Boundaries

\* What is put together of such rows is one.
LEMMA CuttableJoined ==
  ASSUME NEW a \in Seq(Byte), NEW b \in Seq(Byte), Cuttable(a), Cuttable(b)
  PROVE  Cuttable(a \o b)
<1>1. PICK A : Boundaries(A, a) /\ 1 \in A
  BY DEF Cuttable
<1>2. PICK B : Boundaries(B, b) /\ 1 \in B
  BY DEF Cuttable
<1> DEFINE t == a \o b
           C == {p \in A : p <= Len(a)} \cup {Len(a) + q : q \in B}
<1>3. t \in Seq(Byte) /\ Len(t) = Len(a) + Len(b) /\ Len(a) \in Nat /\ Len(b) \in Nat
  OBVIOUS
<1>4. (\A k \in 1..Len(a) : t[k] = a[k]) /\ (\A k \in 1..Len(b) : t[Len(a) + k] = b[k])
  OBVIOUS
<1> HIDE DEF t
<1>5. A \subseteq 1..(Len(a) + 1) /\ B \subseteq 1..(Len(b) + 1)
  BY <1>1, <1>2 DEF Boundaries
<1>6. C \subseteq 1..(Len(t) + 1) /\ 1 \in C
  <2>1. \A p \in A : p <= Len(a) => p \in 1..(Len(t) + 1)
    BY <1>3, <1>5
  <2>2. \A q \in B : Len(a) + q \in 1..(Len(t) + 1)
    BY <1>3, <1>5
  <2>3. 1 \in C
    <3>1. CASE Len(a) = 0
      BY <1>2, <3>1
    <3>2. CASE Len(a) # 0
      BY <1>1, <1>3, <3>2
    <3> QED BY <3>1, <3>2
  <2> QED BY <2>1, <2>2, <2>3
<1>7. ASSUME NEW p \in A, p <= Len(a) PROVE Sound(t, p) /\ p + Lead(t[p]) \in C
  <2>1. p \in 1..Len(a) /\ p \in 1..Len(t)
    BY <1>3, <1>5, <1>7
  <2>2. Sound(a, p) /\ p + Lead(a[p]) \in A
    BY <1>1, <1>7 DEF Boundaries
  <2>3. PICK len \in 1..4 : len = Lead(a[p]) /\ p + len - 1 <= Len(a)
    BY <2>1, <2>2, SoundIsDecoded
  <2>4. p + len - 1 <= Len(t) /\ \A i \in 0..(len - 1) : t[p + i] = a[p + i]
    <3>1. \A i \in 0..(len - 1) : p + i \in 1..Len(a)
      BY <1>3, <2>1, <2>3
    <3>2. \A i \in 0..(len - 1) : t[p + i] = a[p + i]
      BY ONLY <1>4, <3>1
    <3>3. p + len - 1 <= Len(t)
      BY ONLY <1>3, <2>1, <2>3
    <3> QED BY <3>2, <3>3
  <2>5. Sound(t, p) /\ Lead(t[p]) = len
    <3>1. Copied(a, p, t, p, Lead(a[p]))
      BY ONLY <2>3, <2>4 DEF Copied
    <3>2. Sound(t, p) /\ Lead(t[p]) = Lead(a[p])
      BY ONLY <1>3, <2>1, <2>2, <3>1, a \in Seq(Byte), SoundMoved
    <3> QED BY ONLY <2>3, <3>2
  <2>6. p + len \in C
    <3>1. p + len \in A /\ p + len \in 1..(Len(a) + 1)
      BY <1>5, <2>2, <2>3
    <3>2. CASE p + len <= Len(a)
      BY <3>1, <3>2
    <3>3. CASE p + len = Len(a) + 1
      BY <1>2, <3>3
    <3> QED BY <1>3, <3>1, <3>2, <3>3
  <2> QED BY <2>5, <2>6
<1>8. ASSUME NEW q \in B, q <= Len(b) PROVE Sound(t, Len(a) + q) /\ Len(a) + q + Lead(t[Len(a) + q]) \in C
  <2>1. q \in 1..Len(b) /\ Len(a) + q \in 1..Len(t)
    BY <1>3, <1>5, <1>8
  <2>2. Sound(b, q) /\ q + Lead(b[q]) \in B
    BY <1>2, <1>8 DEF Boundaries
  <2>3. PICK len \in 1..4 : len = Lead(b[q]) /\ q + len - 1 <= Len(b)
    BY <2>1, <2>2, SoundIsDecoded
  <2>4. Len(a) + q + len - 1 <= Len(t) /\ \A i \in 0..(len - 1) : t[Len(a) + q + i] = b[q + i]
    <3>1. \A i \in 0..(len - 1) : q + i \in 1..Len(b) /\ Len(a) + (q + i) = Len(a) + q + i
      BY <1>3, <2>1, <2>3
    <3>2. \A i \in 0..(len - 1) : t[Len(a) + (q + i)] = b[q + i]
      BY <1>4, <3>1
    <3>3. \A i \in 0..(len - 1) : t[Len(a) + q + i] = b[q + i]
      BY <3>1, <3>2
    <3> QED BY <1>3, <2>1, <2>3, <3>3
  <2>5. Sound(t, Len(a) + q) /\ Lead(t[Len(a) + q]) = len
    <3>1. Copied(b, q, t, Len(a) + q, Lead(b[q]))
      BY ONLY <2>3, <2>4 DEF Copied
    <3>2. Sound(t, Len(a) + q) /\ Lead(t[Len(a) + q]) = Lead(b[q])
      BY ONLY <1>3, <2>1, <2>2, <3>1, b \in Seq(Byte), SoundMoved
    <3> QED BY ONLY <2>3, <3>2
  <2>6. Len(a) + q + len = Len(a) + (q + len) /\ q + len \in B
    BY <1>3, <2>1, <2>2, <2>3
  <2> QED BY <2>5, <2>6
<1>9. ASSUME NEW p \in C, p <= Len(t) PROVE Sound(t, p) /\ p + Lead(t[p]) \in C
  <2>1. CASE p \in A /\ p <= Len(a)
    BY <1>7, <2>1
  <2>2. CASE \E q \in B : p = Len(a) + q
    <3>1. PICK q \in B : p = Len(a) + q
      BY <2>2
    <3>2. q \in Int
      BY <1>3, <1>5
    <3>3. q <= Len(b)
      BY <1>3, <1>9, <3>1, <3>2
    <3> QED BY <1>8, <3>1, <3>3
  <2> QED BY <2>1, <2>2
<1> HIDE DEF C
<1>10. Boundaries(C, t)
  BY <1>6, <1>9 DEF Boundaries
<1> QED BY <1>6, <1>10 DEF Cuttable, t

-----------------------------------------------------------------------------
(* Values on their way out of Firebird and in.                             *)

\* The element of a DECIMAL that has all the digits of an integer of n bytes.
LEMMA DigitsFillBytes ==
  ASSUME NEW n \in {2, 4, 8, 16}, NEW type, type.name = "DECIMAL", type.width = Digits[n]
  PROVE  Value!InternalBytes(type) = n
<1>1. /\ Digits[2] \in Nat /\ Digits[4] \in Nat /\ Digits[8] \in Nat /\ Digits[16] \in Nat
      /\ Digits[2] < Digits[4] /\ Digits[4] < Digits[8] /\ Digits[8] < Digits[16]
  BY WidthAssumption
<1> DEFINE Fits(k) == /\ type.width <= Digits[k]
                      /\ \A m \in Value!Bytes : type.width <= Digits[m] => k <= m
<1>2. Value!InternalBytes(type) = CHOOSE k \in Value!Bytes : Fits(k)
  BY DEF Value!InternalBytes
<1>3. Value!Bytes = {2, 4, 8, 16}
  BY DEF Value!Bytes
<1>4. \A k \in {2, 4, 8, 16} : Fits(k) <=> k = n
  <2>1. \A k, m \in {2, 4, 8, 16} : Digits[k] <= Digits[m] <=> k <= m
    BY <1>1
  <2>2. \A k, m \in {2, 4, 8, 16} : k <= m /\ m <= k => k = m
    OBVIOUS
  <2>3. \A k \in {2, 4, 8, 16} : k <= k
    OBVIOUS
  <2> QED BY <1>3, <2>1, <2>2, <2>3
<1> HIDE DEF Fits
<1> QED BY <1>2, <1>3, <1>4

\* The kinds of types that a numeric column is mapped to.
LEMMA TypeOfNumeric ==
  ASSUME NEW col \in Numerics, NEW widen \in BOOLEAN
  PROVE  LET type == Value!FirebirdToDuckDBType(col, widen)
             bytes == IF col.bytes = 8 /\ widen THEN 16 ELSE col.bytes
         IN \/ col.sqlscale = 0 /\ type = IF col.bytes = 16 THEN Value!Plain("HUGEINT") ELSE Value!PlainInteger(col.bytes)
            \/ col.sqlscale # 0 /\ type = Value!Plain("DOUBLE") /\ -col.sqlscale \notin 0..Digits[bytes]
            \/ col.sqlscale # 0 /\ type = Value!Decimal(Digits[bytes], -col.sqlscale)
<1>1. col.bytes \in {2, 4, 8, 16} /\ col.sqlscale \in Int
  BY WidthAssumption DEF Numerics
<1>2. \A n \in {2, 4, 8, 16} : Digits[n] \in Nat
  BY WidthAssumption
<1>3. CASE col.bytes = 16
  BY <1>1, <1>2, <1>3 DEF Value!FirebirdToDuckDBType, Value!Int128Type
<1>4. CASE col.bytes # 16
  BY <1>1, <1>2, <1>4
  DEF Value!FirebirdToDuckDBType, Value!ScaledIntegerToDecimal, Value!DecimalWidth
<1> QED BY <1>3, <1>4

LEMMA WidthsAlwaysAgree == ASSUME input \in Columns PROVE WidthsAgree
<1>1. /\ input.col \in Numerics /\ input.frozen \in Numerics /\ input.widen \in BOOLEAN
      /\ input.is_view \/ input.frozen = input.col
  BY DEF Columns
<1> DEFINE col == Value!Declared(input.col, input.frozen, input.is_view)
           type == Value!FirebirdToDuckDBType(col, input.widen)
           bytes == IF col.bytes = 8 /\ input.widen THEN 16 ELSE col.bytes
<1>2. col = input.col
  BY <1>1 DEF Value!Declared
<1>3. col \in Numerics /\ col.bytes \in {2, 4, 8, 16}
  BY <1>1, <1>2 DEF Numerics
<1>4. \/ col.sqlscale = 0 /\ type = IF col.bytes = 16 THEN Value!Plain("HUGEINT") ELSE Value!PlainInteger(col.bytes)
      \/ type = Value!Plain("DOUBLE")
      \/ type = Value!Decimal(Digits[bytes], -col.sqlscale)
  BY <1>1, <1>3, TypeOfNumeric
<1> HIDE DEF col, type
<1> DEFINE Agrees == Value!InternalBytes(type) = Value!AppendedBytes(input.col, type)
           Fits == input.widen /\ col.bytes = 8 => \A v \in Value!IntRange(8) : Value!Holds(type, v)
<1>5. CASE type = Value!Plain("DOUBLE")
  <2>1. type.name = "DOUBLE"
    BY <1>5 DEF Value!Plain
  <2> QED BY <2>1 DEF WidthsAgree, col, type
<1>6. CASE col.sqlscale = 0 /\ type = IF col.bytes = 16 THEN Value!Plain("HUGEINT") ELSE Value!PlainInteger(col.bytes)
  <2>1. /\ col.bytes = 2 => type.name = "SMALLINT"
        /\ col.bytes = 4 => type.name = "INTEGER"
        /\ col.bytes = 8 => type.name = "BIGINT"
        /\ col.bytes = 16 => type.name = "HUGEINT"
    BY <1>6 DEF Value!Plain, Value!PlainInteger
  <2>2. type.name # "DECIMAL"
    BY <1>3, <2>1
  <2>3. Agrees
    BY <1>2, <1>3, <2>1, <2>2 DEF Value!InternalBytes, Value!AppendedBytes
  <2>4. Fits
    BY <2>2 DEF Value!Holds
  <2> QED BY <2>3, <2>4 DEF WidthsAgree, col, type
<1>7. CASE type = Value!Decimal(Digits[bytes], -col.sqlscale)
  <2>1. type.name = "DECIMAL" /\ type.width = Digits[bytes]
    BY <1>7 DEF Value!Decimal
  <2>2. bytes \in {2, 4, 8, 16}
    BY <1>3
  <2>3. Value!InternalBytes(type) = bytes
    BY <2>1, <2>2, DigitsFillBytes
  <2>4. Agrees
    BY <1>2, <1>3, <2>1, <2>3 DEF Value!AppendedBytes
  <2>5. Fits
    <3>1. PICK p \in Nat, q \in Nat : p = 2 ^ (Bits[8] - 1) /\ q = 10 ^ Digits[16] /\ p < q
      BY WidthAssumption
    <3>2. Value!IntRange(8) = -p..(p - 1)
      BY <3>1 DEF Value!IntRange
    <3>3. \A v \in -p..(p - 1) : v < q /\ -v < q
      BY <3>1
    <3>4. input.widen /\ col.bytes = 8 => 10 ^ type.width = q
      BY <2>1, <3>1
    <3> QED BY <3>2, <3>3, <3>4 DEF Value!Holds
  <2> QED BY <2>4, <2>5 DEF WidthsAgree, col, type
<1> QED BY <1>4, <1>5, <1>6, <1>7

LEMMA AuditAlwaysAgrees == ASSUME input \in Columns PROVE AuditAgrees
<1>1. input.col \in Numerics
  BY DEF Columns
<1> DEFINE col == input.col
           plain == Value!FirebirdToDuckDBType(col, FALSE)
           wide == Value!FirebirdToDuckDBType(col, TRUE)
           audit == Value!TypeAudit(col)
<1>2. col.bytes \in {2, 4, 8, 16} /\ col.sqlscale \in Int
  BY <1>1, WidthAssumption DEF Numerics
<1> SUFFICES ASSUME -col.sqlscale \in 0..Digits[col.bytes]
             PROVE  /\ \A row \in audit : row.duckdb_type = plain
                    /\ (\E row \in audit : row.finding = "int64_numeric_widenable") <=> wide # plain
  BY DEF AuditAgrees
<1>3. \/ col.sqlscale = 0 /\ plain = IF col.bytes = 16 THEN Value!Plain("HUGEINT") ELSE Value!PlainInteger(col.bytes)
      \/ col.sqlscale # 0 /\ plain = Value!Decimal(Digits[col.bytes], -col.sqlscale)
  BY <1>1, TypeOfNumeric
<1>4. \/ col.sqlscale = 0 /\ wide = IF col.bytes = 16 THEN Value!Plain("HUGEINT") ELSE Value!PlainInteger(col.bytes)
      \/ col.sqlscale # 0 /\ wide = Value!Decimal(Digits[IF col.bytes = 8 THEN 16 ELSE col.bytes], -col.sqlscale)
  <2>1. Digits[8] \in Nat /\ Digits[16] \in Nat /\ Digits[8] < Digits[16]
    BY WidthAssumption
  <2>2. -col.sqlscale \in 0..Digits[IF col.bytes = 8 THEN 16 ELSE col.bytes]
    BY <1>2, <2>1
  <2> QED BY <1>1, <2>2, TypeOfNumeric
<1> HIDE DEF plain, wide
<1>5. CASE col.bytes = 8 /\ col.sqlscale # 0
  <2>1. audit = {[duckdb_type |-> plain, finding |-> "int64_numeric_widenable"]}
    BY <1>3, <1>5 DEF Value!TypeAudit
  <2>2. wide.width = Digits[16] /\ plain.width = Digits[8]
    BY <1>3, <1>4, <1>5 DEF Value!Decimal
  <2>3. Digits[8] # Digits[16]
    BY WidthAssumption
  <2> QED BY <2>1, <2>2, <2>3
<1>6. CASE ~(col.bytes = 8 /\ col.sqlscale # 0)
  <2>1. wide = plain
    BY <1>3, <1>4, <1>6
  <2>2. \A row \in audit : row.duckdb_type = plain /\ row.finding = "int128"
    BY <1>2, <1>3, <1>6 DEF Value!TypeAudit
  <2> QED BY <2>1, <2>2
<1> QED BY <1>5, <1>6

LEMMA DaysSurvive == ASSUME NEW day \in Int PROVE Value!DayOut(Value!DayIn(day)) = day
<1>1. Value!FromDate(1858, 11, 17) = -40587
  BY DEF Value!FromDate
<1> QED BY <1>1 DEF Value!DayOut, Value!DayIn, Value!MJD_EPOCH_TO_UNIX_EPOCH_DAYS

LEMMA TimesSurvive ==
  ASSUME NEW micros \in Nat
  PROVE  LET back == Value!TimeOut(Value!TimeIn(micros)) IN
         back <= micros /\ micros < back + Value!MicrosPerTick
BY DEF Value!TimeOut, Value!TimeIn, Value!MicrosPerTick

LEMMA LengthsArrive ==
  ASSUME NEW length \in 0..(2 ^ Bits[2] - 1)
  PROVE  LET param == Value!VaryingParam(length) IN
         param.prefix = length /\ (param.sqllen = length \/ Value!Refused(param))
<1>1. PICK half \in Nat \ {0} : half = 2 ^ (Bits[2] - 1) /\ 2 ^ Bits[2] = 2 * half
  BY WidthAssumption
<1>2. length \in 0..(2 * half - 1)
  BY <1>1
<1>3. length % (2 * half) = length
  BY <1>1, <1>2
<1>4. Value!UShort(length) = length
  BY <1>1, <1>3 DEF Value!UShort
<1>5. Value!Short(length) = IF length < half THEN length ELSE length - 2 * half
  BY <1>1, <1>3 DEF Value!Short
<1>6. Value!Short(length) = length \/ Value!Short(length) < 0
  BY <1>1, <1>2, <1>5
<1> QED BY <1>4, <1>6 DEF Value!VaryingParam, Value!Refused

\* Whatever numeric a column is declared as, and for a view whatever its
\* catalog rows were frozen with, the element that is written has the width
\* the vector was given and the audit names the type; every date, time and text
\* length survives (FirebirdToDuckDBType, FirebirdAppendValue,
\* BindInputParameters, firebird_type_audit).
THEOREM ValuesAlwaysWhole == Spec => []ValuesWhole
<1>1. InputInv => ValuesWhole
  <2> SUFFICES ASSUME InputInv PROVE ValuesWhole
    OBVIOUS
  <2>1. input \in Families[family]
    BY DEF InputInv
  <2>2. family = "columns" => WidthsAgree /\ AuditAgrees
    <3>1. family = "columns" => input \in Columns
      BY <2>1, FamilyOf
    <3> QED BY <3>1, WidthsAlwaysAgree, AuditAlwaysAgrees
  <2>3. family = "days" => Value!DayOut(Value!DayIn(input.day)) = input.day
    <3>1. family = "days" => input.day \in Int
      <4>1. DayNumbers \subseteq Int
        BY WidthAssumption
      <4>2. family = "days" => input \in Days
        BY <2>1, FamilyOf
      <4>3. \A x \in Days : x.day \in Int
        BY <4>1 DEF Days
      <4> QED BY <4>2, <4>3
    <3> QED BY <3>1, DaysSurvive
  <2>4. family = "times" => LET back == Value!TimeOut(Value!TimeIn(input.micros)) IN
                            back <= input.micros /\ input.micros < back + Value!MicrosPerTick
    <3>1. family = "times" => input.micros \in Nat
      <4>1. Micros \subseteq Nat
        BY WidthAssumption
      <4>2. family = "times" => input \in Times
        BY <2>1, FamilyOf
      <4>3. \A x \in Times : x.micros \in Nat
        BY <4>1 DEF Times
      <4> QED BY <4>2, <4>3
    <3> QED BY <3>1, TimesSurvive
  <2>5. family = "lengths" => LET param == Value!VaryingParam(input.length) IN
          param.prefix = input.length /\ (param.sqllen = input.length \/ Value!Refused(param))
    <3>1. family = "lengths" => input.length \in 0..(2 ^ Bits[2] - 1)
      <4>1. family = "lengths" => input \in Lengths
        BY <2>1, FamilyOf
      <4>2. \A x \in Lengths : x.length \in 0..(2 ^ Bits[2] - 1)
        BY DEF Lengths
      <4> QED BY <4>1, <4>2
    <3> QED BY <3>1, LengthsArrive
  <2> QED BY <2>2, <2>3, <2>4, <2>5 DEF ValuesWhole
<1> QED BY <1>1, Inputs, PTL

-----------------------------------------------------------------------------
(* The client library.                                                     *)

\* A nonempty set of numbers has a least element, and Min is that.
LEMMA LeastIsMin ==
  ASSUME NEW S, S \subseteq Nat, S # {}
  PROVE  Library!Min(S) \in S /\ \A k \in S : Library!Min(S) <= k
<1> DEFINE Below(n) == \A k \in S : n <= k
           T == {n \in Nat : Below(n) \/ \E m \in S : Below(m)}
<1>1. 0 \in T
  BY S \subseteq Nat
<1>2. ASSUME NEW n \in Nat, n \in T PROVE n + 1 \in T
  <2>1. CASE \E m \in S : Below(m)
    BY <2>1
  <2>2. CASE Below(n) /\ n \in S
    BY <2>2
  <2>3. CASE Below(n) /\ n \notin S
    <3>1. \A k \in S : n + 1 <= k
      BY <2>3, S \subseteq Nat
    <3> QED BY <3>1
  <2> QED BY <1>2, <2>1, <2>2, <2>3
<1> HIDE DEF T
<1>3. Nat \subseteq T
  BY <1>1, <1>2, Induction
<1>4. PICK k : k \in S
  OBVIOUS
<1>5. \E m \in S : Below(m)
  <2>1. k + 1 \in T /\ k \in Nat
    BY <1>3, <1>4
  <2>2. ~Below(k + 1)
    BY <1>4, <2>1
  <2> QED BY <2>1, <2>2 DEF T
<1> QED BY <1>5 DEF Library!Min

\* The calls of fbapi() one after the other.
LEMMA CallSteps ==
  ASSUME NEW worlds, Len(worlds) \in Nat
  PROVE  \E f : /\ Library!Calls(worlds) = [i \in 1..Len(worlds) |-> f[i]]
                /\ f[0] = Library!Start
                /\ \A i \in 1..Len(worlds) : f[i] = Library!fbapi(f[i - 1], worlds[i])
<1> DEFINE D == 0..Len(worlds)
           After(f, i) == IF i = 0 THEN Library!Start ELSE Library!fbapi(f[i - 1], worlds[i])
           Solves(f, n) == f = [i \in D |-> f[i]] /\ \A i \in D : i <= n => f[i] = After(f, i)
           S == {n \in Nat : \E f : Solves(f, n)}
<1>1. 0 \in S
  <2> DEFINE f == [i \in D |-> Library!Start]
  <2>1. f = [i \in D |-> f[i]]
    OBVIOUS
  <2>2. \A i \in D : i <= 0 => i = 0 /\ f[i] = Library!Start
    OBVIOUS
  <2> HIDE DEF f, D
  <2>3. Solves(f, 0)
    BY <2>1, <2>2
  <2> QED BY <2>3
<1>2. ASSUME NEW n \in Nat, n \in S PROVE n + 1 \in S
  <2>1. PICK f : Solves(f, n)
    BY <1>2
  <2> DEFINE k == n + 1
             g == [i \in D |-> IF i = k THEN After(f, i) ELSE f[i]]
  <2>2. \A i \in D : g[i] = IF i = k THEN After(f, i) ELSE f[i]
    OBVIOUS
  <2>3. g = [i \in D |-> g[i]]
    OBVIOUS
  <2>4. \A i \in D : i \in Nat /\ (i # 0 => i - 1 \in D)
    OBVIOUS
  <2> HIDE DEF g, D
  <2>5. ASSUME NEW i \in D, i <= k PROVE g[i] = After(g, i)
    <3>1. i # 0 => g[i - 1] = f[i - 1]
      <4>1. i # 0 => i - 1 \in D /\ i - 1 # k
        BY <2>4, <2>5
      <4> QED BY <2>2, <4>1
    <3>2. After(g, i) = After(f, i)
      BY <3>1
    <3>3. i = k \/ i <= n
      BY <2>4, <2>5
    <3>4. i <= n => f[i] = After(f, i)
      BY <2>1
    <3> HIDE DEF After
    <3> QED BY <2>2, <3>2, <3>3, <3>4
  <2>6. Solves(g, k) /\ k \in Nat
    <3> HIDE DEF After
    <3> QED BY <2>3, <2>5
  <2> QED BY <2>6
<1> HIDE DEF S
<1>3. Nat \subseteq S
  BY <1>1, <1>2, Induction
<1>4. PICK g : Solves(g, Len(worlds))
  BY <1>3 DEF S
<1>5. \A i \in D : i <= Len(worlds)
  OBVIOUS
<1>6. g = [i \in D |-> After(g, i)]
  <2> HIDE DEF D, After
  <2> QED BY <1>4, <1>5
<1> DEFINE U == CHOOSE f : f = [i \in D |-> After(f, i)]
<1>7. U = [i \in D |-> After(U, i)]
  <2> HIDE DEF D, After
  <2> QED BY <1>6
<1>8. Library!Calls(worlds) = [i \in 1..Len(worlds) |-> U[i]]
  BY DEF Library!Calls
<1> HIDE DEF U
<1>9. U[0] = Library!Start /\ \A i \in 1..Len(worlds) : U[i] = Library!fbapi(U[i - 1], worlds[i])
  <2>1. 0 \in D /\ \A i \in 1..Len(worlds) : i \in D /\ i # 0
    OBVIOUS
  <2>2. \A i \in D : U[i] = After(U, i)
    <3> HIDE DEF D, After
    <3> QED BY <1>7
  <2> HIDE DEF D
  <2> QED BY <2>1, <2>2
<1> QED BY <1>8, <1>9

ApiState(state) == state = [loaded |-> state.loaded, api |-> state.api, outcome |-> state.outcome]

\* lib is the library for a call in this world, and api has all of it.
Chosen(world, lib) ==
  IF world.env # Library!NoEnv THEN lib = world.env
  ELSE \E k \in DOMAIN Candidates :
         lib = Candidates[k] /\ \A j \in 1..(k - 1) : Candidates[j] \notin DOMAIN world.libraries
Whole(api, world) ==
  \E lib \in DOMAIN world.libraries :
    /\ Chosen(world, lib)
    /\ \A symbol \in Range(Symbols) : api[symbol] = lib /\ symbol \in world.libraries[lib]

\* A call that binds a library binds all of it or throws.
LEMMA BoundWhole ==
  ASSUME NEW state, NEW lib, NEW has
  PROVE  LET r == Library!BindSymbols(state, lib, has) IN
         /\ ApiState(r)
         /\ r.outcome = "api" <=> r.loaded
         /\ r.loaded => \A symbol \in Range(Symbols) : r.api[symbol] = lib /\ symbol \in has
<1> DEFINE bound == {i \in DOMAIN Symbols : \A j \in 1..i : Symbols[j] \in has}
           missing == DOMAIN Symbols \ bound
           touched == {Symbols[i] : i \in bound}
           a == [s \in Range(Symbols) |->
                   IF s \in touched THEN lib
                   ELSE IF missing # {} /\ s = Symbols[Library!Min(missing)] THEN Library!Null ELSE state.api[s]]
           r == Library!BindSymbols(state, lib, has)
<1>1. r = [loaded |-> missing = {}, outcome |-> IF missing = {} THEN "api" ELSE "incomplete", api |-> a]
  BY DEF Library!BindSymbols, Library!Range, Range
<1>2. ASSUME missing = {} PROVE \A symbol \in Range(Symbols) : a[symbol] = lib /\ symbol \in has
  <2>1. \A i \in DOMAIN Symbols : i \in bound
    BY <1>2
  <2>2. \A i \in DOMAIN Symbols : i \in 1..i
    BY LibraryAssumption
  <2>3. \A i \in DOMAIN Symbols : Symbols[i] \in has
    BY <2>1, <2>2
  <2>4. \A symbol \in Range(Symbols) : symbol \in touched /\ symbol \in has
    BY <2>1, <2>3 DEF Range
  <2> HIDE DEF touched
  <2> QED BY <2>4
<1> HIDE DEF a, missing
<1> SUFFICES /\ ApiState(r)
             /\ r.outcome = "api" <=> r.loaded
             /\ r.loaded => \A symbol \in Range(Symbols) : r.api[symbol] = lib /\ symbol \in has
  OBVIOUS
<1> HIDE DEF r
<1>3. r.loaded = (missing = {}) /\ r.outcome = (IF missing = {} THEN "api" ELSE "incomplete") /\ r.api = a
  BY <1>1
<1>4. ApiState(r)
  BY <1>1, <1>3 DEF ApiState
<1> QED BY <1>2, <1>3, <1>4

\* What a call does that finds nothing loaded, and one that does.
LEMMA FirstLoad ==
  ASSUME NEW state, ApiState(state), ~state.loaded, NEW world
  PROVE  LET r == Library!fbapi(state, world) IN
         /\ ApiState(r)
         /\ r.outcome = "api" <=> r.loaded
         /\ r.loaded => Whole(r.api, world)
<1> DEFINE r == Library!fbapi(state, world)
           Done == ApiState(r) /\ (r.outcome = "api" <=> r.loaded) /\ (r.loaded => Whole(r.api, world))
<1> SUFFICES Done
  OBVIOUS
<1>1. ASSUME NEW why \in {"not found", "override"}, r = Library!Throws(state, why) PROVE Done
  <2>1. r = [loaded |-> state.loaded, api |-> state.api, outcome |-> why]
    BY <1>1 DEF Library!Throws, ApiState
  <2> HIDE DEF r
  <2> QED BY <2>1 DEF ApiState
<1>2. ASSUME NEW lib \in DOMAIN world.libraries, Chosen(world, lib),
             r = Library!BindSymbols(state, lib, world.libraries[lib])
      PROVE  Done
  <2> HIDE DEF r
  <2> QED BY <1>2, BoundWhole DEF Whole
<1>3. CASE world.env # Library!NoEnv
  <2>1. r = Library!LoadOverride(state, world)
    BY <1>3 DEF Library!fbapi
  <2> HIDE DEF r
  <2>2. CASE ~Library!Opens(world, world.env)
    <3>1. r = Library!Throws(state, "override")
      BY <2>1, <2>2 DEF Library!LoadOverride
    <3> QED BY <1>1, <3>1
  <2>3. CASE Library!Opens(world, world.env)
    <3>1. r = Library!BindSymbols(state, world.env, world.libraries[world.env])
      BY <2>1, <2>3 DEF Library!LoadOverride
    <3>2. world.env \in DOMAIN world.libraries /\ Chosen(world, world.env)
      BY <1>3, <2>3 DEF Library!Opens, Chosen
    <3> QED BY <1>2, <3>1, <3>2
  <2> QED BY <2>2, <2>3
<1>4. CASE world.env = Library!NoEnv
  <2> DEFINE found == {i \in DOMAIN Candidates : Library!Opens(world, Candidates[i])}
             lib == Candidates[Library!Min(found)]
  <2>1. r = Library!LoadDefault(state, world)
    BY <1>4 DEF Library!fbapi
  <2> HIDE DEF r
  <2>2. CASE found = {}
    <3>1. r = Library!Throws(state, "not found")
      BY <2>1, <2>2 DEF Library!LoadDefault
    <3> QED BY <1>1, <3>1
  <2>3. CASE found # {}
    <3>1. r = Library!BindSymbols(state, lib, world.libraries[lib])
      BY <2>1, <2>3 DEF Library!LoadDefault
    <3>2. DOMAIN Candidates = 1..Len(Candidates) /\ Len(Candidates) \in Nat
      BY LibraryAssumption
    <3>3. PICK k : k = Library!Min(found)
      OBVIOUS
    <3>4. k \in found /\ \A i \in found : k <= i
      <4>1. found \subseteq Nat
        BY <3>2
      <4> HIDE DEF found
      <4> QED BY <2>3, <3>3, <4>1, LeastIsMin
    <3>5. Library!Opens(world, lib)
      BY <3>3, <3>4
    <3>6. \A j \in 1..(k - 1) : Candidates[j] \notin DOMAIN world.libraries
      <4>1. \A j \in 1..(k - 1) : j \in DOMAIN Candidates /\ ~(k <= j)
        BY <3>2, <3>4
      <4>2. \A j \in 1..(k - 1) : j \notin found
        <5> HIDE DEF found
        <5> QED BY <3>4, <4>1
      <4> QED BY <4>1, <4>2 DEF Library!Opens
    <3>7. lib \in DOMAIN world.libraries /\ Chosen(world, lib)
      BY <1>4, <3>3, <3>4, <3>5, <3>6 DEF Library!Opens, Chosen
    <3> HIDE DEF lib
    <3> QED BY <1>2, <3>1, <3>7
  <2> QED BY <2>2, <2>3
<1> QED BY <1>3, <1>4

LEMMA LaterCall ==
  ASSUME NEW state, ApiState(state), state.loaded, NEW world
  PROVE  LET r == Library!fbapi(state, world) IN
         ApiState(r) /\ r.loaded /\ r.outcome = "api" /\ r.api = state.api
<1>1. Library!fbapi(state, world) = [loaded |-> state.loaded, api |-> state.api, outcome |-> "api"]
  BY DEF Library!fbapi, ApiState
<1> QED BY <1>1 DEF ApiState

\* After i calls: nothing is loaded and no call has returned, or all that was
\* bound was bound by the first that did.
Loaded(f, worlds, i) ==
  /\ ApiState(f[i])
  /\ i > 0 /\ f[i].outcome = "api" => f[i].loaded
  /\ ~f[i].loaded => \A j \in 1..i : f[j].outcome # "api"
  /\ f[i].loaded => \E first \in 1..i :
       /\ \A j \in 1..(first - 1) : f[j].outcome # "api"
       /\ f[i].api = f[first].api
       /\ Whole(f[i].api, worlds[first])

LEMMA AlwaysLoaded ==
  ASSUME NEW worlds, Len(worlds) \in Nat, NEW f, f[0] = Library!Start,
         \A i \in 1..Len(worlds) : f[i] = Library!fbapi(f[i - 1], worlds[i])
  PROVE  \A i \in 0..Len(worlds) : Loaded(f, worlds, i)
<1> DEFINE S == {i \in Nat : i <= Len(worlds) => Loaded(f, worlds, i)}
<1>1. 0 \in S
  <2>1. ApiState(f[0]) /\ ~f[0].loaded
    BY DEF Library!Start, ApiState
  <2> QED BY <2>1 DEF Loaded
<1>2. ASSUME NEW n \in Nat, n \in S PROVE n + 1 \in S
  <2> SUFFICES ASSUME n + 1 <= Len(worlds) PROVE Loaded(f, worlds, n + 1)
    OBVIOUS
  <2>1. n + 1 \in 1..Len(worlds) /\ (n + 1) - 1 = n /\ n <= Len(worlds)
    OBVIOUS
  <2>2. f[n + 1] = Library!fbapi(f[n], worlds[n + 1])
    BY <2>1
  <2>3. Loaded(f, worlds, n)
    BY <1>2, <2>1
  <2>4. ApiState(f[n])
    BY <2>3 DEF Loaded
  <2>5. CASE f[n].loaded
    <3>1. ApiState(f[n + 1]) /\ f[n + 1].loaded /\ f[n + 1].outcome = "api" /\ f[n + 1].api = f[n].api
      BY <2>2, <2>4, <2>5, LaterCall
    <3>2. PICK first \in 1..n : /\ \A j \in 1..(first - 1) : f[j].outcome # "api"
                                /\ f[n].api = f[first].api
                                /\ Whole(f[n].api, worlds[first])
      BY <2>3, <2>5 DEF Loaded
    <3>3. first \in 1..(n + 1)
      OBVIOUS
    <3> QED BY <3>1, <3>2, <3>3 DEF Loaded
  <2>6. CASE ~f[n].loaded
    <3>1. /\ ApiState(f[n + 1]) /\ (f[n + 1].outcome = "api" <=> f[n + 1].loaded)
          /\ f[n + 1].loaded => Whole(f[n + 1].api, worlds[n + 1])
      BY <2>2, <2>4, <2>6, FirstLoad
    <3>2. \A j \in 1..n : f[j].outcome # "api"
      BY <2>3, <2>6 DEF Loaded
    <3>3. \A j \in 1..(n + 1) : j \in 1..n \/ j = n + 1
      OBVIOUS
    <3>4. n + 1 \in 1..(n + 1) /\ (n + 1) - 1 = n
      OBVIOUS
    <3>5. ~f[n + 1].loaded => \A j \in 1..(n + 1) : f[j].outcome # "api"
      BY <3>1, <3>2, <3>3
    <3>6. f[n + 1].loaded => \E first \in 1..(n + 1) :
            /\ \A j \in 1..(first - 1) : f[j].outcome # "api"
            /\ f[n + 1].api = f[first].api
            /\ Whole(f[n + 1].api, worlds[first])
      BY <3>1, <3>2, <3>4
    <3> QED BY <3>1, <3>5, <3>6 DEF Loaded
  <2> QED BY <2>5, <2>6
<1> HIDE DEF S
<1>3. Nat \subseteq S
  BY <1>1, <1>2, Induction
<1> QED BY <1>3 DEF S

LEMMA CallsAreWhole == ASSUME input \in Loads PROVE LibraryIsWhole
<1> DEFINE worlds == input.worlds
           calls == Library!Calls(worlds)
<1>1. Len(worlds) \in Nat
  BY LibraryAssumption
<1> HIDE DEF worlds
<1>2. PICK f : /\ calls = [i \in 1..Len(worlds) |-> f[i]]
               /\ f[0] = Library!Start
               /\ \A i \in 1..Len(worlds) : f[i] = Library!fbapi(f[i - 1], worlds[i])
  BY <1>1, CallSteps
<1>3. \A i \in 0..Len(worlds) : Loaded(f, worlds, i)
  BY <1>1, <1>2, AlwaysLoaded
<1> HIDE DEF calls
<1>4. DOMAIN calls = 1..Len(worlds) /\ \A i \in 1..Len(worlds) : calls[i] = f[i]
  BY <1>2
<1>5. ASSUME NEW i \in DOMAIN calls, calls[i].outcome = "api"
      PROVE  \E first \in 1..i :
               /\ \A j \in 1..(first - 1) : calls[j].outcome # "api"
               /\ calls[i].api = calls[first].api
               /\ Whole(calls[i].api, worlds[first])
  <2>1. i \in 1..Len(worlds) /\ i \in 0..Len(worlds) /\ i > 0
    BY <1>1, <1>4
  <2>2. f[i].outcome = "api" /\ Loaded(f, worlds, i)
    BY <1>3, <1>4, <1>5, <2>1
  <2>3. PICK first \in 1..i : /\ \A j \in 1..(first - 1) : f[j].outcome # "api"
                              /\ f[i].api = f[first].api
                              /\ Whole(f[i].api, worlds[first])
    BY <2>1, <2>2 DEF Loaded
  <2>4. first \in 1..Len(worlds) /\ \A j \in 1..(first - 1) : j \in 1..Len(worlds)
    BY <1>1, <2>1
  <2>5. calls[i] = f[i] /\ calls[first] = f[first] /\ \A j \in 1..(first - 1) : calls[j] = f[j]
    BY <1>4, <2>1, <2>4
  <2> QED BY <2>3, <2>5
<1> QED BY <1>5 DEF LibraryIsWhole, Whole, Chosen, calls, worlds

\* However many calls of fbapi() there are, whatever entry points a library
\* has and whatever the user installs between two calls: what a call returns
\* is all of one library, the one named or the first that opens, and stays
\* (fbapi, LoadOverride, LoadDefault, BindSymbols).
THEOREM LibraryAlwaysWhole == Spec => []LibraryIsWhole
<1>1. InputInv => LibraryIsWhole
  <2>1. ASSUME InputInv, family = "loads" PROVE input \in Loads
    BY <2>1, FamilyOf DEF InputInv
  <2>2. family # "loads" => LibraryIsWhole
    BY DEF LibraryIsWhole
  <2> QED BY <2>1, <2>2, CallsAreWhole
<1> QED BY <1>1, Inputs, PTL

-----------------------------------------------------------------------------
(* What telemetry shows of bytes.                                          *)

\* From the last place to the first.
LEMMA Downwards ==
  ASSUME NEW n \in Nat, NEW S,
         \A p \in 1..n : (\A q \in 1..n : q > p => q \in S) => p \in S
  PROVE  1..n \subseteq S
<1> DEFINE T == {m \in Nat : \A p \in 1..n : n - p < m => p \in S}
<1>1. 0 \in T
  OBVIOUS
<1>2. ASSUME NEW m \in Nat, m \in T PROVE m + 1 \in T
  <2> SUFFICES ASSUME NEW p \in 1..n, n - p < m + 1 PROVE p \in S
    OBVIOUS
  <2>1. \A q \in 1..n : q > p => n - q < m
    OBVIOUS
  <2> QED BY <1>2, <2>1
<1> HIDE DEF T
<1>3. Nat \subseteq T
  BY <1>1, <1>2, Induction
<1>4. n + 1 \in T /\ \A p \in 1..n : n - p < n + 1
  BY <1>3
<1> QED BY <1>4 DEF T

\* A function of a row of places, each of which needs the places behind it,
\* has a solution.
LooksBehind(F, n, V) ==
  /\ F \in [1..n -> [[1..n -> V] -> V]]
  /\ \A p \in 1..n : \A f, g \in [1..n -> V] :
       (\A q \in 1..n : q > p => f[q] = g[q]) => F[p][f] = F[p][g]
Solution(F, n, V) == \E f \in [1..n -> V] : \A p \in 1..n : f[p] = F[p][f]

LEMMA Backward ==
  ASSUME NEW n \in Nat, NEW V, V # {}, NEW F, LooksBehind(F, n, V)
  PROVE  Solution(F, n, V)
<1>0. /\ F \in [1..n -> [[1..n -> V] -> V]]
      /\ \A p \in 1..n : \A f, g \in [1..n -> V] :
           (\A q \in 1..n : q > p => f[q] = g[q]) => F[p][f] = F[p][g]
  BY DEF LooksBehind
<1> DEFINE D == 1..n
           Solves(f, m) == \A p \in D : n - p < m => f[p] = F[p][f]
           T == {m \in Nat : \E f \in [D -> V] : Solves(f, m)}
<1>1. 0 \in T
  <2>1. PICK x \in V : TRUE
    OBVIOUS
  <2>2. [p \in D |-> x] \in [D -> V] /\ \A p \in D : ~(n - p < 0)
    OBVIOUS
  <2> HIDE DEF D
  <2> QED BY <2>2
<1>2. ASSUME NEW m \in Nat, m \in T PROVE m + 1 \in T
  <2>1. PICK f \in [D -> V] : Solves(f, m)
    BY <1>2
  <2> DEFINE g == [p \in D |-> IF n - p = m THEN F[p][f] ELSE f[p]]
  <2>2. \A p \in D : F[p][f] \in V /\ f[p] \in V
    BY <1>0
  <2>3. g \in [D -> V] /\ \A p \in D : g[p] = IF n - p = m THEN F[p][f] ELSE f[p]
    <3> HIDE DEF D
    <3> QED BY <2>2
  <2> HIDE DEF g
  <2>4. ASSUME NEW p \in D, n - p < m + 1 PROVE g[p] = F[p][g]
    <3>1. \A q \in D : q > p => n - q # m
      BY <2>4
    <3>2. \A q \in D : q > p => f[q] = g[q]
      <4> HIDE DEF D
      <4> QED BY <2>3, <3>1
    <3>3. F[p][f] = F[p][g]
      BY <1>0, <2>3, <3>2
    <3>4. n - p = m \/ n - p < m
      BY <2>4
    <3>5. n - p < m => f[p] = F[p][f]
      BY <2>1
    <3> HIDE DEF D
    <3> QED BY <2>3, <3>3, <3>4, <3>5
  <2>5. Solves(g, m + 1) /\ m + 1 \in Nat
    BY <2>4
  <2> HIDE DEF Solves, D
  <2> QED BY <2>3, <2>5
<1> HIDE DEF T
<1>3. n \in T
  BY <1>1, <1>2, Induction
<1>4. PICK f \in [D -> V] : Solves(f, n)
  <2> HIDE DEF Solves, D
  <2> QED BY <1>3 DEF T
<1>5. \A p \in D : n - p < n
  OBVIOUS
<1> QED BY <1>4, <1>5 DEF Solution

\* A sequence of bytes is copied if it is one and not a NUL.
LEMMA SafeIsSound ==
  ASSUME NEW s \in Seq(Byte), NEW p \in 1..Len(s)
  PROVE  Safe(s, p, Lead(s[p])) <=> Sound(s, p) /\ Sequence(s, p, Lead(s[p])) # 0
<1>1. PICK len \in 0..4 : len = Lead(s[p])
  BY LeadType
<1>2. DecodeUtf8Codepoint(s, p) =
        IF len > 0 /\ Continues(s, p, len) /\ Scalar(Sequence(s, p, len), len) THEN len ELSE 0
  BY <1>1 DEF DecodeUtf8Codepoint
<1>3. Sound(s, p) => DecodeUtf8Codepoint(s, p) = len /\ len \in 1..4
  BY <1>1, SoundIsDecoded
<1>4. ~Sound(s, p) => DecodeUtf8Codepoint(s, p) = 0
  BY SoundIsDecoded
<1>5. Sound(s, p) <=> len > 0 /\ Continues(s, p, len) /\ Scalar(Sequence(s, p, len), len)
  <2>1. CASE Sound(s, p)
    <3>1. DecodeUtf8Codepoint(s, p) # 0
      BY <1>3, <2>1
    <3> QED BY <1>2, <2>1, <3>1
  <2>2. CASE ~Sound(s, p)
    <3>1. len > 0 => len # 0
      BY <1>1
    <3> QED BY <1>2, <1>4, <2>2, <3>1
  <2> QED BY <2>1, <2>2
<1> QED BY <1>1, <1>5 DEF Safe

\* What is shown for the byte at p, or the sequence there, and where it goes on.
Piece(s, p) ==
  IF Safe(s, p, Lead(s[p])) THEN SubSeq(s, p, p + Lead(s[p]) - 1) ELSE EscapedByte(s[p])
Behind(s, p) == IF Safe(s, p, Lead(s[p])) THEN p + Lead(s[p]) ELSE p + 1
Shows(f, s, p) ==
  IF p > Len(s) THEN <<>>
  ELSE LET len == Lead(s[p]) IN
       IF Safe(s, p, len) THEN SubSeq(s, p, p + len - 1) \o f[p + len]
       ELSE EscapedByte(s[p]) \o f[p + Skipped(len)]

LEMMA ShowsPiece ==
  ASSUME NEW f, NEW s, NEW p
  PROVE  Shows(f, s, p) = IF p > Len(s) THEN <<>> ELSE Piece(s, p) \o f[Behind(s, p)]
BY DEF Shows, Piece, Behind, Skipped

LEMMA EscapedByteFacts ==
  ASSUME NEW b \in Byte
  PROVE  /\ EscapedByte(b) \in Seq(Byte) /\ Len(EscapedByte(b)) = 4
         /\ \A i \in 1..4 : EscapedByte(b)[i] < 128
         /\ EscapedByte(b)[1] = 92
         /\ EscapedByte(b)[3] = HexDigits[b \div 16 + 1]
         /\ EscapedByte(b)[4] = HexDigits[(b % 16) + 1]
<1>1. b \div 16 + 1 \in 1..16 /\ (b % 16) + 1 \in 1..16
  BY DEF Byte
<1>2. \A k \in 1..16 : HexDigits[k] \in 0..127
  BY DEF HexDigits
<1>3. PICK c \in 0..127, d \in 0..127 : c = HexDigits[b \div 16 + 1] /\ d = HexDigits[(b % 16) + 1]
  BY <1>1, <1>2
<1>4. EscapedByte(b) = <<92, 120, c, d>>
  BY <1>3 DEF EscapedByte
<1>5. 92 \in Byte /\ 120 \in Byte /\ c \in Byte /\ d \in Byte
  BY DEF Byte
<1> DEFINE e == <<92, 120, c, d>>
<1>6. e \in Seq(Byte) /\ Len(e) = 4 /\ e[1] = 92 /\ e[2] = 120 /\ e[3] = c /\ e[4] = d
  BY <1>5
<1> HIDE DEF e
<1>7. \A i \in 1..4 : e[i] < 128
  <2>1. \A i \in 1..4 : i = 1 \/ i = 2 \/ i = 3 \/ i = 4
    OBVIOUS
  <2>2. e[1] < 128 /\ e[2] < 128 /\ e[3] < 128 /\ e[4] < 128
    BY <1>6
  <2> QED BY <2>1, <2>2
<1> QED BY <1>3, <1>4, <1>6, <1>7 DEF e

LEMMA AsciiIsCuttable ==
  ASSUME NEW s \in Seq(Byte), \A i \in 1..Len(s) : s[i] < 128
  PROVE  Cuttable(s)
<1> DEFINE B == 1..(Len(s) + 1)
<1>1. ASSUME NEW p \in B, p <= Len(s) PROVE Sound(s, p) /\ p + Lead(s[p]) \in B
  <2>1. p \in 1..Len(s)
    BY <1>1
  <2>2. Lead(s[p]) = 1
    <3>1. s[p] < 128 /\ s[p] \in Byte
      BY <2>1
    <3>2. \A b \in Byte : b < 128 => b \in 0..127
      BY ONLY DEF Byte
    <3>3. s[p] \in 0..127
      BY ONLY <3>1, <3>2
    <3> QED BY ONLY <3>3, LeadByte
  <2> QED BY <2>1, <2>2 DEF Sound
<1>2. 1 \in B /\ B \subseteq 1..(Len(s) + 1)
  OBVIOUS
<1> HIDE DEF B
<1> QED BY <1>1, <1>2 DEF Cuttable, Boundaries

LEMMA PieceFacts ==
  ASSUME NEW s \in Seq(Byte), NEW p \in 1..Len(s)
  PROVE  /\ Piece(s, p) \in Seq(Byte) /\ Cuttable(Piece(s, p))
         /\ Behind(s, p) \in (p + 1)..(Len(s) + 1)
<1>1. CASE Safe(s, p, Lead(s[p]))
  <2>1. PICK len \in 1..4 : len = Lead(s[p]) /\ Sound(s, p) /\ p + len - 1 <= Len(s)
    BY <1>1, SafeIsSound, SoundIsDecoded
  <2> DEFINE w == SubSeq(s, p, p + len - 1)
  <2>2. Piece(s, p) = w /\ Behind(s, p) = p + len
    BY <1>1, <2>1 DEF Piece, Behind
  <2>3. w \in Seq(Byte) /\ Len(w) = len /\ \A k \in 1..len : w[k] = s[p + k - 1]
    BY <2>1
  <2> HIDE DEF w
  <2>4. Copied(s, p, w, 1, Lead(s[p]))
    <3>1. \A i \in 0..(len - 1) : 1 + i \in 1..len /\ p + (1 + i) - 1 = p + i
      OBVIOUS
    <3>2. \A i \in 0..(len - 1) : w[1 + i] = s[p + i]
      BY <2>3, <3>1
    <3>3. 1 + len - 1 <= Len(w)
      BY <2>3
    <3> QED BY ONLY <2>1, <3>2, <3>3 DEF Copied
  <2>5. 1 \in 1..Len(w)
    BY <2>3
  <2>6. Sound(w, 1) /\ Lead(w[1]) = len
    BY <2>1, <2>3, <2>4, <2>5, SoundMoved
  <2>7. Boundaries({1, len + 1}, w)
    <3>1. {1, len + 1} \subseteq 1..(Len(w) + 1)
      BY <2>3
    <3>2. ~(len + 1 <= Len(w)) /\ 1 + len = len + 1
      BY <2>3
    <3> QED BY <2>6, <3>1, <3>2 DEF Boundaries
  <2>8. Cuttable(w)
    BY <2>7 DEF Cuttable
  <2>9. p + len \in (p + 1)..(Len(s) + 1)
    BY <2>1
  <2> QED BY <2>2, <2>3, <2>8, <2>9
<1>2. CASE ~Safe(s, p, Lead(s[p]))
  <2>1. Piece(s, p) = EscapedByte(s[p]) /\ Behind(s, p) = p + 1
    BY <1>2 DEF Piece, Behind
  <2>2. s[p] \in Byte
    OBVIOUS
  <2>3. EscapedByte(s[p]) \in Seq(Byte) /\ Cuttable(EscapedByte(s[p]))
    BY <2>2, EscapedByteFacts, AsciiIsCuttable
  <2>4. p + 1 \in (p + 1)..(Len(s) + 1)
    OBVIOUS
  <2> QED BY <2>1, <2>3, <2>4
<1> QED BY <1>1, <1>2

\* MakeTelemetrySafeUtf8, one piece after the other.
LEMMA ShownSteps ==
  ASSUME NEW s \in Seq(Byte)
  PROVE  \E f : /\ MakeTelemetrySafeUtf8(s) = IF \A i \in 1..Len(s) : s[i] < 128 THEN s ELSE f[1]
                /\ \A p \in 1..(Len(s) + 1) : f[p] \in Seq(Byte) /\ f[p] = Shows(f, s, p)
<1> DEFINE n == Len(s) + 4
           D == 1..n
           V == Seq(Byte)
           F == [p \in D |-> [f \in [D -> V] |-> Shows(f, s, p)]]
<1>0. Len(s) \in Nat /\ n \in Nat /\ DOMAIN s = 1..Len(s)
  OBVIOUS
<1>1. ASSUME NEW p \in D, ~(p > Len(s))
      PROVE  Behind(s, p) \in D /\ Behind(s, p) > p /\ Piece(s, p) \in V
  <2>1. p \in 1..Len(s)
    BY <1>0, <1>1
  <2>2. Behind(s, p) \in (p + 1)..(Len(s) + 1) /\ Piece(s, p) \in V
    BY <2>1, PieceFacts
  <2> QED BY <1>0, <2>1, <2>2
<1>2. \A p \in D : \A f \in [D -> V] : Shows(f, s, p) \in V
  <2> SUFFICES ASSUME NEW p \in D, NEW f \in [D -> V] PROVE Shows(f, s, p) \in V
    OBVIOUS
  <2>1. CASE p > Len(s)
    <3>1. Shows(f, s, p) = << >> /\ << >> \in V
      BY <2>1, ShowsPiece
    <3> QED BY <3>1
  <2>2. CASE ~(p > Len(s))
    <3>1. Behind(s, p) \in D /\ Piece(s, p) \in V
      BY <1>1, <2>2
    <3>2. f[Behind(s, p)] \in V
      <4> HIDE DEF D, V
      <4> QED BY <3>1
    <3>3. Piece(s, p) \o f[Behind(s, p)] \in V
      BY <3>1, <3>2
    <3> QED BY <2>2, <3>3, ShowsPiece
  <2> QED BY <2>1, <2>2
<1>3. V # {}
  <2>1. << >> \in V
    OBVIOUS
  <2> QED BY <2>1
<1> HIDE DEF D, V
<1>4. F \in [D -> [[D -> V] -> V]] /\ \A p \in D : \A f \in [D -> V] : F[p][f] = Shows(f, s, p)
  BY <1>2
<1>5. ASSUME NEW p \in D, NEW f \in [D -> V], NEW g \in [D -> V], \A q \in D : q > p => f[q] = g[q]
      PROVE  F[p][f] = F[p][g]
  <2>1. ~(p > Len(s)) => f[Behind(s, p)] = g[Behind(s, p)]
    BY <1>1, <1>5
  <2>2. Shows(f, s, p) = Shows(g, s, p)
    BY <2>1, ShowsPiece
  <2> QED BY <1>4, <2>2
<1> HIDE DEF F
<1>6. PICK g \in [D -> V] : \A p \in D : g[p] = F[p][g]
  <2> HIDE DEF n
  <2>1. LooksBehind(F, n, V)
    BY <1>4, <1>5 DEF LooksBehind, D
  <2>2. Solution(F, n, V)
    BY <1>0, <1>3, <2>1, Backward
  <2> QED BY <2>2 DEF Solution, D
<1>7. g = [p \in D |-> Shows(g, s, p)]
  <2>1. \A p \in D : g[p] = Shows(g, s, p)
    BY <1>4, <1>6
  <2>2. g = [p \in D |-> g[p]]
    OBVIOUS
  <2> QED BY <2>1, <2>2
<1> DEFINE U == CHOOSE f : f = [p \in D |-> Shows(f, s, p)]
<1>8. U = [p \in D |-> Shows(U, s, p)]
  BY <1>7
<1>9. MakeTelemetrySafeUtf8(s) = IF \A i \in 1..Len(s) : s[i] < 128 THEN s ELSE U[1]
  <2>1. MakeTelemetrySafeUtf8(s) = IF \A i \in DOMAIN s : s[i] < 128 THEN s ELSE U[1]
    BY DEF MakeTelemetrySafeUtf8, Shows, D
  <2> HIDE DEF U
  <2> QED BY <1>0, <2>1
<1> HIDE DEF U
<1>10. \A p \in D : U[p] \in V /\ U[p] = Shows(U, s, p)
  <2>1. \A f : f = [p \in D |-> Shows(f, s, p)] => \A p \in D : f[p] = Shows(f, s, p)
    OBVIOUS
  <2>2. \A p \in D : U[p] = Shows(U, s, p)
    BY <1>8, <2>1
  <2> DEFINE S == {p \in D : U[p] \in V}
  <2>3. ASSUME NEW p \in D, \A q \in D : q > p => q \in S PROVE p \in S
    <3>1. CASE p > Len(s)
      <4>1. U[p] = << >>
        BY <2>2, <3>1, ShowsPiece
      <4>2. << >> \in V
        BY DEF V
      <4> QED BY <4>1, <4>2
    <3>2. CASE ~(p > Len(s))
      <4>1. U[Behind(s, p)] \in V /\ Piece(s, p) \in V
        BY <1>1, <2>3, <3>2
      <4>2. U[p] = Piece(s, p) \o U[Behind(s, p)]
        BY <2>2, <3>2, ShowsPiece
      <4>3. U[p] \in V
        BY <4>1, <4>2 DEF V
      <4> QED BY <4>3
    <3> QED BY <3>1, <3>2
  <2> HIDE DEF S, n
  <2>4. D \subseteq S
    BY <1>0, <2>3, Downwards DEF D
  <2> QED BY <2>2, <2>4 DEF S
<1>11. \A p \in 1..(Len(s) + 1) : p \in D
  BY <1>0 DEF D
<1> QED BY <1>9, <1>10, <1>11 DEF V

\* What is shown is valid UTF-8.
LEMMA ShownIsValid ==
  ASSUME NEW s \in Seq(Byte)
  PROVE  IsValidUtf8(MakeTelemetrySafeUtf8(s))
<1>0. Len(s) \in Nat
  OBVIOUS
<1>1. CASE \A i \in 1..Len(s) : s[i] < 128
  <2>1. MakeTelemetrySafeUtf8(s) = s
    BY <1>1, ShownSteps
  <2>2. Cuttable(s)
    BY <1>1, AsciiIsCuttable
  <2> QED BY <2>1, <2>2, CutIsValid DEF Cuttable
<1>2. CASE ~(\A i \in 1..Len(s) : s[i] < 128)
  <2>1. PICK f : /\ MakeTelemetrySafeUtf8(s) = f[1]
                 /\ \A p \in 1..(Len(s) + 1) : f[p] \in Seq(Byte) /\ f[p] = Shows(f, s, p)
    BY <1>2, ShownSteps
  <2> DEFINE S == {p \in 1..(Len(s) + 1) : Cuttable(f[p])}
  <2>2. ASSUME NEW p \in 1..(Len(s) + 1), \A q \in 1..(Len(s) + 1) : q > p => q \in S
        PROVE  p \in S
    <3>1. f[p] \in Seq(Byte) /\ f[p] = Shows(f, s, p)
      BY <2>1
    <3>2. CASE p > Len(s)
      <4>1. f[p] = << >>
        BY <3>1, <3>2, ShowsPiece
      <4>2. << >> \in Seq(Byte) /\ \A i \in 1..Len(<< >>) : << >>[i] < 128
        OBVIOUS
      <4>3. Cuttable(<< >>)
        BY ONLY <4>2, AsciiIsCuttable
      <4> QED BY <4>1, <4>3
    <3>3. CASE ~(p > Len(s))
      <4>1. p \in 1..Len(s)
        BY <1>0, <3>3
      <4>2. PICK q : q = Behind(s, p)
        OBVIOUS
      <4>3. Piece(s, p) \in Seq(Byte) /\ Cuttable(Piece(s, p)) /\ q \in (p + 1)..(Len(s) + 1)
        BY <4>1, <4>2, PieceFacts
      <4>4. q \in 1..(Len(s) + 1) /\ q > p
        BY <4>1, <4>3
      <4>5. f[q] \in Seq(Byte) /\ Cuttable(f[q])
        BY <2>1, <2>2, <4>4
      <4>6. f[p] = Piece(s, p) \o f[q]
        BY <3>1, <3>3, <4>2, ShowsPiece
      <4>7. Cuttable(Piece(s, p) \o f[q])
        BY ONLY <4>3, <4>5, CuttableJoined
      <4> QED BY <4>6, <4>7
    <3> QED BY <3>2, <3>3
  <2> HIDE DEF S
  <2>3. 1..(Len(s) + 1) \subseteq S
    <3>1. Len(s) + 1 \in Nat
      BY <1>0
    <3> QED BY <2>2, <3>1, Downwards
  <2>4. 1 \in 1..(Len(s) + 1)
    BY <1>0
  <2>5. f[1] \in Seq(Byte) /\ Cuttable(f[1])
    BY <2>1, <2>3, <2>4 DEF S
  <2> QED BY <2>1, <2>5, CutIsValid DEF Cuttable
<1> QED BY <1>1, <1>2

\* Only a NUL stands for 0.
LEMMA SoundNotNul ==
  ASSUME NEW s \in Seq(Byte), NEW p \in 1..Len(s), Sound(s, p), s[p] # 0
  PROVE  Sequence(s, p, Lead(s[p])) # 0
<1>1. PICK len \in 1..4 : len = Lead(s[p]) /\ Scalar(Sequence(s, p, len), len)
  BY SoundIsDecoded
<1>2. CASE len = 1
  <2>1. Sequence(s, p, 1) = s[p]
    BY SequenceOfOne
  <2> QED BY <1>1, <1>2, <2>1
<1>3. CASE len # 1
  <2>1. PICK m \in Int : m = MinCp[len] /\ m >= 128
    <3>1. MinCp[len] \in {128, 2048, 65536}
      <4>1. len \in {2, 3, 4}
        BY <1>3
      <4> QED BY <4>1 DEF MinCp
    <3>2. \A m \in {128, 2048, 65536} : m \in Int /\ m >= 128
      OBVIOUS
    <3> QED BY <3>1, <3>2
  <2>2. Sequence(s, p, len) >= m
    BY <1>1, <2>1 DEF Scalar
  <2>3. ~(0 >= m)
    BY <2>1
  <2>4. Sequence(s, p, len) # 0
    BY ONLY <2>2, <2>3, Zenon
  <2> QED BY <1>1, <2>4
<1> QED BY <1>2, <1>3

\* Valid text without a NUL is shown as it is.
LEMMA ValidIsShown ==
  ASSUME NEW s \in Seq(Byte), IsValidUtf8(s), 0 \notin Range(s)
  PROVE  MakeTelemetrySafeUtf8(s) = s
<1>0. Len(s) \in Nat /\ \A p \in 1..Len(s) : s[p] # 0
  <2>1. DOMAIN s = 1..Len(s) /\ Len(s) \in Nat
    OBVIOUS
  <2> QED BY <2>1 DEF Range
<1>1. CASE \A i \in 1..Len(s) : s[i] < 128
  BY <1>1, ShownSteps
<1>2. CASE ~(\A i \in 1..Len(s) : s[i] < 128)
  <2>1. PICK f : /\ MakeTelemetrySafeUtf8(s) = f[1]
                 /\ \A p \in 1..(Len(s) + 1) : f[p] \in Seq(Byte) /\ f[p] = Shows(f, s, p)
    BY <1>2, ShownSteps
  <2>2. PICK v : IsValidUtf8(s) = v[1] /\ \A p \in 1..(Len(s) + 1) : v[p] = Step(v, s, p)
    BY ValidSteps
  <2> DEFINE S == {p \in 1..(Len(s) + 1) : v[p] => f[p] = SubSeq(s, p, Len(s))}
  <2>3. ASSUME NEW p \in 1..(Len(s) + 1), \A q \in 1..(Len(s) + 1) : q > p => q \in S
        PROVE  p \in S
    <3> SUFFICES ASSUME v[p] PROVE f[p] = SubSeq(s, p, Len(s))
      OBVIOUS
    <3>1. f[p] = Shows(f, s, p) /\ v[p] = Step(v, s, p)
      BY <2>1, <2>2
    <3>2. CASE p > Len(s)
      <4>1. f[p] = << >>
        BY <3>1, <3>2, ShowsPiece
      <4>2. SubSeq(s, p, Len(s)) = << >>
        BY <1>0, <3>2
      <4> QED BY <4>1, <4>2
    <3>3. CASE ~(p > Len(s))
      <4>1. p \in 1..Len(s)
        BY <1>0, <3>3
      <4>2. Sound(s, p) /\ v[p + Lead(s[p])]
        BY <3>1, <4>1, StepIsSound
      <4>3. PICK len \in 1..4 : len = Lead(s[p]) /\ p + len - 1 <= Len(s)
        BY <4>1, <4>2, SoundIsDecoded
      <4>4. Safe(s, p, len)
        <5>1. Sequence(s, p, Lead(s[p])) # 0
          BY <1>0, <4>1, <4>2, SoundNotNul
        <5> QED BY <4>1, <4>2, <4>3, <5>1, SafeIsSound
      <4>5. f[p] = SubSeq(s, p, p + len - 1) \o f[p + len]
        <5>1. Piece(s, p) = SubSeq(s, p, p + len - 1) /\ Behind(s, p) = p + len
          BY <4>3, <4>4 DEF Piece, Behind
        <5> QED BY <3>1, <3>3, <5>1, ShowsPiece
      <4>6. p + len \in 1..(Len(s) + 1) /\ p + len > p
        BY <4>1, <4>3
      <4>7. f[p + len] = SubSeq(s, p + len, Len(s))
        BY <2>3, <4>2, <4>3, <4>6
      <4>8. SubSeq(s, p, p + len - 1) \o SubSeq(s, p + len, Len(s)) = SubSeq(s, p, Len(s))
        BY <4>1, <4>3, CutInTwo
      <4> QED BY ONLY <4>5, <4>7, <4>8
    <3> QED BY <3>2, <3>3
  <2> HIDE DEF S
  <2>4. 1..(Len(s) + 1) \subseteq S
    <3>1. Len(s) + 1 \in Nat
      BY <1>0
    <3> QED BY <2>3, <3>1, Downwards
  <2>5. 1 \in S /\ SubSeq(s, 1, Len(s)) = s
    BY <1>0, <2>4
  <2> QED BY <2>1, <2>2, <2>5 DEF S
<1> QED BY <1>1, <1>2

\* The value of a hexadecimal digit, and one step of reading escapes.
Digit(d) == CHOOSE i \in 0..15 : HexDigits[i + 1] = d
Unescapes(u, t, pos) ==
  IF pos > Len(t) THEN <<>>
  ELSE IF t[pos] = 92
       THEN <<Digit(t[pos + 2]) * 16 + Digit(t[pos + 3])>> \o u[pos + 4]
       ELSE <<t[pos]>> \o u[pos + 1]

LEMMA DigitRead == ASSUME NEW i \in 0..15 PROVE Digit(HexDigits[i + 1]) = i
<1>1. \A j, k \in 0..15 : HexDigits[j + 1] = HexDigits[k + 1] => j = k
  <2>1. \A k \in 0..15 : HexDigits[k + 1] = IF k < 10 THEN 48 + k ELSE 55 + k
    BY DEF HexDigits
  <2> QED BY <2>1
<1> QED BY <1>1 DEF Digit

\* An escape stands for its byte.
LEMMA EscapeRead ==
  ASSUME NEW b \in Byte
  PROVE  Digit(EscapedByte(b)[3]) * 16 + Digit(EscapedByte(b)[4]) = b
<1>1. PICK i \in 0..15, j \in 0..15 : i = b \div 16 /\ j = b % 16 /\ b = i * 16 + j
  <2>1. b \div 16 \in 0..15 /\ b % 16 \in 0..15 /\ b = (b \div 16) * 16 + (b % 16)
    BY DEF Byte
  <2> QED BY <2>1
<1>2. EscapedByte(b)[3] = HexDigits[i + 1] /\ EscapedByte(b)[4] = HexDigits[j + 1]
  BY <1>1, EscapedByteFacts
<1>3. Digit(HexDigits[i + 1]) = i /\ Digit(HexDigits[j + 1]) = j
  BY DigitRead
<1> QED BY <1>1, <1>2, <1>3

\* Unescaped, one byte or escape after the other.
LEMMA UnescapedSteps ==
  ASSUME NEW t \in Seq(Byte)
  PROVE  \E u : /\ Unescaped(t) = u[1]
                /\ \A pos \in 1..(Len(t) + 1) : u[pos] = Unescapes(u, t, pos)
<1> DEFINE n == Len(t) + 4
           D == 1..n
           E(pos) == Digit(t[pos + 2]) * 16 + Digit(t[pos + 3])
           X == Byte \cup {E(pos) : pos \in D}
           V == Seq(X)
           F == [pos \in D |-> [u \in [D -> V] |-> Unescapes(u, t, pos)]]
<1>0. Len(t) \in Nat /\ n \in Nat
  OBVIOUS
<1>1. ASSUME NEW pos \in D, ~(pos > Len(t))
      PROVE  pos + 1 \in D /\ pos + 4 \in D /\ pos + 1 > pos /\ pos + 4 > pos /\ t[pos] \in X /\ E(pos) \in X
  <2>1. pos \in 1..Len(t)
    BY <1>0, <1>1
  <2>2. t[pos] \in Byte
    BY <2>1
  <2>3. pos + 1 \in D /\ pos + 4 \in D /\ pos + 1 > pos /\ pos + 4 > pos
    BY <1>0, <2>1
  <2> HIDE DEF D, E
  <2> QED BY <2>2, <2>3
<1> HIDE DEF E
<1>2. \A pos \in D : \A u \in [D -> V] : Unescapes(u, t, pos) \in V
  <2> SUFFICES ASSUME NEW pos \in D, NEW u \in [D -> V] PROVE Unescapes(u, t, pos) \in V
    OBVIOUS
  <2>1. \A x \in X, w \in V : <<x>> \o w \in V
    <3> HIDE DEF X
    <3> QED OBVIOUS
  <2>2. << >> \in V
    <3> HIDE DEF X
    <3> QED OBVIOUS
  <2>3. ~(pos > Len(t)) => u[pos + 1] \in V /\ u[pos + 4] \in V
    <3> HIDE DEF D, V
    <3> QED BY <1>1
  <2>4. ~(pos > Len(t)) => t[pos] \in X /\ E(pos) \in X
    BY <1>1
  <2>5. Unescapes(u, t, pos) = IF pos > Len(t) THEN <<>>
                               ELSE IF t[pos] = 92 THEN <<E(pos)>> \o u[pos + 4] ELSE <<t[pos]>> \o u[pos + 1]
    BY DEF Unescapes, E
  <2> HIDE DEF D, V, X
  <2> QED BY <2>1, <2>2, <2>3, <2>4, <2>5
<1>3. V # {}
  <2>1. << >> \in V
    <3> HIDE DEF X
    <3> QED OBVIOUS
  <2> QED BY <2>1
<1> HIDE DEF D, V, X
<1>4. F \in [D -> [[D -> V] -> V]] /\ \A pos \in D : \A u \in [D -> V] : F[pos][u] = Unescapes(u, t, pos)
  BY <1>2
<1>5. ASSUME NEW pos \in D, NEW u \in [D -> V], NEW w \in [D -> V], \A q \in D : q > pos => u[q] = w[q]
      PROVE  F[pos][u] = F[pos][w]
  <2>1. ~(pos > Len(t)) => u[pos + 1] = w[pos + 1] /\ u[pos + 4] = w[pos + 4]
    BY <1>1, <1>5
  <2>2. Unescapes(u, t, pos) = Unescapes(w, t, pos)
    BY <2>1 DEF Unescapes
  <2> QED BY <1>4, <2>2
<1> HIDE DEF F
<1>6. PICK w \in [D -> V] : \A pos \in D : w[pos] = F[pos][w]
  <2> HIDE DEF n
  <2>1. LooksBehind(F, n, V)
    BY <1>4, <1>5 DEF LooksBehind, D
  <2>2. Solution(F, n, V)
    BY <1>0, <1>3, <2>1, Backward
  <2> QED BY <2>2 DEF Solution, D
<1>7. w = [pos \in D |-> Unescapes(w, t, pos)]
  <2>1. \A pos \in D : w[pos] = Unescapes(w, t, pos)
    BY <1>4, <1>6
  <2>2. w = [pos \in D |-> w[pos]]
    OBVIOUS
  <2> QED BY <2>1, <2>2
<1> DEFINE U == CHOOSE u : u = [pos \in D |-> Unescapes(u, t, pos)]
<1>8. U = [pos \in D |-> Unescapes(U, t, pos)]
  BY <1>7
<1>9. Unescaped(t) = U[1]
  BY DEF Unescaped, Unescapes, Digit, D
<1> HIDE DEF U
<1>10. \A pos \in D : U[pos] = Unescapes(U, t, pos)
  <2>1. \A u : u = [pos \in D |-> Unescapes(u, t, pos)] => \A pos \in D : u[pos] = Unescapes(u, t, pos)
    OBVIOUS
  <2> QED BY <1>8, <2>1
<1>11. \A pos \in 1..(Len(t) + 1) : pos \in D
  BY <1>0 DEF D
<1> QED BY <1>9, <1>10, <1>11

LEMMA OneElement ==
  ASSUME NEW s \in Seq(Byte), NEW q \in 1..Len(s)
  PROVE  SubSeq(s, q, q) = <<s[q]>>
<1> DEFINE a == SubSeq(s, q, q)
           b == <<s[q]>>
<1>1. a \in Seq(Byte) /\ Len(a) = 1 /\ a[1] = s[q]
  <2>1. q + 1 - 1 = q /\ 1 \in 1..1
    OBVIOUS
  <2> QED BY <2>1
<1>2. b \in Seq(Byte) /\ Len(b) = 1 /\ b[1] = s[q]
  OBVIOUS
<1> HIDE DEF a, b
<1>3. \A k \in 1..1 : k = 1
  OBVIOUS
<1>4. a = b
  BY <1>1, <1>2, <1>3, SameBytes
<1> QED BY <1>4 DEF a, b

LEMMA FirstAndRest ==
  ASSUME NEW s \in Seq(Byte), NEW q \in 1..Len(s)
  PROVE  <<s[q]>> \o SubSeq(s, q + 1, Len(s)) = SubSeq(s, q, Len(s))
<1>1. q + 1 - 1 = q /\ 1 \in 1..4 /\ q + 1 - 1 <= Len(s)
  OBVIOUS
<1>2. SubSeq(s, q, q + 1 - 1) \o SubSeq(s, q + 1, Len(s)) = SubSeq(s, q, Len(s))
  BY ONLY <1>1, s \in Seq(Byte), q \in 1..Len(s), CutInTwo
<1>3. SubSeq(s, q, q) = <<s[q]>>
  BY OneElement
<1> QED BY ONLY <1>1, <1>2, <1>3

Reads(u, t) == \A pos \in 1..(Len(t) + 1) : u[pos] = Unescapes(u, t, pos)
NoBackslash(s) == \A k \in 1..Len(s) : s[k] # 92
\* Read from i on are the bytes of s from p on; and n bytes are copied before
\* that is so.
ReadFrom(u, i, s, p) == u[i] = SubSeq(s, p, Len(s))
Run(u, i, t, n, s, p) ==
  /\ p \in 1..(Len(s) + 1) /\ i \in 1..(Len(t) + 1) /\ n \in Nat
  /\ p + n - 1 <= Len(s) /\ Copied(s, p, t, i, n)
  /\ u[i + n] = SubSeq(s, p + n, Len(s))

\* Bytes of s that stand in t from i on, none of them a "\", are read as they
\* are if what is behind them is.
LEMMA CopiedRun ==
  ASSUME NEW s \in Seq(Byte), NEW t \in Seq(Byte), NEW u, NEW p, NEW i, NEW n,
         Reads(u, t), NoBackslash(s), Run(u, i, t, n, s, p)
  PROVE  ReadFrom(u, i, s, p)
<1> SUFFICES ASSUME p \in 1..(Len(s) + 1), i \in 1..(Len(t) + 1), n \in Nat,
                    p + n - 1 <= Len(s), Copied(s, p, t, i, n), u[i + n] = SubSeq(s, p + n, Len(s))
             PROVE  u[i] = SubSeq(s, p, Len(s))
  BY DEF Run, ReadFrom
<1>0. Len(s) \in Nat /\ Len(t) \in Nat /\ i + n - 1 <= Len(t) /\ \A k \in 0..(n - 1) : t[i + k] = s[p + k]
  <2>1. Len(s) \in Nat /\ Len(t) \in Nat
    OBVIOUS
  <2>2. i + n - 1 <= Len(t) /\ \A k \in 0..(n - 1) : t[i + k] = s[p + k]
    BY ONLY Copied(s, p, t, i, n) DEF Copied
  <2> QED BY <2>1, <2>2
<1> DEFINE S == {m \in Nat : m <= n => u[i + (n - m)] = SubSeq(s, p + (n - m), Len(s))}
<1>1. 0 \in S
  <2>1. 0 \in Nat /\ n - 0 = n
    OBVIOUS
  <2>2. u[i + (n - 0)] = SubSeq(s, p + (n - 0), Len(s))
    BY ONLY <2>1, u[i + n] = SubSeq(s, p + n, Len(s))
  <2> QED BY <2>1, <2>2
<1>2. ASSUME NEW m \in Nat, m \in S PROVE m + 1 \in S
  <2> SUFFICES ASSUME m + 1 <= n PROVE u[i + (n - (m + 1))] = SubSeq(s, p + (n - (m + 1)), Len(s))
    OBVIOUS
  <2>1. PICK k \in 0..(n - 1) : k = n - (m + 1) /\ n - m = k + 1
    OBVIOUS
  <2>2. PICK q, j : q = p + k /\ j = i + k
    OBVIOUS
  <2>3. q \in 1..Len(s) /\ j \in 1..Len(t) /\ j \in 1..(Len(t) + 1) /\ ~(j > Len(t))
        /\ p + (n - m) = q + 1 /\ i + (n - m) = j + 1
    BY <1>0, <2>1, <2>2
  <2>4. t[j] = s[q] /\ t[j] # 92 /\ s[q] \in Byte
    <3>1. t[i + k] = s[p + k]
      BY <1>0
    <3>2. s[q] # 92 /\ s[q] \in Byte
      BY <2>3 DEF NoBackslash
    <3> QED BY ONLY <2>2, <3>1, <3>2
  <2>5. u[j] = <<t[j]>> \o u[j + 1]
    BY <2>3, <2>4 DEF Reads, Unescapes
  <2>6. u[j + 1] = SubSeq(s, q + 1, Len(s))
    <3>1. m <= n
      OBVIOUS
    <3> QED BY <1>2, <2>3, <3>1
  <2>7. <<s[q]>> \o SubSeq(s, q + 1, Len(s)) = SubSeq(s, q, Len(s))
    BY ONLY <2>3, s \in Seq(Byte), FirstAndRest
  <2>8. u[j] = SubSeq(s, q, Len(s))
    BY ONLY <2>4, <2>5, <2>6, <2>7
  <2> QED BY ONLY <2>1, <2>2, <2>8
<1> HIDE DEF S
<1>3. Nat \subseteq S
  BY <1>1, <1>2, Induction
<1>4. n \in S /\ n - n = 0 /\ i + 0 = i /\ p + 0 = p
  BY <1>3
<1>5. n <= n /\ u[i + (n - n)] = SubSeq(s, p + (n - n), Len(s))
  BY <1>4 DEF S
<1> QED BY <1>4, <1>5

LEMMA Associated ==
  ASSUME NEW a \in Seq(Byte), NEW b \in Seq(Byte), NEW c \in Seq(Byte)
  PROVE  a \o (b \o c) = (a \o b) \o c
OBVIOUS

LEMMA InFront ==
  ASSUME NEW a \in Seq(Byte), NEW b \in Seq(Byte)
  PROVE  Len(a \o b) = Len(a) + Len(b) /\ \A i \in 1..Len(a) : (a \o b)[i] = a[i]
OBVIOUS

LEMMA CutOff ==
  ASSUME NEW s \in Seq(Byte), NEW p \in 1..Len(s), NEW len \in 1..4, p + len - 1 <= Len(s)
  PROVE  LET w == SubSeq(s, p, p + len - 1) IN
         w \in Seq(Byte) /\ Len(w) = len /\ \A k \in 1..len : w[k] = s[p + k - 1]
OBVIOUS

\* Where the second of three pieces is, in the three put together.
LEMMA InTheMiddle ==
  ASSUME NEW a \in Seq(Byte), NEW b \in Seq(Byte), NEW c \in Seq(Byte), NEW k \in 1..Len(b)
  PROVE  /\ ((a \o b) \o c)[Len(a) + k] = b[k]
         /\ Len(a) + k \in 1..Len((a \o b) \o c)
<1> DEFINE d == a \o b
<1>1. d \in Seq(Byte) /\ Len(d) = Len(a) + Len(b) /\ Len(a) + k \in 1..Len(d) /\ d[Len(a) + k] = b[k]
  OBVIOUS
<1> HIDE DEF d
<1>2. Len(d \o c) = Len(d) + Len(c) /\ \A i \in 1..Len(d) : (d \o c)[i] = d[i]
  BY ONLY <1>1, c \in Seq(Byte), InFront
<1>3. Len(a) + k \in 1..Len(d \o c)
  BY <1>1, <1>2
<1>4. (d \o c)[Len(a) + k] = b[k]
  BY <1>1, <1>2
<1> QED BY <1>3, <1>4 DEF d

\* One piece of what is shown is read back: the byte or the bytes it stands for.
LEMMA PieceRead ==
  ASSUME NEW s \in Seq(Byte), NEW p \in 1..Len(s), NoBackslash(s),
         NEW x \in Seq(Byte), NEW rest \in Seq(Byte),
         NEW t, t = (x \o Piece(s, p)) \o rest, NEW u, Reads(u, t),
         ReadFrom(u, Len(x) + Len(Piece(s, p)) + 1, s, Behind(s, p))
  PROVE  ReadFrom(u, Len(x) + 1, s, p)
<1> SUFFICES u[Len(x) + 1] = SubSeq(s, p, Len(s))
  BY DEF ReadFrom
<1>0. u[Len(x) + Len(Piece(s, p)) + 1] = SubSeq(s, Behind(s, p), Len(s))
  BY DEF ReadFrom
<1> DEFINE w == Piece(s, p)
<1>1. w \in Seq(Byte)
  BY PieceFacts
<1>2. \A k \in 1..Len(w) : t[Len(x) + k] = w[k] /\ Len(x) + k \in 1..Len(t)
  BY <1>1, InTheMiddle
<1>3. t \in Seq(Byte) /\ Len(t) \in Nat /\ Len(x) \in Nat /\ Len(s) \in Nat
  BY <1>1
<1>4. CASE Safe(s, p, Lead(s[p]))
  <2>1. PICK len \in 1..4 : len = Lead(s[p]) /\ p + len - 1 <= Len(s)
    BY <1>4, SafeIsSound, SoundIsDecoded
  <2>2. w = SubSeq(s, p, p + len - 1) /\ Behind(s, p) = p + len
    BY <1>4, <2>1 DEF Piece, Behind
  <2> HIDE DEF w
  <2>3. Len(w) = len /\ \A k \in 1..len : w[k] = s[p + k - 1]
    BY <2>1, <2>2, CutOff
  <2>4. PICK i : i = Len(x) + 1
    OBVIOUS
  <2>5. i \in 1..(Len(t) + 1) /\ i + len - 1 <= Len(t)
    <3>1. Len(x) + len \in 1..Len(t)
      BY <1>2, <2>3
    <3> QED BY <1>3, <2>4, <3>1
  <2>6. Copied(s, p, t, i, len)
    <3>1. \A k \in 0..(len - 1) : k + 1 \in 1..len /\ Len(x) + (k + 1) = i + k /\ p + (k + 1) - 1 = p + k
      BY <1>3, <2>4
    <3>2. ASSUME NEW k \in 0..(len - 1) PROVE t[i + k] = s[p + k]
      <4>1. t[Len(x) + (k + 1)] = w[k + 1]
        BY ONLY <1>2, <2>3, <3>1, k \in 0..(len - 1)
      <4>2. w[k + 1] = s[p + (k + 1) - 1]
        BY ONLY <2>3, <3>1, k \in 0..(len - 1)
      <4> QED BY <3>1, <4>1, <4>2
    <3> QED BY ONLY <2>5, <3>2 DEF Copied
  <2>7. u[i + len] = SubSeq(s, p + len, Len(s))
    <3>1. Len(x) + Len(w) + 1 = i + len
      BY <1>3, <2>3, <2>4
    <3>2. u[Len(x) + Len(w) + 1] = SubSeq(s, Behind(s, p), Len(s))
      BY ONLY <1>0 DEF w
    <3> QED BY ONLY <2>2, <3>1, <3>2
  <2>8. p \in 1..(Len(s) + 1) /\ len \in Nat
    BY <1>3
  <2>9. u[i] = SubSeq(s, p, Len(s))
    <3>1. Run(u, i, t, len, s, p)
      BY ONLY <2>1, <2>5, <2>6, <2>7, <2>8 DEF Run
    <3>2. ReadFrom(u, i, s, p)
      BY ONLY <1>3, <3>1, s \in Seq(Byte), Reads(u, t), NoBackslash(s), CopiedRun
    <3> QED BY ONLY <3>2 DEF ReadFrom
  <2> QED BY <2>4, <2>9
<1>5. CASE ~Safe(s, p, Lead(s[p]))
  <2>1. w = EscapedByte(s[p]) /\ Behind(s, p) = p + 1 /\ s[p] \in Byte
    BY <1>5 DEF Piece, Behind
  <2>2. /\ Len(w) = 4 /\ w[1] = 92
        /\ Digit(w[3]) * 16 + Digit(w[4]) = s[p]
    <3> HIDE DEF w
    <3>1. /\ Len(EscapedByte(s[p])) = 4 /\ EscapedByte(s[p])[1] = 92
          /\ Digit(EscapedByte(s[p])[3]) * 16 + Digit(EscapedByte(s[p])[4]) = s[p]
      BY ONLY <2>1, EscapedByteFacts, EscapeRead
    <3> QED BY ONLY <2>1, <3>1
  <2> HIDE DEF w
  <2>3. PICK i : i = Len(x) + 1
    OBVIOUS
  <2>4. t[i] = 92 /\ t[i + 2] = w[3] /\ t[i + 3] = w[4] /\ i \in 1..Len(t)
    <3>1. 1 \in 1..Len(w) /\ 3 \in 1..Len(w) /\ 4 \in 1..Len(w)
      BY <2>2
    <3>2. Len(x) + 3 = i + 2 /\ Len(x) + 4 = i + 3
      BY <1>3, <2>3
    <3>3. t[Len(x) + 1] = w[1] /\ t[Len(x) + 3] = w[3] /\ t[Len(x) + 4] = w[4] /\ Len(x) + 1 \in 1..Len(t)
      BY ONLY <1>2, <3>1
    <3> QED BY ONLY <2>2, <2>3, <3>2, <3>3
  <2>5. u[i] = <<Digit(t[i + 2]) * 16 + Digit(t[i + 3])>> \o u[i + 4]
    <3>1. i \in 1..(Len(t) + 1) /\ ~(i > Len(t))
      BY <1>3, <2>4
    <3>2. u[i] = Unescapes(u, t, i)
      BY <3>1 DEF Reads
    <3> QED BY ONLY <2>4, <3>1, <3>2 DEF Unescapes
  <2>6. u[i + 4] = SubSeq(s, p + 1, Len(s))
    <3>1. Len(x) + Len(w) + 1 = i + 4
      BY <1>3, <2>2, <2>3
    <3>2. u[Len(x) + Len(w) + 1] = SubSeq(s, Behind(s, p), Len(s))
      BY ONLY <1>0 DEF w
    <3> QED BY ONLY <2>1, <3>1, <3>2
  <2>7. <<s[p]>> \o SubSeq(s, p + 1, Len(s)) = SubSeq(s, p, Len(s))
    BY FirstAndRest
  <2>8. Digit(t[i + 2]) * 16 + Digit(t[i + 3]) = s[p]
    BY ONLY <2>2, <2>4
  <2>9. u[i] = SubSeq(s, p, Len(s))
    BY ONLY <2>5, <2>6, <2>7, <2>8
  <2> QED BY <2>3, <2>9
<1> QED BY <1>4, <1>5

\* What has no "\" of its own can be read back byte by byte.
LEMMA ShownIsReadBack ==
  ASSUME NEW s \in Seq(Byte), 92 \notin Range(s)
  PROVE  Unescaped(MakeTelemetrySafeUtf8(s)) = s
<1>0. Len(s) \in Nat /\ NoBackslash(s)
  <2>1. DOMAIN s = 1..Len(s) /\ Len(s) \in Nat
    OBVIOUS
  <2> QED BY <2>1 DEF Range, NoBackslash
<1>1. SubSeq(s, 1, Len(s)) = s /\ SubSeq(s, Len(s) + 1, Len(s)) = << >>
  BY <1>0
<1>2. CASE \A i \in 1..Len(s) : s[i] < 128
  <2>1. MakeTelemetrySafeUtf8(s) = s
    BY <1>2, ShownSteps
  <2>2. PICK u : Unescaped(s) = u[1] /\ Reads(u, s)
    BY UnescapedSteps DEF Reads
  <2>3. u[Len(s) + 1] = << >>
    <3>1. Len(s) + 1 \in 1..(Len(s) + 1) /\ Len(s) + 1 > Len(s)
      BY <1>0
    <3> QED BY <2>2, <3>1 DEF Reads, Unescapes
  <2>4. Copied(s, 1, s, 1, Len(s)) /\ 1 \in 1..(Len(s) + 1) /\ 1 + Len(s) - 1 <= Len(s) /\ 1 + Len(s) = Len(s) + 1
    BY <1>0 DEF Copied
  <2>5. u[1 + Len(s)] = SubSeq(s, 1 + Len(s), Len(s))
    BY <1>1, <2>3, <2>4
  <2>6. u[1] = SubSeq(s, 1, Len(s))
    <3>1. Run(u, 1, s, Len(s), s, 1)
      BY ONLY <1>0, <2>4, <2>5 DEF Run
    <3>2. ReadFrom(u, 1, s, 1)
      BY ONLY <1>0, <2>2, <3>1, s \in Seq(Byte), CopiedRun
    <3> QED BY ONLY <3>2 DEF ReadFrom
  <2> QED BY <1>1, <2>1, <2>2, <2>6
<1>3. CASE ~(\A i \in 1..Len(s) : s[i] < 128)
  <2>1. PICK f : /\ MakeTelemetrySafeUtf8(s) = f[1]
                 /\ \A p \in 1..(Len(s) + 1) : f[p] \in Seq(Byte) /\ f[p] = Shows(f, s, p)
    BY <1>3, ShownSteps
  <2>2. 1 \in 1..(Len(s) + 1)
    BY <1>0
  <2>3. PICK t : t = f[1] /\ t \in Seq(Byte)
    BY <2>1, <2>2
  <2>4. PICK u : Unescaped(t) = u[1] /\ Reads(u, t)
    BY <2>3, UnescapedSteps DEF Reads
  <2> DEFINE S == {p \in 1..(Len(s) + 1) : \A x \in Seq(Byte) :
                     t = x \o f[p] => u[Len(x) + 1] = SubSeq(s, p, Len(s))}
  <2>5. ASSUME NEW p \in 1..(Len(s) + 1), \A q \in 1..(Len(s) + 1) : q > p => q \in S
        PROVE  p \in S
    <3> SUFFICES ASSUME NEW x \in Seq(Byte), t = x \o f[p] PROVE u[Len(x) + 1] = SubSeq(s, p, Len(s))
      OBVIOUS
    <3>1. f[p] \in Seq(Byte) /\ f[p] = Shows(f, s, p)
      BY <2>1
    <3>2. CASE p > Len(s)
      <4>1. f[p] = << >> /\ p = Len(s) + 1
        BY <1>0, <3>1, <3>2, ShowsPiece
      <4>2. Len(x) = Len(t) /\ Len(t) \in Nat
        <5>1. x \o << >> = x /\ Len(x) \in Nat
          BY x \in Seq(Byte)
        <5>2. t = x
          BY <4>1, <5>1
        <5> QED BY ONLY <5>1, <5>2
      <4>3. Len(x) + 1 \in 1..(Len(t) + 1) /\ Len(x) + 1 > Len(t)
        BY ONLY <4>2
      <4>4. u[Len(x) + 1] = << >>
        BY <2>4, <4>3 DEF Reads, Unescapes
      <4> QED BY <1>1, <4>1, <4>4
    <3>3. CASE ~(p > Len(s))
      <4>1. p \in 1..Len(s)
        BY <1>0, <3>3
      <4>2. PICK w, q : w = Piece(s, p) /\ q = Behind(s, p)
        OBVIOUS
      <4>3. w \in Seq(Byte) /\ q \in (p + 1)..(Len(s) + 1)
        BY <4>1, <4>2, PieceFacts
      <4>4. q \in 1..(Len(s) + 1) /\ q > p
        BY <4>1, <4>3
      <4>5. f[p] = w \o f[q] /\ f[q] \in Seq(Byte)
        BY <2>1, <3>1, <3>3, <4>2, <4>4, ShowsPiece
      <4>6. t = (x \o w) \o f[q]
        <5>1. x \o (w \o f[q]) = (x \o w) \o f[q]
          BY ONLY <4>3, <4>5, x \in Seq(Byte), Associated
        <5> QED BY ONLY <4>5, <5>1, t = x \o f[p]
      <4>7. x \o w \in Seq(Byte) /\ Len(x \o w) = Len(x) + Len(w)
        BY <4>3
      <4>8. u[Len(x \o w) + 1] = SubSeq(s, q, Len(s))
        BY <2>5, <4>4, <4>6, <4>7
      <4>9. u[Len(x) + Len(w) + 1] = SubSeq(s, q, Len(s))
        BY ONLY <4>7, <4>8
      <4>10. ReadFrom(u, Len(x) + Len(Piece(s, p)) + 1, s, Behind(s, p))
        BY ONLY <4>2, <4>9 DEF ReadFrom
      <4>11. t = (x \o Piece(s, p)) \o f[q]
        BY ONLY <4>2, <4>6
      <4>12. ReadFrom(u, Len(x) + 1, s, p)
        BY ONLY <1>0, <2>4, <4>1, <4>5, <4>10, <4>11, s \in Seq(Byte), x \in Seq(Byte), PieceRead
      <4> QED BY ONLY <4>12 DEF ReadFrom
    <3> QED BY <3>2, <3>3
  <2>6. 1..(Len(s) + 1) \subseteq S
    <3>1. Len(s) + 1 \in Nat
      BY <1>0
    <3> HIDE DEF S
    <3> QED BY <2>5, <3>1, Downwards
  <2>7. << >> \in Seq(Byte) /\ t = << >> \o f[1] /\ Len(<< >>) + 1 = 1
    BY <2>3
  <2>8. u[1] = SubSeq(s, 1, Len(s))
    <3>1. \A x \in Seq(Byte) : t = x \o f[1] => u[Len(x) + 1] = SubSeq(s, 1, Len(s))
      BY <2>2, <2>6
    <3> HIDE DEF S
    <3> QED BY <2>7, <3>1
  <2> QED BY <1>1, <2>1, <2>3, <2>4, <2>8
<1> QED BY <1>2, <1>3

\* The text of a literal that is read is one of numbers.
LEMMA ReadText ==
  ASSUME NEW s \in Seq(Byte), DecodeUtf8(s) # Malformed
  PROVE  DecodeUtf8(s) \in Seq(Nat)
<1>1. PICK v : IsValidUtf8(s) = v[1] /\ \A p \in 1..(Len(s) + 1) : v[p] = Step(v, s, p)
  BY ValidSteps
<1>2. PICK f : DecodeUtf8(s) = f[1] /\ \A p \in 1..(Len(s) + 1) : f[p] = Read(f, s, p)
  BY ReadSteps
<1>3. 1 \in 1..(Len(s) + 1)
  OBVIOUS
<1> QED BY <1>1, <1>2, <1>3, DecodersMeet

LEMMA ReadOneWay == ASSUME NEW s \in Seq(Byte) PROVE Utf8IsReadOneWay(s)
<1> DEFINE text == DecodeUtf8(s)
<1>1. IsValidUtf8(s) <=> text # Malformed
  BY DecodersAgree
<1>2. ASSUME text # Malformed, \A i \in 1..Len(text) : text[i] < 65536 PROVE Utf8(text) = s
  <2>1. text \in Seq(Nat)
    BY <1>2, ReadText
  <2> HIDE DEF text
  <2>2. text = [i \in 1..Len(text) |-> text[i]] /\ Len(text) \in Nat
    BY <2>1
  <2>3. \A i \in 1..Len(text) : text[i] \in Bmp
    BY <1>2, <2>1 DEF Bmp
  <2>4. text \in BmpText
    BY <2>2, <2>3 DEF BmpText
  <2> QED BY <2>4, ReadingLosesNothing DEF text
<1> QED BY <1>1, <1>2 DEF Utf8IsReadOneWay

\* For text of any length: DuckDB is given valid UTF-8 by the transcoding of a
\* NONE column and by telemetry, which shows valid text as it is and loses no
\* byte of any other; and the two readers of UTF-8 are one
\* (TranscodeNoneCharset, MakeTelemetrySafeUtf8, IsValidUtf8,
\* DecodeUtf8Codepoint).
THEOREM TextIsAlwaysValid == Spec => []TextIsValid
<1>1. InputInv => TextIsValid
  <2> SUFFICES ASSUME InputInv, family = "strings"
               PROVE  /\ Utf8IsReadOneWay(input.bytes)
                      /\ \A mode \in {"WIN1252", "ISO_8859_1"} : IsValidUtf8(Transcode(mode, input.bytes))
                      /\ IsValidUtf8(MakeTelemetrySafeUtf8(input.bytes))
                      /\ IsValidUtf8(input.bytes) /\ 0 \notin Range(input.bytes) =>
                           MakeTelemetrySafeUtf8(input.bytes) = input.bytes
                      /\ 92 \notin Range(input.bytes) =>
                           Unescaped(MakeTelemetrySafeUtf8(input.bytes)) = input.bytes
    BY DEF TextIsValid
  <2>1. input \in Strings
    BY FamilyOf DEF InputInv
  <2>2. input.bytes \in Seq(Byte)
    <3>1. input.bytes \in ByteStrings
      BY <2>1 DEF Strings
    <3> QED BY <3>1, TextAssumption
  <2>3. \A mode \in {"WIN1252", "ISO_8859_1"} : IsValidUtf8(Transcode(mode, input.bytes))
    BY <2>2, TranscodedIsValid DEF Transcoding
  <2> QED BY <2>2, <2>3, ReadOneWay, ShownIsValid, ValidIsShown, ShownIsReadBack
<1> QED BY <1>1, Inputs, PTL

-----------------------------------------------------------------------------
(* The reports: what they say of a key is what a scan that cuts it does, and *)
(* each alert and each lever is about the facts of the relation.             *)

\* What a scan cuts by itself is what PickPartitionCount picks.
LEMMA PickIsCount ==
  ASSUME NEW lo \in Int64, NEW hi \in Int64, lo < hi
  PROVE  /\ Report!P!PartitionCount(lo, hi, 0, HwConcurrency) = Report!P!PickPartitionCount(lo, hi, HwConcurrency)
         /\ Report!P!PickPartitionCount(lo, hi, HwConcurrency) \in Nat \ {0}
<1> DEFINE range == Wrap64(hi - lo + 1)
           hw == HwConcurrency
           n == PickPartitionCount(lo, hi, hw)
<1>1. Report!P!Wrap64(hi - lo + 1) = range
  BY DEF Report!P!Wrap64, Report!P!IntMin, Wrap64, IntMin
<1>2. Report!P!PickPartitionCount(lo, hi, hw) = n
  BY <1>1 DEF Report!P!PickPartitionCount, Report!P!Least, Report!P!Greatest, PickPartitionCount, Least, Greatest
<1>3. Report!P!PartitionCount(lo, hi, 0, hw) = IF range > 0 THEN Least(n, range) ELSE n
  BY <1>1, <1>2 DEF Report!P!PartitionCount, Report!P!Least, Least
<1>4. range \in Int
  BY BoundsAssumption DEF Wrap64, Int64, IntMin
<1>5. hw \in Nat /\ MinRows \in Nat \ {0}
  BY ReportAssumption, BoundsAssumption
<1>6. n = IF range < 2 * MinRows THEN 1
          ELSE Greatest(1, Least(range \div MinRows, IF hw <= 0 THEN 4 ELSE hw))
  BY DEF PickPartitionCount
<1>7. range > 0 => range \div MinRows \in Nat /\ range \div MinRows <= range
  <2> HAVE range > 0
  <2>1. range \div MinRows \in Int /\ MinRows * (range \div MinRows) <= range
    BY <1>4, <1>5, DivBounds
  <2> HIDE DEF range
  <2> QED BY <2>1, <1>4, <1>5
<1> HIDE DEF range, hw, n
<1>8. n \in Nat \ {0} /\ (range > 0 => n <= range)
  BY <1>4, <1>5, <1>6, <1>7 DEF Greatest, Least
<1>9. Report!P!PartitionCount(lo, hi, 0, hw) = n
  BY <1>3, <1>4, <1>8 DEF Least
<1> QED BY <1>2, <1>8, <1>9 DEF hw

\* The width of a range, where it wraps.
LEMMA WrappedWidth ==
  ASSUME NEW lo \in Int64, NEW hi \in Int64, lo < hi
  PROVE  /\ Report!P!Wrap64(hi - lo + 1) \in Int
         /\ Report!P!Wrap64(hi - lo + 1) >= 0
              => Report!P!Wrap64(hi - lo + 1) = hi - lo + 1 \/ hi - lo = 2 * IntMax + 1
<1> DEFINE width == hi - lo + 1
<1>1. Report!P!Wrap64(width) = Wrap64(width)
  BY DEF Report!P!Wrap64, Report!P!IntMin, Wrap64, IntMin
<1>2. width \in 1..(2 * IntMax + 2)
  BY BoundsAssumption DEF Int64, IntMin
<1> HIDE DEF width
<1>3. CASE width <= IntMax
  <2>1. width \in Int64
    BY <1>2, <1>3, BoundsAssumption DEF Int64, IntMin
  <2>2. Wrap64(width) = width
    BY <2>1, WrapInside
  <2> QED BY <1>1, <1>2, <2>2 DEF width
<1>4. CASE width > IntMax
  <2>1. width \in (IntMax + 1)..(2 * IntMax + 2)
    BY <1>2, <1>4, BoundsAssumption
  <2>2. Wrap64(width) = width - 2 * (IntMax + 1)
    BY <2>1, WrapAbove
  <2>3. Wrap64(width) \in Int /\ (Wrap64(width) >= 0 => width = 2 * IntMax + 2)
    BY <2>1, <2>2, BoundsAssumption
  <2>4. width = 2 * IntMax + 2 => hi - lo = 2 * IntMax + 1
    BY BoundsAssumption DEF width, Int64, IntMin
  <2> QED BY <1>1, <2>3, <2>4 DEF width
<1>5. width <= IntMax \/ width > IntMax
  BY <1>2, BoundsAssumption
<1> QED BY <1>3, <1>4, <1>5

\* The parts of a relation.
LEMMA RelationFacts ==
  ASSUME NEW t, Reportable(t)
  PROVE  /\ t.kind \in {"TABLE", "VIEW", "MISSING"} /\ t.pk \in {<<>>, <<"K">>, <<"K", "C">>}
         /\ t.type \in [{"K", "C"} -> STRING]
         /\ t.lo \in Int64 /\ t.hi \in Int64 /\ t.rows \in Nat
         /\ t.view \in [has_join : BOOLEAN, has_group_by : BOOLEAN, has_aggregate : BOOLEAN, has_where : BOOLEAN]
         /\ t.kind = "VIEW" => t.pk = <<>>
         /\ t.pk = <<"K">> =>
              t.lo <= t.hi /\ t.rows <= t.hi - t.lo + 1 /\ (t.rows < 2 => t.lo = t.hi)
BY DEF Reportable

\* The three kinds of keys are three.
LEMMA KeysDiffer == <<>> # <<"K">> /\ <<>> # <<"K", "C">> /\ <<"K">> # <<"K", "C">>
<1> DEFINE none == <<>>
           one == <<"K">>
           two == <<"K", "C">>
<1>1. Len(none) = 0 /\ Len(one) = 1 /\ Len(two) = 2
  OBVIOUS
<1>2. Len(none) # Len(one) /\ Len(none) # Len(two) /\ Len(one) # Len(two)
  <2> HIDE DEF none, one, two
  <2> QED BY <1>1
<1> HIDE DEF none, one, two
<1>3. none # one /\ none # two /\ one # two
  BY <1>2, Zenon
<1> QED BY <1>3, Zenon DEF none, one, two

\* The three kinds of keys have different lengths.
LEMMA KeyShapes ==
  \A pk \in {<<>>, <<"K">>, <<"K", "C">>} :
    /\ Len(pk) = 0 <=> pk = <<>>
    /\ Len(pk) = 1 <=> pk = <<"K">>
    /\ Len(pk) > 1 <=> pk = <<"K", "C">>
    /\ Len(pk) = 1 => pk[1] = "K"
    /\ Range(pk) \subseteq {"K", "C"}
<1> SUFFICES ASSUME NEW pk \in {<<>>, <<"K">>, <<"K", "C">>}
             PROVE  /\ Len(pk) = 0 <=> pk = <<>>
                    /\ Len(pk) = 1 <=> pk = <<"K">>
                    /\ Len(pk) > 1 <=> pk = <<"K", "C">>
                    /\ Len(pk) = 1 => pk[1] = "K"
                    /\ Range(pk) \subseteq {"K", "C"}
  OBVIOUS
<1> DEFINE none == <<>>
           one == <<"K">>
           two == <<"K", "C">>
<1>1. Len(none) = 0 /\ Len(one) = 1 /\ Len(two) = 2 /\ one[1] = "K" /\ two[1] = "K" /\ two[2] = "C"
  OBVIOUS
<1>2. DOMAIN none = {} /\ DOMAIN one = {1} /\ DOMAIN two = {1, 2}
  OBVIOUS
<1>3. Range(none) = {} /\ Range(one) = {"K"} /\ Range(two) = {"K", "C"}
  BY <1>1, <1>2 DEF Range
<1>4. pk = none \/ pk = one \/ pk = two
  OBVIOUS
<1>5. none # one /\ none # two /\ one # two
  BY KeysDiffer, Zenon
<1> HIDE DEF none, one, two
<1>6. /\ Len(pk) = 0 <=> pk = none
      /\ Len(pk) = 1 <=> pk = one
      /\ Len(pk) > 1 <=> pk = two
      /\ Len(pk) = 1 => pk[1] = "K"
      /\ Range(pk) \subseteq {"K", "C"}
  <2>1. CASE pk = none
    BY <1>1, <1>3, <1>5, <2>1
  <2>2. CASE pk = one
    BY <1>1, <1>3, <1>5, <2>2
  <2>3. CASE pk = two
    BY <1>1, <1>3, <1>5, <2>3
  <2> QED BY <1>4, <2>1, <2>2, <2>3
<1> QED BY <1>6, Zenon DEF none, one, two

\* What is known of a relation whose key has a range, and of one without.
LEMMA ProbedRange ==
  ASSUME NEW t, Reportable(t), NEW failing
  PROVE  LET range == Report!ProbePrimaryKey(t, failing) IN
         \/ /\ range = [found |-> TRUE, lo |-> t.lo, hi |-> t.hi]
            /\ t.pk = <<"K">> /\ t.type["K"] = "INTEGER" /\ t.rows >= 2 /\ t.lo < t.hi
         \/ /\ range = [found |-> FALSE, lo |-> 0, hi |-> 0]
            /\ "probe" \in failing \/ t.pk # <<"K">> \/ t.type["K"] # "INTEGER" \/ t.rows < 2
<1> DEFINE range == Report!ProbePrimaryKey(t, failing)
           given == "probe" \notin failing /\ Len(t.pk) = 1 /\ t.type[t.pk[1]] = "INTEGER" /\ t.rows > 0 /\ t.hi > t.lo
<1>1. range = IF given THEN [found |-> TRUE, lo |-> t.lo, hi |-> t.hi] ELSE [found |-> FALSE, lo |-> 0, hi |-> 0]
  BY DEF Report!ProbePrimaryKey, Report!NoRange
<1>2. Len(t.pk) = 1 <=> t.pk = <<"K">>
  BY RelationFacts, KeyShapes
<1>3. t.lo \in Int /\ t.hi \in Int /\ t.rows \in Nat
  BY RelationFacts, BoundsAssumption DEF Int64, IntMin
<1>4. CASE given
  <2>1. t.pk = <<"K">> /\ t.type["K"] = "INTEGER" /\ t.rows > 0 /\ t.lo < t.hi
    BY <1>2, <1>3, <1>4
  <2>2. t.rows >= 2
    BY <1>3, <2>1, RelationFacts
  <2> QED BY <1>1, <1>4, <2>1, <2>2
<1>5. CASE ~given
  <2>1. "probe" \in failing \/ t.pk # <<"K">> \/ t.type["K"] # "INTEGER" \/ t.rows < 2
    <3> SUFFICES ASSUME "probe" \notin failing, t.pk = <<"K">>, t.type["K"] = "INTEGER", ~(t.rows < 2) PROVE FALSE
      OBVIOUS
    <3>1. t.lo <= t.hi /\ t.rows <= t.hi - t.lo + 1
      BY RelationFacts, Zenon
    <3>2. t.hi > t.lo /\ t.rows > 0
      BY <1>3, <3>1
    <3> QED BY <1>2, <1>5, <3>2
  <2> QED BY <1>1, <1>5, <2>1
<1> QED BY <1>4, <1>5

\* The advice on a probed range is the number of partitions of the scan.
LEMMA AdviceIsTheCount ==
  ASSUME NEW t, Reportable(t), NEW failing
  PROVE  LET range == Report!ProbePrimaryKey(t, failing) IN
         /\ Report!Advice(range) = Report!ScanPartitions(t, failing)
         /\ Report!Advice(range) \in Nat \ {0}
         /\ ~range.found => Report!Advice(range) = 1
<1> DEFINE range == Report!ProbePrimaryKey(t, failing)
<1>1. CASE range.found
  <2>1. range = [found |-> TRUE, lo |-> t.lo, hi |-> t.hi] /\ t.lo < t.hi
    BY <1>1, ProbedRange
  <2>2. t.lo \in Int64 /\ t.hi \in Int64
    BY RelationFacts
  <2>3. Report!Advice(range) = Report!P!PickPartitionCount(t.lo, t.hi, HwConcurrency)
    BY <2>1 DEF Report!Advice
  <2>4. Report!ScanPartitions(t, failing) = Report!P!PartitionCount(t.lo, t.hi, 0, HwConcurrency)
    BY <2>1 DEF Report!ScanPartitions
  <2> QED BY <1>1, <2>1, <2>2, <2>3, <2>4, PickIsCount
<1>2. CASE ~range.found
  BY <1>2 DEF Report!Advice, Report!ScanPartitions
<1> QED BY <1>1, <1>2

\* The parts of a profile that is not thrown.
LEMMA ProfileParts ==
  ASSUME NEW t, Reportable(t), NEW failing, NEW exact,
         Report!BuildProfile(t, failing, exact) # Report!Thrown
  PROVE  LET profile == Report!BuildProfile(t, failing, exact)
             range == Report!ProbePrimaryKey(t, failing)
             indexes == Report!LoadIndexes(t, failing)
             pk == {ix \in indexes : ix.name = "PK"}
             key == IF pk = {} THEN <<>> ELSE (CHOOSE ix \in pk : TRUE).columns
         IN
         /\ t.kind \in {"TABLE", "VIEW"}
         /\ profile.recommended_partitions = Report!Advice(range)
         /\ profile.full_scan_risk = Report!FullScanRisk(range)
         /\ profile.estimated_rows \in
              {t.rows, IF range.found THEN Report!P!Wrap64(range.hi - range.lo + 1) ELSE -1}
         /\ profile.filter_candidates \subseteq UNION {Range(ix.columns) : ix \in indexes}
         /\ \E filters, watermarks, counted : profile.alerts =
              (IF t.kind = "VIEW" THEN Report!ViewAlerts(t, failing) ELSE Report!KeyAlerts(t, range, pk # {}, key))
              \cup Report!GeneralAlerts(t, Report!FullScanRisk(range), filters, watermarks, counted)
<1> DEFINE profile == Report!BuildProfile(t, failing, exact)
           range == Report!ProbePrimaryKey(t, failing)
           indexes == Report!LoadIndexes(t, failing)
           pk == {ix \in indexes : ix.name = "PK"}
           key == IF pk = {} THEN <<>> ELSE (CHOOSE ix \in pk : TRUE).columns
           indexed == UNION {Range(ix.columns) : ix \in indexes}
           filters == {c \in indexed : Report!IsCheapFilterType(t.type[c])}
           watermarks == {c \in Report!Column : Report!IsWatermarkType(t.type[c])}
           used == IF t.kind = "VIEW" THEN Report!NoRange ELSE range
           counted == exact /\ "count" \notin failing
           alerts(r) ==
             (IF t.kind = "VIEW" THEN Report!ViewAlerts(t, failing) ELSE Report!KeyAlerts(t, r, pk # {}, key))
             \cup Report!GeneralAlerts(t, Report!FullScanRisk(r), filters, watermarks, counted)
           record(r) ==
             [has_primary_key |-> pk # {}, filter_candidates |-> filters,
              full_scan_risk |-> Report!FullScanRisk(r), recommended_partitions |-> Report!Advice(r),
              row_estimate_method |-> IF counted THEN "exact_count"
                                      ELSE IF r.found THEN "pk_range_upper_bound" ELSE "",
              estimated_rows |-> IF counted THEN t.rows
                                 ELSE IF r.found THEN Report!P!Wrap64(r.hi - r.lo + 1) ELSE -1,
              alerts |-> alerts(r)]
<1>1. /\ profile = Report!Profiled(t, failing, exact)
      /\ Report!LookupObjectType(t, failing) \in {"TABLE", "VIEW"}
  BY DEF Report!BuildProfile
<1>2. t.kind \in {"TABLE", "VIEW"}
  BY <1>1 DEF Report!LookupObjectType
<1>3. Report!Profiled(t, failing, exact) = record(used)
  BY DEF Report!Profiled, Report!Range, Range
<1>4. used = range
  <2>1. CASE t.kind = "VIEW"
    <3>1. t.pk = <<>>
      BY <2>1, RelationFacts
    <3>2. t.pk # <<"K">>
      BY <3>1, KeyShapes
    <3>3. range = [found |-> FALSE, lo |-> 0, hi |-> 0]
      BY <3>2, ProbedRange, Zenon
    <3> QED BY <2>1, <3>3 DEF Report!NoRange
  <2>2. CASE t.kind # "VIEW"
    BY <2>2
  <2> QED BY <2>1, <2>2
<1>5. profile = record(range)
  BY <1>1, <1>3, <1>4
<1> HIDE DEF profile, range, indexes, pk, key, filters, watermarks, used, counted, alerts
<1>6. /\ profile.recommended_partitions = Report!Advice(range)
      /\ profile.full_scan_risk = Report!FullScanRisk(range)
      /\ profile.estimated_rows = IF counted THEN t.rows
                                  ELSE IF range.found THEN Report!P!Wrap64(range.hi - range.lo + 1) ELSE -1
      /\ profile.filter_candidates = filters
      /\ profile.alerts = alerts(range)
  BY <1>5
<1>7. filters \subseteq indexed
  BY DEF filters
<1>8. profile.estimated_rows \in
        {t.rows, IF range.found THEN Report!P!Wrap64(range.hi - range.lo + 1) ELSE -1}
  BY <1>6, Zenon
<1>9. \E f, w, c : profile.alerts =
        (IF t.kind = "VIEW" THEN Report!ViewAlerts(t, failing) ELSE Report!KeyAlerts(t, range, pk # {}, key))
        \cup Report!GeneralAlerts(t, Report!FullScanRisk(range), f, w, c)
  BY <1>6, Zenon DEF alerts
<1> QED BY <1>2, <1>6, <1>7, <1>8, <1>9, Zenon DEF profile, range, indexes, pk, key

\* What is advised is what the scan does.
LEMMA AdviceAlwaysIsTheScan ==
  ASSUME NEW t, Reportable(t), NEW failing, NEW exact
  PROVE  AdviceIsTheScan(t, Report!BuildProfile(t, failing, exact), Report!ExplainRow(t, failing), failing)
<1> DEFINE profile == Report!BuildProfile(t, failing, exact)
           row == Report!ExplainRow(t, failing)
           scan == Report!ScanPartitions(t, failing)
           range == Report!ProbePrimaryKey(t, failing)
<1>1. t.lo \in Int64 /\ t.hi \in Int64 /\ t.rows \in Nat
  BY RelationFacts
<1>2. range.found =>
        /\ range.lo = t.lo /\ range.hi = t.hi /\ t.lo < t.hi /\ t.rows <= t.hi - t.lo + 1
        /\ t.pk = <<"K">> /\ t.type["K"] = "INTEGER"
  <2> HAVE range.found
  <2>1. /\ range = [found |-> TRUE, lo |-> t.lo, hi |-> t.hi]
        /\ t.pk = <<"K">> /\ t.type["K"] = "INTEGER" /\ t.lo < t.hi
    BY ProbedRange
  <2>2. t.rows <= t.hi - t.lo + 1
    BY <2>1, RelationFacts, Zenon
  <2> QED BY <2>1, <2>2
<1>3. Report!Advice(range) = scan /\ scan \in Nat \ {0} /\ (~range.found => scan = 1)
  BY AdviceIsTheCount
<1>4. ASSUME profile # Report!Thrown
      PROVE  /\ profile.recommended_partitions = scan
             /\ profile.estimated_rows >= 0 => profile.estimated_rows >= t.rows \/ t.hi - t.lo = 2 * IntMax + 1
             /\ profile.full_scan_risk = "HIGH" => scan = 1
  <2>1. /\ profile.recommended_partitions = Report!Advice(range)
        /\ profile.full_scan_risk = Report!FullScanRisk(range)
        /\ profile.estimated_rows \in
             {t.rows, IF range.found THEN Report!P!Wrap64(range.hi - range.lo + 1) ELSE -1}
    BY <1>4, ProfileParts, Zenon
  <2>2. profile.full_scan_risk = "HIGH" => ~range.found
    BY <2>1 DEF Report!FullScanRisk
  <2>3. profile.estimated_rows >= 0 => profile.estimated_rows >= t.rows \/ t.hi - t.lo = 2 * IntMax + 1
    <3>1. CASE range.found
      <4>1. /\ Report!P!Wrap64(t.hi - t.lo + 1) \in Int
            /\ Report!P!Wrap64(t.hi - t.lo + 1) >= 0
                 => Report!P!Wrap64(t.hi - t.lo + 1) = t.hi - t.lo + 1 \/ t.hi - t.lo = 2 * IntMax + 1
        BY <1>1, <1>2, <3>1, WrappedWidth
      <4>2. profile.estimated_rows \in {t.rows, Report!P!Wrap64(t.hi - t.lo + 1)}
        BY <1>2, <2>1, <3>1
      <4>3. t.rows <= t.hi - t.lo + 1 /\ t.lo \in Int /\ t.hi \in Int
        BY <1>1, <1>2, <3>1, BoundsAssumption DEF Int64, IntMin
      <4> QED BY <1>1, <4>1, <4>2, <4>3
    <3>2. CASE ~range.found
      BY <1>1, <2>1, <3>2
    <3> QED BY <3>1, <3>2
  <2> QED BY <1>3, <2>1, <2>2, <2>3
<1>5. ASSUME row # Report!Thrown
      PROVE  /\ row.planned_partitions # Report!NotPlanned => row.planned_partitions = scan
             /\ row.planned_partitions # Report!NotPlanned /\ "constraints" \notin failing
                  => row.pk_range_eligible
  <2> DEFINE d == Report!Descriptor(t, failing)
  <2>1. /\ row.planned_partitions = IF range.found THEN Report!Advice(range) ELSE Report!NotPlanned
        /\ row.pk_range_eligible = Report!ClassifyPkRange(d).eligible
    BY <1>5 DEF Report!ExplainRow
  <2>2. ASSUME range.found, "constraints" \notin failing PROVE row.pk_range_eligible
    <3>1. t.pk = <<"K">> /\ t.type["K"] = "INTEGER"
      BY <1>2, <2>2
    <3>2. t.pk # <<>> /\ Len(t.pk) = 1 /\ t.pk[1] = "K"
      BY <3>1, KeyShapes
    <3>3. d.has_pk /\ d.columns = t.pk /\ d.single_numeric
      BY <2>2, <3>1, <3>2 DEF Report!Descriptor
    <3> HIDE DEF d
    <3>4. ~(Len(d.columns) > 1)
      <4>1. Len(d.columns) = 1
        BY <3>2, <3>3, Zenon
      <4> QED BY <4>1
    <3>5. Report!ClassifyPkRange(d).eligible
      BY <3>3, <3>4 DEF Report!ClassifyPkRange
    <3> QED BY <2>1, <3>5
  <2> QED BY <1>3, <2>1, <2>2
<1> QED BY <1>4, <1>5 DEF AdviceIsTheScan

\* The indexes of a relation, the one of its key among them.
LEMMA IndexParts ==
  ASSUME NEW t
  PROVE  /\ t.pk # <<>> => [name |-> "PK", columns |-> t.pk, active |-> TRUE] \in Report!Indexes(t)
         /\ \A ix \in Report!Indexes(t) :
              /\ ix.name = "PK" => t.pk # <<>> /\ ix = [name |-> "PK", columns |-> t.pk, active |-> TRUE]
              /\ ix = [name |-> ix.name, columns |-> ix.columns, active |-> ix.active]
<1> DEFINE key == IF t.pk = <<>> THEN {} ELSE {Report!Index("PK", t.pk, TRUE)}
           other == CASE t.index = "column"     -> {Report!Index("IX", <<"C">>, TRUE)}
                      [] t.index = "inactive"   -> {Report!Index("IX", <<"C">>, FALSE)}
                      [] t.index = "expression" -> {Report!Index("IX", <<>>, TRUE)}
                      [] OTHER -> {}
<1>1. Report!Indexes(t) = key \cup other
  BY DEF Report!Indexes
<1>2. \A columns, active : Report!Index("IX", columns, active) = [name |-> "IX", columns |-> columns, active |-> active]
  BY DEF Report!Index
<1>3. Report!Index("PK", t.pk, TRUE) = [name |-> "PK", columns |-> t.pk, active |-> TRUE]
  BY DEF Report!Index
<1>4. \A ix \in other : \E columns, active : ix = Report!Index("IX", columns, active)
  OBVIOUS
<1>5. \A ix \in other : ix.name = "IX" /\ ix = [name |-> ix.name, columns |-> ix.columns, active |-> ix.active]
  <2> TAKE ix \in other
  <2> HIDE DEF other
  <2>3. PICK columns, active : ix = Report!Index("IX", columns, active)
    BY <1>4, Zenon
  <2>1. ix = [name |-> "IX", columns |-> columns, active |-> active]
    BY <1>2, <2>3, Zenon
  <2>2. ix.name = "IX" /\ ix.columns = columns /\ ix.active = active
    BY <2>1
  <2> QED BY <2>1, <2>2
<1>6. \A ix \in key : t.pk # <<>> /\ ix = [name |-> "PK", columns |-> t.pk, active |-> TRUE]
  BY <1>3
<1>7. t.pk # <<>> => [name |-> "PK", columns |-> t.pk, active |-> TRUE] \in key
  BY <1>3
<1> HIDE DEF key, other
<1>8. \A ix \in key : ix.name = "PK" /\ ix = [name |-> ix.name, columns |-> ix.columns, active |-> ix.active]
  <2> TAKE ix \in key
  <2>1. ix = [name |-> "PK", columns |-> t.pk, active |-> TRUE]
    BY <1>6
  <2>2. ix.name = "PK" /\ ix.columns = t.pk /\ ix.active = TRUE
    BY <2>1
  <2> QED BY <2>1, <2>2
<1>9. \A ix \in Report!Indexes(t) :
        /\ ix.name = "PK" => t.pk # <<>> /\ ix = [name |-> "PK", columns |-> t.pk, active |-> TRUE]
        /\ ix = [name |-> ix.name, columns |-> ix.columns, active |-> ix.active]
  <2> TAKE ix \in Report!Indexes(t)
  <2>1. CASE ix \in key
    BY <1>6, <1>8, <2>1, Zenon
  <2>2. CASE ix \in other
    BY <1>5, <2>2
  <2> QED BY <1>1, <2>1, <2>2
<1> QED BY <1>1, <1>7, <1>9

\* What the profile knows of the key.
LEMMA KeyOfProfile ==
  ASSUME NEW t, Reportable(t), t.kind # "VIEW", NEW failing
  PROVE  LET pk == {ix \in Report!LoadIndexes(t, failing) : ix.name = "PK"}
             key == IF pk = {} THEN <<>> ELSE (CHOOSE ix \in pk : TRUE).columns
         IN /\ pk = {} <=> t.pk = <<>> \/ "indexes" \in failing
            /\ key = IF pk = {} \/ "PK" \in failing THEN <<>> ELSE t.pk
<1> DEFINE read(ix) == [ix EXCEPT !.columns = IF ix.name \in failing THEN <<>> ELSE ix.columns]
           indexes == Report!LoadIndexes(t, failing)
           pk == {ix \in indexes : ix.name = "PK"}
           columns == IF "PK" \in failing THEN <<>> ELSE t.pk
           unread == [name |-> "PK", columns |-> t.pk, active |-> TRUE]
<1>1. indexes = IF "indexes" \in failing THEN {} ELSE {read(ix) : ix \in Report!Indexes(t)}
  BY DEF Report!LoadIndexes
<1>2. \A ix \in Report!Indexes(t) :
        read(ix) = [name |-> ix.name, columns |-> IF ix.name \in failing THEN <<>> ELSE ix.columns, active |-> ix.active]
  <2> TAKE ix \in Report!Indexes(t)
  <2> DEFINE n == ix.name
             c == ix.columns
             a == ix.active
             new == IF n \in failing THEN <<>> ELSE c
  <2>1. ix = [name |-> n, columns |-> c, active |-> a]
    BY IndexParts, Zenon
  <2> HIDE DEF n, c, a, new
  <2>2. [ix EXCEPT !.columns = new] = [name |-> n, columns |-> new, active |-> a]
    BY <2>1
  <2> QED BY <2>2, Zenon DEF n, c, a, new
<1> HIDE DEF read, indexes
<1>3. \A ix \in pk : t.pk # <<>> /\ "indexes" \notin failing /\ ix.columns = columns
  <2> TAKE ix \in pk
  <2>1. ix \in indexes /\ ix.name = "PK"
    OBVIOUS
  <2>2. "indexes" \notin failing
    BY <1>1, <2>1
  <2>3. PICK was \in Report!Indexes(t) : ix = read(was)
    BY <1>1, <2>1
  <2>4. /\ ix.name = was.name
        /\ ix.columns = IF was.name \in failing THEN <<>> ELSE was.columns
    BY <1>2, <2>3
  <2>5. t.pk # <<>> /\ was = unread
    BY <2>1, <2>4, IndexParts, Zenon
  <2>6. was.name = "PK" /\ was.columns = t.pk
    BY <2>5
  <2> QED BY <2>2, <2>4, <2>5, <2>6
<1>4. ASSUME t.pk # <<>>, "indexes" \notin failing PROVE pk # {}
  <2>1. unread \in Report!Indexes(t)
    BY <1>4, IndexParts, Zenon
  <2>2. read(unread) \in indexes
    BY <1>1, <1>4, <2>1
  <2>3. read(unread).name = unread.name
    BY <1>2, <2>1
  <2>4. unread.name = "PK"
    OBVIOUS
  <2> QED BY <2>2, <2>3, <2>4
<1> HIDE DEF pk, columns
<1>5. pk = {} <=> t.pk = <<>> \/ "indexes" \in failing
  BY <1>3, <1>4
<1>6. pk # {} => (CHOOSE ix \in pk : TRUE) \in pk
  OBVIOUS
<1>7. pk # {} => (CHOOSE ix \in pk : TRUE).columns = columns
  BY <1>3, <1>6, Zenon
<1>8. (IF pk = {} THEN <<>> ELSE (CHOOSE ix \in pk : TRUE).columns)
        = IF pk = {} \/ "PK" \in failing THEN <<>> ELSE t.pk
  <2>1. CASE pk = {}
    BY <2>1
  <2>2. CASE pk # {}
    BY <1>7, <2>2, Zenon DEF columns
  <2> QED BY <2>1, <2>2
<1> QED BY <1>5, <1>8, Zenon DEF pk, indexes

\* The alerts on a key that the profile has read, for each kind of key.
KeyAlertsAre(alerts, t, range, has, columns) ==
  LET serial == ~range.found /\ has IN
  /\ range.found /\ Report!Advice(range) > 1 => alerts = {"partition_advisory", "server_parallelism_caveat"}
  /\ range.found /\ Report!Advice(range) = 1 => alerts = {"pk_range_small_serial"}
  /\ ~range.found /\ ~has => alerts = {"no_primary_key"}
  /\ serial /\ columns = <<"K", "C">> => alerts = {"composite_pk_serial"}
  /\ serial /\ columns = <<>> => alerts = {"undefined"}
  /\ serial /\ columns = <<"K">> /\ t.type["K"] = "INTEGER" => alerts = {"numeric_pk_no_range_serial"}
  /\ serial /\ columns = <<"K">> /\ t.type["K"] # "INTEGER" => alerts = {"non_numeric_pk_serial"}

LEMMA OneKeyAlert ==
  ASSUME NEW t, NEW range, range.found \in BOOLEAN, Report!Advice(range) \in Nat \ {0},
         NEW has \in BOOLEAN, NEW columns \in {<<>>, <<"K">>, <<"K", "C">>}, has \/ columns = <<>>
  PROVE  KeyAlertsAre(Report!KeyAlerts(t, range, has, columns), t, range, has, columns)
<1> DEFINE alerts == Report!KeyAlerts(t, range, has, columns)
           none == <<>>
           one == <<"K">>
           two == <<"K", "C">>
           found == range.found
           parts == Report!Advice(range)
           first == columns[1]
           many == Len(columns) > 1
           empty == columns = <<>>
<1>1. alerts =
        CASE found /\ parts > 1 -> {"partition_advisory", "server_parallelism_caveat"}
          [] found /\ parts = 1 -> {"pk_range_small_serial"}
          [] ~found /\ ~has -> {"no_primary_key"}
          [] ~found /\ many -> {"composite_pk_serial"}
          [] ~found /\ has /\ empty -> {"undefined"}
          [] OTHER -> IF t.type[first] = "INTEGER" THEN {"numeric_pk_no_range_serial"}
                      ELSE {"non_numeric_pk_serial"}
  BY DEF Report!KeyAlerts
<1>2. /\ empty <=> columns = none
      /\ many <=> columns = two
      /\ columns = one => first = "K"
      /\ columns = none \/ columns = one \/ columns = two
      /\ has \/ columns = none
  <2>1. columns \in {<<>>, <<"K">>, <<"K", "C">>}
    OBVIOUS
  <2>2. (many <=> columns = two) /\ (columns = one => first = "K")
    BY <2>1, KeyShapes
  <2> QED BY <2>1, <2>2, Zenon
<1>3. none # one /\ none # two /\ one # two
  BY KeysDiffer, Zenon
<1>4. found \in BOOLEAN /\ parts \in Nat \ {0}
  OBVIOUS
<1> HIDE DEF alerts, none, one, two, found, parts, first, many, empty
<1>5. CASE found
  <2>1. parts > 1 => alerts = {"partition_advisory", "server_parallelism_caveat"}
    BY <1>1, <1>4, <1>5
  <2>2. parts = 1 => alerts = {"pk_range_small_serial"}
    BY <1>1, <1>4, <1>5
  <2> QED BY <1>5, <2>1, <2>2 DEF alerts, found, parts, KeyAlertsAre
<1>6. CASE ~found
  <2>1. ~has => alerts = {"no_primary_key"}
    BY <1>1, <1>2, <1>3, <1>6
  <2>2. has /\ columns = two => alerts = {"composite_pk_serial"}
    BY <1>1, <1>2, <1>3, <1>6
  <2>3. has /\ columns = none => alerts = {"undefined"}
    BY <1>1, <1>2, <1>3, <1>6
  <2>4. has /\ columns = one => ~many /\ ~empty /\ first = "K"
    BY <1>2, <1>3
  <2>5. has /\ columns = one /\ t.type["K"] = "INTEGER" => alerts = {"numeric_pk_no_range_serial"}
    BY <1>1, <1>6, <2>4
  <2>6. has /\ columns = one /\ t.type["K"] # "INTEGER" => alerts = {"non_numeric_pk_serial"}
    BY <1>1, <1>6, <2>4
  <2> QED BY <1>6, <2>1, <2>2, <2>3, <2>5, <2>6, Zenon DEF alerts, none, one, two, found, KeyAlertsAre
<1> QED BY <1>5, <1>6

\* Alerts that any profile may have, and those about the SELECT of a view.
Common == {"filter_before_scan", "materialize_before_scan", "exact_count_executed",
           "no_indexed_filter_columns", "none_charset_text_columns"}
AboutViews == {"view_contains_join", "view_contains_aggregation", "view_no_filter", "view_definition_not_inspected"}
Heavy == {"view_contains_join", "view_contains_aggregation", "view_definition_not_inspected"}

LEMMA CommonAlerts ==
  ASSUME NEW t, NEW risk, NEW filters, NEW watermarks, NEW counted
  PROVE  LET alerts == Report!GeneralAlerts(t, risk, filters, watermarks, counted) IN
         /\ alerts \subseteq Common
         /\ ~({"filter_before_scan", "materialize_before_scan"} \subseteq alerts)
BY DEF Report!GeneralAlerts, Common

LEMMA ViewsAlerts ==
  ASSUME NEW t, Reportable(t), t.kind = "VIEW", NEW failing
  PROVE  LET alerts == Report!ViewAlerts(t, failing) IN
         /\ "view_no_scan_lever" \in alerts /\ alerts \subseteq AboutViews \cup {"view_no_scan_lever"}
         /\ Report!ViewHeavy(t, failing) = "heavy" <=> alerts \cap Heavy # {}
<1> DEFINE alerts == Report!ViewAlerts(t, failing)
           of(a) == CASE a = "view_contains_join" -> t.view.has_join
                      [] a = "view_contains_aggregation" -> t.view.has_group_by \/ t.view.has_aggregate
                      [] OTHER -> ~t.view.has_where
<1>1. alerts = {"view_no_scan_lever"} \cup
        (IF "source" \in failing THEN {"view_definition_not_inspected"}
         ELSE {a \in {"view_contains_join", "view_contains_aggregation", "view_no_filter"} : of(a)})
  BY DEF Report!ViewAlerts
<1>2. t.view.has_join \in BOOLEAN /\ t.view.has_group_by \in BOOLEAN /\ t.view.has_aggregate \in BOOLEAN
  BY RelationFacts
<1>3. /\ of("view_contains_join") <=> t.view.has_join
      /\ of("view_contains_aggregation") <=> t.view.has_group_by \/ t.view.has_aggregate
  BY <1>2
<1>4. Report!ViewHeavy(t, failing) = "heavy" <=>
        "source" \in failing \/ t.view.has_join \/ t.view.has_group_by \/ t.view.has_aggregate
  BY <1>2 DEF Report!ViewHeavy
<1> HIDE DEF alerts, of
<1>5. "view_no_scan_lever" \in alerts /\ alerts \subseteq AboutViews \cup {"view_no_scan_lever"}
  BY <1>1 DEF AboutViews
<1>6. CASE "source" \in failing
  BY <1>1, <1>4, <1>5, <1>6 DEF Heavy, alerts
<1>7. CASE "source" \notin failing
  <2>1. "view_contains_join" \in alerts <=> of("view_contains_join")
    BY <1>1, <1>7
  <2>2. "view_contains_aggregation" \in alerts <=> of("view_contains_aggregation")
    BY <1>1, <1>7
  <2>3. "view_definition_not_inspected" \notin alerts
    BY <1>1, <1>7
  <2>4. alerts \cap Heavy # {} <=> "view_contains_join" \in alerts \/ "view_contains_aggregation" \in alerts
    BY <2>3 DEF Heavy
  <2> QED BY <1>3, <1>4, <1>5, <1>7, <2>1, <2>2, <2>4 DEF alerts
<1> QED BY <1>6, <1>7

\* A column the profile finds indexed is in an index.
LEMMA IndexedIsIndexed ==
  ASSUME NEW t, NEW failing, NEW ix \in Report!LoadIndexes(t, failing), NEW c \in Range(ix.columns)
  PROVE  \E was \in Report!Indexes(t) : c \in Range(was.columns)
<1> DEFINE read(was) == [was EXCEPT !.columns = IF was.name \in failing THEN <<>> ELSE was.columns]
<1>1. ix \in {read(was) : was \in Report!Indexes(t)}
  BY DEF Report!LoadIndexes
<1>2. PICK was \in Report!Indexes(t) : ix = read(was)
  BY <1>1
<1>3. was = [name |-> was.name, columns |-> was.columns, active |-> was.active]
  BY IndexParts, Zenon
<1>4. \A r, n, s, a, new : r = [name |-> n, columns |-> s, active |-> a] => [r EXCEPT !.columns = new].columns = new
  OBVIOUS
<1>5. ix.columns = IF was.name \in failing THEN <<>> ELSE was.columns
  BY <1>2, <1>3, <1>4, Zenon
<1>6. Range(<<>>) = {}
  BY DEF Range
<1>7. ix.columns # <<>>
  BY <1>6, Zenon
<1>8. ix.columns = was.columns
  BY <1>5, <1>7, Zenon
<1> QED BY <1>8, Zenon

\* The parts of an index profile that is not thrown.
LEMMA IndexProfileParts ==
  ASSUME NEW t, NEW failing, Report!BuildIndexProfile(t, failing) # Report!Thrown
  PROVE  LET indexes == Report!BuildIndexProfile(t, failing) IN
         /\ "no_indexes_on_table" \in indexes.alerts <=> Report!Indexes(t) = {}
         /\ \A c \in indexes.unindexed_filter_candidates :
              \A row \in Report!Indexes(t) : c \notin Range(row.columns)
<1> DEFINE loaded == Report!LoadIndexRows(t, failing)
           record == [alerts |-> IF loaded.rows = {} THEN {"no_indexes_on_table"}
                                 ELSE {"index_inactive" : ix \in {row \in loaded.rows : ~row.active}},
                      unindexed_filter_candidates |->
                        {c \in Report!Column : /\ Report!IsCheapFilterType(t.type[c])
                                               /\ \A row \in loaded.rows : c \notin Range(row.columns)}]
<1>1. loaded # Report!Thrown /\ Report!BuildIndexProfile(t, failing) = record
  BY DEF Report!BuildIndexProfile, Report!Range, Range
<1>2. loaded = [rows |-> Report!Indexes(t)]
  BY <1>1 DEF Report!LoadIndexRows
<1>3. loaded.rows = Report!Indexes(t)
  BY <1>2
<1> HIDE DEF loaded
<1>4. /\ record.alerts = IF Report!Indexes(t) = {} THEN {"no_indexes_on_table"}
                         ELSE {"index_inactive" : ix \in {row \in Report!Indexes(t) : ~row.active}}
      /\ \A c \in record.unindexed_filter_candidates :
           \A row \in Report!Indexes(t) : c \notin Range(row.columns)
  BY <1>3
<1>5. "no_indexes_on_table" \in record.alerts <=> Report!Indexes(t) = {}
  BY <1>4
<1> QED BY <1>1, <1>4, <1>5, Zenon

\* The lever that a probed range and a known key make, in the order in which
\* Lever asks for them.
LEMMA LeverCases ==
  ASSUME NEW t, Reportable(t)
  PROVE  /\ t.pk = <<>> => Lever(t) = "no_primary_key"
         /\ t.pk = <<"K", "C">> => Lever(t) = "composite_pk_serial"
         /\ t.pk = <<"K">> /\ t.type["K"] # "INTEGER" => Lever(t) = "non_numeric_pk_serial"
         /\ t.pk = <<"K">> /\ t.type["K"] = "INTEGER" =>
              /\ t.rows < 2 => Lever(t) = "numeric_pk_no_range_serial"
              /\ t.rows >= 2 => Lever(t) = IF Report!ScanPartitions(t, {}) = 1 THEN "pk_range_small_serial"
                                          ELSE "partition_advisory"
<1> DEFINE none == <<>>
           one == <<"K">>
           two == <<"K", "C">>
           keyless == t.pk = none
           many == Len(t.pk) > 1
           few == t.rows < 2
           numeric == t.type["K"] = "INTEGER"
           scan == Report!ScanPartitions(t, {})
<1>1. Lever(t) =
        IF keyless THEN "no_primary_key" ELSE IF many THEN "composite_pk_serial"
        ELSE IF ~numeric THEN "non_numeric_pk_serial" ELSE IF few THEN "numeric_pk_no_range_serial"
        ELSE IF scan = 1 THEN "pk_range_small_serial" ELSE "partition_advisory"
  BY DEF Lever
<1>2. many <=> t.pk = two
  BY RelationFacts, KeyShapes
<1>3. none # one /\ none # two /\ one # two
  BY KeysDiffer, Zenon
<1>4. t.rows >= 2 <=> ~few
  BY RelationFacts
<1> HIDE DEF none, one, two, many, few, scan
<1>5. /\ t.pk = none => Lever(t) = "no_primary_key"
      /\ t.pk = two => Lever(t) = "composite_pk_serial"
      /\ t.pk = one /\ ~numeric => Lever(t) = "non_numeric_pk_serial"
      /\ t.pk = one /\ numeric =>
           /\ few => Lever(t) = "numeric_pk_no_range_serial"
           /\ ~few => Lever(t) = IF scan = 1 THEN "pk_range_small_serial" ELSE "partition_advisory"
  BY <1>1, <1>2, <1>3
<1> QED BY <1>4, <1>5, Zenon DEF none, one, two, few, scan

Levered(special, t, failing) ==
  \E lever \in Levers :
    /\ special = {lever} \/ (lever = "partition_advisory" /\ special = {lever, "server_parallelism_caveat"})
    /\ failing \cap {"indexes", "PK", "probe"} = {} => lever = Lever(t)
    /\ lever = "undefined" => "PK" \in failing

\* One lever is named; it is the one of the table if its key has been read, and
\* none that exists if the columns of the key have not.
LEMMA OneLever ==
  ASSUME NEW t, Reportable(t), NEW failing, NEW has \in BOOLEAN, NEW key,
         ~has <=> t.pk = <<>> \/ "indexes" \in failing,
         key = IF ~has \/ "PK" \in failing THEN <<>> ELSE t.pk
  PROVE  Levered(Report!KeyAlerts(t, Report!ProbePrimaryKey(t, failing), has, key), t, failing)
<1> DEFINE range == Report!ProbePrimaryKey(t, failing)
           special == Report!KeyAlerts(t, range, has, key)
           parts == Report!Advice(range)
           known == failing \cap {"indexes", "PK", "probe"} = {}
           Named(lever) ==
             /\ lever \in Levers
             /\ special = {lever} \/ (lever = "partition_advisory" /\ special = {lever, "server_parallelism_caveat"})
             /\ known => lever = Lever(t)
             /\ lever = "undefined" => "PK" \in failing
<1>1. known => "indexes" \notin failing /\ "PK" \notin failing /\ "probe" \notin failing
  OBVIOUS
<1>2. key \in {<<>>, <<"K">>, <<"K", "C">>} /\ (has \/ key = <<>>)
  BY RelationFacts, Zenon
<1>3. parts \in Nat \ {0} /\ parts = Report!ScanPartitions(t, failing)
  BY AdviceIsTheCount
<1>4. range.found \in BOOLEAN
  BY DEF Report!ProbePrimaryKey, Report!NoRange
<1>5. /\ range.found /\ parts > 1 => special = {"partition_advisory", "server_parallelism_caveat"}
      /\ range.found /\ parts = 1 => special = {"pk_range_small_serial"}
      /\ ~range.found /\ ~has => special = {"no_primary_key"}
      /\ ~range.found /\ has /\ key = <<"K", "C">> => special = {"composite_pk_serial"}
      /\ ~range.found /\ has /\ key = <<>> => special = {"undefined"}
      /\ ~range.found /\ has /\ key = <<"K">> /\ t.type["K"] = "INTEGER" => special = {"numeric_pk_no_range_serial"}
      /\ ~range.found /\ has /\ key = <<"K">> /\ t.type["K"] # "INTEGER" => special = {"non_numeric_pk_serial"}
  <2>1. KeyAlertsAre(special, t, range, has, key)
    <3> HIDE DEF range
    <3> QED BY <1>2, <1>3, <1>4, OneKeyAlert
  <2> QED BY <2>1, Zenon DEF KeyAlertsAre
<1>6. CASE range.found
  <2>1. t.pk = <<"K">> /\ t.type["K"] = "INTEGER" /\ t.rows >= 2 /\ "probe" \notin failing
    <3>1. t.pk = <<"K">> /\ t.type["K"] = "INTEGER" /\ t.rows >= 2
      BY <1>6, ProbedRange
    <3>2. "probe" \notin failing
      BY <1>6 DEF Report!ProbePrimaryKey, Report!NoRange
    <3> QED BY <3>1, <3>2
  <2>2. Report!ScanPartitions(t, {}) = parts
    <3>1. range = Report!ProbePrimaryKey(t, {})
      BY <2>1 DEF Report!ProbePrimaryKey
    <3>2. Report!ScanPartitions(t, {}) = Report!ScanPartitions(t, failing)
      BY <3>1, Zenon DEF Report!ScanPartitions
    <3> QED BY <1>3, <3>2
  <2>3. Lever(t) = IF parts = 1 THEN "pk_range_small_serial" ELSE "partition_advisory"
    BY <2>1, <2>2, LeverCases, Zenon
  <2> HIDE DEF range, special, parts
  <2>4. CASE parts = 1
    <3>1. Named("pk_range_small_serial")
      BY <1>5, <1>6, <2>3, <2>4 DEF Levers
    <3> QED BY <3>1, Zenon DEF special, range, Levered
  <2>5. CASE parts # 1
    <3>1. Named("partition_advisory")
      BY <1>3, <1>5, <1>6, <2>3, <2>5 DEF Levers
    <3> QED BY <3>1, Zenon DEF special, range, Levered
  <2> QED BY <2>4, <2>5
<1>7. CASE ~range.found /\ ~has
  <2>1. known => Lever(t) = "no_primary_key"
    BY <1>1, <1>7, LeverCases, Zenon
  <2> HIDE DEF range, special
  <2>2. Named("no_primary_key")
    BY <1>5, <1>7, <2>1 DEF Levers
  <2> QED BY <2>2, Zenon DEF special, range, Levered
<1>8. CASE ~range.found /\ has
  <2>1. known => key = t.pk
    BY <1>1, <1>8, Zenon
  <2> HIDE DEF known
  <2>2. CASE key = <<>>
    <3>1. "PK" \in failing
      BY <1>8, <2>2, Zenon
    <3>2. ~known
      BY <1>1, <3>1
    <3> HIDE DEF range, special
    <3>3. Named("undefined")
      BY <1>5, <1>8, <2>2, <3>1, <3>2 DEF Levers
    <3> QED BY <3>3, Zenon DEF special, range, known, Levered
  <2>3. CASE key = <<"K", "C">>
    <3>1. known => Lever(t) = "composite_pk_serial"
      BY <2>1, <2>3, LeverCases, Zenon
    <3> HIDE DEF range, special
    <3>2. special = {"composite_pk_serial"}
      BY <1>5, <1>8, <2>3, Zenon
    <3>3. Named("composite_pk_serial")
      BY <3>1, <3>2 DEF Levers
    <3> QED BY <3>3, Zenon DEF special, range, known, Levered
  <2>4. CASE key = <<"K">> /\ t.type["K"] # "INTEGER"
    <3>1. known => Lever(t) = "non_numeric_pk_serial"
      BY <2>1, <2>4, LeverCases, Zenon
    <3> HIDE DEF range, special
    <3>2. special = {"non_numeric_pk_serial"}
      BY <1>5, <1>8, <2>4, Zenon
    <3>3. Named("non_numeric_pk_serial")
      BY <3>1, <3>2 DEF Levers
    <3> QED BY <3>3, Zenon DEF special, range, known, Levered
  <2>5. CASE key = <<"K">> /\ t.type["K"] = "INTEGER"
    <3>1. known => t.rows < 2
      <4>1. \/ range = [found |-> TRUE, lo |-> t.lo, hi |-> t.hi]
            \/ "probe" \in failing \/ t.pk # <<"K">> \/ t.type["K"] # "INTEGER" \/ t.rows < 2
        BY ProbedRange, Zenon
      <4>2. range # [found |-> TRUE, lo |-> t.lo, hi |-> t.hi]
        BY <1>8
      <4> QED BY <1>1, <2>1, <2>5, <4>1, <4>2, Zenon
    <3>2. known => Lever(t) = "numeric_pk_no_range_serial"
      BY <2>1, <2>5, <3>1, LeverCases, Zenon
    <3> HIDE DEF range, special
    <3>3. special = {"numeric_pk_no_range_serial"}
      BY <1>5, <1>8, <2>5, Zenon
    <3>4. Named("numeric_pk_no_range_serial")
      BY <3>2, <3>3 DEF Levers
    <3> QED BY <3>4, Zenon DEF special, range, known, Levered
  <2> QED BY <1>2, <2>2, <2>3, <2>4, <2>5, Zenon
<1> QED BY <1>4, <1>6, <1>7, <1>8

\* The alerts of a profile are about the relation.
LEMMA ProfileAlertsTrue ==
  ASSUME NEW t, Reportable(t), NEW failing, NEW exact,
         Report!BuildProfile(t, failing, exact) # Report!Thrown
  PROVE  LET profile == Report!BuildProfile(t, failing, exact) IN
         /\ \E lever \in Levers : profile.alerts \cap Levers = {lever}
         /\ failing \cap {"indexes", "PK", "probe"} = {} /\ t.kind = "TABLE" => Lever(t) \in profile.alerts
         /\ "undefined" \in profile.alerts => "PK" \in failing
         /\ t.kind = "TABLE" => ~({"filter_before_scan", "materialize_before_scan"} \subseteq profile.alerts)
         /\ Report!ViewHeavy(t, failing) = "heavy" <=> profile.alerts \cap Heavy # {}
<1> DEFINE profile == Report!BuildProfile(t, failing, exact)
           range == Report!ProbePrimaryKey(t, failing)
           pk == {ix \in Report!LoadIndexes(t, failing) : ix.name = "PK"}
           key == IF pk = {} THEN <<>> ELSE (CHOOSE ix \in pk : TRUE).columns
           special == IF t.kind = "VIEW" THEN Report!ViewAlerts(t, failing)
                      ELSE Report!KeyAlerts(t, range, pk # {}, key)
<1>1. PICK filters, watermarks, counted :
        profile.alerts = special \cup
          Report!GeneralAlerts(t, Report!FullScanRisk(range), filters, watermarks, counted)
  BY ProfileParts, Zenon
<1> DEFINE general == Report!GeneralAlerts(t, Report!FullScanRisk(range), filters, watermarks, counted)
<1>2. general \subseteq Common /\ ~({"filter_before_scan", "materialize_before_scan"} \subseteq general)
  BY CommonAlerts
<1>3. profile.alerts = special \cup general
  BY <1>1
<1>4. t.kind \in {"TABLE", "VIEW"}
  BY ProfileParts, Zenon
<1>5. CASE t.kind = "VIEW"
  <2>1. /\ "view_no_scan_lever" \in special /\ special \subseteq AboutViews \cup {"view_no_scan_lever"}
        /\ Report!ViewHeavy(t, failing) = "heavy" <=> special \cap Heavy # {}
    BY <1>5, ViewsAlerts
  <2> HIDE DEF profile, special, general
  <2>2. profile.alerts \cap Levers = {"view_no_scan_lever"}
    BY <1>2, <1>3, <2>1 DEF Common, AboutViews, Levers
  <2>3. "undefined" \notin profile.alerts
    BY <1>2, <1>3, <2>1 DEF Common, AboutViews
  <2>4. profile.alerts \cap Heavy = special \cap Heavy
    BY <1>2, <1>3 DEF Common, Heavy
  <2>5. "view_no_scan_lever" \in Levers
    BY DEF Levers
  <2> QED BY <1>5, <2>1, <2>2, <2>3, <2>4, <2>5 DEF profile
<1>6. CASE t.kind = "TABLE"
  <2>1. special = Report!KeyAlerts(t, range, pk # {}, key)
    BY <1>6
  <2>2. /\ pk = {} <=> t.pk = <<>> \/ "indexes" \in failing
        /\ key = IF pk = {} \/ "PK" \in failing THEN <<>> ELSE t.pk
    BY <1>6, KeyOfProfile, Zenon
  <2> DEFINE known == failing \cap {"indexes", "PK", "probe"} = {}
             has == pk # {}
  <2>0. /\ has \in BOOLEAN /\ (~has <=> t.pk = <<>> \/ "indexes" \in failing)
        /\ key = IF ~has \/ "PK" \in failing THEN <<>> ELSE t.pk
        /\ special = Report!KeyAlerts(t, range, has, key)
    BY <2>1, <2>2, Zenon
  <2> HIDE DEF has, key, special
  <2>3. Levered(special, t, failing)
    BY <2>0, OneLever, Zenon
  <2>4. PICK lever \in Levers :
          /\ special = {lever} \/ (lever = "partition_advisory" /\ special = {lever, "server_parallelism_caveat"})
          /\ known => lever = Lever(t)
          /\ lever = "undefined" => "PK" \in failing
    BY <2>3, Zenon DEF Levered
  <2> HIDE DEF profile, general
  <2>5. profile.alerts \cap Levers = {lever}
    BY <1>2, <1>3, <2>4 DEF Common, Levers
  <2>6. lever \in profile.alerts
    BY <1>3, <2>4
  <2>7. "undefined" \in profile.alerts => "PK" \in failing
    BY <2>4, <2>5 DEF Levers
  <2>8. ~({"filter_before_scan", "materialize_before_scan"} \subseteq profile.alerts)
    BY <1>2, <1>3, <2>4 DEF Levers
  <2>9. profile.alerts \cap Heavy = {}
    BY <1>2, <1>3, <2>4 DEF Common, Heavy, Levers
  <2>10. Report!ViewHeavy(t, failing) # "heavy"
    BY <1>6 DEF Report!ViewHeavy
  <2> QED BY <1>6, <2>4, <2>5, <2>6, <2>7, <2>8, <2>9, <2>10 DEF profile, known
<1> QED BY <1>4, <1>5, <1>6

LEMMA AlertsAlwaysTrue ==
  ASSUME NEW t, Reportable(t), NEW failing, NEW exact
  PROVE  AlertsAreTrue(t, Report!BuildProfile(t, failing, exact), Report!BuildIndexProfile(t, failing),
                       Report!ExplainRow(t, failing), failing)
<1> DEFINE profile == Report!BuildProfile(t, failing, exact)
           indexes == Report!BuildIndexProfile(t, failing)
           row == Report!ExplainRow(t, failing)
<1>1. ASSUME profile # Report!Thrown
      PROVE  /\ \E lever \in Levers : profile.alerts \cap Levers = {lever}
             /\ failing \cap {"indexes", "PK", "probe"} = {} /\ t.kind = "TABLE" => Lever(t) \in profile.alerts
             /\ "undefined" \in profile.alerts => "PK" \in failing
             /\ t.kind = "TABLE" => ~({"filter_before_scan", "materialize_before_scan"} \subseteq profile.alerts)
             /\ Report!ViewHeavy(t, failing) = "heavy" <=> profile.alerts \cap Heavy # {}
  BY <1>1, ProfileAlertsTrue, Zenon
<1>2. ASSUME indexes # Report!Thrown
      PROVE  /\ "no_indexes_on_table" \in indexes.alerts <=> Report!Indexes(t) = {}
             /\ \A c \in indexes.unindexed_filter_candidates :
                  \A ix \in Report!Indexes(t) : c \notin Range(ix.columns)
  BY <1>2, IndexProfileParts, Zenon
<1>3. ASSUME indexes # Report!Thrown, profile # Report!Thrown
      PROVE  profile.filter_candidates \cap indexes.unindexed_filter_candidates = {}
  <2> SUFFICES ASSUME NEW c \in profile.filter_candidates, c \in indexes.unindexed_filter_candidates
               PROVE  FALSE
    OBVIOUS
  <2>1. profile.filter_candidates \subseteq UNION {Range(ix.columns) : ix \in Report!LoadIndexes(t, failing)}
    BY <1>3, ProfileParts, Zenon
  <2>2. PICK ix \in Report!LoadIndexes(t, failing) : c \in Range(ix.columns)
    BY <2>1
  <2>3. \E was \in Report!Indexes(t) : c \in Range(was.columns)
    BY <2>2, IndexedIsIndexed, Zenon
  <2> QED BY <1>2, <1>3, <2>3, Zenon
<1>4. row # Report!Thrown => row.view_heavy = Report!ViewHeavy(t, failing)
  BY DEF Report!ExplainRow
<1> HIDE DEF profile, indexes, row
<1>5. AlertsAreTrue(t, profile, indexes, row, failing)
  BY <1>1, <1>2, <1>3, <1>4, Zenon DEF AlertsAreTrue, Heavy
<1> QED BY <1>5 DEF profile, indexes, row

\* A column of the health report is NULL or true.
LEMMA HealthAlwaysTrue == ASSUME NEW s, Reporting(s) PROVE HealthIsTrue(s, Meta!Health(s))
<1> DEFINE row == Meta!Health(s)
           mon_ok == s.mon = "row"
           monitored == {"page_size", "oit_gap", "oat_gap", "sweep_interval"}
           nulls == {column \in monitored : row[column] = Meta!Null}
           names == {"oit_gap_high", "oat_gap_high", "sweep_disabled",
                     "forced_writes_off", "charset_none", "mon_unavailable"}
           warns(name) ==
             CASE name = "oit_gap_high" -> mon_ok /\ s.next - s.oit > GAP_THRESHOLD
               [] name = "oat_gap_high" -> mon_ok /\ s.next - s.oat > GAP_THRESHOLD
               [] name = "sweep_disabled" -> mon_ok /\ s.sweep = 0
               [] name = "forced_writes_off" -> mon_ok /\ ~s.forced
               [] name = "charset_none" -> s.charset = "NONE"
               [] name = "mon_unavailable" -> ~mon_ok
           value(v) == Meta!ValueOrNull(mon_ok, v)
<1> SUFFICES ASSUME row # Meta!Thrown PROVE HealthIsTrue(s, row)
  BY DEF HealthIsTrue
<1>1. row = [default_charset |-> s.charset, page_size |-> value(Meta!PageSize(s)),
             oit_gap |-> value(s.next - s.oit), oat_gap |-> value(s.next - s.oat),
             sweep_interval |-> value(s.sweep), forced_writes |-> value(s.forced),
             warnings |-> {name \in names : warns(name)}]
  BY DEF Meta!Health
<1> HIDE DEF row, value, warns
<1>2. /\ row["page_size"] = value(Meta!PageSize(s)) /\ row["oit_gap"] = value(s.next - s.oit)
      /\ row["oat_gap"] = value(s.next - s.oat) /\ row["sweep_interval"] = value(s.sweep)
      /\ row.warnings = {name \in names : warns(name)}
  BY <1>1
<1>3. /\ "mon_unavailable" \in row.warnings <=> ~mon_ok
      /\ "oit_gap_high" \in row.warnings <=> mon_ok /\ s.next - s.oit > GAP_THRESHOLD
      /\ "oat_gap_high" \in row.warnings <=> mon_ok /\ s.next - s.oat > GAP_THRESHOLD
  BY <1>2 DEF warns
<1>4. \A v : value(v) = IF mon_ok THEN <<v>> ELSE Meta!Null
  BY DEF value, Meta!ValueOrNull
<1>5. \A v : <<v>> # Meta!Null
  BY DEF Meta!Null
<1>6. Meta!PageSize(s) = s.page_size
  <2>1. CASE s.page_type = "SQL_LONG"
    BY <2>1 DEF Meta!PageSize
  <2>2. CASE s.page_type = "SQL_SHORT" /\ s.page_size \in 0..(2 ^ (ShortBits - 1) - 1)
    <3> DEFINE half == 2 ^ (ShortBits - 1)
               all == 2 ^ ShortBits
    <3>1. half \in Nat \ {0} /\ all = 2 * half /\ s.page_size \in 0..(half - 1)
      BY <2>2, ReportAssumption
    <3>2. Meta!GetShort(s.page_size) = IF s.page_size % all < half THEN s.page_size % all ELSE (s.page_size % all) - all
      BY DEF Meta!GetShort
    <3> HIDE DEF half, all
    <3>3. s.page_size % all = s.page_size
      BY <3>1
    <3>4. Meta!GetShort(s.page_size) = s.page_size
      BY <3>1, <3>2, <3>3
    <3> QED BY <2>2, <3>4 DEF Meta!PageSize
  <2> QED BY <2>1, <2>2 DEF Reporting
<1>7. s.oit \in Int /\ s.oat \in Int /\ s.next \in Int /\ s.oit <= s.oat /\ GAP_THRESHOLD \in Int
  BY ReportAssumption DEF Reporting
<1>8. CASE mon_ok
  <2>1. nulls = {}
    BY <1>2, <1>4, <1>5, <1>8
  <2>2. row.page_size = <<s.page_size>> /\ row.oit_gap = <<s.next - s.oit>>
    BY <1>2, <1>4, <1>6, <1>8
  <2>3. row.oit_gap[1] = s.next - s.oit
    BY <2>2
  <2>4. row.oit_gap[1] <= GAP_THRESHOLD <=> ~("oit_gap_high" \in row.warnings)
    BY <1>3, <1>7, <1>8, <2>3
  <2>5. "oat_gap_high" \in row.warnings => "oit_gap_high" \in row.warnings
    BY <1>3, <1>7, <1>8
  <2> HIDE DEF mon_ok, names
  <2> QED BY <1>3, <1>8, <2>1, <2>2, <2>4, <2>5, Zenon DEF HealthIsTrue
<1>9. CASE ~mon_ok
  <2>1. nulls = monitored
    BY <1>2, <1>4, <1>9
  <2>2. monitored # {}
    OBVIOUS
  <2> HIDE DEF mon_ok, names
  <2> QED BY <1>3, <1>9, <2>1, <2>2, Zenon DEF HealthIsTrue
<1> QED BY <1>8, <1>9

\* A generator has its own value or NULL.
LEMMA GeneratorsHaveTheirs ==
  ASSUME NEW generators, generators \in Seq(Range(generators)), NEW failing
  PROVE  ValuesAreTheirs(generators, failing, Meta!GenInitGlobal(generators, failing))
<1> DEFINE table == Meta!GenInitGlobal(generators, failing)
           row(i) == [name |-> generators[i].name,
                      current |-> Meta!ValueOrNull(generators[i].name \notin failing, generators[i].value)]
<1> SUFFICES ASSUME table # Meta!Thrown PROVE ValuesAreTheirs(generators, failing, table)
  BY DEF ValuesAreTheirs
<1>1. table = [rows |-> [i \in DOMAIN generators |-> row(i)]]
  BY DEF Meta!GenInitGlobal
<1> HIDE DEF table, row
<1>2. table.rows = [i \in DOMAIN generators |-> row(i)]
  BY <1>1
<1>3. DOMAIN generators = 1..Len(generators) /\ Len(generators) \in Nat
  OBVIOUS
<1>4. Len(table.rows) = Len(generators)
  BY <1>2, <1>3
<1>5. \A i \in DOMAIN generators : table.rows[i].current =
        IF generators[i].name \in failing THEN Meta!Null ELSE <<generators[i].value>>
  <2> TAKE i \in DOMAIN generators
  <2>1. table.rows[i] = row(i)
    BY <1>2
  <2>2. row(i).current = Meta!ValueOrNull(generators[i].name \notin failing, generators[i].value)
    BY DEF row
  <2> QED BY <2>1, <2>2 DEF Meta!ValueOrNull
<1> QED BY <1>4, <1>5 DEF ValuesAreTheirs

\* Whatever the relation and whichever queries fail: the profile and the
\* explanation advise what the scan does, their alerts are those of the relation
\* and agree with the index profile; the columns of the health report are NULL
\* or true; and a generator has its own value or NULL (BuildProfile,
\* BuildIndexProfile, WalkPlan, BuildHealth, GenInitGlobal).
THEOREM ReportsAlwaysTellTheTruth == Spec => []ReportsTellTheTruth
<1>1. InputInv => ReportsTellTheTruth
  <2> SUFFICES ASSUME InputInv PROVE ReportsTellTheTruth
    OBVIOUS
  <2>1. input \in Families[family]
    BY DEF InputInv
  <2>2. family = "servers" => HealthIsTrue(input, Meta!Health(input))
    <3>1. family = "servers" => Reporting(input)
      BY <2>1, FamilyOf, ReportAssumption
    <3> QED BY <3>1, HealthAlwaysTrue
  <2>3. family = "generators" =>
          ValuesAreTheirs(input.generators, input.failing, Meta!GenInitGlobal(input.generators, input.failing))
    <3>1. family = "generators" => input.generators \in Seq(Range(input.generators))
      BY <2>1, FamilyOf, ReportAssumption
    <3> QED BY <3>1, GeneratorsHaveTheirs
  <2>4. ASSUME family = "reports"
        PROVE  LET t == input.relation
                   profile == Report!BuildProfile(t, input.failing, input.exact)
                   indexes == Report!BuildIndexProfile(t, input.failing)
                   row == Report!ExplainRow(t, input.failing)
               IN /\ t.kind = "MISSING" => profile = Report!Thrown /\ indexes = Report!Thrown
                  /\ t.kind # "MISSING" => AdviceIsTheScan(t, profile, row, input.failing)
                  /\ t.kind # "MISSING" => AlertsAreTrue(t, profile, indexes, row, input.failing)
    <3> DEFINE t == input.relation
    <3>1. Reportable(t)
      BY <2>1, <2>4, FamilyOf, ReportAssumption
    <3>2. t.kind = "MISSING" => Report!LookupObjectType(t, input.failing) \notin {"TABLE", "VIEW"}
      BY DEF Report!LookupObjectType
    <3>3. t.kind = "MISSING" => Report!BuildProfile(t, input.failing, input.exact) = Report!Thrown
      BY <3>2 DEF Report!BuildProfile
    <3>4. t.kind = "MISSING" => Report!BuildIndexProfile(t, input.failing) = Report!Thrown
      BY <3>2 DEF Report!BuildIndexProfile
    <3> QED BY <3>1, <3>3, <3>4, AdviceAlwaysIsTheScan, AlertsAlwaysTrue, Zenon
  <2> QED BY <2>2, <2>3, <2>4, Zenon DEF ReportsTellTheTruth
<1> QED BY <1>1, Inputs, PTL

-----------------------------------------------------------------------------
(* The lists of relations: what a WHERE clause keeps, what is emitted.      *)

\* Joining a sequence of sequences is what the library's FlattenSeq does.
LEMMA FlattenIsJoined ==
  ASSUME NEW T, NEW s \in Seq(Seq(T))
  PROVE  FlattenSeq(s) = Joined(s) /\ Meta!FlattenSeq(s) = Joined(s)
<1> DEFINE n == Len(s)
           U == CHOOSE h : h = [i \in 1..n |-> IF i = 1 THEN s[i] ELSE h[i - 1] \o s[i]]
<1>1. /\ FlattenSeq(s) = IF n = 0 THEN s ELSE U[n]
      /\ Meta!FlattenSeq(s) = IF n = 0 THEN s ELSE U[n]
  BY DEF FlattenSeq, Meta!FlattenSeq
<1>2. CASE n = 0
  <2>1. s = << >>
    BY <1>2
  <2> HIDE DEF U
  <2> QED BY <1>1, <1>2, <2>1, JoinedEmpty
<1>3. CASE n # 0
  <2>1. n \in Nat \ {0} /\ \A i \in 1..n : s[i] \in Seq(T)
    BY <1>3
  <2>2. PICK f : Joined(s) = f[n] /\ \A k \in Nat : Joins(f, s, k)
    BY JoinedJoins
  <2>3. f[0] = << >> /\ \A k \in 1..n : f[k] = f[k - 1] \o s[k]
    BY <2>1, <2>2 DEF Joins
  <2> HIDE DEF n
  <2>4. f[1] = s[1]
    <3>1. 1 \in 1..n /\ 1 - 1 = 0
      BY <2>1
    <3>2. f[1] = << >> \o s[1] /\ s[1] \in Seq(T)
      BY <2>1, <2>3, <3>1
    <3> QED BY ONLY <3>2
  <2> DEFINE g == [i \in 1..n |-> f[i]]
  <2>5. g = [i \in 1..n |-> IF i = 1 THEN s[i] ELSE g[i - 1] \o s[i]]
    <3>1. \A i \in 1..n : i # 1 => i - 1 \in 1..n
      BY <2>1
    <3>2. \A i \in 1..n : f[i] = IF i = 1 THEN s[i] ELSE g[i - 1] \o s[i]
      BY <2>3, <2>4, <3>1
    <3> QED BY <3>2
  <2>6. U = [i \in 1..n |-> IF i = 1 THEN s[i] ELSE U[i - 1] \o s[i]]
    <3> HIDE DEF g
    <3> QED BY <2>5
  <2> HIDE DEF U
  <2>7. \A i \in 1..n : U[i] = IF i = 1 THEN s[i] ELSE U[i - 1] \o s[i]
    BY <2>6
  <2> DEFINE S == {k \in Nat : k \in 1..n => U[k] = f[k]}
  <2>8. 0 \in S
    BY <2>1
  <2>9. ASSUME NEW k \in Nat, k \in S PROVE k + 1 \in S
    <3> SUFFICES ASSUME k + 1 \in 1..n PROVE U[k + 1] = f[k + 1]
      OBVIOUS
    <3>1. CASE k = 0
      BY <2>4, <2>7, <3>1
    <3>2. CASE k # 0
      <4>1. k \in 1..n /\ k + 1 # 1 /\ (k + 1) - 1 = k
        BY <2>1, <3>2
      <4>2. U[k] = f[k]
        BY <2>9, <4>1
      <4>3. f[k + 1] = f[k] \o s[k + 1]
        BY <2>3, <4>1
      <4>4. U[k + 1] = U[k] \o s[k + 1]
        BY <2>7, <4>1
      <4> QED BY ONLY <4>2, <4>3, <4>4
    <3> QED BY <3>1, <3>2
  <2> HIDE DEF S
  <2>10. Nat \subseteq S
    BY <2>8, <2>9, Induction
  <2>11. n \in S /\ n \in 1..n
    BY <2>1, <2>10
  <2>12. U[n] = f[n]
    BY <2>11 DEF S
  <2>13. n # 0
    BY <2>1
  <2> QED BY <1>1, <2>2, <2>12, <2>13 DEF n
<1> QED BY <1>2, <1>3

\* Sequences with the same elements are the same.
LEMMA SameElements ==
  ASSUME NEW T, NEW s \in Seq(T), NEW t \in Seq(T), Len(s) = Len(t),
         \A i \in 1..Len(t) : s[i] = t[i]
  PROVE  s = t
<1>1. s = [i \in 1..Len(s) |-> s[i]] /\ t = [i \in 1..Len(t) |-> t[i]]
  OBVIOUS
<1>2. [i \in 1..Len(s) |-> s[i]] = [i \in 1..Len(t) |-> t[i]]
  OBVIOUS
<1> QED BY ONLY <1>1, <1>2

\* What is kept of a longer list.
LEMMA KeptNothing == ASSUME NEW S PROVE Meta!Kept(<< >>, S) = << >>
<1> DEFINE p == [i \in DOMAIN << >> |-> IF << >>[i] \in S THEN <<<< >>[i]>> ELSE << >>]
<1>1. p = << >>
  OBVIOUS
<1>2. Meta!Kept(<< >>, S) = Meta!FlattenSeq(p)
  BY DEF Meta!Kept
<1> HIDE DEF p
<1>3. << >> \in Seq(Seq({}))
  OBVIOUS
<1> QED BY <1>1, <1>2, <1>3, FlattenIsJoined, JoinedEmpty

OneIf(x, S) == IF x \in S THEN <<x>> ELSE << >>
Pieces(s, S) == [i \in DOMAIN s |-> OneIf(s[i], S)]
LEMMA KeptIsJoined ==
  ASSUME NEW T, NEW S, NEW s \in Seq(T)
  PROVE  /\ Pieces(s, S) \in Seq(Seq(T))
         /\ Meta!Kept(s, S) = Joined(Pieces(s, S))
<1>1. \A x \in T : OneIf(x, S) \in Seq(T)
  <2> SUFFICES ASSUME NEW x \in T PROVE OneIf(x, S) \in Seq(T)
    OBVIOUS
  <2>1. <<x>> \in Seq(T) /\ << >> \in Seq(T)
    OBVIOUS
  <2> QED BY <2>1 DEF OneIf
<1>2. Pieces(s, S) \in Seq(Seq(T))
  <2>1. DOMAIN s = 1..Len(s) /\ Len(s) \in Nat /\ \A i \in 1..Len(s) : s[i] \in T
    OBVIOUS
  <2>2. \A i \in 1..Len(s) : OneIf(s[i], S) \in Seq(T)
    BY <1>1, <2>1
  <2> QED BY ONLY <2>1, <2>2 DEF Pieces
<1>3. Meta!Kept(s, S) = Meta!FlattenSeq(Pieces(s, S))
  BY DEF Meta!Kept, Pieces, OneIf
<1> QED BY <1>2, <1>3, FlattenIsJoined

LEMMA KeptAppend ==
  ASSUME NEW T, NEW S, NEW s \in Seq(T), NEW x \in T
  PROVE  Meta!Kept(Append(s, x), S) = Meta!Kept(s, S) \o OneIf(x, S)
<1> DEFINE p == Pieces(s, S)
           q == Pieces(Append(s, x), S)
           o == OneIf(x, S)
<1>1. p \in Seq(Seq(T)) /\ Meta!Kept(s, S) = Joined(p)
  BY KeptIsJoined
<1>2. Append(s, x) \in Seq(T)
  OBVIOUS
<1>3. q \in Seq(Seq(T)) /\ Meta!Kept(Append(s, x), S) = Joined(q)
  BY ONLY <1>2, KeptIsJoined
<1>4. o \in Seq(T)
  <2>1. <<x>> \in Seq(T) /\ << >> \in Seq(T)
    OBVIOUS
  <2> QED BY <2>1 DEF OneIf
<1>5. q = Append(p, o)
  <2>1. Len(p) = Len(s) /\ \A i \in 1..Len(s) : p[i] = OneIf(s[i], S)
    BY <1>1 DEF Pieces
  <2>2. Len(q) = Len(s) + 1 /\ \A i \in 1..(Len(s) + 1) : q[i] = OneIf(Append(s, x)[i], S)
    BY <1>3 DEF Pieces
  <2>3. \A i \in 1..(Len(s) + 1) : Append(s, x)[i] = IF i = Len(s) + 1 THEN x ELSE s[i]
    OBVIOUS
  <2> HIDE DEF p, q, o
  <2>4. Append(p, o) \in Seq(Seq(T)) /\ Len(Append(p, o)) = Len(s) + 1
    BY <1>1, <1>4, <2>1
  <2>5. \A i \in 1..(Len(s) + 1) : Append(p, o)[i] = IF i = Len(s) + 1 THEN o ELSE p[i]
    BY <1>1, <1>4, <2>1
  <2>6. \A i \in 1..(Len(s) + 1) : q[i] = Append(p, o)[i]
    BY <2>1, <2>2, <2>3, <2>5 DEF o
  <2> DEFINE a == Append(p, o)
  <2>7. a \in Seq(Seq(T)) /\ Len(a) = Len(q) /\ \A i \in 1..Len(q) : q[i] = a[i]
    BY <2>2, <2>4, <2>6
  <2> HIDE DEF a
  <2>8. q = a
    BY ONLY <1>3, <2>7, SameElements
  <2> QED BY <2>8 DEF a
<1> HIDE DEF p, q, o
<1> QED BY <1>1, <1>3, <1>4, <1>5, JoinedAppend DEF o

\* What is kept are the members of S, in their order and as often as before.
Once(s) == \A i, j \in DOMAIN s : s[i].name = s[j].name => i = j
KeptRight(T, S, s) ==
  LET k == Meta!Kept(s, S) IN
  /\ k \in Seq(T)
  /\ Range(k) = Range(s) \cap S
  /\ Once(s) => Once(k)

LEMMA KeptFacts == ASSUME NEW T, NEW S, NEW s \in Seq(T) PROVE KeptRight(T, S, s)
<1> DEFINE A == {r \in Seq(T) : KeptRight(T, S, r)}
<1>1. << >> \in A
  <2>1. << >> \in Seq(T)
    OBVIOUS
  <2>2. Range(<< >>) = {} /\ Once(<< >>)
    BY DEF Range, Once
  <2> QED BY <2>1, <2>2, KeptNothing DEF KeptRight
<1>2. ASSUME NEW r \in Seq(T), NEW x \in T, r \in A PROVE Append(r, x) \in A
  <2> DEFINE k == Meta!Kept(r, S)
             q == Append(r, x)
             m == Meta!Kept(q, S)
  <2>1. k \in Seq(T) /\ Range(k) = Range(r) \cap S /\ (Once(r) => Once(k))
    BY <1>2 DEF KeptRight
  <2>2. m = k \o OneIf(x, S)
    BY KeptAppend
  <2>3. q \in Seq(T) /\ Len(q) = Len(r) + 1 /\ \A i \in 1..(Len(r) + 1) : q[i] = IF i = Len(r) + 1 THEN x ELSE r[i]
    OBVIOUS
  <2>4. Range(q) = Range(r) \cup {x}
    BY <2>3 DEF Range
  <2>5. Once(q) => Once(r) /\ \A y \in Range(r) : y.name # x.name
    BY <2>3 DEF Once, Range
  <2> HIDE DEF k, q, m
  <2>6. CASE x \in S
    <3>1. m = k \o <<x>>
      BY <2>2, <2>6 DEF OneIf
    <3>2. m \in Seq(T) /\ Len(m) = Len(k) + 1 /\ \A i \in 1..(Len(k) + 1) : m[i] = IF i = Len(k) + 1 THEN x ELSE k[i]
      BY <2>1, <3>1
    <3>3. Range(m) = Range(k) \cup {x}
      <4>1. /\ DOMAIN m = 1..(Len(k) + 1) /\ DOMAIN k = 1..Len(k) /\ Len(k) \in Nat
            /\ m[Len(k) + 1] = x /\ \A i \in 1..Len(k) : m[i] = k[i]
        BY <2>1, <3>2
      <4>2. Len(k) + 1 \in 1..(Len(k) + 1) /\ \A i \in 1..(Len(k) + 1) : i \in 1..Len(k) \/ i = Len(k) + 1
        BY <4>1
      <4>3. 1..Len(k) \subseteq 1..(Len(k) + 1)
        BY <4>1
      <4> QED BY ONLY <4>1, <4>2, <4>3 DEF Range
    <3>4. Once(q) => Once(m)
      <4> SUFFICES ASSUME Once(q) PROVE Once(m)
        OBVIOUS
      <4>1. Once(k) /\ \A y \in Range(k) : y.name # x.name
        BY <2>1, <2>5
      <4>2. \A i \in 1..Len(k) : k[i] \in Range(k)
        BY <2>1 DEF Range
      <4>3. \A i \in 1..Len(k) : k[i].name # x.name
        BY <4>1, <4>2
      <4>4. \A i, j \in 1..Len(k) : k[i].name = k[j].name => i = j
        BY <2>1, <4>1 DEF Once
      <4>5. Len(k) \in Nat /\ DOMAIN m = 1..(Len(k) + 1)
        BY <2>1, <3>2
      <4> QED BY <3>2, <4>3, <4>4, <4>5 DEF Once
    <3> QED BY <2>1, <2>3, <2>4, <2>6, <3>2, <3>3, <3>4 DEF KeptRight, q, m
  <2>7. CASE x \notin S
    <3>1. m = k
      BY <2>1, <2>2, <2>7 DEF OneIf
    <3> QED BY <2>1, <2>3, <2>4, <2>5, <2>7, <3>1 DEF KeptRight, q, m
  <2> QED BY <2>6, <2>7
<1> HIDE DEF A
<1>3. Seq(T) \subseteq A
  <2>1. \A r \in Seq(T), x \in T : r \in A => Append(r, x) \in A
    BY <1>2
  <2> QED BY <1>1, <2>1, SeqInduction
<1> QED BY <1>3 DEF A

-----------------------------------------------------------------------------
\* What a table function emits from a cursor on.
Vector(rows, c) ==
  SubSeq(rows, c + 1,
         IF c + STANDARD_VECTOR_SIZE < Len(rows) THEN c + STANDARD_VECTOR_SIZE ELSE Len(rows))
Emits(v, rows, c) == IF c >= Len(rows) THEN << >> ELSE <<Vector(rows, c)>> \o v

\* One sequence behind another.
LEMMA TwoParts ==
  ASSUME NEW T, NEW a \in Seq(T), NEW b \in Seq(T)
  PROVE  /\ a \o b \in Seq(T) /\ Len(a \o b) = Len(a) + Len(b)
         /\ \A i \in 1..Len(a) : (a \o b)[i] = a[i]
         /\ \A i \in 1..Len(b) : (a \o b)[Len(a) + i] = b[i]
OBVIOUS

LEMMA VectorFacts ==
  ASSUME NEW T, NEW rows \in Seq(T), NEW c \in Nat, c < Len(rows)
  PROVE  /\ Vector(rows, c) \in Seq(T) /\ Len(Vector(rows, c)) \in 1..STANDARD_VECTOR_SIZE
         /\ Vector(rows, c) \o SubSeq(rows, c + STANDARD_VECTOR_SIZE + 1, Len(rows))
              = SubSeq(rows, c + 1, Len(rows))
<1> DEFINE n == Len(rows)
           to == IF c + STANDARD_VECTOR_SIZE < n THEN c + STANDARD_VECTOR_SIZE ELSE n
           a == SubSeq(rows, c + 1, to)
           b == SubSeq(rows, c + STANDARD_VECTOR_SIZE + 1, n)
           d == SubSeq(rows, c + 1, n)
<1>1. n \in Nat /\ c < n /\ STANDARD_VECTOR_SIZE \in Nat \ {0}
  BY ReportAssumption
<1>2. to \in (c + 1)..n /\ to - c \in 1..STANDARD_VECTOR_SIZE
  BY <1>1
<1>3. \A x \in 1..n : rows[x] \in T
  OBVIOUS
<1>4. a \in Seq(T) /\ Len(a) = to - c /\ \A i \in 1..(to - c) : a[i] = rows[c + i]
  <2> HIDE DEF to
  <2> QED BY <1>1, <1>2, <1>3
<1>5. d \in Seq(T) /\ Len(d) = n - c /\ \A i \in 1..(n - c) : d[i] = rows[c + i]
  BY <1>1, <1>3
<1>6. b \in Seq(T) /\ Len(b) = n - to /\ \A i \in 1..(n - to) : b[i] = rows[to + i]
  <2>1. CASE c + STANDARD_VECTOR_SIZE < n
    <3>1. to = c + STANDARD_VECTOR_SIZE
      BY <2>1
    <3> QED BY <1>1, <1>3, <2>1, <3>1
  <2>2. CASE ~(c + STANDARD_VECTOR_SIZE < n)
    <3>1. to = n /\ c + STANDARD_VECTOR_SIZE + 1 > n
      BY <1>1, <2>2
    <3>2. b = << >>
      BY <1>1, <3>1
    <3>3. << >> \in Seq(T) /\ Len(<< >>) = 0 /\ n - to = 0
      BY <1>1, <3>1
    <3>4. \A i \in 1..(n - to) : FALSE
      BY <3>3
    <3> HIDE DEF b, to
    <3> QED BY ONLY <3>2, <3>3, <3>4
  <2> QED BY <2>1, <2>2
<1>7. n \in Nat /\ to \in Nat /\ c <= to /\ to <= n
  BY <1>1, <1>2
<1> HIDE DEF n, to, a, b, d
<1>8. a \o b \in Seq(T) /\ Len(a \o b) = n - c
  <2>1. a \o b \in Seq(T) /\ Len(a \o b) = Len(a) + Len(b)
    BY ONLY <1>4, <1>6, TwoParts
  <2>2. (to - c) + (n - to) = n - c
    BY ONLY <1>7, c \in Nat
  <2> QED BY ONLY <1>4, <1>6, <2>1, <2>2
<1>9. \A i \in 1..(n - c) : (a \o b)[i] = d[i]
  <2> SUFFICES ASSUME NEW i \in 1..(n - c) PROVE (a \o b)[i] = d[i]
    OBVIOUS
  <2>1. CASE i <= to - c
    <3>1. i \in 1..(to - c)
      BY <1>7, <2>1
    <3>2. (a \o b)[i] = a[i]
      BY ONLY <1>4, <1>6, <3>1, TwoParts
    <3> QED BY <1>4, <1>5, <3>1, <3>2
  <2>2. CASE i > to - c
    <3>1. i - (to - c) \in 1..(n - to) /\ to + (i - (to - c)) = c + i
      BY <1>7, <2>2
    <3>2. (a \o b)[i] = b[i - (to - c)]
      <4>1. i - (to - c) \in 1..Len(b) /\ Len(a) + (i - (to - c)) = i
        BY <1>4, <1>6, <1>7, <3>1
      <4>2. (a \o b)[Len(a) + (i - (to - c))] = b[i - (to - c)]
        BY ONLY <1>4, <1>6, <4>1, TwoParts
      <4> QED BY ONLY <4>1, <4>2
    <3>3. b[i - (to - c)] = rows[to + (i - (to - c))]
      BY <1>6, <3>1
    <3> QED BY <1>5, <3>1, <3>2, <3>3
  <2>3. i <= to - c \/ i > to - c
    BY <1>7
  <2> QED BY <2>1, <2>2, <2>3
<1>10. a \o b = d
  BY <1>5, <1>8, <1>9, SameElements
<1>11. a = Vector(rows, c)
  BY DEF Vector, a, to, n
<1> QED BY <1>2, <1>4, <1>10, <1>11 DEF b, d, n

LEMMA EmittedSteps ==
  ASSUME NEW T, NEW rows \in Seq(T)
  PROVE  \E f : /\ Meta!Emitted(rows) = f[0]
                /\ \A c \in 0..(Len(rows) + STANDARD_VECTOR_SIZE) :
                     f[c] = Emits(f[c + STANDARD_VECTOR_SIZE], rows, c)
<1> DEFINE last == Len(rows) + STANDARD_VECTOR_SIZE
           n == last + 1
           D == 1..n
           W == Seq(Seq(T))
           G(f, p) == Emits(f[p + STANDARD_VECTOR_SIZE], rows, p - 1)
           F == [p \in D |-> [f \in [D -> W] |-> G(f, p)]]
<1>0. Len(rows) \in Nat /\ STANDARD_VECTOR_SIZE \in Nat \ {0} /\ last \in Nat /\ n \in Nat
  BY ReportAssumption
<1>1. ASSUME NEW p \in D, ~(p - 1 >= Len(rows))
      PROVE  /\ p + STANDARD_VECTOR_SIZE \in D /\ p + STANDARD_VECTOR_SIZE > p
             /\ <<Vector(rows, p - 1)>> \in W
  <2>1. p + STANDARD_VECTOR_SIZE \in D /\ p + STANDARD_VECTOR_SIZE > p /\ p - 1 \in Nat /\ p - 1 < Len(rows)
    BY <1>0, <1>1
  <2>2. Vector(rows, p - 1) \in Seq(T)
    BY <2>1, VectorFacts
  <2> QED BY <2>1, <2>2
<1>2. \A p \in D : \A f \in [D -> W] : G(f, p) \in W
  <2> SUFFICES ASSUME NEW p \in D, NEW f \in [D -> W] PROVE G(f, p) \in W
    OBVIOUS
  <2>1. CASE p - 1 >= Len(rows)
    <3>1. G(f, p) = << >> /\ << >> \in W
      BY <2>1 DEF Emits
    <3> QED BY <3>1
  <2>2. CASE ~(p - 1 >= Len(rows))
    <3>1. p + STANDARD_VECTOR_SIZE \in D /\ <<Vector(rows, p - 1)>> \in W
      BY <1>1, <2>2
    <3>2. f[p + STANDARD_VECTOR_SIZE] \in W
      <4> HIDE DEF D, W
      <4> QED BY <3>1
    <3>3. <<Vector(rows, p - 1)>> \o f[p + STANDARD_VECTOR_SIZE] \in W
      BY ONLY <3>1, <3>2
    <3>4. G(f, p) = <<Vector(rows, p - 1)>> \o f[p + STANDARD_VECTOR_SIZE]
      BY <2>2 DEF Emits
    <3> QED BY <3>3, <3>4
  <2> QED BY <2>1, <2>2
<1>3. W # {}
  <2>1. << >> \in W
    OBVIOUS
  <2> QED BY <2>1
<1> HIDE DEF D, W
<1>4. F \in [D -> [[D -> W] -> W]] /\ \A p \in D : \A f \in [D -> W] : F[p][f] = G(f, p)
  <2> HIDE DEF G
  <2> QED BY <1>2
<1>5. ASSUME NEW p \in D, NEW f \in [D -> W], NEW g \in [D -> W], \A q \in D : q > p => f[q] = g[q]
      PROVE  F[p][f] = F[p][g]
  <2>1. ~(p - 1 >= Len(rows)) => f[p + STANDARD_VECTOR_SIZE] = g[p + STANDARD_VECTOR_SIZE]
    BY <1>1, <1>5
  <2>2. G(f, p) = G(g, p)
    BY <2>1 DEF Emits
  <2> HIDE DEF F, G
  <2> QED BY <1>4, <2>2
<1> HIDE DEF F
<1>6. PICK g \in [D -> W] : \A p \in D : g[p] = F[p][g]
  <2> HIDE DEF n
  <2>1. LooksBehind(F, n, W)
    BY <1>4, <1>5 DEF LooksBehind, D
  <2>2. Solution(F, n, W)
    BY <1>0, <1>3, <2>1, Backward
  <2> QED BY <2>2 DEF Solution, D
<1>7. \A p \in D : g[p] = Emits(g[p + STANDARD_VECTOR_SIZE], rows, p - 1)
  <2> HIDE DEF W
  <2> QED BY <1>4, <1>6
<1> DEFINE C == 0..last
           h == [c \in C |-> g[c + 1]]
           U == CHOOSE f : f = [c \in C |-> Emits(f[c + STANDARD_VECTOR_SIZE], rows, c)]
<1>8. h = [c \in C |-> Emits(h[c + STANDARD_VECTOR_SIZE], rows, c)]
  <2>1. ASSUME NEW c \in C PROVE g[c + 1] = Emits(h[c + STANDARD_VECTOR_SIZE], rows, c)
    <3>1. c + 1 \in D /\ (c + 1) - 1 = c /\ (c + 1) + STANDARD_VECTOR_SIZE = (c + STANDARD_VECTOR_SIZE) + 1
      BY <1>0 DEF D
    <3>2. g[c + 1] = Emits(g[(c + STANDARD_VECTOR_SIZE) + 1], rows, c)
      BY <1>7, <3>1
    <3>3. CASE c >= Len(rows)
      BY <3>2, <3>3 DEF Emits
    <3>4. CASE ~(c >= Len(rows))
      <4>1. c + STANDARD_VECTOR_SIZE \in C
        BY <1>0, <3>4
      <4>2. h[c + STANDARD_VECTOR_SIZE] = g[(c + STANDARD_VECTOR_SIZE) + 1]
        <5> HIDE DEF C
        <5> QED BY <4>1
      <4> QED BY <3>2, <4>2
    <3> QED BY <3>3, <3>4
  <2> HIDE DEF C
  <2> QED BY <2>1
<1>9. U = [c \in C |-> Emits(U[c + STANDARD_VECTOR_SIZE], rows, c)]
  <2> HIDE DEF h, C
  <2> QED BY <1>8
<1>10. Meta!Emitted(rows) = U[0]
  BY DEF Meta!Emitted, Emits, Vector
<1> HIDE DEF U
<1>11. \A c \in C : U[c] = Emits(U[c + STANDARD_VECTOR_SIZE], rows, c)
  <2> HIDE DEF C
  <2>1. \A f : f = [c \in C |-> Emits(U[c + STANDARD_VECTOR_SIZE], rows, c)] =>
          \A c \in C : f[c] = Emits(U[c + STANDARD_VECTOR_SIZE], rows, c)
    OBVIOUS
  <2> QED BY <1>9, <2>1
<1> QED BY <1>10, <1>11

\* The rows collected in init are all emitted, in vectors that are full but for the last.
LEMMA EmittedIsWhole ==
  ASSUME NEW T, NEW rows \in Seq(T)
  PROVE  /\ FlattenSeq(Meta!Emitted(rows)) = rows
         /\ \A chunk \in Range(Meta!Emitted(rows)) : Len(chunk) \in 1..STANDARD_VECTOR_SIZE
<1> DEFINE last == Len(rows) + STANDARD_VECTOR_SIZE
           n == last + 1
           Right(v, c) == /\ v \in Seq(Seq(T))
                          /\ Joined(v) = SubSeq(rows, c + 1, Len(rows))
                          /\ \A chunk \in Range(v) : Len(chunk) \in 1..STANDARD_VECTOR_SIZE
<1>1. PICK f : /\ Meta!Emitted(rows) = f[0]
               /\ \A c \in 0..last : f[c] = Emits(f[c + STANDARD_VECTOR_SIZE], rows, c)
  BY EmittedSteps
<1>2. Len(rows) \in Nat /\ STANDARD_VECTOR_SIZE \in Nat \ {0} /\ last \in Nat /\ n \in Nat
  BY ReportAssumption
<1> DEFINE S == {p \in 1..n : Right(f[p - 1], p - 1)}
<1>3. ASSUME NEW p \in 1..n, \A q \in 1..n : q > p => q \in S PROVE p \in S
  <2> DEFINE c == p - 1
             v == f[c + STANDARD_VECTOR_SIZE]
  <2>1. c \in 0..last /\ f[c] = Emits(v, rows, c)
    BY <1>1, <1>2
  <2>2. CASE c >= Len(rows)
    <3>1. f[c] = << >>
      BY <2>1, <2>2 DEF Emits
    <3>2. << >> \in Seq(Seq(T)) /\ SubSeq(rows, c + 1, Len(rows)) = << >>
      BY <1>2, <2>1, <2>2
    <3>3. Range(<< >>) = {}
      BY DEF Range
    <3>4. Right(f[c], c)
      BY <3>1, <3>2, <3>3, JoinedEmpty
    <3> QED BY <3>4
  <2>3. CASE ~(c >= Len(rows))
    <3> DEFINE a == Vector(rows, c)
    <3>1. f[c] = <<a>> \o v
      BY <2>1, <2>3 DEF Emits
    <3>2. /\ a \in Seq(T) /\ Len(a) \in 1..STANDARD_VECTOR_SIZE
          /\ a \o SubSeq(rows, c + STANDARD_VECTOR_SIZE + 1, Len(rows)) = SubSeq(rows, c + 1, Len(rows))
      <4>1. c \in Nat /\ c < Len(rows)
        BY <1>2, <2>1, <2>3
      <4> HIDE DEF c
      <4> QED BY <4>1, VectorFacts
    <3>3. Right(v, c + STANDARD_VECTOR_SIZE)
      <4>1. p + STANDARD_VECTOR_SIZE \in 1..n /\ p + STANDARD_VECTOR_SIZE > p
            /\ (p + STANDARD_VECTOR_SIZE) - 1 = c + STANDARD_VECTOR_SIZE
        BY <1>2, <2>3
      <4>2. p + STANDARD_VECTOR_SIZE \in S
        BY <1>3, <4>1
      <4> QED BY <4>1, <4>2
    <3> HIDE DEF a, v, c
    <3>4. <<a>> \in Seq(Seq(T)) /\ <<a>> \o v \in Seq(Seq(T))
      BY <3>2, <3>3
    <3>5. Joined(<<a>> \o v) = a \o Joined(v)
      <4>1. Joined(<<a>> \o v) = Joined(<<a>>) \o Joined(v)
        BY <3>3, <3>4, JoinedConcat
      <4>2. Joined(<<a>>) = a
        BY <3>2, JoinedOne
      <4> QED BY ONLY <4>1, <4>2
    <3>6. Range(<<a>> \o v) = {a} \cup Range(v)
      <4>1. v \in Seq(Seq(T)) /\ Len(<<a>>) = 1 /\ <<a>>[1] = a
        BY <3>3
      <4>2. /\ DOMAIN v = 1..Len(v) /\ Len(v) \in Nat /\ DOMAIN (<<a>> \o v) = 1..(Len(v) + 1)
            /\ (<<a>> \o v)[1] = a /\ \A i \in 1..Len(v) : (<<a>> \o v)[i + 1] = v[i]
        BY <3>4, <4>1
      <4>3. \A i \in 1..(Len(v) + 1) : i = 1 \/ \E j \in 1..Len(v) : i = j + 1
        <5> SUFFICES ASSUME NEW i \in 1..(Len(v) + 1), i # 1 PROVE \E j \in 1..Len(v) : i = j + 1
          OBVIOUS
        <5>1. i - 1 \in 1..Len(v) /\ i = (i - 1) + 1
          BY <4>2
        <5> QED BY <5>1
      <4>4. 1 \in 1..(Len(v) + 1) /\ \A j \in 1..Len(v) : j + 1 \in 1..(Len(v) + 1)
        BY <4>2
      <4> DEFINE w == <<a>> \o v
      <4>5. /\ DOMAIN w = 1..(Len(v) + 1) /\ DOMAIN v = 1..Len(v)
            /\ w[1] = a /\ \A i \in 1..Len(v) : w[i + 1] = v[i]
        BY <4>2
      <4> HIDE DEF w
      <4>6. Range(w) \subseteq {a} \cup Range(v)
        <5>1. \A j \in 1..Len(v) : v[j] \in Range(v)
          BY ONLY <4>5 DEF Range
        <5>2. \A i \in 1..(Len(v) + 1) : w[i] \in {a} \cup Range(v)
          BY ONLY <4>3, <4>5, <5>1
        <5> QED BY ONLY <4>5, <5>2 DEF Range
      <4>7. {a} \cup Range(v) \subseteq Range(w)
        BY ONLY <4>4, <4>5 DEF Range
      <4> QED BY <4>6, <4>7 DEF w
    <3>7. Right(f[c], c)
      BY <3>1, <3>2, <3>3, <3>4, <3>5, <3>6
    <3> QED BY <3>7 DEF c
  <2> QED BY <2>2, <2>3
<1> HIDE DEF S
<1>4. 1..n \subseteq S
  BY <1>2, <1>3, Downwards
<1>5. 1 \in S
  BY <1>2, <1>4
<1>6. Right(f[0], 0)
  <2>1. 1 - 1 = 0
    OBVIOUS
  <2> QED BY <1>5, <2>1 DEF S
<1>7. SubSeq(rows, 0 + 1, Len(rows)) = rows
  OBVIOUS
<1>8. FlattenSeq(f[0]) = Joined(f[0])
  BY <1>6, FlattenIsJoined
<1> QED BY <1>1, <1>6, <1>7, <1>8

-----------------------------------------------------------------------------
\* The relations that are listed: those that are no system relations of the
\* kind 3, each once and in the order of the database.
LEMMA KeptOfDatabase ==
  ASSUME NEW db, Discoverable(db), NEW S, S \subseteq Range(db)
  PROVE  /\ Meta!Kept(db, S) \in Seq(Range(db)) /\ Once(Meta!Kept(db, S))
         /\ Range(Meta!Kept(db, S)) = S
<1> DEFINE T == Range(db)
<1>1. db \in Seq(T) /\ Once(db)
  BY DEF Discoverable, Once
<1>2. KeptRight(T, S, db)
  BY <1>1, KeptFacts
<1> QED BY <1>1, <1>2 DEF KeptRight

LEMMA UsersAre ==
  ASSUME NEW db, Discoverable(db)
  PROVE  LET rels == Meta!UserRelations(db) IN
         /\ rels \in Seq(Range(db)) /\ Once(rels)
         /\ Range(rels) = {r \in Range(db) : r.type # 3}
<1> DEFINE S == {r \in Range(db) : r.type # 3}
<1>1. Meta!UserRelations(db) = Meta!Kept(db, S)
  BY DEF Meta!UserRelations, Meta!Range, Range
<1>2. S \subseteq Range(db)
  OBVIOUS
<1> HIDE DEF S
<1> QED BY <1>1, <1>2, KeptOfDatabase DEF S

\* As many names as relations with different names.
LEMMA NamesCounted ==
  ASSUME NEW T, NEW s \in Seq(T), Once(s)
  PROVE  Cardinality({r.name : r \in Range(s)}) = Len(s)
<1> DEFINE n == Len(s)
           N == {r.name : r \in Range(s)}
           f == [i \in 1..n |-> s[i].name]
<1>1. n \in Nat /\ DOMAIN s = 1..n
  OBVIOUS
<1>2. N = {s[i].name : i \in 1..n}
  BY <1>1 DEF Range
<1>3. \A i, j \in 1..n : f[i] = f[j] => i = j
  BY <1>1 DEF Once
<1>4. f \in [1..n -> N] /\ \A x \in N : \E i \in 1..n : f[i] = x
  <2> HIDE DEF N, n
  <2> QED BY <1>2
<1> HIDE DEF N, f, n
<1>5. f \in Bijection(1..n, N)
  BY <1>3, <1>4 DEF Bijection, Injection, Surjection, IsInjective
<1>6. ExistsBijection(1..n, N)
  BY <1>5 DEF ExistsBijection
<1>7. IsFiniteSet(1..n) /\ Cardinality(1..n) = n
  BY <1>1, FS_Interval
<1>8. Cardinality(N) = Cardinality(1..n)
  BY <1>6, <1>7, FS_Bijection
<1> QED BY <1>7, <1>8 DEF N, n

\* firebird_tables and firebird_attach_sql list the same, and all of it.
LEMMA ListsAgree ==
  ASSUME NEW db, Discoverable(db)
  PROVE  LET listed == Meta!FirebirdTablesInitGlobal(db)
             names == {row.table_name : row \in Range(listed)}
             statements == Meta!FirebirdAttachInitGlobal(db, "fb")
         IN /\ Len(listed) = Cardinality(names)
            /\ FlattenSeq(Meta!Emitted(statements)) = statements
            /\ \A chunk \in Range(Meta!Emitted(statements)) : Len(chunk) \in 1..STANDARD_VECTOR_SIZE
            /\ [i \in DOMAIN listed |-> listed[i].table_name]
                 = [i \in 1..Len(statements) - 1 |-> statements[i + 1].name]
<1> DEFINE listed == Meta!FirebirdTablesInitGlobal(db)
           names == {row.table_name : row \in Range(listed)}
           statements == Meta!FirebirdAttachInitGlobal(db, "fb")
           rels == Meta!UserRelations(db)
           n == Len(rels)
           views == [i \in DOMAIN rels |-> Meta!Statement("CREATE VIEW", rels[i].name)]
           schema == Meta!Statement("CREATE SCHEMA", "fb")
           T == {schema} \cup Range(views)
<1>1. rels \in Seq(Range(db)) /\ Once(rels)
  BY UsersAre
<1>2. listed = [i \in DOMAIN rels |-> [table_name |-> rels[i].name, kind |-> Meta!RelationKindLabel(rels[i].type),
                          has_pk |-> rels[i].pk # << >>, pk_columns |-> Meta!Range(rels[i].pk)]]
  BY DEF Meta!FirebirdTablesInitGlobal
<1>3. statements = <<schema>> \o views
  BY DEF Meta!FirebirdAttachInitGlobal
<1> HIDE DEF rels, listed, statements
<1>4. n \in Nat /\ DOMAIN rels = 1..n
  BY <1>1
<1>5. DOMAIN listed = 1..n /\ \A i \in 1..n : listed[i].table_name = rels[i].name
  BY <1>2, <1>4
<1>6. Len(listed) = n
  BY <1>2, <1>4
<1>7. names = {r.name : r \in Range(rels)}
  BY <1>4, <1>5 DEF Range
<1>8. DOMAIN views = 1..n /\ \A i \in 1..n : views[i].name = rels[i].name /\ views[i] \in Range(views)
  BY <1>4 DEF Range, Meta!Statement
<1>9. views \in Seq(Range(views)) /\ Len(views) = n
  <2>1. views = [i \in 1..n |-> views[i]]
    BY <1>8
  <2> HIDE DEF views, n
  <2> QED BY <1>4, <1>8, <2>1
<1> HIDE DEF views, schema
<1>10. <<schema>> \in Seq(T) /\ views \in Seq(T) /\ Len(<<schema>>) = 1
  BY <1>9
<1> HIDE DEF T, n
<1>11. statements \in Seq(T) /\ Len(statements) = 1 + n /\ \A i \in 1..n : statements[1 + i] = views[i]
  BY <1>3, <1>9, <1>10, TwoParts
<1>12. Len(listed) = Cardinality(names)
  BY <1>1, <1>6, <1>7, NamesCounted DEF n
<1>13. [i \in DOMAIN listed |-> listed[i].table_name] = [i \in 1..Len(statements) - 1 |-> statements[i + 1].name]
  <2>1. Len(statements) - 1 = n
    BY <1>4, <1>11
  <2>2. \A i \in 1..n : i + 1 = 1 + i
    BY <1>4
  <2>3. \A i \in 1..n : listed[i].table_name = statements[i + 1].name
    BY <1>5, <1>8, <1>11, <2>2
  <2> QED BY <1>5, <2>1, <2>3
<1>14. /\ FlattenSeq(Meta!Emitted(statements)) = statements
       /\ \A chunk \in Range(Meta!Emitted(statements)) : Len(chunk) \in 1..STANDARD_VECTOR_SIZE
  BY <1>11, EmittedIsWhole
<1> QED BY <1>12, <1>13, <1>14 DEF listed, statements

\* ATTACH exposes one of each class of names, and finds each.
LEMMA AttachedAre ==
  ASSUME NEW db, Discoverable(db)
  PROVE  LET rels == Meta!UserRelations(db)
             entries == Meta!AttachedEntries(db)
         IN /\ DOMAIN entries = {Upper[r.name] : r \in Range(rels)}
            /\ \A key \in DOMAIN entries : entries[key] \in Range(rels)
<1> DEFINE rels == Meta!UserRelations(db)
           S(key) == {r \in Range(rels) : Upper[r.name] = key}
           entries == Meta!AttachedEntries(db)
           keys == {Upper[r.name] : r \in Range(rels)}
<1>1. entries = [key \in keys |-> Head(Meta!Kept(rels, S(key)))]
  BY DEF Meta!AttachedEntries, Meta!Range, Range
<1>2. rels \in Seq(Range(db))
  BY UsersAre
<1> HIDE DEF rels, entries
<1>3. ASSUME NEW key \in keys PROVE Head(Meta!Kept(rels, S(key))) \in Range(rels)
  <2> DEFINE named == Meta!Kept(rels, S(key))
  <2>1. KeptRight(Range(db), S(key), rels)
    <3> HIDE DEF S
    <3> QED BY <1>2, KeptFacts
  <2>2. named \in Seq(Range(db)) /\ Range(named) = Range(rels) \cap S(key)
    BY <2>1 DEF KeptRight
  <2>3. Range(named) # {}
    BY <2>2
  <2> HIDE DEF named
  <2>4. named # << >>
    BY <2>3 DEF Range
  <2>5. Head(named) = named[1] /\ 1 \in DOMAIN named
    BY <2>2, <2>4
  <2>6. Head(named) \in Range(named)
    BY <2>5 DEF Range
  <2> QED BY <2>2, <2>6 DEF named
<1>4. DOMAIN entries = keys
  BY <1>1
<1>5. \A key \in keys : entries[key] \in Range(rels)
  <2> HIDE DEF keys, S
  <2> QED BY <1>1, <1>3
<1> QED BY <1>4, <1>5 DEF rels, entries

\* Every relation that is listed is found in the catalog, and has a key exactly
\* if it has a key column.
LEMMA ListedAreFound ==
  ASSUME NEW db, Discoverable(db)
  PROVE  LET listed == Meta!FirebirdTablesInitGlobal(db)
             names == {row.table_name : row \in Range(listed)}
         IN /\ \A row \in Range(listed) :
                 /\ Len(Meta!LookupEntry(db, row.table_name)) = 1
                 /\ row.has_pk <=> row.pk_columns # {}
            /\ {e.name : e \in Range(Meta!AttachedEntries(db))} \subseteq names
            /\ \A r \in Range(db) : r.type # 3 =>
                 r.name \in names /\ Meta!LookupEntry(db, r.name) = <<Upper[r.name]>>
<1> DEFINE listed == Meta!FirebirdTablesInitGlobal(db)
           names == {row.table_name : row \in Range(listed)}
           rels == Meta!UserRelations(db)
           entries == Meta!AttachedEntries(db)
           n == Len(rels)
<1>1. rels \in Seq(Range(db)) /\ Range(rels) = {r \in Range(db) : r.type # 3}
  BY UsersAre
<1>2. listed = [i \in DOMAIN rels |-> [table_name |-> rels[i].name, kind |-> Meta!RelationKindLabel(rels[i].type),
                          has_pk |-> rels[i].pk # << >>, pk_columns |-> Meta!Range(rels[i].pk)]]
  BY DEF Meta!FirebirdTablesInitGlobal
<1>3. /\ DOMAIN entries = {Upper[r.name] : r \in Range(rels)}
      /\ \A key \in DOMAIN entries : entries[key] \in Range(rels)
  BY AttachedAre
<1>4. \A name : Meta!LookupEntry(db, name) = IF Upper[name] \in DOMAIN entries THEN <<Upper[name]>> ELSE << >>
  BY DEF Meta!LookupEntry, Meta!ValueOrNull, Meta!Null
<1> HIDE DEF rels, listed, entries
<1>5. \A r \in Range(rels) : Meta!LookupEntry(db, r.name) = <<Upper[r.name]>>
  BY <1>3, <1>4
<1>6. /\ DOMAIN listed = DOMAIN rels
      /\ \A i \in DOMAIN rels : listed[i].table_name = rels[i].name
      /\ \A i \in DOMAIN rels : listed[i].has_pk = (rels[i].pk # << >>) /\ listed[i].pk_columns = Range(rels[i].pk)
  BY <1>2 DEF Meta!Range, Range
<1>7. names = {r.name : r \in Range(rels)}
  BY <1>6 DEF Range
<1>8. \A r \in Range(rels) : (r.pk # << >>) <=> Range(r.pk) # {}
  <2> SUFFICES ASSUME NEW r \in Range(rels) PROVE (r.pk # << >>) <=> Range(r.pk) # {}
    OBVIOUS
  <2>1. r \in Range(db)
    BY <1>1
  <2>2. r.pk \in Seq(Range(r.pk))
    BY <2>1 DEF Discoverable, Range
  <2> DEFINE pk == r.pk
  <2>3. pk \in Seq(Range(pk))
    BY <2>2
  <2> HIDE DEF pk
  <2>4. pk # << >> => 1 \in DOMAIN pk
    BY <2>3
  <2>5. pk = << >> => DOMAIN pk = {}
    OBVIOUS
  <2>6. (pk # << >>) <=> Range(pk) # {}
    BY <2>4, <2>5 DEF Range
  <2> QED BY <2>6 DEF pk
<1>9. ASSUME NEW row \in Range(listed)
      PROVE  Len(Meta!LookupEntry(db, row.table_name)) = 1 /\ (row.has_pk <=> row.pk_columns # {})
  <2>1. PICK i \in DOMAIN rels : row = listed[i]
    BY <1>6 DEF Range
  <2>2. rels[i] \in Range(rels)
    BY <2>1 DEF Range
  <2>3. Meta!LookupEntry(db, row.table_name) = <<Upper[rels[i].name]>>
    BY <1>5, <1>6, <2>1, <2>2
  <2>4. row.has_pk <=> row.pk_columns # {}
    BY <1>6, <1>8, <2>1, <2>2
  <2>5. Len(<<Upper[rels[i].name]>>) = 1
    OBVIOUS
  <2> QED BY <2>3, <2>4, <2>5
<1>10. {e.name : e \in Range(entries)} \subseteq names
  BY <1>3, <1>7 DEF Range
<1>11. \A r \in Range(db) : r.type # 3 => r.name \in names /\ Meta!LookupEntry(db, r.name) = <<Upper[r.name]>>
  BY <1>1, <1>5, <1>7
<1> QED BY <1>9, <1>10, <1>11 DEF listed, entries

\* firebird_generate_dbt_sources writes tables and views that are listed, and a
\* unique test for a column of the table that is its whole key.
LEMMA SourcesAre ==
  ASSUME NEW db, Discoverable(db)
  PROVE  LET listed == Meta!FirebirdTablesInitGlobal(db)
             names == {row.table_name : row \in Range(listed)}
             dbt == Meta!CollectTableMetadata(db)
             relation(name) == CHOOSE r \in Range(db) : r.name = name
         IN dbt # Meta!Thrown =>
              \A table \in Range(dbt.tables) :
                /\ table.name \in names /\ Meta!LookupEntry(db, table.name) # << >>
                /\ \A c \in table.unique : c \in table.columns /\ relation(table.name).pk = <<c>>
<1> DEFINE names == {row.table_name : row \in Range(Meta!FirebirdTablesInitGlobal(db))}
           dbt == Meta!CollectTableMetadata(db)
           rels == Meta!ListUserTables(db)
           S == {r \in Range(db) : r.type \in {-1, 0, 1}}
           columns(i) == Meta!LoadTableSchema(db, rels[i].name)[1]
           tables == [i \in DOMAIN rels |->
                        [name |-> rels[i].name, columns |-> Range(columns(i)),
                         unique |-> Range(Meta!PkColumn(rels[i])) \cap Range(columns(i))]]
           relation(name) == CHOOSE r \in Range(db) : r.name = name
<1> SUFFICES ASSUME dbt # Meta!Thrown, NEW table \in Range(dbt.tables)
             PROVE  /\ table.name \in names /\ Meta!LookupEntry(db, table.name) # << >>
                    /\ \A c \in table.unique : c \in table.columns /\ relation(table.name).pk = <<c>>
  OBVIOUS
<1>1. rels = Meta!Kept(db, S)
  BY DEF Meta!ListUserTables, Meta!NullType, Meta!Range, Range
<1>2. S \subseteq Range(db) /\ \A r \in S : r.type # 3
  OBVIOUS
<1>3. dbt = [tables |-> tables]
  BY DEF Meta!CollectTableMetadata, Meta!Range, Range
<1> HIDE DEF S, rels, dbt, columns, tables
<1>4. rels \in Seq(Range(db)) /\ Range(rels) = S
  BY <1>1, <1>2, KeptOfDatabase
<1>5. dbt.tables = tables
  BY <1>3
<1>6. PICK i \in DOMAIN rels : table = tables[i]
  BY <1>5 DEF Range, tables
<1> DEFINE r == rels[i]
<1>7. r \in Range(db) /\ r.type # 3
  BY <1>2, <1>4 DEF Range
<1>8. table.name = r.name /\ table.columns = Range(columns(i)) /\ table.unique = Range(Meta!PkColumn(r)) \cap Range(columns(i))
  BY <1>6 DEF tables
<1> HIDE DEF r
<1>9. r.name \in names /\ Meta!LookupEntry(db, r.name) = <<Upper[r.name]>>
  BY <1>7, ListedAreFound
<1>10. relation(r.name) = r
  <2>1. \A q \in Range(db) : q.name = r.name => q = r
    BY <1>7 DEF Discoverable, Range
  <2> QED BY <1>7, <2>1
<1>11. r.pk \in Seq(Range(r.pk))
  BY <1>7 DEF Discoverable, Range
<1>12. ASSUME NEW c \in Range(Meta!PkColumn(r)) PROVE r.pk = <<c>>
  <2> DEFINE pk == r.pk
  <2>1. CASE Len(pk) = 1
    <3>1. Meta!PkColumn(r) = pk
      BY <2>1 DEF Meta!PkColumn
    <3>2. pk \in Seq(Range(pk))
      BY <1>11
    <3> HIDE DEF pk
    <3>3. DOMAIN pk = 1..1
      BY <2>1, <3>2
    <3>4. c = pk[1]
      BY <1>12, <3>1, <3>3 DEF Range
    <3>5. pk = <<pk[1]>>
      <4>1. pk[1] \in Range(pk)
        BY <3>3 DEF Range
      <4>2. <<pk[1]>> \in Seq(Range(pk)) /\ Len(<<pk[1]>>) = 1 /\ \A k \in 1..1 : pk[k] = <<pk[1]>>[k]
        BY <4>1
      <4> QED BY <2>1, <3>2, <4>2, SameElements
    <3> QED BY <3>4, <3>5 DEF pk
  <2>2. CASE Len(pk) # 1
    <3>1. Meta!PkColumn(r) = << >>
      BY <2>2 DEF Meta!PkColumn, Meta!Null
    <3>2. Range(<< >>) = {}
      BY DEF Range
    <3> QED BY <1>12, <3>1, <3>2
  <2> QED BY <2>1, <2>2
<1>13. <<Upper[r.name]>> # << >>
  OBVIOUS
<1> HIDE DEF names, relation
<1> QED BY <1>8, <1>9, <1>10, <1>12, <1>13

\* For any number of relations of any type, with any names in either case: the
\* four lists of relations agree, each relation is listed once and emitted
\* once, the catalog finds it, and a unique test is of the whole key
\* (FirebirdTablesInitGlobal, FirebirdAttachInitGlobal, EnsureTablesLoaded,
\* CollectTableMetadata).
THEOREM DiscoveryAlwaysAgrees == Spec => []DiscoveryAgrees
<1>1. InputInv => DiscoveryAgrees
  <2> SUFFICES ASSUME InputInv, family = "databases" PROVE DiscoveryAgrees
    BY DEF DiscoveryAgrees
  <2>1. input \in Databases
    BY DEF InputInv, Families
  <2> DEFINE db == input.relations
  <2>2. Discoverable(db)
    BY <2>1, ReportAssumption
  <2> DEFINE listed == Meta!FirebirdTablesInitGlobal(db)
             names == {row.table_name : row \in Range(listed)}
             statements == Meta!FirebirdAttachInitGlobal(db, "fb")
             dbt == Meta!CollectTableMetadata(db)
             relation(name) == CHOOSE r \in Range(db) : r.name = name
             Lists == /\ Len(listed) = Cardinality(names)
                      /\ FlattenSeq(Meta!Emitted(statements)) = statements
                      /\ \A chunk \in Range(Meta!Emitted(statements)) : Len(chunk) \in 1..STANDARD_VECTOR_SIZE
                      /\ [i \in DOMAIN listed |-> listed[i].table_name]
                           = [i \in 1..Len(statements) - 1 |-> statements[i + 1].name]
             Found == /\ \A row \in Range(listed) :
                           /\ Len(Meta!LookupEntry(db, row.table_name)) = 1
                           /\ row.has_pk <=> row.pk_columns # {}
                      /\ {e.name : e \in Range(Meta!AttachedEntries(db))} \subseteq names
             Sources == dbt # Meta!Thrown =>
                          \A table \in Range(dbt.tables) :
                            /\ table.name \in names /\ Meta!LookupEntry(db, table.name) # << >>
                            /\ \A c \in table.unique : c \in table.columns /\ relation(table.name).pk = <<c>>
  <2>3. Lists /\ Found /\ Sources => DiscoveryAgrees
    BY Zenon DEF DiscoveryAgrees
  <2> HIDE DEF db
  <2>4. Lists
    BY <2>2, ListsAgree, Zenon
  <2>5. Found
    BY <2>2, ListedAreFound, Zenon
  <2>6. Sources
    BY ONLY <2>2, SourcesAre
  <2> QED BY <2>3, <2>4, <2>5, <2>6
<1> QED BY <1>1, Inputs, PTL
=============================================================================
