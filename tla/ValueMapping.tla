---------------------------- MODULE ValueMapping ----------------------------
(* The value of a column on its way out of Firebird (firebird_types.cpp:    *)
(* the type chosen at bind, the element written at fetch) and of a constant *)
(* on its way in (BindInputParameters), with the widths of the integers.    *)
(* The widths are scaled down: Bits[n] and Digits[n] stand for the bits of  *)
(* an integer of n bytes and for the digits DECIMAL is given on it.         *)
EXTENDS Integers, Sequences

CONSTANTS Bits, Digits

Bytes == {2, 4, 8, 16}

\* A DuckDB type: its name, and for a DECIMAL the width and scale.
Plain(name) == [name |-> name, width |-> 0, scale |-> 0]
Decimal(width, scale) == [name |-> "DECIMAL", width |-> width, scale |-> scale]

PlainInteger(bytes) ==
  Plain(CASE bytes = 2 -> "SMALLINT" [] bytes = 4 -> "INTEGER" [] OTHER -> "BIGINT")

DecimalWidth(bytes, widen_int64) == IF bytes = 8 /\ widen_int64 THEN Digits[16] ELSE Digits[bytes]

ScaledIntegerToDecimal(bytes, sqlscale, widen_int64) ==
  LET scale == -sqlscale
      width == DecimalWidth(bytes, widen_int64)
  IN IF sqlscale = 0 THEN PlainInteger(bytes)
     ELSE IF scale < 0 \/ scale > width THEN Plain("DOUBLE")
     ELSE Decimal(width, scale)

Int128Type(sqlscale) ==
  IF sqlscale = 0 THEN Plain("HUGEINT")
  ELSE IF -sqlscale > Digits[16] THEN Plain("DOUBLE")
  ELSE Decimal(Digits[16], -sqlscale)

\* FirebirdToDuckDBType of the exact numerics.
FirebirdToDuckDBType(col, widen_int64) ==
  IF col.bytes = 16 THEN Int128Type(col.sqlscale)
  ELSE ScaledIntegerToDecimal(col.bytes, col.sqlscale, widen_int64 /\ col.bytes = 8)

\* PhysicalType: the element of a DuckDB vector of that type, in bytes.
InternalBytes(type) ==
  CASE type.name = "SMALLINT" -> 2
    [] type.name = "INTEGER" -> 4
    [] type.name \in {"BIGINT", "DOUBLE"} -> 8
    [] type.name = "HUGEINT" -> 16
    [] OTHER -> CHOOSE n \in Bytes :
         /\ type.width <= Digits[n]
         /\ \A m \in Bytes : type.width <= Digits[m] => n <= m

\* FirebirdAppendValue: the element it writes for a value of col.bytes bytes.
AppendedBytesUnwidened(col, type) == col.bytes
AppendedBytes(col, type) ==
  IF col.bytes = 8 /\ type.name = "DECIMAL" /\ InternalBytes(type) = 16 THEN 16 ELSE col.bytes

\* ReconcileViewColumnTypes: a view is scanned with the types of its live
\* description, not with those its catalog rows were frozen with.
Declared(col, frozen, is_view) == IF is_view THEN col ELSE frozen

\* A DECIMAL of width digits holds no more than its digits.
Holds(type, v) == type.name = "DECIMAL" => v < 10 ^ type.width /\ -v < 10 ^ type.width
IntRange(bytes) == -(2 ^ (Bits[bytes] - 1))..(2 ^ (Bits[bytes] - 1) - 1)

\* firebird_type_audit of the exact numerics: the findings it has for a column,
\* with the type it says the default projection is.
TypeAudit(col) ==
  CASE col.bytes = 8 /\ col.sqlscale # 0 ->
         {[duckdb_type |-> Decimal(Digits[8], -col.sqlscale), finding |-> "int64_numeric_widenable"]}
    [] col.bytes = 16 /\ col.sqlscale = 0 ->
         {[duckdb_type |-> Plain("HUGEINT"), finding |-> "int128"]}
    [] OTHER -> {}

-----------------------------------------------------------------------------
(* Dates and times: days since 1858-11-17 and ticks of 1/10000 s here, days *)
(* since 1970-01-01 and microseconds there.                                 *)

\* Date::FromDate: days of the proleptic Gregorian calendar since 1970-01-01.
FromDate(y, m, d) ==
  LET yy == IF m <= 2 THEN y - 1 ELSE y
      mm == (m + 9) % 12
  IN 365 * yy + yy \div 4 - yy \div 100 + yy \div 400 + (153 * mm + 2) \div 5 + d - 1 - 719468
MJD_EPOCH_TO_UNIX_EPOCH_DAYS == 40587
MicrosPerTick == 100

\* FirebirdAppendValue and BindInputParameters.
DayOut(date) == FromDate(1858, 11, 17) + date
DayIn(days) == days + MJD_EPOCH_TO_UNIX_EPOCH_DAYS
TimeOut(ticks) == ticks * MicrosPerTick
TimeIn(micros) == micros \div MicrosPerTick

-----------------------------------------------------------------------------
(* The length of a text parameter: an unsigned prefix in the buffer and the *)
(* signed sqllen of its XSQLVAR, both of two bytes.                         *)

Short(n) == LET m == n % 2 ^ Bits[2] IN IF m < 2 ^ (Bits[2] - 1) THEN m ELSE m - 2 ^ Bits[2]
UShort(n) == n % 2 ^ Bits[2]
VaryingParam(n) == [prefix |-> UShort(n), sqllen |-> Short(n)]
\* The library refuses a negative length.
Refused(param) == param.sqllen < 0
=============================================================================
