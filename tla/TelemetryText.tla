---------------------------- MODULE TelemetryText ----------------------------
(* What firebird_last_query() and its like show of a pushed statement whose *)
(* literals were re-encoded for a NONE column: DuckDB takes no VARCHAR that *)
(* is not UTF-8, so other bytes are escaped (MakeTelemetrySafeUtf8).        *)
EXTENDS NoneCharset, SequencesExt

HexDigits == <<48, 49, 50, 51, 52, 53, 54, 55, 56, 57, 65, 66, 67, 68, 69, 70>>
\* Backslash, x, two digits.
EscapedByte(b) == <<92, 120, HexDigits[b \div 16 + 1], HexDigits[(b % 16) + 1]>>

\* A sequence that is copied; kMinCp[1] is 1, so a NUL is not.
Safe(s, pos, len) == len > 0 /\ Continues(s, pos, len) /\ Scalar(Sequence(s, pos, len), len)
                     /\ Sequence(s, pos, len) # 0

\* A fault: an escaped lead byte takes its continuation bytes with it.
SkippedWhole(len) == IF len = 0 THEN 1 ELSE len
\* An invalid sequence is escaped one byte at a time.
Skipped(len) == 1

MakeTelemetrySafeUtf8(in) ==
  LET from[pos \in 1..Len(in) + 4] ==
        IF pos > Len(in) THEN <<>>
        ELSE LET len == Lead(in[pos]) IN
             IF Safe(in, pos, len) THEN SubSeq(in, pos, pos + len - 1) \o from[pos + len]
             ELSE EscapedByte(in[pos]) \o from[pos + Skipped(len)]
  IN IF \A i \in DOMAIN in : in[i] < 128 THEN in ELSE from[1]

\* What a reader gets back by resolving the escapes, in a text without "\".
Unescaped(text) ==
  LET digit(d) == CHOOSE i \in 0..15 : HexDigits[i + 1] = d
      from[pos \in 1..Len(text) + 4] ==
        IF pos > Len(text) THEN <<>>
        ELSE IF text[pos] = 92
             THEN <<digit(text[pos + 2]) * 16 + digit(text[pos + 3])>> \o from[pos + 4]
             ELSE <<text[pos]>> \o from[pos + 1]
  IN from[1]
=============================================================================
