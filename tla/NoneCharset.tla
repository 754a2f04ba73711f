----------------------------- MODULE NoneCharset -----------------------------
(***************************************************************************)
(* Text of CHARACTER SET NONE columns: how stored bytes become DuckDB's    *)
(* UTF-8 (src/src/firebird_types.cpp) and how a literal is turned back     *)
(* into stored bytes (src/src/firebird_scanner.cpp).                       *)
(*                                                                         *)
(* A text is a sequence of code points, its encodings are sequences of     *)
(* bytes.  The two directions use two separate tables in the code, and so  *)
(* they do here.                                                           *)
(***************************************************************************)
EXTENDS Integers, Sequences

Byte == 0..255

\* The code points that UTF-8 writes in up to three bytes, and texts of them.
Bmp == {cp \in Nat : cp < 65536}
BmpText == Seq(Bmp)

\* Sequences, one after the other.
Joined(seqs) ==
  LET upto[n \in Nat] == IF n = 0 THEN << >> ELSE upto[n - 1] \o seqs[n]
  IN  upto[Len(seqs)]

NoneEncoding == {"STRICT", "WIN1252", "ISO_8859_1", "BLOB"}

-----------------------------------------------------------------------------
(* From stored bytes to UTF-8                                              *)

\* MAP: the bytes 0x80..0x9F in Windows-1252; five of them stay as they are.
Cp1252High ==
  <<8364, 129, 8218, 402, 8222, 8230, 8224, 8225, 710, 8240, 352, 8249, 338, 141, 381, 143,
    144, 8216, 8217, 8220, 8221, 8226, 8211, 8212, 732, 8482, 353, 8250, 339, 157, 382, 376>>

CodePoint(mode, b) ==
  IF mode = "WIN1252" /\ b \in 128..159 THEN Cp1252High[b - 127] ELSE b

\* AppendUtf8: no code point of a single-byte encoding needs four bytes.
AppendUtf8(cp) ==
  IF cp < 128 THEN <<cp>>
  ELSE IF cp < 2048 THEN <<192 + cp \div 64, 128 + (cp % 64)>>
  ELSE <<224 + cp \div 4096, 128 + ((cp \div 64) % 64), 128 + (cp % 64)>>

Utf8(text) == Joined([i \in 1..Len(text) |-> AppendUtf8(text[i])])

\* TranscodeNoneCharset.  STRICT lets only valid UTF-8 pass, BLOB everything.
Transcode(mode, raw) ==
  IF mode \in {"WIN1252", "ISO_8859_1"}
  THEN Utf8([i \in 1..Len(raw) |-> CodePoint(mode, raw[i])])
  ELSE raw

-----------------------------------------------------------------------------
(* Valid UTF-8, as IsValidUtf8 (in the value mapping) and the decoder of   *)
(* literals see it.                                                        *)

Lead(b) == CASE b < 128 -> 1 [] b \in 192..223 -> 2 [] b \in 224..239 -> 3
             [] b \in 240..247 -> 4 [] OTHER -> 0
MinCp == <<0, 128, 2048, 65536>>
Scalar(cp, len) ==
  /\ cp >= MinCp[len] /\ cp <= 1114111   \* no overlong form, at most 0x10FFFF
  /\ cp \notin 55296..57343              \* no surrogate

Payload(b, len) == CASE len = 1 -> b [] len = 2 -> b % 32 [] len = 3 -> b % 16 [] len = 4 -> b % 8
Continues(s, pos, len) ==
  /\ pos + len - 1 <= Len(s)
  /\ \A i \in (pos + 1)..(pos + len - 1) : s[i] \in 128..191
Sequence(s, pos, len) ==
  LET cp[n \in 1..len] ==
        IF n = 1 THEN Payload(s[pos], len) ELSE cp[n - 1] * 64 + (s[pos + n - 1] % 64)
  IN  cp[len]

\* The length of the sequence at pos, 0 if it is malformed.
DecodeUtf8Codepoint(s, pos) ==
  LET len == Lead(s[pos]) IN
  IF len > 0 /\ Continues(s, pos, len) /\ Scalar(Sequence(s, pos, len), len)
  THEN len ELSE 0

\* The loop of TryEncodeNoneLiteral: the code points, or Malformed.
Malformed == <<-1>>
DecodeUtf8(s) ==
  LET From[pos \in 1..(Len(s) + 1)] ==
        IF pos > Len(s) THEN <<>>
        ELSE LET len == DecodeUtf8Codepoint(s, pos) IN
             IF len = 0 \/ From[pos + len] = Malformed THEN Malformed
             ELSE <<Sequence(s, pos, len)>> \o From[pos + len]
  IN From[1]

IsValidUtf8(s) ==
  LET Valid[p \in 1..(Len(s) + 1)] ==
        IF p > Len(s) THEN TRUE
        ELSE LET want == Lead(s[p]) - 1 IN
             \/ want = 0 /\ Valid[p + 1]
             \/ /\ want \in 1..3
                /\ p + 1 + want <= Len(s) + 1
                /\ \A i \in 1..want : s[p + i] \in 128..191
                /\ Scalar(Sequence(s, p, want + 1), want + 1)
                /\ Valid[p + 1 + want]
  IN Valid[1]

-----------------------------------------------------------------------------
(* From a literal to the stored bytes (TryEncodeNoneLiteral)               *)

\* kWin1252Special: byte and code point.
Win1252Special ==
  {<<128, 8364>>, <<130, 8218>>, <<131, 402>>, <<132, 8222>>, <<133, 8230>>, <<134, 8224>>,
   <<135, 8225>>, <<136, 710>>, <<137, 8240>>, <<138, 352>>, <<139, 8249>>, <<140, 338>>,
   <<142, 381>>, <<145, 8216>>, <<146, 8217>>, <<147, 8220>>, <<148, 8221>>, <<149, 8226>>,
   <<150, 8211>>, <<151, 8212>>, <<152, 732>>, <<153, 8482>>, <<154, 353>>, <<155, 8250>>,
   <<156, 339>>, <<158, 382>>, <<159, 376>>}

\* Fault: Windows-1252 is taken for Latin-1 beyond its table.
EncodeCodePointLatin(mode, cp) ==
  {b \in Byte : b = cp} \cup {sp[1] : sp \in {s \in Win1252Special : mode = "WIN1252" /\ s[2] = cp}}

\* The bytes a code point may become: one, or none.
EncodeCodePoint(mode, cp) ==
  IF mode = "ISO_8859_1" THEN {b \in Byte : b = cp}
  ELSE {b \in Byte : b = cp /\ (b < 128 \/ b >= 160)}
       \cup {sp[1] : sp \in {s \in Win1252Special : s[2] = cp}}

Encodable(mode, text) == \A i \in 1..Len(text) : EncodeCodePoint(mode, text[i]) # {}
Encode(mode, text) ==
  [i \in 1..Len(text) |-> CHOOSE b \in EncodeCodePoint(mode, text[i]) : TRUE]
=============================================================================
