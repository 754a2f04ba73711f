-------------------------- MODULE ConnectionString --------------------------
(* Where a connection's settings come from: the three accepted forms of the *)
(* connection string (FirebirdConnectionInfo::Parse), then the named        *)
(* parameters of firebird_scan or the options of ATTACH, over the defaults. *)
(* A text is a sequence of characters; a key is one character of its own.   *)
EXTENDS Integers, Sequences, SequencesExt

\* charset, dialect, none_encoding and none_pushdown are assigned like role.
Keys == {"user", "password", "role"}
\* The characters that mean something to some form, with their hex digits.
Hex == [c \in {":", "@", "/", "?", "&", "=", "%", "+", ";", " "} |->
  CASE c = ":" -> <<"3", "A">> [] c = "@" -> <<"4", "0">> [] c = "/" -> <<"2", "F">>
    [] c = "?" -> <<"3", "F">> [] c = "&" -> <<"2", "6">> [] c = "=" -> <<"3", "D">>
    [] c = "%" -> <<"2", "5">> [] c = "+" -> <<"2", "B">> [] c = ";" -> <<"3", "B">>
    [] c = " " -> <<"2", "0">>]
\* strtol, which makes a NUL of what is no number.
FromHex(pair) ==
  IF \E c \in DOMAIN Hex : Hex[c] = pair THEN CHOOSE c \in DOMAIN Hex : Hex[c] = pair ELSE "NUL"

Position(s, c) == SelectInSeq(s, LAMBDA x : x = c)
LastPosition(s, c) == SelectLastInSeq(s, LAMBDA x : x = c)
Before(s, i) == IF i = 0 THEN s ELSE SubSeq(s, 1, i - 1)
After(s, i) == IF i = 0 THEN <<>> ELSE SubSeq(s, i + 1, Len(s))

\* A fault: the bound keeps an escape at the end of the text as it is.
UrlDecodeShort(s) ==
  LET from[i \in 1..Len(s) + 3] ==
        IF i > Len(s) THEN <<>>
        ELSE IF s[i] = "%" /\ i + 2 < Len(s) THEN <<FromHex(SubSeq(s, i + 1, i + 2))>> \o from[i + 3]
        ELSE <<IF s[i] = "+" THEN " " ELSE s[i]>> \o from[i + 1]
  IN from[1]
UrlDecode(s) ==
  LET from[i \in 1..Len(s) + 3] ==
        IF i > Len(s) THEN <<>>
        ELSE IF s[i] = "%" /\ i + 2 <= Len(s) THEN <<FromHex(SubSeq(s, i + 1, i + 2))>> \o from[i + 3]
        ELSE <<IF s[i] = "+" THEN " " ELSE s[i]>> \o from[i + 1]
  IN from[1]

\* std::getline with a separator.
Pieces(s, sep) ==
  LET from[i \in 1..Len(s) + 1] ==   \* the pieces of s[i..]
        LET rest == SubSeq(s, i, Len(s))
            end == Position(rest, sep)
        IN IF rest = <<>> THEN <<>>
           ELSE IF end = 0 THEN <<rest>>
           ELSE <<Before(rest, end)>> \o from[i + end]
  IN from[1]

TrimKey(key) ==
  LET first == SelectInSeq(key, LAMBDA c : c # " ") IN IF first = 0 THEN <<>> ELSE SubSeq(key, first, Len(key))
TrimValue(val) == SubSeq(val, 1, SelectLastInSeq(val, LAMBDA c : c # " "))

\* One option of the string: an unknown key, or no "=" at all, is ignored.
Assign(info, known, key, val) ==
  IF Len(key) = 1 /\ key[1] \in known THEN [info EXCEPT ![key[1]] = val] ELSE info
SetFromUrl(info, kv) ==
  LET eq == Position(kv, "=") IN
  IF eq = 0 THEN info ELSE Assign(info, Keys, Before(kv, eq), UrlDecode(After(kv, eq)))
SetFromPair(info, kv) ==
  LET eq == Position(kv, "=") IN
  IF eq = 0 THEN info ELSE Assign(info, Keys \cup {"database"}, TrimKey(Before(kv, eq)), TrimValue(After(kv, eq)))

Defaults == [user |-> <<"SYSDBA">>, password |-> <<"masterkey">>, role |-> <<>>, database |-> <<>>]

UserInfo(info, userinfo) ==
  LET colon == Position(userinfo, ":") IN
  IF userinfo = <<>> THEN info
  ELSE IF colon = 0 THEN [info EXCEPT !.user = UrlDecode(userinfo)]
  ELSE [info EXCEPT !.user = UrlDecode(Before(userinfo, colon)),
                    !.password = UrlDecode(After(userinfo, colon))]

\* host[:port]/path becomes host[/port]:/path; a "]" ends a literal IPv6
\* address, whose colons are no port.
Database(address) ==
  LET slash == Position(address, "/")
      host == Before(address, slash)
      path == IF slash = 0 THEN <<>> ELSE SubSeq(address, slash, Len(address))
      port == LastPosition(host, ":")
  IN IF host = <<>> THEN path
     ELSE IF port = 0 \/ "]" \in Range(host) THEN host \o <<":">> \o path
     ELSE Before(host, port) \o <<"/">> \o After(host, port) \o <<":">> \o path

ParseUrl(rest) ==
  LET q == Position(rest, "?")
      at == Position(Before(rest, q), "@")
      address == IF at = 0 THEN Before(rest, q) ELSE After(Before(rest, q), at)
      info == UserInfo([Defaults EXCEPT !.database = Database(address)],
                       IF at = 0 THEN <<>> ELSE Before(rest, at))
  IN FoldLeft(SetFromUrl, info, Pieces(After(rest, q), "&"))

ParsePairs(s) == FoldLeft(SetFromPair, Defaults, Pieces(s, ";"))

Parse(s) ==
  IF s[1] = "firebird://" THEN ParseUrl(Tail(s))
  ELSE IF Position(s, "=") > 0 /\ Position(s, ";") > 0 THEN ParsePairs(s)
  ELSE [Defaults EXCEPT !.database = s]

\* BuildConnectionInfo, FirebirdScanBind: a given option replaces a parsed one.
Absent == <<"absent">>
Override(info, options) ==
  [k \in DOMAIN info |-> IF k \in DOMAIN options /\ options[k] # Absent THEN options[k] ELSE info[k]]

-----------------------------------------------------------------------------
(* What a user writes to say the same in either form.                       *)

Escaped(text, raw) ==
  FlattenSeq([i \in DOMAIN text |->
    IF text[i] \in DOMAIN Hex \ raw THEN <<"%">> \o Hex[text[i]] ELSE <<text[i]>>])
Pair(key, text) == <<key, "=">> \o text

WriteUrl(w, address, rawUser, rawOption) ==
  <<"firebird://">>
  \o (IF w.user = Absent THEN <<>>
      ELSE Escaped(w.user, {}) \o (IF w.password = Absent THEN <<>> ELSE <<":">> \o Escaped(w.password, rawUser)) \o <<"@">>)
  \o address
  \o (IF w.role = Absent THEN <<>> ELSE <<"?", "x", "&">> \o Pair("role", Escaped(w.role, rawOption)))

WritePairs(w, database) ==
  Pair("database", database)
  \o FlattenSeq([i \in 1..3 |->
       LET key == <<"user", "password", "role">>[i] IN
       IF w[key] = Absent THEN <<";">> ELSE <<";", " ">> \o Pair(key, w[key])])

\* An empty userinfo means the defaults; a pair ends at ";" and is trimmed.
InUrl(w) == /\ w.user = Absent => w.password = Absent
            /\ ~(w.user = <<>> /\ w.password = Absent)
InPairs(w) ==
  \A key \in Keys : \/ w[key] = Absent
                    \/ ";" \notin Range(w[key]) /\ (w[key] # <<>> => Last(w[key]) # " ")
=============================================================================
