---------------------------- MODULE MCFunctions -----------------------------
(* Small families of inputs for the model checking of PureFunctions.       *)
EXTENDS PureFunctions

CONSTANTS ReadBytes, MaxLength   \* the byte strings read as UTF-8

\* Integers of 5, 8, 11 and 15 bits that stand for 2, 4, 8 and 16 bytes.
ScaledBits == [bytes \in {2, 4, 8, 16} |-> CASE bytes = 2 -> 5 [] bytes = 4 -> 8 [] bytes = 8 -> 11 [] OTHER -> 15]
ScaledDigits == [bytes \in {2, 4, 8, 16} |-> CASE bytes = 2 -> 1 [] bytes = 4 -> 2 [] bytes = 8 -> 3 [] OTHER -> 4]
SomeScales == {-16, -4, -3, -1, 0, 1}
SomeDays == -800..800
SomeMicros == 0..799
SomeCodePoints == 0..1200 \cup {8216 + i : i \in 0..40} \cup {8364, 8482, 55295, 57344, 65533}
ShortStrings == UNION {[1..n -> ReadBytes] : n \in 0..MaxLength}
ThreeNames == [name \in {"T", "U", "t"} |-> IF name = "t" THEN "T" ELSE name]
TwoSymbols == <<"isc_attach_database", "fb_interpret">>
TwoCandidates == <<"so.2", "so">>

\* A view: code, one literal or comment, code.  Words end at white space.
Code == {<<>>, <<"x">>, <<" ", "JOIN", " ">>, <<" ", "GROUP", "\n">>, <<"BY", " ">>,
         <<" ", "SUM", " ">>, <<"(", "x">>, <<"\n", "WHERE", " ", "-">>}
Bodies == UNION {[1..n -> {"'", "-", "/", "*", "\n", "JOIN", " "}] : n \in 0..3}
Noise == {p \in [kind : {"literal", "line", "block"}, body : Bodies] : View!WellFormed(p)}
Piece(code) == [kind |-> "code", body |-> code]
SomeViews == {[pieces |-> <<Piece(before), noise, Piece(after)>>] : before \in Code, noise \in Noise, after \in Code}

\* What a user writes, the form, and an explicit option.
Chars == DOMAIN Text!Hex \cup {"x"}
SomeSettings ==
  {s \in [written : [user : {Text!Absent, <<>>, <<"x">>, <<":">>, <<"@">>, <<"%">>},
                     password : {Text!Absent} \cup UNION {[1..n -> Chars] : n \in 0..2},
                     role : {Text!Absent, <<>>, <<"=">>, <<"&">>, <<"+">>, <<"x">>}],
          form : {"url", "url, minimal escapes", "pairs"},
          option : {Text!Absent, <<"o">>}, host : {"none", "name", "ipv6"}] :
     IF s.form = "pairs" THEN Text!InPairs(s.written) ELSE Text!InUrl(s.written)}

\* A relation and up to two queries that fail.
AtMostTwo(S) == {{}} \cup {{a, b} : a \in S, b \in S}
Ranges == {<<0, 0, 0>>, <<1, 1, 1>>, <<1, 2, 2>>, <<1, 8, 3>>, <<-IntMax, IntMax, 5>>, <<-IntMax - 1, IntMax - 1, 2>>, <<-IntMax - 1, IntMax, 4>>}
NoView == [has_join |-> FALSE, has_group_by |-> FALSE, has_aggregate |-> FALSE, has_where |-> FALSE]
Relation(kind, pk, k, c, index, range, view) ==
  [kind |-> kind, pk |-> pk, type |-> [column \in {"K", "C"} |-> IF column = "K" THEN k ELSE c],
   index |-> index, lo |-> range[1], hi |-> range[2], rows |-> range[3], view |-> view]
Tables ==
  {Relation("TABLE", pk, k, c, index, range, NoView) :
     pk \in {<<>>, <<"K">>, <<"K", "C">>}, k \in {"INTEGER", "INT128", "VARCHAR"},
     c \in {"DATE", "NONE_TEXT", "DOUBLE"}, index \in {"none", "column", "inactive", "expression"}, range \in Ranges}
ReportedViews ==
  {Relation("VIEW", <<>>, "INTEGER", "NONE_TEXT", "none", <<0, 0, 4>>, view) :
     view \in [has_join : BOOLEAN, has_group_by : BOOLEAN, has_aggregate : BOOLEAN, has_where : BOOLEAN]}
Missing == {Relation("MISSING", <<>>, "INTEGER", "DATE", "none", <<0, 0, 0>>, NoView)}
SomeReports ==
  [relation : Tables, exact : BOOLEAN,
   failing : AtMostTwo({"type", "schema", "indexes", "PK", "IX", "probe", "count", "constraints"})]
  \cup [relation : ReportedViews \cup Missing, exact : BOOLEAN, failing : AtMostTwo({"type", "schema", "source"})]

\* Databases of up to three relations, two of whose names differ in case only.
Keyed == {[columns |-> <<"K", "C">>, pk |-> <<>>], [columns |-> <<"K", "C">>, pk |-> <<"K">>],
          [columns |-> <<"K", "C">>, pk |-> <<"K", "C">>], [columns |-> <<"C">>, pk |-> <<"C">>]}
Discovered(name) ==
  {<<>>} \cup {<<[name |-> name, type |-> type, columns |-> k.columns, pk |-> k.pk]>> :
               type \in {Meta!NullType, 0, 1, 2, 3, 5}, k \in Keyed}
SomeDatabases == {[relations |-> t \o u \o lower] :
                t \in Discovered("T"), u \in Discovered("U"), lower \in Discovered("t")}
SomeServers ==
  {s \in [charset : {"UTF8", "NONE"}, mon : {"row", "no row", "query fails", "broken attach"},
          page_type : {"SQL_SHORT", "SQL_LONG"}, page_size : {8, 16},
          next : {4}, oit : 0..4, oat : 0..4, sweep : {0, 1}, forced : BOOLEAN] :
     s.oit <= s.oat /\ (s.page_type = "SQL_SHORT" => s.page_size = 8)}
SomeGenerators ==
  [generators : {<<>>} \cup {<<[name |-> "G", value |-> v], [name |-> "H", value |-> w]>> : v, w \in {0, 7}},
   failing : AtMostTwo({"list", "G", "H"})]

\* Two calls of fbapi(), with the libraries as they are at each: absent, a
\* build without the second symbol, or whole.
Libraries ==
  LET has(lib, state) ==
        IF state = "absent" THEN <<>> ELSE lib :> IF state = "old" THEN {"isc_attach_database"}
                                                  ELSE {"isc_attach_database", "fb_interpret"}
  IN {has("so.2", a) @@ has("so", b) @@ has("custom", c) :
        a \in {"absent", "old", "whole"}, b \in {"absent", "whole"}, c \in {"absent", "old", "whole"}}
Worlds == [env : {Library!NoEnv, "custom"}, libraries : Libraries]
TwoCalls == [worlds : [1..2 -> Worlds]]
=============================================================================
