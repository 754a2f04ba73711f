-------------------------- MODULE MCFilterPushdown --------------------------
(* Queries of one and two filters for the model checking of FilterPushdown:*)
(* every shape on a column of every kind that treats it differently.       *)
EXTENDS FilterPushdown, TLC

Col(sqltype) == [sqltype |-> sqltype, charset_none |-> FALSE]
NoneCol(sqltype) == [Col(sqltype) EXCEPT !.charset_none = TRUE]
Integer == Col("INTEGER")
Bool == Col("BOOLEAN")
Timestamp == Col("TIMESTAMP")
TimeTz == Col("TIMESTAMP_TZ")
Decfloat == Col("DECFLOAT")
Varchar == Col("VARYING")
NoneVarchar == NoneCol("VARYING")
NoneBlob == NoneCol("BLOB_TEXT")

\* Texts: a, e acute, euro sign, a Cyrillic letter; 1.0 and 1.00; a\ and a.
a == <<97>>
e_acute == <<233>>
euro == <<8364>>
zhe == <<1046>>
one_0 == <<49, 46, 48>>
one_00 == <<49, 46, 48, 48>>
AllNumber == one_0 :> 1 @@ one_00 :> 1

\* Stored in a NONE column: a, e acute, euro sign in Windows-1252, and the
\* UTF-8 of e acute.
NoneBytes == {a, e_acute, <<128>>, <<195, 169>>}
AllCells ==
  (RowId :> {Null} @@ Integer :> {Null, 1, 2} @@ Bool :> {Null, TRUE, FALSE}
   @@ Timestamp :> {Null, 100, 200} @@ TimeTz :> {Null, 1, 2} @@ Decfloat :> {Null, one_0, one_00}
   @@ Varchar :> {Null, a, <<195, 169>>, <<97, 92, 97>>, <<97, 97>>}
   @@ NoneVarchar :> {Null} \cup NoneBytes @@ NoneBlob :> {Null} \cup NoneBytes)

C(type, v) == [type |-> type, v |-> v]
Text(v) == C("VARCHAR", v)
Big(v) == C("BIGINT", v)
Micros(v) == C("TIMESTAMP", v)
Tz(v) == C("TIMESTAMP WITH TIME ZONE", v)
Pattern(wild, texts, escaped) ==
  C("PATTERN", [leading_wildcard |-> wild, matches |-> texts, escaped |-> escaped])

L(kind, op, cs) == [kind |-> kind, op |-> op, flipped |-> FALSE, values |-> cs]
Cmp(op, c) == L("cmp", op, <<c>>)
One(col, leaf, via) == [col |-> col, conj |-> "leaf", parts |-> <<leaf>>, via |-> via]
And(col, parts) == [col |-> col, conj |-> "and", parts |-> parts, via |-> "table"]
Or(col, parts) == [And(col, parts) EXCEPT !.conj = "or"]
NotNull == L("is_not_null", "=", <<>>)
Other(cs) == L("other", "=", cs)

Numeric ==
  {One(Integer, Cmp("=", Big(1)), "table"), One(Integer, Cmp("<", C("DECIMAL", 2)), "table"),
   One(Integer, Cmp("=", Big(Null)), "table"),
   One(Integer, L("in", "=", <<Big(1), C("DECIMAL", 2)>>), "optional"),
   One(Integer, L("in", "=", <<Big(1), Big(Null)>>), "optional"),
   One(Integer, L("in", "=", <<>>), "table"),
   One(Integer, L("not_in", "=", <<Big(2), Big(1)>>), "plan"),
   One(Integer, L("not_in", "=", <<Big(2), Big(Null)>>), "plan"),
   And(Integer, <<NotNull, Cmp(">", Big(1))>>), Or(Integer, <<Cmp("<", Big(2)), L("is_null", "=", <<>>)>>),
   \* a dynamic filter of a Top-N, merged with the filter of the query
   And(Integer, <<Cmp("<>", Big(1)), Other(<<Big(2)>>)>>),
   Or(Integer, <<Cmp("=", Big(2)), Other(<<Big(1)>>)>>),
   One(Integer, Other(<<Big(1)>>), "plan")}
Flipped ==
  {One(Integer, [Cmp(op, Big(1)) EXCEPT !.flipped = TRUE], "table") : op \in {"<", "<>"}}
Others ==
  {One(Bool, L("not_bool", "=", <<>>), "plan"), One(Bool, Cmp("=", C("BOOLEAN", TRUE)), "table"),
   One(TimeTz, Cmp("=", Tz(1)), "table"), One(TimeTz, NotNull, "table"),
   One(TimeTz, L("in", "=", <<Tz(1)>>), "optional"),
   One(Timestamp, Cmp("<", Micros(200)), "table"),
   One(Decfloat, Cmp("=", Text(one_0)), "table"),
   One(Decfloat, L("not_in", "=", <<Text(one_00)>>), "plan"),
   One(RowId, Cmp("=", Big(1)), "table"), One(RowId, L("not_in", "=", <<Big(1)>>), "plan"),
   One(Varchar, Cmp("=", Text(e_acute)), "table"),
   One(Varchar, L("like", "=", <<Pattern(FALSE, {a, <<97, 97>>}, {a, <<97, 97>>})>>), "plan"),
   One(Varchar, L("like", "=", <<Pattern(TRUE, {a, e_acute}, {a, e_acute})>>), "plan")}
NoneText ==
  {One(NoneVarchar, Cmp("=", Text(e_acute)), "table"), One(NoneVarchar, Cmp("=", Text(euro)), "table"),
   One(NoneVarchar, L("in", "=", <<Text(a), Text(zhe)>>), "optional"),
   One(NoneVarchar, L("in", "=", <<Text(a), Text(e_acute)>>), "optional"),
   One(NoneVarchar, L("not_in", "=", <<Text(e_acute)>>), "plan"),
   One(NoneVarchar, L("like", "=", <<Pattern(FALSE, {a, e_acute}, {a, e_acute})>>), "plan"),
   One(NoneBlob, Cmp("=", Text(e_acute)), "table"), One(NoneBlob, NotNull, "table")}
NoneBinary == {One(NoneVarchar, Cmp("=", C("BLOB", e_acute)), "table")}

Plan(fs, mode, opt_in, v2) ==
  [filters |-> fs, none_encoding |-> mode, none_pushdown |-> opt_in, v2 |-> v2]
Of(S) == {<<x>> : x \in S} \cup (S \X S)
AllQueries ==
  {Plan(fs, mode, opt_in, v2) : fs \in Of(Numeric \cup Others \cup NoneText),
     mode \in NoneEncoding \ {"BLOB"}, opt_in \in BOOLEAN, v2 \in BOOLEAN}
  \cup {Plan(fs, "BLOB", TRUE, TRUE) : fs \in Of(Flipped \cup NoneBinary)}

\* The scan is relied on for a comparison with a TIMESTAMP WITH TIME ZONE.
TimeTzQueries ==
  {Plan(<<One(TimeTz, Cmp("=", Tz(1)), "table"), p>>, "WIN1252", FALSE, TRUE) :
     p \in Numeric \cup {q \in Others : q.col # RowId}}

\* A TIMESTAMP constant between two ticks of Firebird's clock.
TickQueries ==
  {Plan(<<One(Timestamp, Cmp(op, Micros(150)), "table"), p>>, "WIN1252", FALSE, TRUE) :
     op \in {"=", "<"}, p \in Numeric \cup Others}

\* LIKE 'a\_a%': in DuckDB the backslash is a character like any other.
Backslash == Pattern(FALSE, {<<97, 92, 97, 97>>, <<97, 92, 97>>}, {<<97, 95, 97>>})
BackslashQueries ==
  {Plan(<<One(Varchar, L("like", "=", <<Backslash>>), "plan"), p>>, "WIN1252", FALSE, TRUE) :
     p \in Numeric \cup Others}

AllFilters == {q.filters[1] : q \in TickQueries} \cup Numeric \cup Flipped \cup Others \cup NoneText \cup NoneBinary
               \cup {One(Varchar, L("like", "=", <<Backslash>>), "plan")}
AllConstants ==
  UNION {UNION {{p.parts[i].values[k] : k \in 1..Len(p.parts[i].values)} : i \in 1..Len(p.parts)} :
           p \in AllFilters}
=============================================================================
