--------------------------- MODULE FilterPushdown ----------------------------
(***************************************************************************)
(* What becomes of the filters of a query (src/src/firebird_query.cpp and  *)
(* firebird_scanner.cpp).  The planner offers them to                      *)
(* FirebirdScanPushdownComplexFilter, which moves some into the remote SQL *)
(* and removes them from the plan; DuckDB turns some of the rest into the  *)
(* scan's TableFilterSet, which FirebirdQueryBuilder::Build translates or  *)
(* calls residual; OpenNextPartitionCursor puts the WHERE clause and its   *)
(* parameters together.                                                    *)
(*                                                                         *)
(* The WHERE clause is a sequence of conditions, in the order of the text. *)
(* A filter concerns one column; conjunctions are one level deep.          *)
(***************************************************************************)
EXTENDS NoneCharset

CONSTANTS
  Constants,  \* the constants of the queries, [type, v]
  Queries,    \* the queries that may be planned (see Query)
  Cells,      \* for each column, the values its rows have, as stored
  Number,     \* the number the text of a DECFLOAT stands for
  Null

\* FirebirdColumnDesc as filters see it; the virtual row id is always NULL.
TextType == {"TEXT", "VARYING", "BLOB_TEXT"}
RowId == [sqltype |-> "ROWID", charset_none |-> FALSE]
Column ==
  {RowId} \cup [sqltype : TextType \cup {"DECFLOAT", "BOOLEAN", "INTEGER", "TIMESTAMP", "TIMESTAMP_TZ"},
                charset_none : BOOLEAN]

\* A predicate on the column: `col op v` ("cmp", or `v op col` if flipped),
\* IN, NOT IN, LIKE, IS [NOT] NULL, NOT col, or "other", for what no
\* translator knows.  The v of a LIKE gives the texts its pattern matches
\* without and with ESCAPE '\'.
Leaf ==
  {l \in [kind : {"cmp", "in", "not_in", "like", "is_null", "is_not_null", "not_bool", "other"},
          op : {"=", "<>", "<", ">"}, flipped : BOOLEAN, values : Seq(Constants)] :
     /\ l.kind \in {"cmp", "like"} => Len(l.values) = 1
     /\ l.kind = "like" => l.values[1].type = "PATTERN"
     /\ l.kind \in {"is_null", "is_not_null", "not_bool"} => l.values = << >>}

\* via: what DuckDB makes of a filter that stays in its plan.  One the scan
\* has to apply ("table"), one it offers the scan and applies anyway, such as
\* an IN list or the bounds a join derives ("optional"), or one it keeps.
Filter ==
  {f \in [col : Column, conj : {"leaf", "and", "or"}, parts : Seq(Leaf) \ {<<>>},
          via : {"table", "optional", "plan"}] :
     f.conj = "leaf" => Len(f.parts) = 1}

\* v2 tells the two planner APIs the extension is built for apart.
Query ==
  [filters : Seq(Filter), none_encoding : NoneEncoding, none_pushdown : BOOLEAN, v2 : BOOLEAN]

\* Texts are texts, and NULL is none; what a NONE column stores are bytes.
ASSUME PushdownAssumption ==
  /\ Queries \subseteq Query
  /\ Null \notin Seq(Nat)
  /\ \A c \in Constants : c.type = "VARCHAR" /\ c.v # Null => c.v \in BmpText
  /\ \A col \in DOMAIN Cells : \A x \in Cells[col] :
       col.charset_none /\ col.sqltype \in TextType /\ x # Null => x \in Seq(Byte)

VARIABLES
  query,
  phase,      \* "complex", "build", "done"
  it,         \* the filter looked at
  extra,      \* bind.extra_predicates
  gated,      \* bind.gated_complex_reasons
  plan,       \* the filters left in DuckDB's plan
  conds,      \* the WHERE clause
  params,     \* the values that will be bound to its placeholders
  residual    \* residual_filter_indices and residual_filter_reasons

vars == <<query, phase, it, extra, gated, plan, conds, params, residual>>

Init ==
  /\ query \in Queries
  /\ phase = "complex" /\ it = 1
  /\ extra = <<>> /\ gated = <<>> /\ plan = <<>>
  /\ conds = <<>> /\ params = <<>> /\ residual = <<>>

-----------------------------------------------------------------------------
(* Which constants and columns can be pushed.                              *)

\* Unsigned integers, TZ types and BLOBs are neither.
IsBindableType(c) ==
  c.type \in {"BOOLEAN", "BIGINT", "DOUBLE", "VARCHAR", "DATE", "TIMESTAMP"}
SafeLiteralInline(c) == c.v = Null \/ c.type \in {"HUGEINT", "UHUGEINT", "DECIMAL"}

\* Fault: text BLOBs are forgotten.
IsNoneCharGated(col) ==
  query.none_encoding # "STRICT" /\ col.charset_none /\ col.sqltype \in {"TEXT", "VARYING"}

\* UTF-8 would be compared with bytes that are transcoded only here.
IsNoneTextColumnGated(col) ==
  query.none_encoding # "STRICT" /\ col.charset_none /\ col.sqltype \in TextType

IsTextColumn(col) == col.sqltype \in TextType
SupportsPushdownType(col) == ~IsNoneTextColumnGated(col)
NonePushdownActive == query.none_pushdown /\ query.none_encoding \in {"WIN1252", "ISO_8859_1"}
IsNoneCharVarcharColumn(col) == col.charset_none /\ col.sqltype \in {"TEXT", "VARYING"}

\* Fault: filters compare the DECFLOAT itself.
RawColumn(col) == "column"

\* A DECFLOAT is projected, and must be filtered, as CAST(col AS VARCHAR(64)).
ColExpr(col) == IF col.sqltype = "DECFLOAT" THEN "cast" ELSE "column"

Condition(f, parts, encoded) ==
  [col |-> f.col, conj |-> f.conj, parts |-> parts, subject |-> ColExpr(f.col),
   encoded |-> encoded]

-----------------------------------------------------------------------------
(* FirebirdScanPushdownComplexFilter: one pass over the filters.           *)

expr == query.filters[it]
Looking == phase = "complex" /\ it <= Len(query.filters)
Is(f, kind) == f.conj = "leaf" /\ f.parts[1].kind = kind
Values(f) == f.parts[1].values
Each(f, Test(_)) == \A i \in 1..Len(Values(f)) : Test(Values(f)[i])
Resolves(f) == f.col # RowId

\* Patterns are VARCHAR constants with a literal first character.
TryExtractLikePrefix(f) == Is(f, "like") /\ ~Values(f)[1].v.leading_wildcard

IsText(c) == c.type = "VARCHAR" /\ c.v # Null
TryExtractEquality(f) == Is(f, "cmp") /\ f.parts[1].op = "=" /\ Each(f, IsText)
TryExtractInList(f) == Is(f, "in") /\ Values(f) # <<>> /\ Each(f, IsText)
TryExtractNotIn(f) ==
  /\ Is(f, "not_in") /\ Values(f) # <<>>
  /\ Each(f, LAMBDA c : c.v # Null /\ IsBindableType(c))
TryExtractNotBoolColumn(f) == Is(f, "not_bool") /\ f.col.sqltype = "BOOLEAN"

AllEncode(f) == Each(f, LAMBDA c : Encodable(query.none_encoding, c.v))

\* The filter leaves the plan; nobody but Firebird applies it.
Lift(encoded, bound) ==
  /\ extra' = Append(extra, [cond |-> Condition(expr, expr.parts, encoded), params |-> bound])
  /\ it' = it + 1
  /\ UNCHANGED <<query, phase, gated, plan, conds, params, residual>>

PushesLike(f) == TryExtractLikePrefix(f) /\ Resolves(f) /\ ~IsNoneTextColumnGated(f.col)
PushesEncoded(f) ==
  /\ TryExtractEquality(f) \/ TryExtractInList(f)
  /\ Resolves(f) /\ NonePushdownActive /\ IsNoneCharVarcharColumn(f.col) /\ AllEncode(f)
PushesNotIn(f) == TryExtractNotIn(f) /\ Resolves(f) /\ ~IsNoneTextColumnGated(f.col)
PushesNotBool(f) == TryExtractNotBoolColumn(f) /\ Resolves(f) /\ f.col.sqltype # "DECFLOAT"

PushLike == Looking /\ PushesLike(expr) /\ Lift(FALSE, <<>>)
PushEncoded == Looking /\ PushesEncoded(expr) /\ Lift(TRUE, <<>>)
PushNotIn == Looking /\ PushesNotIn(expr) /\ Lift(FALSE, Values(expr))
PushNotBool == Looking /\ PushesNotBool(expr) /\ Lift(FALSE, <<>>)

\* Kept back only because the column is CHARACTER SET NONE, and said so.
IsGated(f) ==
  /\ Resolves(f) /\ IsNoneTextColumnGated(f.col)
  /\ \/ TryExtractLikePrefix(f)
     \/ (TryExtractEquality(f) \/ TryExtractInList(f)) /\ NonePushdownActive /\ ~PushesEncoded(f)
     \/ TryExtractNotIn(f)

Pushes(f) == PushesLike(f) \/ PushesEncoded(f) \/ PushesNotIn(f) \/ PushesNotBool(f)

Keep ==
  /\ Looking /\ ~Pushes(expr)
  /\ plan' = Append(plan, expr)
  /\ gated' = IF IsGated(expr) THEN Append(gated, "NONE_CHARSET") ELSE gated
  /\ it' = it + 1
  /\ UNCHANGED <<query, phase, extra, conds, params, residual>>

\* The scan starts.
StartBuild ==
  /\ phase = "complex" /\ it > Len(query.filters)
  /\ phase' = "build" /\ it' = 1
  /\ UNCHANGED <<query, extra, gated, plan, conds, params, residual>>

-----------------------------------------------------------------------------
(* DuckDB's side                                                           *)

\* Filters on columns for which supports_pushdown_type says no are applied
\* above the scan; a join's bounds are offered for every column.
LeftToScan(f) == f.via = "table" /\ SupportsPushdownType(f.col)
Offered(f) == LeftToScan(f) \/ f.via = "optional"

\* The TableFilterSet has the filters of the plan that are offered.
table_filter == plan[it]
Building == phase = "build" /\ it <= Len(plan) /\ Offered(table_filter)

NotOffered ==
  /\ phase = "build" /\ it <= Len(plan) /\ ~Offered(table_filter)
  /\ it' = it + 1
  /\ UNCHANGED <<query, phase, extra, gated, plan, conds, params, residual>>

-----------------------------------------------------------------------------
(* FirebirdQueryBuilder::Build                                             *)

Pushable(c) == IsBindableType(c) \/ SafeLiteralInline(c)

\* TranslateFilter (v1.5) and TranslateFilterExpression (v2, which refuses
\* NULL constants and empty lists) on a predicate that is not a conjunction.
Translates(l) ==
  \/ l.kind \in {"is_null", "is_not_null"}
  \/ /\ l.kind \in {"cmp", "in"}
     /\ query.v2 => l.values # <<>>
     /\ \A i \in 1..Len(l.values) :
          Pushable(l.values[i]) /\ (query.v2 => l.values[i].v # Null)

FlipComparison(op) == CASE op = "<" -> ">" [] op = ">" -> "<" [] OTHER -> op
ColumnLeft(l) == IF l.flipped THEN [l EXCEPT !.op = FlipComparison(@), !.flipped = FALSE] ELSE l
Placeholder(c) == IF IsBindableType(c) THEN <<c>> ELSE <<>>
LeafPlaceholders(l) == Joined([i \in 1..Len(l.values) |-> Placeholder(l.values[i])])
Placeholders(parts) == Joined([i \in 1..Len(parts) |-> LeafPlaceholders(parts[i])])

\* Fault: what a failed translation has pushed stays.
KeepPushed(saved, pushed) == saved \o pushed

\* params.resize(saved): what a failed translation has pushed is dropped.
Resize(saved, pushed) == saved

AllTranslate(f) == \A i \in 1..Len(f.parts) : Translates(f.parts[i])

Translated(f) == [i \in 1..Len(f.parts) |-> ColumnLeft(f.parts[i])]

Residual(reason) ==
  /\ residual' = Append(residual, [filter |-> table_filter, reason |-> reason])
  /\ it' = it + 1
  /\ UNCHANGED <<query, phase, extra, gated, plan, conds>>

ResidualRowId ==
  /\ Building /\ table_filter.col = RowId
  /\ Residual("ROWID_OR_INVALID_COLUMN")
  /\ UNCHANGED params

ResidualNone ==
  /\ Building /\ table_filter.col # RowId
  /\ IsNoneTextColumnGated(table_filter.col)
  /\ Residual("NONE_CHARSET")
  /\ UNCHANGED params

ResidualUnsupported ==
  /\ Building /\ table_filter.col # RowId /\ ~IsNoneTextColumnGated(table_filter.col)
  /\ ~AllTranslate(table_filter)
  /\ Residual("UNSUPPORTED_OP")
  /\ \E n \in 0..(Len(table_filter.parts) - 1) :   \* the first part that fails is part n + 1
       /\ ~Translates(table_filter.parts[n + 1]) /\ \A i \in 1..n : Translates(table_filter.parts[i])
       /\ params' = Resize(params, Placeholders(SubSeq(table_filter.parts, 1, n)))

Translate ==
  /\ Building /\ table_filter.col # RowId /\ ~IsNoneTextColumnGated(table_filter.col)
  /\ AllTranslate(table_filter)
  /\ LET parts == Translated(table_filter) IN
     /\ conds' = Append(conds, Condition(table_filter, parts, FALSE))
     /\ params' = params \o Placeholders(parts)
  /\ it' = it + 1
  /\ UNCHANGED <<query, phase, extra, gated, plan, residual>>

\* OpenNextPartitionCursor: the extra predicates are spliced in at the end,
\* their parameters follow the builder's.
ExtraParams == Joined([i \in 1..Len(extra) |-> extra[i].params])

Assemble ==
  /\ phase = "build" /\ it > Len(plan)
  /\ conds' = conds \o [i \in 1..Len(extra) |-> extra[i].cond]
  /\ params' = params \o ExtraParams
  /\ phase' = "done"
  /\ UNCHANGED <<query, it, extra, gated, plan, residual>>

Next ==
  \/ PushLike \/ PushEncoded \/ PushNotIn \/ PushNotBool \/ Keep \/ StartBuild
  \/ NotOffered \/ ResidualRowId \/ ResidualNone \/ ResidualUnsupported \/ Translate \/ Assemble

Spec == Init /\ [][Next]_vars

-----------------------------------------------------------------------------
(* What filters mean.  The truth of a predicate is TRUE, FALSE or Null.    *)

Compare(op, a, b) ==
  CASE op = "=" -> a = b [] op = "<>" -> a # b [] op = "<" -> a < b [] op = ">" -> a > b

InTruth(x, cs, Lit(_)) ==
  IF \E i \in 1..Len(cs) : cs[i].v # Null /\ Lit(cs[i]) = x THEN TRUE
  ELSE IF \E i \in 1..Len(cs) : cs[i].v = Null THEN Null ELSE FALSE

Truth(l, x, Lit(_), Matches(_)) ==
  CASE l.kind = "is_null" -> x = Null
    [] l.kind = "is_not_null" -> x # Null
    [] l.kind \in {"in", "other"} /\ l.values = <<>> -> FALSE
    [] x = Null -> Null
    [] l.kind = "cmp" ->
         IF l.values[1].v = Null THEN Null
         ELSE IF l.flipped THEN Compare(l.op, Lit(l.values[1]), x)
         ELSE Compare(l.op, x, Lit(l.values[1]))
    [] l.kind \in {"in", "other"} -> InTruth(x, l.values, Lit)
    [] l.kind = "not_in" -> LET t == InTruth(x, l.values, Lit) IN IF t = Null THEN Null ELSE ~t
    [] l.kind = "like" -> x \in Matches(l.values[1].v)
    [] l.kind = "not_bool" -> ~x

\* Rows for which it is not TRUE are filtered out.
Selects(p, IsTrue(_)) ==
  IF p.conj = "or" THEN \E i \in 1..Len(p.parts) : IsTrue(p.parts[i])
  ELSE \A i \in 1..Len(p.parts) : IsTrue(p.parts[i])

\* DuckDB sees the transcoded bytes, and compares UTF-8 with UTF-8.
DuckDBSees(col, x) ==
  IF x # Null /\ IsTextColumn(col) /\ col.charset_none THEN Transcode(query.none_encoding, x) ELSE x
Literal(c) == IF c.type = "VARCHAR" THEN Utf8(c.v) ELSE c.v
Like(pattern) == {Utf8(t) : t \in pattern.matches}
DuckDBTruth(l, x) == Truth(l, x, Literal, Like)
DuckDBSelects(p, x) == Selects(p, LAMBDA l : DuckDBTruth(l, DuckDBSees(p.col, x)) = TRUE)

\* BindInputParameters: a TIMESTAMP becomes days and 1/10000 s.
Bound(c) ==
  IF c.type = "TIMESTAMP" /\ c.v # Null THEN (c.v \div 100) * 100 ELSE Literal(c)

\* Firebird compares the stored bytes with the bytes of the literal, and
\* DECFLOATs, unless cast, as numbers; the pattern has an escape character.
FirebirdSees(p, x) ==
  IF x # Null /\ p.col.sqltype = "DECFLOAT" /\ p.subject = "column" THEN Number[x] ELSE x
FirebirdLiteral(p, c) ==
  IF p.encoded THEN Encode(query.none_encoding, c.v)
  ELSE IF p.col.sqltype = "DECFLOAT" /\ p.subject = "column" THEN Number[c.v]
  ELSE IF IsBindableType(c) THEN Bound(c) ELSE Literal(c)
LikeEscape(pattern) == {Utf8(t) : t \in pattern.escaped}
FirebirdTruth(p, l, x) == Truth(l, x, LAMBDA c : FirebirdLiteral(p, c), LikeEscape)
FirebirdSelects(p, x) == Selects(p, LAMBDA l : FirebirdTruth(p, l, FirebirdSees(p, x)) = TRUE)

-----------------------------------------------------------------------------
(* Properties                                                              *)

Cond == [col : Column, conj : {"leaf", "and", "or"}, parts : Seq(Leaf),
         subject : {"column", "cast"}, encoded : BOOLEAN]

TypeOK ==
  /\ query \in Query
  /\ phase \in {"complex", "build", "done"}
  /\ it \in Nat \ {0}
  /\ extra \in Seq([cond : Cond, params : Seq(Constants)])
  /\ gated \in Seq({"NONE_CHARSET"})
  /\ plan \in Seq(Filter)
  /\ conds \in Seq(Cond)
  /\ params \in Seq(Constants)
  /\ residual \in Seq([filter : Filter,
                       reason : {"ROWID_OR_INVALID_COLUMN", "NONE_CHARSET", "UNSUPPORTED_OP"}])

\* Each `?` of the WHERE clause gets the value it was written for, through
\* failed translations and whatever the order in which filters were pushed
\* ("strictly in textual order", OpenNextPartitionCursor).  Literals Firebird
\* gets re-encoded, and patterns, are written out.
Slots(cond) == IF cond.encoded THEN <<>> ELSE Placeholders(cond.parts)
ParamsMatch == params = Joined([i \in 1..Len(conds) |-> Slots(conds[i])])

\* No UTF-8 literal is compared with the bytes of a CHARACTER SET NONE text
\* column that is transcoded on this side, text BLOBs included: what is pushed
\* on such a column is re-encoded.
Reencoded(cond) ==
  cond.col.charset_none /\ IsTextColumn(cond.col) /\ query.none_encoding # "STRICT"
    => cond.encoded
NoneNeverUtf8 == \A i \in 1..Len(conds) : Reencoded(conds[i])

\* Filters the scan was relied on for and did not push.
Reapplied == {plan[i] : i \in {j \in 1..Len(plan) : ~LeftToScan(plan[j])}}
Dropped == {residual[i].filter : i \in 1..Len(residual)} \ Reapplied

\* A predicate is pushed only if Firebird evaluates it exactly as DuckDB
\* does: on every column, what the WHERE clause and the filters applied above
\* the scan let through is what the filters of the query let through (those
\* that were dropped aside, see ResidualReapplied).  STRICT rejects a row that
\* is not UTF-8.
Readable(col, x) ==
  IsTextColumn(col) /\ col.charset_none /\ query.none_encoding = "STRICT" /\ x # Null => IsValidUtf8(x)
Delivers(col, x) ==
  /\ \A i \in 1..Len(conds) : conds[i].col = col => FirebirdSelects(conds[i], x)
  /\ \A p \in Reapplied : p.col = col => DuckDBSelects(p, x)
Wants(col, x) ==
  \A i \in 1..Len(query.filters) :
    LET p == query.filters[i] IN p.col = col /\ p \notin Dropped => DuckDBSelects(p, x)
RowsExact ==
  phase = "done" =>
    \A col \in DOMAIN Cells : \A x \in Cells[col] :
      Readable(col, x) => (Delivers(col, x) <=> Wants(col, x))

\* src/src/include/firebird_query.hpp:14: "Filters that can't be expressed in
\* Firebird SQL stay in DuckDB and are reapplied above the scan".
ResidualReapplied == phase = "done" => Dropped = {}

\* What is pushed selects in Firebird what it would select in DuckDB.
SelectsAlike(cond) ==
  \A x \in Cells[cond.col] : FirebirdSelects(cond, x) <=> DuckDBSelects(cond, x)

\* src/src/firebird_scanner.cpp:1546: "we always emit `... ESCAPE '\\'` so a
\* user-supplied backslash in the pattern keeps its literal meaning".
BackslashIsLiteral ==
  phase = "done" =>
    \A i \in 1..Len(conds) : conds[i].parts[1].kind = "like" => SelectsAlike(conds[i])

=============================================================================
