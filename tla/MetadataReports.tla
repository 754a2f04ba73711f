--------------------------- MODULE MetadataReports ---------------------------
(* What the extension says of a whole database: its relations, listed by    *)
(* ATTACH, firebird_tables, firebird_attach_sql and                         *)
(* firebird_generate_dbt_sources with a query each; its health; its         *)
(* generators.                                                              *)
(*                                                                          *)
(* A relation: [name, type, columns, pk], with type RDB$RELATION_TYPE; a    *)
(* database is a sequence of relations in the order of their names.  A      *)
(* value that may be NULL is a sequence of one or no values.                *)
EXTENDS Integers, Sequences, SequencesExt

CONSTANTS
  ToUpper,                 \* [names -> names]
  STANDARD_VECTOR_SIZE,
  GAP_THRESHOLD,           \* FB_HEALTH_GAP_THRESHOLD
  ShortBits                \* the bits of a SMALLINT

Thrown == [outcome |-> "exception"]
Null == <<>>
NullType == -1
ValueOrNull(ok, v) == IF ok THEN <<v>> ELSE Null

\* The table functions emit the rows collected in init, a vector a call, until
\* a call emits none.
Emitted(rows) ==
  LET from[cursor \in 0..Len(rows) + STANDARD_VECTOR_SIZE] ==
        IF cursor >= Len(rows) THEN <<>>
        ELSE <<SubSeq(rows, cursor + 1,
                      IF cursor + STANDARD_VECTOR_SIZE < Len(rows) THEN cursor + STANDARD_VECTOR_SIZE
                                                                   ELSE Len(rows))>>
             \o from[cursor + STANDARD_VECTOR_SIZE]
  IN from[0]

-----------------------------------------------------------------------------
(* The four lists of relations.                                             *)

\* The rows that a WHERE clause lets through, in their order.
Kept(rows, S) == FlattenSeq([i \in DOMAIN rows |-> IF rows[i] \in S THEN <<rows[i]>> ELSE <<>>])

\* RDB$RELATION_TYPE IS NULL OR RDB$RELATION_TYPE <> 3
UserRelations(db) == Kept(db, {r \in Range(db) : r.type # 3})

RelationKindLabel(rtype) ==
  CASE rtype = 1 -> "view" [] rtype = 2 -> "external" [] rtype \in {4, 5} -> "gtt" [] OTHER -> "table"

\* pk_columns: the subquery takes any one row of the key's segments.
FirebirdTablesInitGlobal(db) ==
  LET rels == UserRelations(db) IN
  [i \in DOMAIN rels |-> [table_name |-> rels[i].name, kind |-> RelationKindLabel(rels[i].type),
                          has_pk |-> rels[i].pk # <<>>, pk_columns |-> Range(rels[i].pk)]]

Statement(verb, name) == [verb |-> verb, name |-> name]
FirebirdAttachInitGlobal(db, schema) ==
  LET rels == UserRelations(db) IN
  <<Statement("CREATE SCHEMA", schema)>>
  \o [i \in DOMAIN rels |-> Statement("CREATE VIEW", rels[i].name)]

\* add_entry: emplace keeps the first of the names that differ only in case.
AttachedEntries(db) ==
  LET rels == UserRelations(db)
      named(key) == Kept(rels, {r \in Range(rels) : ToUpper[r.name] = key})
  IN [key \in {ToUpper[r.name] : r \in Range(rels)} |-> Head(named(key))]
LookupEntry(db, name) == ValueOrNull(ToUpper[name] \in DOMAIN AttachedEntries(db), ToUpper[name])

\* LoadTableSchema: the columns of the upper-cased name, if there is one.
LoadTableSchema(db, name) ==
  LET found == Kept(db, {r \in Range(db) : r.name = ToUpper[name]}) IN
  IF found = <<>> THEN Null ELSE <<Head(found).columns>>

\* A fault: the first segment of any key is taken for the key.
PkColumnOfAny(r) == IF r.pk = <<>> THEN Null ELSE <<Head(r.pk)>>
PkColumn(r) == IF Len(r.pk) = 1 THEN r.pk ELSE Null

ListUserTables(db) == Kept(db, {r \in Range(db) : r.type \in {NullType, 0, 1}})
CollectTableMetadata(db) ==
  LET rels == ListUserTables(db) IN
  IF \E r \in Range(rels) : LoadTableSchema(db, r.name) = Null THEN Thrown
  ELSE [tables |->
         [i \in DOMAIN rels |->
           [name |-> rels[i].name,
            columns |-> Range(LoadTableSchema(db, rels[i].name)[1]),
            unique |-> Range(PkColumn(rels[i])) \cap Range(LoadTableSchema(db, rels[i].name)[1])]]]

-----------------------------------------------------------------------------
(* firebird_health.  A server: [charset, mon, page_type, page_size, next,   *)
(* oit, oat, sweep, forced]; mon says how the query of MON$DATABASE goes.   *)

\* GetShort reads the low bits of the buffer.
GetShort(v) ==
  LET m == v % 2 ^ ShortBits IN IF m < 2 ^ (ShortBits - 1) THEN m ELSE m - 2 ^ ShortBits

PageSize(s) ==
  CASE s.page_type = "SQL_SHORT" -> GetShort(s.page_size)
    [] s.page_type = "SQL_LONG" -> s.page_size
    [] OTHER -> 0

Health(s) ==
  LET mon_ok == s.mon = "row"
      monitored(v) == ValueOrNull(mon_ok, v)
      warns(name) ==
        CASE name = "oit_gap_high" -> mon_ok /\ s.next - s.oit > GAP_THRESHOLD
          [] name = "oat_gap_high" -> mon_ok /\ s.next - s.oat > GAP_THRESHOLD
          [] name = "sweep_disabled" -> mon_ok /\ s.sweep = 0
          [] name = "forced_writes_off" -> mon_ok /\ ~s.forced
          [] name = "charset_none" -> s.charset = "NONE"
          [] name = "mon_unavailable" -> ~mon_ok
  IN IF s.mon = "broken attach" THEN Thrown
     ELSE [default_charset |-> s.charset, page_size |-> monitored(PageSize(s)),
           oit_gap |-> monitored(s.next - s.oit), oat_gap |-> monitored(s.next - s.oat),
           sweep_interval |-> monitored(s.sweep), forced_writes |-> monitored(s.forced),
           warnings |-> {name \in {"oit_gap_high", "oat_gap_high", "sweep_disabled",
                                   "forced_writes_off", "charset_none", "mon_unavailable"} : warns(name)}]

-----------------------------------------------------------------------------
(* firebird_generators: one query for the list, one for each value.         *)

GenInitGlobal(generators, failing) ==
  IF "list" \in failing THEN Thrown
  ELSE [rows |-> [i \in DOMAIN generators |->
         [name |-> generators[i].name,
          current |-> ValueOrNull(generators[i].name \notin failing, generators[i].value)]]]
=============================================================================
