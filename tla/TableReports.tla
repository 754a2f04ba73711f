---------------------------- MODULE TableReports ----------------------------
(* What the extension says of one relation before it is scanned:            *)
(* firebird_profile_table, firebird_index_profile and the key and view      *)
(* columns of firebird_explain_pushdown, each from its own queries of the   *)
(* system tables, of which any may fail.                                    *)
(*                                                                          *)
(* A relation: [kind, pk, type, index, lo, hi, rows, view].  K is the first *)
(* column of the primary key pk, C another; index is what covers C; lo..hi  *)
(* is the range of the rows' keys; view says what the view's SELECT has.    *)
(* failing is the set of queries that fail.                                 *)
EXTENDS Integers, Sequences, SequencesExt

CONSTANTS IntMax, MinRows, HwConcurrency

P == INSTANCE PartitionBounds WITH CastOverflow <- IntMax

Column == {"K", "C"}
Thrown == [outcome |-> "exception"]

-----------------------------------------------------------------------------
(* The queries.                                                             *)

LookupObjectType(t, failing) ==
  IF "type" \in failing THEN "exception" ELSE t.kind   \* or MISSING
SchemaFails(failing) == "schema" \in failing

\* An index in RDB$INDICES; one on an expression has no segments.
Index(name, columns, active) == [name |-> name, columns |-> columns, active |-> active]
Indexes(t) ==
  (IF t.pk = <<>> THEN {} ELSE {Index("PK", t.pk, TRUE)})
  \cup (CASE t.index = "column"     -> {Index("IX", <<"C">>, TRUE)}
          [] t.index = "inactive"   -> {Index("IX", <<"C">>, FALSE)}
          [] t.index = "expression" -> {Index("IX", <<>>, TRUE)}
          [] OTHER -> {})

\* Of the profile: what fails is left empty.
LoadIndexes(t, failing) ==
  IF t.kind = "VIEW" \/ "indexes" \in failing THEN {}
  ELSE {[ix EXCEPT !.columns = IF ix.name \in failing THEN <<>> ELSE @] : ix \in Indexes(t)}

\* Of the index profile: what fails is thrown.
LoadIndexRows(t, failing) ==
  IF "indexes" \in failing \/ \E ix \in Indexes(t) : ix.name \in failing
  THEN Thrown ELSE [rows |-> Indexes(t)]

NoRange == [found |-> FALSE, lo |-> 0, hi |-> 0]
ProbePrimaryKey(t, failing) ==
  IF /\ "probe" \notin failing
     /\ Len(t.pk) = 1 /\ t.type[t.pk[1]] = "INTEGER"
     /\ t.rows > 0 /\ t.hi > t.lo
  THEN [found |-> TRUE, lo |-> t.lo, hi |-> t.hi]
  ELSE NoRange

\* The PrimaryKeyDescriptor the catalog makes of the constraints.
Descriptor(t, failing) ==
  LET has_pk == t.pk # <<>> /\ "constraints" \notin failing IN
  [has_pk |-> has_pk, columns |-> IF has_pk THEN t.pk ELSE <<>>,
   single_numeric |-> has_pk /\ Len(t.pk) = 1 /\ t.type[t.pk[1]] \in {"INTEGER", "INT128"}]

-----------------------------------------------------------------------------
(* The profile.                                                             *)

IsWatermarkType(type) == type \in {"INTEGER", "INT128", "DATE"}
IsCheapFilterType(type) == type \in {"INTEGER", "INT128", "DATE", "VARCHAR"}   \* not NONE_TEXT

\* A fault: the profile's own estimate, with the cores as its only limit.
AdviceOfCores(range) == IF range.found THEN HwConcurrency ELSE 1
Advice(range) == IF range.found THEN P!PickPartitionCount(range.lo, range.hi, HwConcurrency) ELSE 1

FullScanRisk(range) ==
  IF ~range.found THEN "HIGH" ELSE IF Advice(range) > 1 THEN "MEDIUM" ELSE "LOW"

ViewAlerts(t, failing) ==
  {"view_no_scan_lever"} \cup
  (IF "source" \in failing THEN {"view_definition_not_inspected"}
   ELSE {a \in {"view_contains_join", "view_contains_aggregation", "view_no_filter"} :
           CASE a = "view_contains_join" -> t.view.has_join
             [] a = "view_contains_aggregation" -> t.view.has_group_by \/ t.view.has_aggregate
             [] OTHER -> ~t.view.has_where})

\* columns = <<>> with a key is front() of an empty vector: undefined.
KeyAlerts(t, range, has_primary_key, columns) ==
  CASE range.found /\ Advice(range) > 1 -> {"partition_advisory", "server_parallelism_caveat"}
    [] range.found /\ Advice(range) = 1 -> {"pk_range_small_serial"}
    [] ~range.found /\ ~has_primary_key -> {"no_primary_key"}
    [] ~range.found /\ Len(columns) > 1 -> {"composite_pk_serial"}
    [] ~range.found /\ has_primary_key /\ columns = <<>> -> {"undefined"}
    [] OTHER -> IF t.type[columns[1]] = "INTEGER" THEN {"numeric_pk_no_range_serial"}
                ELSE {"non_numeric_pk_serial"}

\* What the other columns of the profile call for.
GeneralAlerts(t, full_scan_risk, filters, watermarks, counted) ==
  LET is_view == t.kind = "VIEW" IN
  (IF is_view \/ full_scan_risk # "HIGH" THEN {}
   ELSE IF filters \cup watermarks # {} THEN {"filter_before_scan"} ELSE {"materialize_before_scan"})
  \cup (IF counted THEN {"exact_count_executed"} ELSE {})
  \cup (IF filters = {} /\ ~is_view THEN {"no_indexed_filter_columns"} ELSE {})
  \cup (IF \E c \in Column : t.type[c] = "NONE_TEXT" THEN {"none_charset_text_columns"} ELSE {})

Profiled(t, failing, exact) ==
  LET is_view == t.kind = "VIEW"
      indexes == LoadIndexes(t, failing)
      pk == {ix \in indexes : ix.name = "PK"}
      primary_key_columns == IF pk = {} THEN <<>> ELSE (CHOOSE ix \in pk : TRUE).columns
      indexed == UNION {Range(ix.columns) : ix \in indexes}
      filters == {c \in indexed : IsCheapFilterType(t.type[c])}
      watermarks == {c \in Column : IsWatermarkType(t.type[c])}
      range == IF is_view THEN NoRange ELSE ProbePrimaryKey(t, failing)
      counted == exact /\ "count" \notin failing
  IN [has_primary_key       |-> pk # {},
      filter_candidates     |-> filters,
      full_scan_risk        |-> FullScanRisk(range),
      recommended_partitions |-> Advice(range),
      row_estimate_method   |-> IF counted THEN "exact_count"
                                ELSE IF range.found THEN "pk_range_upper_bound" ELSE "",
      estimated_rows        |-> IF counted THEN t.rows
                                ELSE IF range.found THEN P!Wrap64(range.hi - range.lo + 1) ELSE -1,
      alerts |->
        (IF is_view THEN ViewAlerts(t, failing) ELSE KeyAlerts(t, range, pk # {}, primary_key_columns))
        \cup GeneralAlerts(t, FullScanRisk(range), filters, watermarks, counted)]

BuildProfile(t, failing, exact) ==
  IF LookupObjectType(t, failing) \notin {"TABLE", "VIEW"} \/ SchemaFails(failing) THEN Thrown
  ELSE Profiled(t, failing, exact)

-----------------------------------------------------------------------------
(* The index profile: the set of alerts over its rows, and the candidates.  *)

BuildIndexProfile(t, failing) ==
  LET loaded == LoadIndexRows(t, failing) IN
  IF LookupObjectType(t, failing) \notin {"TABLE", "VIEW"} \/ loaded = Thrown \/ SchemaFails(failing)
  THEN Thrown
  ELSE [alerts |-> IF loaded.rows = {} THEN {"no_indexes_on_table"}
                   ELSE {"index_inactive" : ix \in {row \in loaded.rows : ~row.active}},
        unindexed_filter_candidates |->
          {c \in Column : IsCheapFilterType(t.type[c]) /\ \A row \in loaded.rows : c \notin Range(row.columns)}]

-----------------------------------------------------------------------------
(* The row of firebird_explain_pushdown for a scan of the attached relation.*)

ClassifyPkRange(d) ==
  CASE ~d.has_pk -> [eligible |-> FALSE, reason |-> "no primary key"]
    [] d.has_pk /\ Len(d.columns) > 1 -> [eligible |-> FALSE, reason |-> "composite PK"]
    [] d.has_pk /\ Len(d.columns) = 1 /\ ~d.single_numeric -> [eligible |-> FALSE, reason |-> "non-numeric PK"]
    [] OTHER -> [eligible |-> TRUE, reason |-> "single numeric PK"]

ViewHeavy(t, failing) ==
  CASE t.kind # "VIEW" -> "null"
    [] t.kind = "VIEW" /\ "source" \in failing -> "heavy"
    [] OTHER -> IF t.view.has_join \/ t.view.has_group_by \/ t.view.has_aggregate THEN "heavy" ELSE "light"

NotPlanned == 0
ExplainRow(t, failing) ==
  LET range == ProbePrimaryKey(t, failing)
      c == ClassifyPkRange(Descriptor(t, failing))
  IN IF "type" \in failing THEN Thrown
     ELSE [pk_range_eligible |-> c.eligible, pk_range_reason |-> c.reason,
           planned_partitions |-> IF range.found THEN Advice(range) ELSE NotPlanned,
           view_heavy |-> ViewHeavy(t, failing)]

-----------------------------------------------------------------------------
\* The scan itself, with partitions= not given (FirebirdScanInitGlobal).
ScanPartitions(t, failing) ==
  LET range == ProbePrimaryKey(t, failing) IN
  IF range.found THEN P!PartitionCount(range.lo, range.hi, 0, HwConcurrency) ELSE 1
=============================================================================
