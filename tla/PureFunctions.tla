---------------------------- MODULE PureFunctions ----------------------------
(***************************************************************************)
(* The functions without state: an input is chosen and stays, and each     *)
(* family of inputs has a property that compares the function with what it *)
(* is for.                                                                 *)
(***************************************************************************)
EXTENDS Integers, Sequences, FiniteSets, PartitionBounds, TelemetryText

CONSTANTS
  \* Key ranges: values of partitions=, 0 = pick automatically, and of
  \* hardware_concurrency().
  Overrides, Cores,
  \* Texts: code points of literals, and stored bytes.
  CodePoints, ByteStrings,
  \* Values: Bits[n] and Digits[n] are the bits of an integer of n bytes and the
  \* digits DECIMAL is given on it; scales of columns, days and times.
  Bits, Digits, SqlScales, DayNumbers, Micros,
  \* The client library: its entry points, the default candidates, and for
  \* each call of fbapi() the environment and what each library has.
  Symbols, Candidates, Loads,
  \* Reports: the names' upper case, the sizes in the code, and what they are
  \* about; views in pieces; settings as users write them.
  Upper, STANDARD_VECTOR_SIZE, GAP_THRESHOLD, ShortBits, HwConcurrency,
  Reports, Databases, Servers, Generators, Views, Settings

VARIABLES family, input

View == INSTANCE ViewAnalysis
Value == INSTANCE ValueMapping
Text == INSTANCE ConnectionString
Report == INSTANCE TableReports
Meta == INSTANCE MetadataReports WITH ToUpper <- Upper
Library == INSTANCE ClientLibrary

\* Overrides are BIGINTs, texts of the basic plane, bytes bytes.
ASSUME TextAssumption ==
  /\ Overrides \subseteq 0..IntMax /\ Cores \subseteq Nat
  /\ CodePoints \subseteq Bmp
  /\ \A s \in ByteStrings : s \in Seq(Byte)

\* 4, 9, 18 and 38 digits on 16, 32, 64 and 128 bits: 2^63 has 19 digits.
ASSUME WidthAssumption ==
  /\ Bits \in [{2, 4, 8, 16} -> Nat \ {0}] /\ Digits \in [{2, 4, 8, 16} -> Nat \ {0}]
  /\ Digits[2] < Digits[4] /\ Digits[4] < Digits[8] /\ Digits[8] < Digits[16]
  /\ 2 ^ (Bits[8] - 1) \in Nat /\ 10 ^ Digits[16] \in Nat /\ 2 ^ (Bits[8] - 1) < 10 ^ Digits[16]
  /\ 2 ^ (Bits[2] - 1) \in Nat \ {0} /\ 2 ^ Bits[2] = 2 * 2 ^ (Bits[2] - 1)
  /\ SqlScales \subseteq Int /\ DayNumbers \subseteq Int /\ Micros \subseteq Nat

\* fbapi() is called one time after the other, and binds a list of names.
ASSUME LibraryAssumption ==
  /\ Symbols \in Seq(STRING) /\ Candidates \in Seq(STRING)
  /\ \A load \in Loads : load.worlds \in Seq(Range(load.worlds))

\* lo..hi is the range of the keys, all different; a view has no key.
Reportable(t) ==
  /\ t \in [kind : {"TABLE", "VIEW", "MISSING"}, pk : {<<>>, <<"K">>, <<"K", "C">>},
            type : [{"K", "C"} -> STRING], index : STRING, lo : Int64, hi : Int64, rows : Nat,
            view : [has_join : BOOLEAN, has_group_by : BOOLEAN, has_aggregate : BOOLEAN, has_where : BOOLEAN]]
  /\ t.kind = "VIEW" => t.pk = <<>>
  /\ t.pk = <<"K">> =>
       /\ t.lo <= t.hi /\ t.rows <= t.hi - t.lo + 1
       /\ t.rows < 2 => t.lo = t.hi
\* The oldest interesting transaction is not newer than the oldest active one;
\* a page size that is sent as a SMALLINT is one.
Reporting(s) ==
  /\ s.oit \in Int /\ s.oat \in Int /\ s.next \in Int /\ s.oit <= s.oat
  /\ s.page_type = "SQL_LONG" \/ (s.page_type = "SQL_SHORT" /\ s.page_size \in 0..(2 ^ (ShortBits - 1) - 1))
\* No two relations of a database have the same name.
Discoverable(db) ==
  /\ db \in Seq(Range(db))
  /\ \A i, j \in DOMAIN db : db[i].name = db[j].name => i = j
  /\ \A i \in DOMAIN db : db[i].pk \in Seq(Range(db[i].pk))
ASSUME ReportAssumption ==
  /\ STANDARD_VECTOR_SIZE \in Nat \ {0}
  /\ \A d \in Databases : Discoverable(d.relations)
  /\ HwConcurrency \in Nat /\ GAP_THRESHOLD \in Nat
  /\ 2 ^ (ShortBits - 1) \in Nat \ {0} /\ 2 ^ ShortBits = 2 * 2 ^ (ShortBits - 1)
  /\ \A r \in Reports : Reportable(r.relation)
  /\ \A s \in Servers : Reporting(s)
  /\ \A g \in Generators : g.generators \in Seq(Range(g.generators))

-----------------------------------------------------------------------------
\* ProbePrimaryKey reports a range only when max > min.
KeyRanges ==
  {c \in [lo : Int64, hi : Int64, override : Overrides, hw : Cores] : c.lo < c.hi}
Literals == [mode : {"WIN1252", "ISO_8859_1"}, code_point : CodePoints]
Strings == [bytes : ByteStrings]
\* A column, and the type its catalog rows were frozen with.
Numerics == [bytes : {2, 4, 8, 16}, sqlscale : SqlScales]
Columns == {v \in [col : Numerics, frozen : Numerics, is_view : BOOLEAN, widen : BOOLEAN] :
              v.is_view \/ v.frozen = v.col}
Lengths == [length : 0..(2 ^ Bits[2] - 1)]
Days == [day : DayNumbers]
Times == [micros : Micros]

Families ==
  [ranges |-> KeyRanges, literals |-> Literals, strings |-> Strings, columns |-> Columns,
   lengths |-> Lengths, days |-> Days, times |-> Times, loads |-> Loads, reports |-> Reports,
   databases |-> Databases, servers |-> Servers, generators |-> Generators,
   views |-> Views, settings |-> Settings]

Init == \E f \in DOMAIN Families : family = f /\ input \in Families[f]
\* The table gets a larger key and is scanned again.
Grow ==
  /\ family = "ranges" /\ input.hi < IntMax
  /\ input' = [input EXCEPT !.hi = @ + 1] /\ UNCHANGED family
Next == Grow
Spec == Init /\ [][Next]_<<family, input>>

-----------------------------------------------------------------------------
(* Properties.                                                             *)

\* A key range is cut into partitions that tile it, none of them empty where
\* the code means to have none (FirebirdScanInitGlobal; see PartitionBounds).
KeyRangesTile == family = "ranges" => CutTiles(input.lo, input.hi, input.override, input.hw)

\* none_pushdown "is lossless for encodable literals": comparing the stored
\* byte with the re-encoded literal is comparing what DuckDB sees with the
\* literal, so the table that decodes rows and the one that encodes literals
\* are inverse to each other (TranscodeNoneCharset, TryEncodeNoneLiteral).
EqualityIsLossless ==
  family = "literals" /\ Encodable(input.mode, <<input.code_point>>) =>
    \A b \in Byte :
      Transcode(input.mode, <<b>>) = Utf8(<<input.code_point>>)
        <=> EncodeCodePoint(input.mode, input.code_point) = {b}

Utf8IsReadOneWay(bytes) ==
  LET text == DecodeUtf8(bytes) IN
  /\ IsValidUtf8(bytes) <=> text # Malformed
  /\ text # Malformed /\ (\A i \in 1..Len(text) : text[i] < 65536) => Utf8(text) = bytes

\* DuckDB is given valid UTF-8 whatever a NONE column holds (Win1252ToUtf8,
\* Latin1ToUtf8) and whatever bytes a re-encoded statement has when telemetry
\* shows it (MakeTelemetrySafeUtf8), "while still showing the exact bytes":
\* valid text is shown as it is, but for a NUL, and what has no "\" of its own
\* can be read back byte by byte.
\* What a row passes as under STRICT (IsValidUtf8) and what a literal is read
\* with (DecodeUtf8Codepoint) are the same UTF-8: both reject overlong and
\* truncated forms and surrogates, and reading loses nothing.
TextIsValid ==
  family = "strings" =>
    /\ Utf8IsReadOneWay(input.bytes)
    /\ \A mode \in {"WIN1252", "ISO_8859_1"} : IsValidUtf8(Transcode(mode, input.bytes))
    /\ LET shown == MakeTelemetrySafeUtf8(input.bytes) IN
       /\ IsValidUtf8(shown)
       /\ IsValidUtf8(input.bytes) /\ 0 \notin Range(input.bytes) => shown = input.bytes
       /\ 92 \notin Range(input.bytes) => Unescaped(shown) = input.bytes

\* "a literal like 'fake JOIN and WHERE' or a commented-out clause can't trip
\* the token search", and no clause in the code is missed for its line breaks
\* or for a comment in its middle (AnalyzeViewSource).
ViewFlagsExact ==
  family = "views" =>
    LET words == View!Tokens(input.pieces)
        has(phrase) == View!Finds(words, phrase)
    IN View!AnalyzeViewSource(View!Source(input.pieces)) =
         [has_join |-> has(<<"JOIN">>), has_group_by |-> has(<<"GROUP", "BY">>),
          has_where |-> has(<<"WHERE">>), has_aggregate |-> has(<<"SUM", "(">>)]

\* The element FirebirdAppendValue writes has the width of the vector that
\* bind declared, for tables with widened and plain NUMERIC and for views whose
\* catalog rows are frozen at another type; widened, a 64-bit NUMERIC never
\* holds more digits than its DECIMAL.
WidthsAgree ==
  LET col == Value!Declared(input.col, input.frozen, input.is_view)
      type == Value!FirebirdToDuckDBType(col, input.widen)
  IN type.name # "DOUBLE" =>
       /\ Value!InternalBytes(type) = Value!AppendedBytes(input.col, type)
       /\ input.widen /\ col.bytes = 8 => \A v \in Value!IntRange(8) : Value!Holds(type, v)

\* The audit names the type an unwidened scan projects, and advises to widen
\* exactly the columns that widening changes (firebird_type_audit), for every
\* scale a declared NUMERIC may have.
AuditAgrees ==
  LET plain == Value!FirebirdToDuckDBType(input.col, FALSE)
      audit == Value!TypeAudit(input.col)
  IN -input.col.sqlscale \in 0..Digits[input.col.bytes] =>
       /\ \A row \in audit : row.duckdb_type = plain
       /\ (\E row \in audit : row.finding = "int64_numeric_widenable")
            <=> Value!FirebirdToDuckDBType(input.col, TRUE) # plain

\* "narrower scaled numerics (precision 1-9, SMALLINT/INTEGER-backed) always fit
\* their DuckDB DECIMAL and are not flagged" (docs/en/function_manual.md:932-933).
NarrowNumericsFit ==
  family = "columns" /\ input.col.bytes \in {2, 4} /\ input.col.sqlscale # 0 =>
    \A v \in Value!IntRange(input.col.bytes) :
      Value!Holds(Value!FirebirdToDuckDBType(input.col, FALSE), v)

\* A value comes out of Firebird whole and a constant goes in whole: widths
\* agree, also with the audit, dates and times survive the two epochs and units (times down to the
\* tick of Firebird), and a text parameter that is not refused has its length.
ValuesWhole ==
  /\ family = "columns" => WidthsAgree /\ AuditAgrees
  /\ family = "days" => Value!DayOut(Value!DayIn(input.day)) = input.day
  /\ family = "times" => LET back == Value!TimeOut(Value!TimeIn(input.micros)) IN
                     back <= input.micros /\ input.micros < back + Value!MicrosPerTick
  /\ family = "lengths" => LET param == Value!VaryingParam(input.length) IN
                     param.prefix = input.length /\ (param.sqllen = input.length \/ Value!Refused(param))

Address(host) ==
  (CASE host = "none" -> <<>> [] host = "name" -> <<"h", ":", "3">> [] host = "ipv6" -> <<"[", ":", "]">>) \o <<"/", "d">>
DatabaseOf(host) ==
  (CASE host = "none" -> <<>> [] host = "name" -> <<"h", "/", "3", ":">> [] host = "ipv6" -> <<"[", ":", "]", ":">>) \o <<"/", "d">>
Parsed(s) ==
  IF s.form = "pairs" THEN Text!Parse(Text!WritePairs(s.written, DatabaseOf(s.host)))
  ELSE IF s.form = "url" THEN Text!Parse(Text!WriteUrl(s.written, Address(s.host), {}, {}))
  ELSE Text!Parse(Text!WriteUrl(s.written, Address(s.host), {":", "=", "&", ";"}, {":", "@", "/", "?", "=", ";"}))

\* "Precedence: explicit ATTACH option / firebird_scan named parameter >
\* connection string > default", whatever characters a password, user or role
\* has, in either form of the string (FirebirdConnectionInfo::Parse,
\* BuildConnectionInfo, FirebirdScanBind).
SettingsArrive ==
  family = "settings" =>
    LET s == input
        given(key) == IF s.written[key] = Text!Absent THEN Text!Defaults[key] ELSE s.written[key]
    IN Text!Override(Parsed(s), [role |-> s.option]) =
         [user |-> given("user"), password |-> given("password"), database |-> DatabaseOf(s.host),
          role |-> IF s.option # Text!Absent THEN s.option ELSE given("role")]

\* The levers a profile may name for a table, by what the table is.
Lever(t) ==
  IF t.pk = <<>> THEN "no_primary_key"
  ELSE IF Len(t.pk) > 1 THEN "composite_pk_serial"
  ELSE IF t.type["K"] # "INTEGER" THEN "non_numeric_pk_serial"
  ELSE IF t.rows < 2 THEN "numeric_pk_no_range_serial"
  ELSE IF Report!ScanPartitions(t, {}) = 1 THEN "pk_range_small_serial" ELSE "partition_advisory"
Levers == {"view_no_scan_lever", "no_primary_key", "composite_pk_serial", "non_numeric_pk_serial",
           "numeric_pk_no_range_serial", "pk_range_small_serial", "partition_advisory", "undefined"}

\* What is advised is what a scan would do ("can never diverge from what a
\* real scan would actually do"): the partitions of the profile, and those of
\* explain if it plans any, are the scan's, whichever queries fail; explain
\* plans none for a key it calls ineligible; and the estimate is an upper bound
\* unless a wrap makes it unavailable, or 0 where the keys span all of int64_t.
AdviceIsTheScan(t, profile, row, failing) ==
  LET scan == Report!ScanPartitions(t, failing) IN
  /\ profile # Report!Thrown =>
       /\ profile.recommended_partitions = scan
       /\ profile.estimated_rows >= 0 => profile.estimated_rows >= t.rows \/ t.hi - t.lo = 2 * IntMax + 1
       /\ profile.full_scan_risk = "HIGH" => scan = 1
  /\ row # Report!Thrown =>
       /\ row.planned_partitions # Report!NotPlanned => row.planned_partitions = scan
       /\ row.planned_partitions # Report!NotPlanned /\ "constraints" \notin failing => row.pk_range_eligible

\* Alerts are about the table: one lever, the true one unless a query about
\* keys failed; and no table with an index is called a table without
\* (BuildProfile, BuildIndexProfile, explain).
AlertsAreTrue(t, profile, indexes, row, failing) ==
  /\ profile # Report!Thrown =>
       /\ \E lever \in Levers : profile.alerts \cap Levers = {lever}
       /\ failing \cap {"indexes", "PK", "probe"} = {} /\ t.kind = "TABLE" => Lever(t) \in profile.alerts
       /\ "undefined" \in profile.alerts => "PK" \in failing
       /\ t.kind = "TABLE" => ~({"filter_before_scan", "materialize_before_scan"} \subseteq profile.alerts)
  /\ indexes # Report!Thrown =>
       /\ "no_indexes_on_table" \in indexes.alerts <=> Report!Indexes(t) = {}
       /\ profile # Report!Thrown => profile.filter_candidates \cap indexes.unindexed_filter_candidates = {}
  /\ row # Report!Thrown /\ profile # Report!Thrown =>
       (row.view_heavy = "heavy" <=>
          profile.alerts \cap {"view_contains_join", "view_contains_aggregation",
                               "view_definition_not_inspected"} # {})

\* A column of the health report is NULL or true, all or none of the monitored
\* ones, and the warnings are those the columns bear out; a generator whose
\* value cannot be read leaves the others their values.
HealthIsTrue(s, row) ==
  row # Meta!Thrown =>
    LET monitored == {"page_size", "oit_gap", "oat_gap", "sweep_interval"}
        nulls == {column \in monitored : row[column] = Meta!Null}
        warned(name) == name \in row.warnings
    IN /\ nulls \in {{}, monitored}
       /\ warned("mon_unavailable") <=> nulls # {}
       /\ nulls = {} => /\ row.page_size = <<s.page_size>>
                        /\ row.oit_gap[1] <= GAP_THRESHOLD <=> ~warned("oit_gap_high")
                        /\ warned("oat_gap_high") => warned("oit_gap_high")
ValuesAreTheirs(generators, failing, table) ==
  table # Meta!Thrown =>
    /\ Len(table.rows) = Len(generators)
    /\ \A i \in DOMAIN generators :
         table.rows[i].current =
           IF generators[i].name \in failing THEN Meta!Null ELSE <<generators[i].value>>

\* The reports tell the truth about the relation, the server and its generators
\* and agree with each other and with the scan, or they throw.
ReportsTellTheTruth ==
  /\ family = "servers" => HealthIsTrue(input, Meta!Health(input))
  /\ family = "generators" =>
       ValuesAreTheirs(input.generators, input.failing, Meta!GenInitGlobal(input.generators, input.failing))
  /\ family = "reports" =>
    LET t == input.relation
        profile == Report!BuildProfile(t, input.failing, input.exact)
        indexes == Report!BuildIndexProfile(t, input.failing)
        row == Report!ExplainRow(t, input.failing)
    IN /\ t.kind = "MISSING" => profile = Report!Thrown /\ indexes = Report!Thrown
       /\ t.kind # "MISSING" => AdviceIsTheScan(t, profile, row, input.failing)
       /\ t.kind # "MISSING" => AlertsAreTrue(t, profile, indexes, row, input.failing)

\* Four functions list the relations of a database, with a query each, and
\* agree: firebird_tables and firebird_attach_sql on all of them, each once and
\* whole vector by vector; ATTACH on one of each class of names that differ in
\* case only, and dbt sources on tables and views, each of which a lookup in the
\* catalog finds.  A unique test is written only for a column that is the whole
\* primary key, "misleading ... against a single member of the composite key".
DiscoveryAgrees ==
  family = "databases" =>
    LET db == input.relations
        listed == Meta!FirebirdTablesInitGlobal(db)
        names == {row.table_name : row \in Range(listed)}
        statements == Meta!FirebirdAttachInitGlobal(db, "fb")
        dbt == Meta!CollectTableMetadata(db)
        relation(name) == CHOOSE r \in Range(db) : r.name = name
    IN /\ Len(listed) = Cardinality(names)
       /\ FlattenSeq(Meta!Emitted(statements)) = statements
       /\ \A chunk \in Range(Meta!Emitted(statements)) : Len(chunk) \in 1..STANDARD_VECTOR_SIZE
       /\ [i \in DOMAIN listed |-> listed[i].table_name]
            = [i \in 1..Len(statements) - 1 |-> statements[i + 1].name]
       /\ \A row \in Range(listed) :
            /\ Len(Meta!LookupEntry(db, row.table_name)) = 1
            /\ row.has_pk <=> row.pk_columns # {}
       /\ {e.name : e \in Range(Meta!AttachedEntries(db))} \subseteq names
       /\ dbt # Meta!Thrown =>
            \A table \in Range(dbt.tables) :
              /\ table.name \in names /\ Meta!LookupEntry(db, table.name) # <<>>
              /\ \A c \in table.unique : c \in table.columns /\ relation(table.name).pk = <<c>>

\* Whenever fbapi() returns, every entry point is bound and all are of one
\* library: the one the user names "is authoritative", else the first that
\* opens; calls that threw half-way leave no trace, and once it has returned
\* it returns the same.
LibraryIsWhole ==
  family = "loads" =>
    LET calls == Library!Calls(input.worlds)
        opens(world, lib) == lib \in DOMAIN world.libraries
        chosen(world, lib) ==
          IF world.env # Library!NoEnv THEN lib = world.env
          ELSE \E k \in DOMAIN Candidates :
                 lib = Candidates[k] /\ \A j \in 1..(k - 1) : ~opens(world, Candidates[j])
    IN \A i \in DOMAIN calls : calls[i].outcome = "api" =>
         \E first \in 1..i :
           LET world == input.worlds[first] IN
           /\ \A j \in 1..(first - 1) : calls[j].outcome # "api"
           /\ calls[i].api = calls[first].api
           /\ \E lib \in DOMAIN world.libraries :
                /\ chosen(world, lib)
                /\ \A symbol \in Range(Symbols) :
                     calls[i].api[symbol] = lib /\ symbol \in world.libraries[lib]
=============================================================================
