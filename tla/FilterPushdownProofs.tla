------------------------ MODULE FilterPushdownProofs -------------------------
(***************************************************************************)
(* For every query over every set of constants: no UTF-8 literal reaches a *)
(* CHARACTER SET NONE text column, each placeholder gets its value, and    *)
(* the rows that come out are those the query asked for.  The predicates   *)
(* of the WHERE clause come from two places, and the ones that were moved  *)
(* before the scan started wait in `extra`: the invariants have to say of  *)
(* them already what they say of the WHERE clause.                         *)
(***************************************************************************)
EXTENDS FilterPushdown, FunctionLemmas

Extra == [cond : Cond, params : Seq(Constants)]

Types ==
  /\ query \in Query
  /\ it \in Nat \ {0}
  /\ extra \in Seq(Extra)
  /\ plan \in Seq(Filter)
  /\ conds \in Seq(Cond)

ExtraReencoded == \A i \in 1..Len(extra) : Reencoded(extra[i].cond)

IInv == Types /\ ExtraReencoded /\ NoneNeverUtf8

-----------------------------------------------------------------------------

\* The column expression is the column or its CAST.
LEMMA ColExprType == ASSUME NEW col PROVE ColExpr(col) \in {"column", "cast"}
  BY DEF ColExpr

\* A filter and operands of its type make a condition.
LEMMA ConditionType ==
  ASSUME NEW f \in Filter, NEW parts \in Seq(Leaf), NEW encoded \in BOOLEAN
  PROVE  Condition(f, parts, encoded) \in Cond
<1>1. ColExpr(f.col) \in {"column", "cast"}
  BY ColExprType
<1>2. f.col \in Column /\ f.conj \in {"leaf", "and", "or"}
  BY DEF Filter
<1> QED
  BY ONLY <1>1, <1>2, parts \in Seq(Leaf), encoded \in BOOLEAN DEF Condition, Cond

\* Swapping the operands of a comparison makes a comparison.
LEMMA ColumnLeftType == ASSUME NEW l \in Leaf PROVE ColumnLeft(l) \in Leaf
<1>1. CASE l.flipped
  <2>1. l.op \in {"=", "<>", "<", ">"} BY DEF Leaf
  <2>2. FlipComparison(l.op) \in {"=", "<>", "<", ">"} BY <2>1 DEF FlipComparison
  <2>3. ColumnLeft(l) = [l EXCEPT !.op = FlipComparison(l.op), !.flipped = FALSE]
    BY <1>1 DEF ColumnLeft
  <2> QED BY <2>2, <2>3 DEF Leaf
<1>2. CASE ~l.flipped
  BY <1>2 DEF ColumnLeft
<1> QED BY <1>1, <1>2

\* What is said of the elements of a sequence is said of the longer one.
LEMMA AppendElements ==
  ASSUME NEW S, NEW s \in Seq(S), NEW x \in S
  PROVE  /\ Append(s, x) \in Seq(S)
         /\ Len(Append(s, x)) = Len(s) + 1
         /\ \A i \in 1..Len(Append(s, x)) : Append(s, x)[i] = x \/ (i \in 1..Len(s) /\ Append(s, x)[i] = s[i])
  OBVIOUS

-----------------------------------------------------------------------------

LEMMA InitIInv == Init => IInv
<1> SUFFICES ASSUME Init PROVE IInv OBVIOUS
<1>1. query \in Query BY PushdownAssumption DEF Init
<1> QED BY <1>1 DEF Init, IInv, Types, ExtraReencoded, NoneNeverUtf8

\* A predicate that is lifted out of the plan is re-encoded if its column
\* needs it.
LEMMA LiftKeeps ==
  ASSUME IInv, Looking, NEW encoded \in BOOLEAN, NEW bound \in Seq(Constants), Lift(encoded, bound),
         encoded \/ ~IsNoneTextColumnGated(expr.col)
  PROVE  IInv'
<1> DEFINE c == Condition(expr, expr.parts, encoded)
           e == [cond |-> c, params |-> bound]
<1>1. expr \in Filter
  BY DEF IInv, Types, Looking, expr, Query
<1>2. expr.parts \in Seq(Leaf)
  BY <1>1 DEF Filter
<1>3. c \in Cond
  BY <1>1, <1>2, ConditionType
<1>4. e \in Extra
  BY <1>3 DEF Extra
<1>5. e.cond.col = expr.col /\ e.cond.encoded = encoded
  BY DEF Condition
<1>6. Reencoded(e.cond)
  BY <1>5 DEF Reencoded, IsNoneTextColumnGated, IsTextColumn
<1> HIDE DEF c, e
<1>7. extra' = Append(extra, e) /\ extra \in Seq(Extra)
  BY DEF Lift, IInv, Types, e, c
<1>8. Types'
  BY <1>4, <1>7, AppendElements DEF Lift, IInv, Types
<1>9. \A x : Reencoded(x) => Reencoded(x)'
  BY DEF Lift, Reencoded, IsTextColumn
<1>10. ExtraReencoded'
  BY <1>4, <1>6, <1>7, <1>9, AppendElements DEF IInv, ExtraReencoded, Reencoded, Lift, IsTextColumn
<1>11. NoneNeverUtf8'
  BY DEF IInv, NoneNeverUtf8, Reencoded, Lift, IsTextColumn
<1> QED BY <1>8, <1>10, <1>11 DEF IInv

\* A step that leaves the predicates alone.
LEMMA UntouchedKeeps ==
  ASSUME IInv, UNCHANGED <<query, extra, conds>>, it' \in Nat \ {0}, plan' \in Seq(Filter)
  PROVE  IInv'
<1>1. Types' BY DEF IInv, Types
<1>2. ExtraReencoded' BY DEF IInv, ExtraReencoded, Reencoded, IsTextColumn
<1>3. NoneNeverUtf8' BY DEF IInv, NoneNeverUtf8, Reencoded, IsTextColumn
<1> QED BY <1>1, <1>2, <1>3 DEF IInv

\* The parts of a filter the builder translates, with the column on the left.
LEMMA TranslatedParts ==
  ASSUME NEW parts \in Seq(Leaf)
  PROVE  [i \in 1..Len(parts) |-> ColumnLeft(parts[i])] \in Seq(Leaf)
<1>1. \A i \in 1..Len(parts) : ColumnLeft(parts[i]) \in Leaf
  BY ColumnLeftType
<1> QED BY <1>1

\* A translated filter is on a column that is not gated.
LEMMA TranslateKeeps == IInv /\ Translate => IInv'
<1> SUFFICES ASSUME IInv, Translate PROVE IInv' OBVIOUS
<1> DEFINE parts == Translated(table_filter)
           c == Condition(table_filter, parts, FALSE)
<1>1. table_filter \in Filter
  BY DEF IInv, Types, Translate, Building, table_filter
<1>2. table_filter.parts \in Seq(Leaf)
  BY <1>1 DEF Filter
<1>3. parts \in Seq(Leaf)
  BY <1>2, TranslatedParts DEF Translated
<1>4. /\ conds' = Append(conds, c)
      /\ UNCHANGED <<query, extra, plan>> /\ it' = it + 1
  BY DEF Translate
<1>5. c.col = table_filter.col
  BY DEF Condition
<1>6. Reencoded(c)
  BY <1>5 DEF Translate, Reencoded, IsNoneTextColumnGated, IsTextColumn
<1> HIDE DEF parts
<1>7. c \in Cond
  BY <1>1, <1>3, ConditionType
<1> HIDE DEF c
<1>8. Types'
  BY ONLY IInv, <1>4, <1>7, AppendElements DEF IInv, Types
<1>9. ExtraReencoded'
  BY <1>4 DEF IInv, ExtraReencoded, Reencoded, IsTextColumn
<1>10. conds \in Seq(Cond)
  BY DEF IInv, Types
<1>11. \A i \in 1..Len(conds') : conds'[i] = c \/ (i \in 1..Len(conds) /\ conds'[i] = conds[i])
  BY ONLY <1>4, <1>7, <1>10, AppendElements
<1>12. \A i \in 1..Len(conds') : Reencoded(conds'[i])
  BY ONLY IInv, <1>6, <1>11 DEF IInv, NoneNeverUtf8
<1>13. NoneNeverUtf8'
  BY <1>4, <1>12 DEF NoneNeverUtf8, Reencoded, IsTextColumn
<1> QED BY <1>8, <1>9, <1>13 DEF IInv

\* The lifted predicates join the WHERE clause.
LEMMA AssembleKeeps == IInv /\ Assemble => IInv'
<1> SUFFICES ASSUME IInv, Assemble PROVE IInv' OBVIOUS
<1> DEFINE lifted == [i \in 1..Len(extra) |-> extra[i].cond]
<1>1. \A i \in 1..Len(extra) : extra[i].cond \in Cond
  <2>1. extra \in Seq(Extra) BY DEF IInv, Types
  <2>2. \A i \in 1..Len(extra) : extra[i] \in Extra BY ONLY <2>1
  <2> QED BY ONLY <2>2 DEF Extra
<1>2. lifted \in Seq(Cond) /\ Len(lifted) = Len(extra)
  BY <1>1 DEF IInv, Types
<1>3. \A i \in 1..Len(lifted) : Reencoded(lifted[i])
  BY <1>2 DEF IInv, ExtraReencoded
<1>4. conds' = conds \o lifted /\ UNCHANGED <<query, extra, plan, it>>
  BY DEF Assemble
<1>0. conds \in Seq(Cond)
  BY DEF IInv, Types
<1> HIDE DEF lifted
<1>5. /\ Len(conds') = Len(conds) + Len(lifted)
      /\ \A i \in 1..Len(conds') :
           \/ i \in 1..Len(conds) /\ conds'[i] = conds[i]
           \/ i - Len(conds) \in 1..Len(lifted) /\ conds'[i] = lifted[i - Len(conds)]
  BY ONLY <1>0, <1>2, <1>4
<1>6. Types'
  BY ONLY IInv, <1>0, <1>2, <1>4 DEF IInv, Types
<1>7. ExtraReencoded'
  BY DEF Assemble, IInv, ExtraReencoded, Reencoded, IsTextColumn
<1>8. \A i \in 1..Len(conds') : Reencoded(conds'[i])
  BY <1>3, <1>5 DEF IInv, NoneNeverUtf8
<1>9. NoneNeverUtf8'
  BY <1>8 DEF Assemble, NoneNeverUtf8, Reencoded, IsTextColumn
<1> QED BY <1>6, <1>7, <1>9 DEF IInv

LEMMA NextIInv == IInv /\ [Next]_vars => IInv'
<1> SUFFICES ASSUME IInv, [Next]_vars PROVE IInv' OBVIOUS
<1> USE DEF Lift
<1>1. CASE PushLike
  <2>1. <<>> \in Seq(Constants) OBVIOUS
  <2> QED BY <1>1, <2>1, LiftKeeps DEF PushLike, PushesLike
<1>2. CASE PushEncoded
  <2>1. <<>> \in Seq(Constants) OBVIOUS
  <2> QED BY <1>2, <2>1, LiftKeeps DEF PushEncoded, PushesEncoded
<1>3. CASE PushNotIn
  <2>1. expr \in Filter
    BY <1>3 DEF IInv, Types, PushNotIn, Looking, expr, Query
  <2>2. expr.parts \in Seq(Leaf) \ {<<>>}
    BY ONLY <2>1 DEF Filter
  <2>3. expr.parts[1] \in Leaf
    BY ONLY <2>2
  <2>4. Values(expr) \in Seq(Constants)
    BY ONLY <2>3 DEF Leaf, Values
  <2> QED BY <1>3, <2>4, LiftKeeps DEF PushNotIn, PushesNotIn
<1>4. CASE PushNotBool
  <2>1. <<>> \in Seq(Constants) OBVIOUS
  <2>2. ~IsNoneTextColumnGated(expr.col)
    BY <1>4 DEF PushNotBool, PushesNotBool, TryExtractNotBoolColumn, IsNoneTextColumnGated, TextType
  <2> QED BY <1>4, <2>1, <2>2, LiftKeeps DEF PushNotBool
<1>5. CASE Keep
  <2>1. expr \in Filter
    BY <1>5 DEF IInv, Types, Keep, Looking, expr, Query
  <2> QED BY <1>5, <2>1, UntouchedKeeps DEF Keep, IInv, Types
<1>6. CASE StartBuild
  BY <1>6, UntouchedKeeps DEF StartBuild, IInv, Types
<1>7. CASE NotOffered
  BY <1>7, UntouchedKeeps DEF NotOffered, IInv, Types
<1>8. CASE ResidualRowId
  BY <1>8, UntouchedKeeps DEF ResidualRowId, Residual, IInv, Types
<1>9. CASE ResidualNone
  BY <1>9, UntouchedKeeps DEF ResidualNone, Residual, IInv, Types
<1>10. CASE ResidualUnsupported
  BY <1>10, UntouchedKeeps DEF ResidualUnsupported, Residual, IInv, Types
<1>11. CASE Translate
  BY <1>11, TranslateKeeps
<1>12. CASE Assemble
  BY <1>12, AssembleKeeps
<1>13. CASE UNCHANGED vars
  BY <1>13, UntouchedKeeps DEF vars, IInv, Types
<1> QED
  BY <1>1, <1>2, <1>3, <1>4, <1>5, <1>6, <1>7, <1>8, <1>9, <1>10, <1>11, <1>12, <1>13 DEF Next

\* The invariant: the types, and that what waits in `extra` and what is in the
\* WHERE clause is re-encoded on the columns that are transcoded.
THEOREM PushdownInvariant == Spec => []IInv
BY InitIInv, NextIInv, PTL DEF Spec

\* No UTF-8 literal is compared with the raw bytes of a NONE text column,
\* whichever of the paths pushed the predicate.
THEOREM NoneIsNeverComparedAsUtf8 == Spec => []NoneNeverUtf8
<1>1. IInv => NoneNeverUtf8 BY DEF IInv
<1> QED BY PushdownInvariant, <1>1, PTL

-----------------------------------------------------------------------------
(* Each placeholder gets its value.                                        *)

\* The placeholders of a constant, a predicate and a condition are constants.
LEMMA LeafPlaceholdersType == ASSUME NEW l \in Leaf PROVE LeafPlaceholders(l) \in Seq(Constants)
<1> DEFINE ps == [i \in 1..Len(l.values) |-> Placeholder(l.values[i])]
<1>1. l.values \in Seq(Constants)
  BY DEF Leaf
<1>2. \A i \in 1..Len(l.values) : Placeholder(l.values[i]) \in Seq(Constants)
  BY <1>1 DEF Placeholder
<1>3. ps \in Seq(Seq(Constants))
  BY <1>1, <1>2
<1> HIDE DEF ps
<1>4. Joined(ps) \in Seq(Constants)
  BY <1>3, JoinedType
<1> QED BY <1>4 DEF ps, LeafPlaceholders

LEMMA PlaceholdersType == ASSUME NEW parts \in Seq(Leaf) PROVE Placeholders(parts) \in Seq(Constants)
<1> DEFINE ps == [i \in 1..Len(parts) |-> LeafPlaceholders(parts[i])]
<1>1. \A i \in 1..Len(parts) : LeafPlaceholders(parts[i]) \in Seq(Constants)
  BY LeafPlaceholdersType
<1>2. ps \in Seq(Seq(Constants))
  BY <1>1
<1> HIDE DEF ps
<1>3. Joined(ps) \in Seq(Constants)
  BY <1>2, JoinedType
<1> QED BY <1>3 DEF ps, Placeholders

LEMMA SlotsType == ASSUME NEW cond \in Cond PROVE Slots(cond) \in Seq(Constants)
<1>1. cond.parts \in Seq(Leaf)
  BY DEF Cond
<1> QED BY <1>1, PlaceholdersType DEF Slots

\* A single predicate has the placeholders of its constants.
LEMMA OnePart ==
  ASSUME NEW parts \in Seq(Leaf), Len(parts) = 1
  PROVE  parts[1] \in Leaf /\ Placeholders(parts) = LeafPlaceholders(parts[1])
<1> DEFINE ps == [i \in 1..Len(parts) |-> LeafPlaceholders(parts[i])]
<1>1. parts[1] \in Leaf
  OBVIOUS
<1>2. LeafPlaceholders(parts[1]) \in Seq(Constants)
  BY <1>1, LeafPlaceholdersType
<1>3. ps = <<LeafPlaceholders(parts[1])>>
  BY <1>2
<1> HIDE DEF ps
<1>4. Joined(ps) = LeafPlaceholders(parts[1])
  BY <1>2, <1>3, JoinedOne
<1> QED BY <1>1, <1>4 DEF ps, Placeholders

\* Patterns, and predicates without constants, have no placeholder.
LEMMA WrittenOut ==
  ASSUME NEW l \in Leaf, l.kind \in {"like", "not_bool"}
  PROVE  LeafPlaceholders(l) = << >>
<1> DEFINE ps == [i \in 1..Len(l.values) |-> Placeholder(l.values[i])]
<1>1. l.values \in Seq(Constants)
  BY DEF Leaf
<1>2. CASE l.kind = "not_bool"
  <2>1. l.values = << >>
    BY <1>2 DEF Leaf
  <2>2. ps = << >>
    BY <2>1
  <2> HIDE DEF ps
  <2>3. Joined(ps) = << >>
    BY <2>2, JoinedEmpty
  <2> QED BY <2>3 DEF ps, LeafPlaceholders
<1>3. CASE l.kind = "like"
  <2>1. Len(l.values) = 1 /\ l.values[1].type = "PATTERN"
    BY <1>3 DEF Leaf
  <2>2. Placeholder(l.values[1]) = << >>
    BY <2>1 DEF Placeholder, IsBindableType
  <2>3. ps = << << >> >> /\ << >> \in Seq(Constants)
    BY <2>1, <2>2
  <2> HIDE DEF ps
  <2>4. Joined(ps) = << >>
    BY <2>3, JoinedOne
  <2> QED BY <2>4 DEF ps, LeafPlaceholders
<1> QED BY <1>2, <1>3

\* Constants that can all be bound are the values of the placeholders.
LEMMA AllBound ==
  ASSUME NEW l \in Leaf, \A i \in 1..Len(l.values) : IsBindableType(l.values[i])
  PROVE  LeafPlaceholders(l) = l.values
<1> DEFINE Of(s) == [i \in 1..Len(s) |-> Placeholder(s[i])]
           S == {s \in Seq(Constants) :
                   (\A i \in 1..Len(s) : IsBindableType(s[i])) => Joined(Of(s)) = s}
<1>1. << >> \in S
  <2>1. Of(<< >>) = << >> /\ << >> \in Seq(Constants)
    OBVIOUS
  <2> HIDE DEF Of
  <2> QED BY <2>1, JoinedEmpty
<1>2. ASSUME NEW s \in Seq(Constants), NEW c \in Constants, s \in S PROVE Append(s, c) \in S
  <2>0. Append(s, c) \in Seq(Constants)
    OBVIOUS
  <2> SUFFICES ASSUME \A i \in 1..Len(Append(s, c)) : IsBindableType(Append(s, c)[i])
               PROVE  Joined(Of(Append(s, c))) = Append(s, c)
    BY <2>0
  <2>1. /\ Len(Append(s, c)) = Len(s) + 1 /\ Append(s, c)[Len(s) + 1] = c
        /\ \A i \in 1..Len(s) : i \in 1..(Len(s) + 1) /\ Append(s, c)[i] = s[i]
        /\ Len(s) + 1 \in 1..(Len(s) + 1)
    OBVIOUS
  <2>2. IsBindableType(c) /\ \A i \in 1..Len(s) : IsBindableType(s[i])
    BY <2>1
  <2>3. Placeholder(c) = <<c>> /\ \A i \in 1..Len(s) : Placeholder(s[i]) \in Seq(Constants)
    BY <2>2 DEF Placeholder
  <2>4. Of(s) \in Seq(Seq(Constants)) /\ <<c>> \in Seq(Constants)
    BY <2>3
  <2>5. Of(Append(s, c)) = Append(Of(s), <<c>>)
    BY <2>1, <2>3, <2>4
  <2>6. Joined(Of(s)) = s
    BY <1>2, <2>2
  <2> HIDE DEF Of
  <2>7. Joined(Append(Of(s), <<c>>)) = s \o <<c>>
    BY <2>4, <2>6, JoinedAppend
  <2>8. s \o <<c>> = Append(s, c)
    OBVIOUS
  <2> QED BY <2>5, <2>7, <2>8
<1> HIDE DEF S
<1>3. \A s \in Seq(Constants), c \in Constants : s \in S => Append(s, c) \in S
  BY <1>2
<1>4. Seq(Constants) \subseteq S
  BY <1>1, <1>3, SeqInduction
<1>5. l.values \in Seq(Constants)
  BY DEF Leaf
<1>6. Joined(Of(l.values)) = l.values
  BY <1>4, <1>5 DEF S
<1> QED BY <1>6 DEF LeafPlaceholders

ParamInv ==
  /\ params \in Seq(Constants)
  /\ \A i \in 1..Len(extra) : extra[i].params = Slots(extra[i].cond)
  /\ ParamsMatch

\* A step that leaves the WHERE clause and what waits for it alone.
LEMMA UntouchedParams ==
  ParamInv /\ UNCHANGED <<extra, conds, params>> => ParamInv'
BY DEF ParamInv, ParamsMatch, Slots

\* A lifted predicate waits together with the values of its placeholders.
LEMMA LiftParams ==
  ASSUME IInv, ParamInv, Looking, NEW encoded \in BOOLEAN, NEW bound \in Seq(Constants),
         Lift(encoded, bound), bound = Slots(Condition(expr, expr.parts, encoded))
  PROVE  ParamInv'
<1> DEFINE e == [cond |-> Condition(expr, expr.parts, encoded), params |-> bound]
<1>1. e.params = Slots(e.cond)
  OBVIOUS
<1>2. e \in Extra
  <2>1. expr \in Filter
    BY DEF IInv, Types, Looking, expr, Query
  <2>2. expr.parts \in Seq(Leaf)
    BY <2>1 DEF Filter
  <2> QED BY <2>1, <2>2, ConditionType DEF Extra
<1> HIDE DEF e
<1>3. extra' = Append(extra, e) /\ extra \in Seq(Extra) /\ UNCHANGED <<conds, params>>
  BY DEF Lift, e, IInv, Types
<1>4. \A i \in 1..Len(extra') : extra'[i].params = Slots(extra'[i].cond)
  BY <1>1, <1>2, <1>3, AppendElements DEF ParamInv
<1> QED BY <1>3, <1>4 DEF ParamInv, ParamsMatch, Slots

\* The placeholders of a filter that is a single predicate.
LEMMA OneLeaf ==
  ASSUME IInv, Looking, expr.conj = "leaf"
  PROVE  /\ expr.parts[1] \in Leaf
         /\ Slots(Condition(expr, expr.parts, FALSE)) = LeafPlaceholders(expr.parts[1])
<1>1. expr \in Filter
  BY DEF IInv, Types, Looking, expr, Query
<1>2. expr.parts \in Seq(Leaf) /\ Len(expr.parts) = 1
  BY <1>1 DEF Filter
<1> QED BY <1>2, OnePart DEF Slots, Condition

\* A translated filter brings the values of its placeholders.
LEMMA TranslateParams == IInv /\ ParamInv /\ Translate => ParamInv'
<1> SUFFICES ASSUME IInv, ParamInv, Translate PROVE ParamInv' OBVIOUS
<1> DEFINE parts == Translated(table_filter)
           c == Condition(table_filter, parts, FALSE)
           ps == [i \in 1..Len(conds) |-> Slots(conds[i])]
<1>1. table_filter \in Filter
  BY DEF IInv, Types, Translate, Building, table_filter
<1>2. table_filter.parts \in Seq(Leaf)
  BY <1>1 DEF Filter
<1>3. parts \in Seq(Leaf)
  BY <1>2, TranslatedParts DEF Translated
<1>4. conds' = Append(conds, c) /\ params' = params \o Slots(c) /\ UNCHANGED extra
  BY DEF Translate, Slots, Condition
<1> HIDE DEF parts
<1>5. c \in Cond
  BY <1>1, <1>3, ConditionType
<1> HIDE DEF c
<1>6. conds \in Seq(Cond)
  BY DEF IInv, Types
<1>7. \A i \in 1..Len(conds) : Slots(conds[i]) \in Seq(Constants)
  BY <1>6, SlotsType
<1>8. Slots(c) \in Seq(Constants)
  BY <1>5, SlotsType
<1>9. ps \in Seq(Seq(Constants)) /\ params = Joined(ps)
  BY <1>6, <1>7 DEF ParamInv, ParamsMatch
<1>10. [i \in 1..Len(conds') |-> Slots(conds'[i])] = Append(ps, Slots(c))
  BY <1>4, <1>5, <1>6, <1>8
<1> HIDE DEF ps
<1>11. Joined(Append(ps, Slots(c))) = params'
  BY <1>4, <1>8, <1>9, JoinedAppend
<1>12. ParamsMatch'
  BY <1>10, <1>11 DEF ParamsMatch, Slots
<1>13. params' \in Seq(Constants)
  BY <1>4, <1>8 DEF ParamInv
<1> QED BY <1>4, <1>12, <1>13 DEF ParamInv, Slots

\* Two sequences, one after the other.
LEMMA ConcatElements ==
  ASSUME NEW T, NEW s \in Seq(T), NEW t \in Seq(T), NEW r,
         DOMAIN r = 1..(Len(s) + Len(t)), r = [i \in DOMAIN r |-> r[i]],
         \A i \in 1..Len(s) : r[i] = s[i],
         \A i \in 1..Len(t) : r[Len(s) + i] = t[i]
  PROVE  r = s \o t
<1>1. Len(s) \in Nat /\ Len(t) \in Nat
  OBVIOUS
<1>2. s \o t \in Seq(T) /\ Len(s \o t) = Len(s) + Len(t)
  OBVIOUS
<1>3. DOMAIN (s \o t) = 1..(Len(s) + Len(t)) /\ s \o t = [i \in DOMAIN (s \o t) |-> (s \o t)[i]]
  <2>1. \A u \in Seq(T) : DOMAIN u = 1..Len(u) /\ u = [i \in DOMAIN u |-> u[i]]
    OBVIOUS
  <2> QED BY ONLY <1>2, <2>1
<1>4. ASSUME NEW i \in 1..(Len(s) + Len(t)) PROVE r[i] = (s \o t)[i]
  <2>1. CASE i <= Len(s)
    BY <1>1, <2>1
  <2>2. CASE i > Len(s)
    <3>1. i - Len(s) \in 1..Len(t) /\ Len(s) + (i - Len(s)) = i
      BY <1>1, <2>2
    <3>2. (s \o t)[i] = t[i - Len(s)]
      BY <1>1, <2>2
    <3> QED BY <3>1, <3>2
  <2> QED BY <1>1, <2>1, <2>2
<1> QED BY <1>3, <1>4

\* The lifted predicates and their values come last.
LEMMA AssembleParams == IInv /\ ParamInv /\ Assemble => ParamInv'
<1> SUFFICES ASSUME IInv, ParamInv, Assemble PROVE ParamInv' OBVIOUS
<1> DEFINE lifted == [i \in 1..Len(extra) |-> extra[i].cond]
           ps == [i \in 1..Len(conds) |-> Slots(conds[i])]
           qs == [i \in 1..Len(extra) |-> extra[i].params]
<1>1. conds \in Seq(Cond) /\ extra \in Seq(Extra)
  BY DEF IInv, Types
<1>2. \A i \in 1..Len(extra) : extra[i].cond \in Cond /\ extra[i].params \in Seq(Constants)
  <2>1. \A i \in 1..Len(extra) : extra[i] \in Extra BY ONLY <1>1
  <2> QED BY ONLY <2>1 DEF Extra
<1>3. \A i \in 1..Len(conds) : Slots(conds[i]) \in Seq(Constants)
  BY <1>1, SlotsType
<1>4. ps \in Seq(Seq(Constants)) /\ qs \in Seq(Seq(Constants)) /\ lifted \in Seq(Cond)
  BY <1>1, <1>2, <1>3
<1>5. conds' = conds \o lifted /\ params' = params \o Joined(qs) /\ UNCHANGED extra
  BY DEF Assemble, ExtraParams
<1>6. \A i \in 1..Len(extra) : Slots(lifted[i]) = qs[i]
  BY DEF ParamInv
<1>7. [i \in 1..Len(conds') |-> Slots(conds'[i])] = ps \o qs
  <2>1. Len(conds') = Len(conds) + Len(extra)
    BY ONLY <1>1, <1>4, <1>5
  <2>2. /\ \A i \in 1..Len(conds) : conds'[i] = conds[i]
        /\ \A i \in 1..Len(extra) : conds'[Len(conds) + i] = lifted[i]
    BY ONLY <1>1, <1>4, <1>5
  <2>3. Len(ps) = Len(conds) /\ Len(qs) = Len(extra)
    BY ONLY <1>1
  <2>4. \A i \in 1..Len(ps) : Slots(conds'[i]) = ps[i]
    BY ONLY <2>2, <2>3
  <2>5. \A i \in 1..Len(qs) : Slots(conds'[Len(ps) + i]) = qs[i]
    BY ONLY <1>6, <2>2, <2>3
  <2> DEFINE r == [i \in 1..Len(conds') |-> Slots(conds'[i])]
  <2> HIDE DEF ps, qs, lifted
  <2>6. Len(conds) \in Nat /\ Len(extra) \in Nat
    BY ONLY <1>1
  <2>7. \A i \in 1..Len(ps) : i \in 1..Len(conds')
    BY ONLY <2>1, <2>3, <2>6
  <2>8. \A i \in 1..Len(qs) : Len(ps) + i \in 1..Len(conds')
    BY ONLY <2>1, <2>3, <2>6
  <2>9. (\A i \in 1..Len(ps) : r[i] = ps[i]) /\ \A i \in 1..Len(qs) : r[Len(ps) + i] = qs[i]
    BY ONLY <2>4, <2>5, <2>7, <2>8
  <2>10. DOMAIN r = 1..(Len(ps) + Len(qs)) /\ r = [i \in DOMAIN r |-> r[i]]
    BY ONLY <2>1, <2>3
  <2> HIDE DEF r
  <2>11. r = ps \o qs
    BY <1>4, <2>9, <2>10, ConcatElements
  <2> QED BY <2>11 DEF r
<1> HIDE DEF ps, qs, lifted
<1>8. Joined(ps \o qs) = Joined(ps) \o Joined(qs)
  BY <1>4, JoinedConcat
<1>9. params = Joined(ps)
  BY DEF ParamInv, ParamsMatch, ps
<1>10. ParamsMatch'
  BY <1>5, <1>7, <1>8, <1>9 DEF ParamsMatch, Slots
<1>11. Joined(qs) \in Seq(Constants)
  BY <1>4, JoinedType
<1>12. params' \in Seq(Constants)
  BY <1>5, <1>11 DEF ParamInv
<1> QED BY <1>5, <1>10, <1>12 DEF ParamInv, Slots

\* Nothing is pushed yet.
LEMMA InitParams == Init => ParamInv
<1> SUFFICES ASSUME Init PROVE ParamInv OBVIOUS
<1>1. extra = << >> /\ conds = << >> /\ params = << >>
  BY DEF Init
<1>2. [i \in 1..Len(conds) |-> Slots(conds[i])] = << >>
  BY <1>1
<1>3. ParamsMatch
  BY <1>1, <1>2, JoinedEmpty DEF ParamsMatch
<1> QED BY <1>1, <1>3 DEF ParamInv

\* A filter given up half way leaves no value behind.
LEMMA NextParams == IInv /\ ParamInv /\ [Next]_vars => ParamInv'
<1> SUFFICES ASSUME IInv, ParamInv, [Next]_vars PROVE ParamInv' OBVIOUS
<1>1. CASE PushLike
  <2>1. expr.conj = "leaf" /\ expr.parts[1].kind = "like"
    BY <1>1 DEF PushLike, PushesLike, TryExtractLikePrefix, Is
  <2>2. Slots(Condition(expr, expr.parts, FALSE)) = << >>
    BY <1>1, <2>1, OneLeaf, WrittenOut DEF PushLike
  <2>3. Looking /\ Lift(FALSE, << >>)
    BY <1>1 DEF PushLike
  <2>4. << >> \in Seq(Constants)
    OBVIOUS
  <2> QED BY <2>2, <2>3, <2>4, LiftParams
<1>2. CASE PushEncoded
  <2>1. Slots(Condition(expr, expr.parts, TRUE)) = << >>
    BY DEF Slots, Condition
  <2>2. Looking /\ Lift(TRUE, << >>)
    BY <1>2 DEF PushEncoded
  <2>4. << >> \in Seq(Constants)
    OBVIOUS
  <2> QED BY <2>1, <2>2, <2>4, LiftParams
<1>3. CASE PushNotIn
  <2>1. expr.conj = "leaf" /\ \A i \in 1..Len(Values(expr)) : IsBindableType(Values(expr)[i])
    BY <1>3 DEF PushNotIn, PushesNotIn, TryExtractNotIn, Is, Each
  <2>2. expr.parts[1] \in Leaf /\ Slots(Condition(expr, expr.parts, FALSE)) = LeafPlaceholders(expr.parts[1])
    BY <1>3, <2>1, OneLeaf DEF PushNotIn
  <2>3. LeafPlaceholders(expr.parts[1]) = Values(expr)
    BY <2>1, <2>2, AllBound DEF Values
  <2>4. Values(expr) \in Seq(Constants)
    BY <2>2 DEF Leaf, Values
  <2>5. Looking /\ Lift(FALSE, Values(expr))
    BY <1>3 DEF PushNotIn
  <2> QED BY <2>2, <2>3, <2>4, <2>5, LiftParams
<1>4. CASE PushNotBool
  <2>1. expr.conj = "leaf" /\ expr.parts[1].kind = "not_bool"
    BY <1>4 DEF PushNotBool, PushesNotBool, TryExtractNotBoolColumn, Is
  <2>2. Slots(Condition(expr, expr.parts, FALSE)) = << >>
    BY <1>4, <2>1, OneLeaf, WrittenOut DEF PushNotBool
  <2>3. Looking /\ Lift(FALSE, << >>)
    BY <1>4 DEF PushNotBool
  <2>4. << >> \in Seq(Constants)
    OBVIOUS
  <2> QED BY <2>2, <2>3, <2>4, LiftParams
<1>5. CASE Keep
  BY <1>5, UntouchedParams DEF Keep
<1>6. CASE StartBuild
  BY <1>6, UntouchedParams DEF StartBuild
<1>7. CASE NotOffered
  BY <1>7, UntouchedParams DEF NotOffered
<1>8. CASE ResidualRowId
  BY <1>8, UntouchedParams DEF ResidualRowId, Residual
<1>9. CASE ResidualNone
  BY <1>9, UntouchedParams DEF ResidualNone, Residual
<1>10. CASE ResidualUnsupported
  BY <1>10, UntouchedParams DEF ResidualUnsupported, Residual, Resize
<1>11. CASE Translate
  BY <1>11, TranslateParams
<1>12. CASE Assemble
  BY <1>12, AssembleParams
<1>13. CASE UNCHANGED vars
  BY <1>13, UntouchedParams DEF vars
<1> QED
  BY <1>1, <1>2, <1>3, <1>4, <1>5, <1>6, <1>7, <1>8, <1>9, <1>10, <1>11, <1>12, <1>13 DEF Next

\* Every `?` of the WHERE clause gets the value it was written for, however
\* many filters were lifted, translated or given up half way, in whatever
\* order they came.
THEOREM ParamsAlwaysMatch == Spec => []ParamsMatch
<1>1. Init => IInv /\ ParamInv BY InitIInv, InitParams
<1>2. IInv /\ ParamInv /\ [Next]_vars => (IInv /\ ParamInv)' BY NextIInv, NextParams
<1>3. ParamInv => ParamsMatch BY DEF ParamInv
<1> QED BY <1>1, <1>2, <1>3, PTL DEF Spec

-----------------------------------------------------------------------------
(* The rows are exact.                                                     *)

\* Firebird reads a constant as DuckDB does.  It does not if a TIMESTAMP lies
\* between two ticks of its clock, or a pattern has a backslash.
ReadAlike(c) ==
  /\ Bound(c) = Literal(c)
  /\ c.type = "PATTERN" => LikeEscape(c.v) = Like(c.v)
AlikeIn(f) == \A i \in 1..Len(f.parts) : \A k \in 1..Len(f.parts[i].values) : ReadAlike(f.parts[i].values[k])

\* Swapping the operands and the operator of a comparison changes nothing.
LEMMA Flips ==
  ASSUME NEW op \in {"=", "<>", "<", ">"}, NEW a, NEW b
  PROVE  Compare(FlipComparison(op), a, b) = Compare(op, b, a)
<1>1. CASE op = "="  BY <1>1 DEF Compare, FlipComparison
<1>2. CASE op = "<>" BY <1>2 DEF Compare, FlipComparison
<1>3. CASE op = "<"  BY <1>3 DEF Compare, FlipComparison
<1>4. CASE op = ">"  BY <1>4 DEF Compare, FlipComparison
<1> QED BY <1>1, <1>2, <1>3, <1>4

\* What ColumnLeft changes of a predicate.
LEMMA ColumnLeftKeeps ==
  ASSUME NEW l \in Leaf
  PROVE  /\ ColumnLeft(l).kind = l.kind /\ ColumnLeft(l).values = l.values
         /\ ~ColumnLeft(l).flipped
         /\ ColumnLeft(l).op = IF l.flipped THEN FlipComparison(l.op) ELSE l.op
<1>1. l = [kind |-> l.kind, op |-> l.op, flipped |-> l.flipped, values |-> l.values]
  BY DEF Leaf
<1>2. l.flipped \in BOOLEAN
  BY DEF Leaf
<1>3. CASE l.flipped
  BY <1>1, <1>3 DEF ColumnLeft
<1>4. CASE ~l.flipped
  BY <1>2, <1>4 DEF ColumnLeft
<1> QED BY <1>2, <1>3, <1>4

\* So does swapping those of a predicate.
LEMMA SwapAlike ==
  ASSUME NEW l, NEW r, NEW x, l.op \in {"=", "<>", "<", ">"}, r.kind = l.kind, r.values = l.values,
         ~r.flipped, l.flipped \in BOOLEAN,
         r.op = IF l.flipped THEN FlipComparison(l.op) ELSE l.op
  PROVE  DuckDBTruth(r, x) = DuckDBTruth(l, x)
<1>1. \A a, b : Compare(r.op, a, b) = IF l.flipped THEN Compare(l.op, b, a) ELSE Compare(l.op, a, b)
  BY Flips
<1>2. CASE l.kind = "cmp" /\ (x = Null \/ l.values[1].v = Null)
  BY <1>2 DEF Truth, DuckDBTruth
<1>3. CASE l.kind = "cmp" /\ ~(x = Null \/ l.values[1].v = Null)
  <2>1. DuckDBTruth(r, x) = Compare(r.op, x, Literal(l.values[1]))
    BY <1>3 DEF Truth, DuckDBTruth
  <2>2. DuckDBTruth(l, x) = IF l.flipped THEN Compare(l.op, Literal(l.values[1]), x)
                                     ELSE Compare(l.op, x, Literal(l.values[1]))
    BY <1>3 DEF Truth, DuckDBTruth
  <2> QED BY ONLY <1>1, <2>1, <2>2
<1>4. CASE l.kind # "cmp"
  BY <1>4 DEF Truth, DuckDBTruth
<1> QED BY <1>2, <1>3, <1>4

\* The builder puts the column on the left.
LEMMA FlipAlike ==
  ASSUME NEW l \in Leaf, NEW x
  PROVE  DuckDBTruth(ColumnLeft(l), x) = DuckDBTruth(l, x)
<1>1. l.op \in {"=", "<>", "<", ">"} /\ l.flipped \in BOOLEAN
  BY DEF Leaf
<1> QED BY <1>1, ColumnLeftKeeps, SwapAlike

\* Where a text column is not transcoded, both see what is stored.
LEMMA SeenAlike ==
  ASSUME NEW col, ~IsNoneTextColumnGated(col), NEW p, p.col = col, p.subject = ColExpr(col), NEW x
  PROVE  FirebirdSees(p, x) = x /\ DuckDBSees(col, x) = x
<1>1. FirebirdSees(p, x) = x
  BY DEF FirebirdSees, ColExpr
<1>2. DuckDBSees(col, x) = x
  BY DEF DuckDBSees, IsNoneTextColumnGated, IsTextColumn, Transcode
<1> QED BY <1>1, <1>2

\* Truth depends only on the values the literals stand for.
LEMMA PlainAlike ==
  ASSUME NEW l \in Leaf, NEW p, p.encoded = FALSE, p.subject = ColExpr(p.col), NEW x,
         \A k \in 1..Len(l.values) : ReadAlike(l.values[k])
  PROVE  FirebirdTruth(p, l, x) = DuckDBTruth(l, x)
<1>1. \A k \in 1..Len(l.values) : FirebirdLiteral(p, l.values[k]) = Literal(l.values[k])
  BY DEF FirebirdLiteral, ColExpr, ReadAlike
<1>2. l.kind \in {"cmp", "like"} => 1 \in 1..Len(l.values)
  <2>1. l.kind \in {"cmp", "like"} => Len(l.values) = 1
    BY DEF Leaf
  <2>2. 1 \in 1..1
    OBVIOUS
  <2> QED BY <2>1, <2>2
<1>3. l.kind = "like" => LikeEscape(l.values[1].v) = Like(l.values[1].v)
  BY <1>2 DEF ReadAlike, Leaf
<1>4. InTruth(x, l.values, LAMBDA c : FirebirdLiteral(p, c)) = InTruth(x, l.values, Literal)
  BY <1>1 DEF InTruth
<1> HIDE DEF FirebirdLiteral, Literal
<1>5. CASE l.kind = "cmp"
  BY <1>1, <1>2, <1>5 DEF Truth, FirebirdTruth, DuckDBTruth
<1>6. CASE l.kind \in {"in", "other"}
  BY <1>4, <1>6 DEF Truth, FirebirdTruth, DuckDBTruth
<1>7. CASE l.kind = "not_in"
  BY <1>4, <1>7 DEF Truth, FirebirdTruth, DuckDBTruth
<1>8. CASE l.kind = "like"
  BY <1>3, <1>8 DEF Truth, FirebirdTruth, DuckDBTruth
<1>9. CASE l.kind \notin {"cmp", "in", "other", "not_in", "like"}
  BY <1>9 DEF Truth, FirebirdTruth, DuckDBTruth
<1> QED BY <1>5, <1>6, <1>7, <1>8, <1>9

\* Transcoded bytes are bytes, so never NULL.
LEMMA TranscodeType ==
  ASSUME NEW mode \in Transcoding, NEW raw \in Seq(Byte)
  PROVE  Transcode(mode, raw) \in Seq(Byte) /\ Transcode(mode, raw) # Null
<1> DEFINE t == [i \in 1..Len(raw) |-> CodePoint(mode, raw[i])]
<1>1. \A i \in 1..Len(raw) : CodePoint(mode, raw[i]) \in Bmp
  BY CodePointType
<1>2. t \in BmpText
  BY <1>1 DEF BmpText
<1>3. Transcode(mode, raw) = Utf8(t)
  BY DEF Transcode, Transcoding
<1> HIDE DEF t
<1>4. Transcode(mode, raw) \in Seq(Byte)
  BY <1>2, <1>3, Utf8Type
<1>5. \A s \in Seq(Byte) : s \in Seq(Nat)
  <2>1. \A b \in Byte : b \in Nat
    BY DEF Byte
  <2> QED BY <2>1
<1> QED BY ONLY <1>4, <1>5, PushdownAssumption DEF PushdownAssumption

\* A re-encoded literal equals the stored bytes when the literal equals what
\* DuckDB would have made of them.
LEMMA EncodedAlike ==
  ASSUME NEW f \in Filter, PushesEncoded(f), f.col \in DOMAIN Cells, NEW x \in Cells[f.col],
         NEW p, p = Condition(f, f.parts, TRUE)
  PROVE  /\ f.parts[1] \in Leaf
         /\ FirebirdTruth(p, f.parts[1], FirebirdSees(p, x))
              = DuckDBTruth(f.parts[1], DuckDBSees(f.col, x))
<1> DEFINE l == f.parts[1]
           y == DuckDBSees(f.col, x)
           mode == query.none_encoding
<1>1. f.parts \in Seq(Leaf) /\ Len(f.parts) = 1
  BY DEF Filter, PushesEncoded, TryExtractEquality, TryExtractInList, Is
<1>2. l \in Leaf
  BY <1>1
<1>3. \/ l.kind = "cmp" /\ l.op = "="
      \/ l.kind = "in" /\ l.values # << >>
  BY DEF PushesEncoded, TryExtractEquality, TryExtractInList, Is, Values
<1>14. \A i \in 1..Len(l.values) : IsText(l.values[i])
  BY DEF PushesEncoded, TryExtractEquality, TryExtractInList, Values, Each
<1>15. \A i \in 1..Len(l.values) : Encodable(mode, l.values[i].v)
  BY DEF PushesEncoded, AllEncode, Values, Each
<1>4. mode \in Transcoding /\ f.col.charset_none /\ f.col.sqltype \in {"TEXT", "VARYING"}
  BY DEF PushesEncoded, NonePushdownActive, IsNoneCharVarcharColumn, Transcoding
<1>5. FirebirdSees(p, x) = x
  BY <1>4 DEF FirebirdSees, Condition
<1>6. y = IF x = Null THEN Null ELSE Transcode(mode, x)
  BY <1>4 DEF DuckDBSees, IsTextColumn, TextType
<1>7. x # Null => x \in Seq(Byte)
  BY <1>4, PushdownAssumption DEF TextType
<1>8. x # Null => y # Null
  BY <1>4, <1>6, <1>7, TranscodeType
<1>9. l.values \in Seq(Constants)
  BY <1>2 DEF Leaf
<1> HIDE DEF l, y, mode
<1>10. \A i \in 1..Len(l.values) :
         /\ l.values[i].v # Null
         /\ l.values[i].v \in BmpText
         /\ FirebirdLiteral(p, l.values[i]) = Encode(mode, l.values[i].v)
         /\ Literal(l.values[i]) = Utf8(l.values[i].v)
  BY <1>14, <1>9, PushdownAssumption DEF IsText, FirebirdLiteral, Literal, Condition, mode
<1>11. x # Null => \A i \in 1..Len(l.values) :
         FirebirdLiteral(p, l.values[i]) = x <=> Literal(l.values[i]) = y
  <2>1. ASSUME x # Null, NEW i \in 1..Len(l.values)
        PROVE  Encode(mode, l.values[i].v) = x <=> Utf8(l.values[i].v) = Transcode(mode, x)
    BY <1>15, <1>4, <1>7, <1>10, <2>1, ReencodingIsExact
  <2> QED BY <1>6, <1>10, <2>1
<1> HIDE DEF FirebirdLiteral, Literal
<1> DEFINE Same == FirebirdTruth(p, l, x) = DuckDBTruth(l, y)
<1>12. ASSUME x = Null PROVE Same
  BY <1>3, <1>6, <1>12 DEF Truth, FirebirdTruth, DuckDBTruth
<1>13. ASSUME x # Null PROVE Same
  <2>1. ASSUME l.kind = "cmp" PROVE Same
    <3>1. 1 \in 1..Len(l.values)
      <4>1. Len(l.values) = 1
        BY <1>2, <2>1 DEF Leaf
      <4>2. 1 \in 1..1
        OBVIOUS
      <4> QED BY <4>1, <4>2
    <3> QED BY <1>3, <1>8, <1>10, <1>11, <1>13, <2>1, <3>1 DEF Truth, FirebirdTruth, DuckDBTruth, Compare
  <2>2. ASSUME l.kind = "in" PROVE Same
    <3>1. InTruth(x, l.values, LAMBDA c : FirebirdLiteral(p, c)) = InTruth(y, l.values, Literal)
      BY <1>11, <1>13 DEF InTruth
    <3> QED BY <1>3, <1>8, <1>13, <2>2, <3>1 DEF Truth, FirebirdTruth, DuckDBTruth
  <2> QED BY <1>3, <2>1, <2>2
<1> QED BY <1>2, <1>5, <1>12, <1>13 DEF l, y

\* What becomes of a filter that is lifted, and of one that is translated.
LiftedForm(f) == Condition(f, f.parts, PushesEncoded(f))
TranslatedForm(f) == Condition(f, Translated(f), FALSE)

\* A lifted filter selects in Firebird what it selects in DuckDB.
LEMMA LiftedAlike ==
  ASSUME NEW f \in Filter, Pushes(f), AlikeIn(f), f.col \in DOMAIN Cells, NEW x \in Cells[f.col]
  PROVE  FirebirdSelects(LiftedForm(f), x) <=> DuckDBSelects(f, x)
<1> DEFINE p == LiftedForm(f)
           y == DuckDBSees(f.col, x)
<1>1. f.conj = "leaf"
  BY DEF Pushes, PushesLike, PushesEncoded, PushesNotIn, PushesNotBool, TryExtractLikePrefix,
         TryExtractEquality, TryExtractInList, TryExtractNotIn, TryExtractNotBoolColumn, Is
<1>2. f.parts \in Seq(Leaf) /\ Len(f.parts) = 1
  BY <1>1 DEF Filter
<1>3. p.parts = f.parts /\ p.conj = f.conj /\ p.col = f.col /\ p.subject = ColExpr(f.col)
      /\ p.encoded = PushesEncoded(f)
  BY DEF LiftedForm, Condition
<1> DEFINE Same == FirebirdTruth(p, f.parts[1], FirebirdSees(p, x))
                     = DuckDBTruth(f.parts[1], y)
<1>4. ASSUME PushesEncoded(f) PROVE Same
  <2>1. p = Condition(f, f.parts, TRUE)
    BY <1>4 DEF LiftedForm
  <2> HIDE DEF p
  <2> QED BY <1>4, <2>1, EncodedAlike
<1>5. ASSUME ~PushesEncoded(f) PROVE Same
  <2>1. ~IsNoneTextColumnGated(f.col)
    BY <1>5 DEF Pushes, PushesLike, PushesNotIn, PushesNotBool, TryExtractNotBoolColumn,
                IsNoneTextColumnGated, TextType
  <2> HIDE DEF p
  <2>2. FirebirdSees(p, x) = x /\ y = x
    BY <1>3, <2>1, SeenAlike
  <2>3. f.parts[1] \in Leaf /\ \A k \in 1..Len(f.parts[1].values) : ReadAlike(f.parts[1].values[k])
    BY <1>2 DEF AlikeIn
  <2>4. p.encoded = FALSE /\ p.subject = ColExpr(p.col)
    BY <1>3, <1>5
  <2> QED BY ZenonT(30), <2>2, <2>3, <2>4, PlainAlike
<1>6. Same
  BY <1>4, <1>5
<1> HIDE DEF p
<1>7. FirebirdSelects(p, x) <=> FirebirdTruth(p, f.parts[1], FirebirdSees(p, x)) = TRUE
  BY <1>1, <1>2, <1>3 DEF FirebirdSelects, Selects
<1>8. DuckDBSelects(f, x) <=> DuckDBTruth(f.parts[1], y) = TRUE
  BY <1>1, <1>2 DEF DuckDBSelects, Selects
<1> QED BY <1>6, <1>7, <1>8 DEF p

\* So does a translated one.
LEMMA TranslatedAlike ==
  ASSUME NEW f \in Filter, ~IsNoneTextColumnGated(f.col), AlikeIn(f), NEW x
  PROVE  FirebirdSelects(TranslatedForm(f), x) <=> DuckDBSelects(f, x)
<1> DEFINE p == TranslatedForm(f)
<1>1. f.parts \in Seq(Leaf) /\ f.conj \in {"leaf", "and", "or"}
  BY DEF Filter
<1>2. /\ p.conj = f.conj /\ p.col = f.col /\ p.subject = ColExpr(f.col) /\ p.encoded = FALSE
      /\ Len(p.parts) = Len(f.parts)
      /\ \A i \in 1..Len(f.parts) : p.parts[i] = ColumnLeft(f.parts[i])
  BY <1>1 DEF TranslatedForm, Condition, Translated
<1> HIDE DEF p
<1>3. FirebirdSees(p, x) = x /\ DuckDBSees(f.col, x) = x
  BY <1>2, SeenAlike
<1>4. ASSUME NEW i \in 1..Len(f.parts)
      PROVE  FirebirdTruth(p, p.parts[i], x)
               = DuckDBTruth(f.parts[i], x)
  <2> DEFINE l == f.parts[i]
             r == p.parts[i]
  <2>1. l \in Leaf /\ r = ColumnLeft(l)
    BY <1>1, <1>2
  <2>2. r \in Leaf /\ r.values = l.values
    BY <2>1, ColumnLeftType, ColumnLeftKeeps
  <2>3. \A k \in 1..Len(r.values) : ReadAlike(r.values[k])
    BY <2>2 DEF AlikeIn
  <2> HIDE DEF l, r
  <2>4. FirebirdTruth(p, r, x) = DuckDBTruth(r, x)
    BY <1>2, <2>2, <2>3, PlainAlike
  <2>5. DuckDBTruth(r, x) = DuckDBTruth(l, x)
    BY <2>1, FlipAlike
  <2> QED BY <2>4, <2>5 DEF l, r
<1>5. CASE f.conj = "or"
  <2>1. FirebirdSelects(p, x) <=> \E i \in 1..Len(f.parts) :
          FirebirdTruth(p, p.parts[i], x) = TRUE
    BY <1>2, <1>3, <1>5 DEF FirebirdSelects, Selects
  <2>2. DuckDBSelects(f, x) <=> \E i \in 1..Len(f.parts) : DuckDBTruth(f.parts[i], x) = TRUE
    BY <1>3, <1>5 DEF DuckDBSelects, Selects
  <2> QED BY <1>4, <2>1, <2>2 DEF p
<1>6. CASE f.conj # "or"
  <2>1. FirebirdSelects(p, x) <=> \A i \in 1..Len(f.parts) :
          FirebirdTruth(p, p.parts[i], x) = TRUE
    BY <1>2, <1>3, <1>6 DEF FirebirdSelects, Selects
  <2>2. DuckDBSelects(f, x) <=> \A i \in 1..Len(f.parts) : DuckDBTruth(f.parts[i], x) = TRUE
    BY <1>3, <1>6 DEF DuckDBSelects, Selects
  <2> QED BY <1>4, <2>1, <2>2 DEF p
<1> QED BY <1>5, <1>6

-----------------------------------------------------------------------------
(* Where each filter of the query is.                                      *)

\* Where the filters are: of the query, of the plan, in the WHERE clause, and
\* given up by the builder.
Elems(s) == {s[i] : i \in 1..Len(s)}
Seen(n) == {query.filters[k] : k \in 1..n}
Scanned(n) == {plan[k] : k \in 1..n}
Filters == Seen(Len(query.filters))
Waiting == {extra[i].cond : i \in 1..Len(extra)}
GivenUp == {residual[i].filter : i \in 1..Len(residual)}
Rejected == [filter : Filter, reason : {"ROWID_OR_INVALID_COLUMN", "NONE_CHARSET", "UNSUPPORTED_OP"}]

\* What the passes make of the filters S they have looked at.
Translatable(f) == f.col # RowId /\ ~IsNoneTextColumnGated(f.col) /\ AllTranslate(f)
Lifted(S) == {LiftedForm(f) : f \in {g \in S : Pushes(g)}}
Kept(S) == {f \in S : ~Pushes(f)}
TranslatedOf(S) == {TranslatedForm(f) : f \in {g \in S : Offered(g) /\ Translatable(g)}}
NotTranslated(S) == {f \in S : Offered(f) /\ ~Translatable(f)}

\* Each filter is where the passes have put it by now, and only there.
Account ==
  /\ phase \in {"complex", "build", "done"}
  /\ residual \in Seq(Rejected)
  /\ phase = "complex" =>
       /\ it - 1 <= Len(query.filters)
       /\ Waiting = Lifted(Seen(it - 1)) /\ Elems(plan) = Kept(Seen(it - 1))
       /\ conds = << >> /\ residual = << >>
  /\ phase # "complex" => Waiting = Lifted(Filters) /\ Elems(plan) = Kept(Filters)
  /\ phase = "build" =>
       /\ it - 1 <= Len(plan)
       /\ Elems(conds) = TranslatedOf(Scanned(it - 1)) /\ GivenUp = NotTranslated(Scanned(it - 1))
  /\ phase = "done" =>
       /\ Elems(conds) = TranslatedOf(Elems(plan)) \cup Waiting
       /\ GivenUp = NotTranslated(Elems(plan))

-----------------------------------------------------------------------------

\* One element more.
LEMMA ElemsAppend ==
  ASSUME NEW T, NEW s \in Seq(T), NEW x \in T
  PROVE  Elems(Append(s, x)) = Elems(s) \cup {x}
<1>1. /\ Len(Append(s, x)) = Len(s) + 1 /\ Len(s) \in Nat /\ Append(s, x)[Len(s) + 1] = x
      /\ \A i \in 1..Len(s) : Append(s, x)[i] = s[i]
  OBVIOUS
<1>2. \A i : i \in 1..(Len(s) + 1) <=> i \in 1..Len(s) \/ i = Len(s) + 1
  BY <1>1
<1>3. \A i \in 1..Len(s) : i # Len(s) + 1
  BY <1>1
<1> QED BY ONLY <1>1, <1>2, <1>3 DEF Elems

\* The elements of two sequences, one after the other.
LEMMA ElemsConcat ==
  ASSUME NEW T, NEW s \in Seq(T), NEW t \in Seq(T)
  PROVE  Elems(s \o t) = Elems(s) \cup Elems(t)
<1> DEFINE n == Len(s)
           m == Len(t)
<1>1. /\ Len(s \o t) = n + m /\ n \in Nat /\ m \in Nat
      /\ \A i \in 1..n : (s \o t)[i] = s[i]
      /\ \A i \in 1..m : (s \o t)[n + i] = t[i]
  OBVIOUS
<1>2. \A i \in 1..n : i \in 1..(n + m)
  BY <1>1
<1>3. \A i \in 1..m : n + i \in 1..(n + m)
  BY <1>1
<1>4. \A i \in 1..(n + m) : i \in 1..n \/ \E k \in 1..m : i = n + k
  <2>1. \A i \in 1..(n + m) : i \notin 1..n => i - n \in 1..m /\ i = n + (i - n)
    BY <1>1
  <2> QED BY <2>1
<1>5. ASSUME NEW i \in 1..(n + m) PROVE (s \o t)[i] \in Elems(s) \cup Elems(t)
  <2>1. CASE i \in 1..n
    BY ONLY <1>1, <2>1 DEF Elems
  <2>2. ASSUME NEW k \in 1..m, i = n + k PROVE (s \o t)[i] \in Elems(s) \cup Elems(t)
    BY ONLY <1>1, <2>2 DEF Elems
  <2> QED BY ONLY <1>4, <2>1, <2>2
<1>6. ASSUME NEW i \in 1..n PROVE s[i] \in Elems(s \o t)
  BY ONLY <1>1, <1>2 DEF Elems
<1>7. ASSUME NEW i \in 1..m PROVE t[i] \in Elems(s \o t)
  BY ONLY <1>1, <1>3 DEF Elems
<1> QED BY <1>1, <1>5, <1>6, <1>7 DEF Elems

\* The filters up to the next one.
LEMMA SeenNext ==
  ASSUME IInv, it <= Len(query.filters)
  PROVE  expr \in Filter /\ Seen(it) = Seen(it - 1) \cup {expr}
<1>1. it \in Nat \ {0} /\ query.filters \in Seq(Filter)
  BY DEF IInv, Types, Query
<1>2. it \in 1..Len(query.filters)
  BY <1>1
<1>3. \A k : k \in 1..it <=> k \in 1..(it - 1) \/ k = it
  BY <1>1
<1> QED BY <1>1, <1>2, <1>3 DEF Seen, expr

\* And those of the plan.
LEMMA ScannedNext ==
  ASSUME IInv
  PROVE  Scanned(it) = Scanned(it - 1) \cup {plan[it]}
<1>1. it \in Nat \ {0}
  BY DEF IInv, Types
<1>3. \A k : k \in 1..it <=> k \in 1..(it - 1) \/ k = it
  BY <1>1
<1> QED BY <1>3 DEF Scanned

\* The query, and so what becomes of a filter, does not change.
LEMMA SameForms ==
  ASSUME query' = query
  PROVE  /\ \A S : Lifted(S)' = Lifted(S)
         /\ \A S : Kept(S)' = Kept(S)
         /\ \A S : TranslatedOf(S)' = TranslatedOf(S)
         /\ \A S : NotTranslated(S)' = NotTranslated(S)
         /\ \A n : Seen(n)' = Seen(n)
<1>1. \A c : IsNoneTextColumnGated(c)' = IsNoneTextColumnGated(c)
  BY DEF IsNoneTextColumnGated
<1>2. \A f : PushesEncoded(f)' = PushesEncoded(f)
  BY DEF PushesEncoded, TryExtractEquality, TryExtractInList, Is, Values, Each, Resolves,
         NonePushdownActive, IsNoneCharVarcharColumn, AllEncode
<1>3. \A f : Pushes(f)' = Pushes(f)
  BY <1>1, <1>2 DEF Pushes, PushesLike, PushesNotIn, PushesNotBool, TryExtractLikePrefix,
         TryExtractNotIn, TryExtractNotBoolColumn, Is, Values, Each, Resolves
<1>4. \A f : Offered(f)' = Offered(f)
  BY <1>1 DEF Offered, LeftToScan, SupportsPushdownType
<1>5. \A f : Translatable(f)' = Translatable(f)
  BY <1>1 DEF Translatable, AllTranslate, Translates
<1>6. \A f : LiftedForm(f)' = LiftedForm(f)
  BY <1>2 DEF LiftedForm, Condition, ColExpr
<1>7. \A f : TranslatedForm(f)' = TranslatedForm(f)
  BY DEF TranslatedForm, Condition, ColExpr, Translated, ColumnLeft, FlipComparison
<1>8. \A S : Lifted(S)' = Lifted(S)
  BY <1>3, <1>6 DEF Lifted
<1>9. \A S : Kept(S)' = Kept(S)
  BY <1>3 DEF Kept
<1>10. \A S : TranslatedOf(S)' = TranslatedOf(S)
  BY <1>4, <1>5, <1>7 DEF TranslatedOf
<1>11. \A S : NotTranslated(S)' = NotTranslated(S)
  BY <1>4, <1>5 DEF NotTranslated
<1>12. \A n : Seen(n)' = Seen(n)
  BY DEF Seen
<1> QED BY <1>8, <1>9, <1>10, <1>11, <1>12

\* One more filter: where it goes.
LEMMA OneMore ==
  ASSUME NEW S, NEW f
  PROVE  /\ Lifted(S \cup {f}) = IF Pushes(f) THEN Lifted(S) \cup {LiftedForm(f)} ELSE Lifted(S)
         /\ Kept(S \cup {f}) = IF Pushes(f) THEN Kept(S) ELSE Kept(S) \cup {f}
         /\ TranslatedOf(S \cup {f}) = IF Offered(f) /\ Translatable(f)
                                       THEN TranslatedOf(S) \cup {TranslatedForm(f)} ELSE TranslatedOf(S)
         /\ NotTranslated(S \cup {f}) = IF Offered(f) /\ ~Translatable(f)
                                        THEN NotTranslated(S) \cup {f} ELSE NotTranslated(S)
<1>1. Lifted(S \cup {f}) = IF Pushes(f) THEN Lifted(S) \cup {LiftedForm(f)} ELSE Lifted(S)
  BY DEF Lifted
<1>2. Kept(S \cup {f}) = IF Pushes(f) THEN Kept(S) ELSE Kept(S) \cup {f}
  BY DEF Kept
<1>3. TranslatedOf(S \cup {f}) = IF Offered(f) /\ Translatable(f)
                                 THEN TranslatedOf(S) \cup {TranslatedForm(f)} ELSE TranslatedOf(S)
  BY DEF TranslatedOf
<1>4. NotTranslated(S \cup {f}) = IF Offered(f) /\ ~Translatable(f)
                                  THEN NotTranslated(S) \cup {f} ELSE NotTranslated(S)
  BY DEF NotTranslated
<1> QED BY <1>1, <1>2, <1>3, <1>4

\* No filter has been looked at.
LEMMA InitAccount == Init => Account
<1> SUFFICES ASSUME Init PROVE Account OBVIOUS
<1>1. query.filters \in Seq(Filter)
  BY PushdownAssumption DEF Init, Query
<1>2. Len(query.filters) \in Nat
  BY <1>1
<1>3. phase = "complex" /\ it = 1 /\ extra = << >> /\ plan = << >> /\ conds = << >> /\ residual = << >>
  BY DEF Init
<1>4. Waiting = {} /\ Elems(plan) = {} /\ Seen(it - 1) = {}
  BY <1>3 DEF Waiting, Elems, Seen
<1>5. Lifted({}) = {} /\ Kept({}) = {}
  BY DEF Lifted, Kept
<1>6. << >> \in Seq(Rejected)
  OBVIOUS
<1>7. it - 1 <= Len(query.filters)
  BY <1>2, <1>3
<1>8. residual \in Seq(Rejected)
  BY ONLY <1>3, <1>6
<1> QED BY ONLY <1>3, <1>4, <1>5, <1>7, <1>8 DEF Account

\* A filter that is lifted.
LEMMA LiftAccount ==
  ASSUME IInv, Account, Looking, Pushes(expr), NEW encoded \in BOOLEAN, encoded = PushesEncoded(expr),
         NEW bound \in Seq(Constants), Lift(encoded, bound)
  PROVE  Account'
<1> DEFINE e == [cond |-> LiftedForm(expr), params |-> bound]
<1>1. phase = "complex" /\ it <= Len(query.filters) /\ phase' = "complex" /\ it' = it + 1
      /\ UNCHANGED <<query, plan, conds, residual>> /\ it \in Nat \ {0}
  BY DEF Looking, Lift, IInv, Types
<1>2. expr \in Filter /\ Seen(it) = Seen(it - 1) \cup {expr}
  BY <1>1, SeenNext
<1>3. expr.parts \in Seq(Leaf)
  BY <1>2 DEF Filter
<1>4. e \in Extra
  BY <1>2, <1>3, ConditionType DEF Extra, LiftedForm
<1>5. extra' = Append(extra, e) /\ extra \in Seq(Extra)
  BY DEF Lift, LiftedForm, IInv, Types
<1>6. e.cond = LiftedForm(expr)
  OBVIOUS
<1> HIDE DEF e
<1>7. Waiting' = Waiting \cup {LiftedForm(expr)}
  <2>1. /\ Len(extra') = Len(extra) + 1 /\ Len(extra) \in Nat /\ extra'[Len(extra) + 1] = e
        /\ \A i \in 1..Len(extra) : extra'[i] = extra[i]
    BY <1>4, <1>5
  <2>2. \A i : i \in 1..(Len(extra) + 1) <=> i \in 1..Len(extra) \/ i = Len(extra) + 1
    BY <2>1
  <2> QED BY <1>6, <2>1, <2>2 DEF Waiting
<1>8. Waiting' = Lifted(Seen(it)) /\ Elems(plan) = Kept(Seen(it))
  BY <1>1, <1>2, <1>7, OneMore DEF Account
<1>9. it' - 1 = it
  BY <1>1
<1>10. Seen(it - 1)' = Seen(it)
  BY <1>1, <1>9, SameForms
<1>11. Waiting' = Lifted(Seen(it - 1))'
  BY <1>1, <1>8, <1>10, SameForms
<1>12. Elems(plan)' = Kept(Seen(it - 1))'
  BY <1>1, <1>8, <1>10, SameForms DEF Elems
<1> QED BY <1>1, <1>9, <1>11, <1>12 DEF Account

\* A filter that stays in the plan.
LEMMA KeepAccount == IInv /\ Account /\ Keep => Account'
<1> SUFFICES ASSUME IInv, Account, Keep PROVE Account' OBVIOUS
<1>1. phase = "complex" /\ it <= Len(query.filters) /\ phase' = "complex" /\ it' = it + 1
      /\ UNCHANGED <<query, extra, conds, residual>> /\ it \in Nat \ {0}
  BY DEF Looking, Keep, IInv, Types
<1>2. expr \in Filter /\ Seen(it) = Seen(it - 1) \cup {expr}
  BY <1>1, SeenNext
<1>3. ~Pushes(expr) /\ plan' = Append(plan, expr) /\ plan \in Seq(Filter)
  BY DEF Keep, IInv, Types
<1>4. Elems(plan') = Elems(plan) \cup {expr}
  BY <1>2, <1>3, ElemsAppend
<1>5. Waiting = Lifted(Seen(it)) /\ Elems(plan') = Kept(Seen(it))
  <2>1. Waiting = Lifted(Seen(it - 1)) /\ Elems(plan) = Kept(Seen(it - 1))
    BY <1>1 DEF Account
  <2>2. Lifted(Seen(it)) = Lifted(Seen(it - 1)) /\ Kept(Seen(it)) = Kept(Seen(it - 1)) \cup {expr}
    BY <1>2, <1>3, OneMore
  <2> QED BY <1>4, <2>1, <2>2
<1>6. it' - 1 = it
  BY <1>1
<1>7. Seen(it - 1)' = Seen(it)
  BY <1>1, <1>6, SameForms
<1>8. Waiting' = Lifted(Seen(it - 1))'
  BY <1>1, <1>5, <1>7, SameForms DEF Waiting
<1>9. Elems(plan)' = Kept(Seen(it - 1))'
  BY <1>1, <1>5, <1>7, SameForms DEF Elems
<1> QED BY <1>1, <1>6, <1>8, <1>9 DEF Account

\* All filters have been looked at.
LEMMA StartBuildAccount == IInv /\ Account /\ StartBuild => Account'
<1> SUFFICES ASSUME IInv, Account, StartBuild PROVE Account' OBVIOUS
<1>1. phase = "complex" /\ it > Len(query.filters) /\ phase' = "build" /\ it' = 1
      /\ UNCHANGED <<query, extra, plan, conds, residual>> /\ it \in Nat \ {0}
      /\ it - 1 <= Len(query.filters) /\ query.filters \in Seq(Filter) /\ plan \in Seq(Filter)
  BY DEF StartBuild, IInv, Types, Account, Query
<1>2. it - 1 = Len(query.filters)
  <2>1. Len(query.filters) \in Nat
    BY <1>1
  <2> QED BY <1>1, <2>1
<1>3. Waiting = Lifted(Filters) /\ Elems(plan) = Kept(Filters)
  BY <1>1, <1>2 DEF Account, Filters
<1>4. Filters' = Filters
  BY <1>1 DEF Filters, Seen
<1>5. Waiting' = Lifted(Filters)' /\ Elems(plan)' = Kept(Filters)'
  BY <1>1, <1>3, <1>4, SameForms DEF Waiting, Elems
<1>6. Scanned(it - 1)' = {} /\ Elems(conds)' = {} /\ GivenUp' = {}
  BY <1>1 DEF Scanned, Elems, GivenUp, Account
<1>7. TranslatedOf({}) = {} /\ NotTranslated({}) = {}
  BY DEF TranslatedOf, NotTranslated
<1>8. TranslatedOf(Scanned(it - 1))' = {} /\ NotTranslated(Scanned(it - 1))' = {}
  BY <1>1, <1>6, <1>7, SameForms
<1>9. (it - 1 <= Len(plan))'
  <2>1. Len(plan) \in Nat
    BY <1>1
  <2> QED BY <1>1, <2>1
<1> QED BY <1>1, <1>5, <1>6, <1>8, <1>9 DEF Account

\* A filter of the plan that the builder looks at, or that is not offered.
LEMMA ScanAccount ==
  ASSUME IInv, Account, phase = "build", it <= Len(plan),
         phase' = "build", it' = it + 1, UNCHANGED <<query, extra, plan>>,
         residual' \in Seq(Rejected),
         Elems(conds)' = IF Offered(plan[it]) /\ Translatable(plan[it])
                         THEN Elems(conds) \cup {TranslatedForm(plan[it])} ELSE Elems(conds),
         GivenUp' = IF Offered(plan[it]) /\ ~Translatable(plan[it])
                    THEN GivenUp \cup {plan[it]} ELSE GivenUp
  PROVE  Account'
<1>1. it \in Nat \ {0} /\ it' - 1 = it
  BY DEF IInv, Types
<1>2. Scanned(it) = Scanned(it - 1) \cup {plan[it]}
  BY ScannedNext
<1>3. Elems(conds)' = TranslatedOf(Scanned(it)) /\ GivenUp' = NotTranslated(Scanned(it))
  <2> DEFINE f == plan[it]
  <2>1. Elems(conds) = TranslatedOf(Scanned(it - 1)) /\ GivenUp = NotTranslated(Scanned(it - 1))
    BY DEF Account
  <2>2. /\ TranslatedOf(Scanned(it)) = IF Offered(f) /\ Translatable(f)
             THEN TranslatedOf(Scanned(it - 1)) \cup {TranslatedForm(f)} ELSE TranslatedOf(Scanned(it - 1))
        /\ NotTranslated(Scanned(it)) = IF Offered(f) /\ ~Translatable(f)
             THEN NotTranslated(Scanned(it - 1)) \cup {f} ELSE NotTranslated(Scanned(it - 1))
    BY <1>2, OneMore
  <2> QED BY <2>1, <2>2
<1>4. Scanned(it - 1)' = Scanned(it)
  BY <1>1 DEF Scanned
<1>5. Elems(conds)' = TranslatedOf(Scanned(it - 1))' /\ GivenUp' = NotTranslated(Scanned(it - 1))'
  BY <1>3, <1>4, SameForms
<1>6. Filters' = Filters
  BY DEF Filters, Seen
<1>7. Waiting' = Lifted(Filters)' /\ Elems(plan)' = Kept(Filters)'
  BY <1>6, SameForms DEF Account, Waiting, Elems
<1> QED BY <1>1, <1>5, <1>7 DEF Account

\* A filter that is not offered.
LEMMA NotOfferedAccount == IInv /\ Account /\ NotOffered => Account'
<1> SUFFICES ASSUME IInv, Account, NotOffered PROVE Account' OBVIOUS
<1>1. phase = "build" /\ it <= Len(plan) /\ ~Offered(plan[it]) /\ phase' = "build" /\ it' = it + 1
      /\ UNCHANGED <<query, extra, plan, conds, residual>>
  BY DEF NotOffered, table_filter
<1>2. Elems(conds)' = Elems(conds) /\ GivenUp' = GivenUp /\ residual' \in Seq(Rejected)
  BY <1>1 DEF Elems, GivenUp, Account
<1> QED BY <1>1, <1>2, ScanAccount

\* A filter the builder gives up.
LEMMA ResidualAccount ==
  ASSUME IInv, Account, Building, ~Translatable(table_filter),
         NEW reason \in {"ROWID_OR_INVALID_COLUMN", "NONE_CHARSET", "UNSUPPORTED_OP"},
         Residual(reason)
  PROVE  Account'
<1> DEFINE r == [filter |-> table_filter, reason |-> reason]
<1>1. phase = "build" /\ it <= Len(plan) /\ Offered(plan[it]) /\ ~Translatable(plan[it])
      /\ phase' = "build" /\ it' = it + 1 /\ UNCHANGED <<query, extra, plan, conds>>
  BY DEF Building, Residual, table_filter
<1>2. plan \in Seq(Filter) /\ it \in Nat \ {0}
  BY DEF IInv, Types
<1>3. plan[it] \in Filter
  BY <1>1, <1>2
<1>4. r \in Rejected /\ r.filter = plan[it]
  BY <1>3 DEF Rejected, table_filter
<1>5. residual' = Append(residual, r) /\ residual \in Seq(Rejected)
  BY DEF Residual, Account
<1> HIDE DEF r
<1>6. residual' \in Seq(Rejected)
  BY <1>4, <1>5
<1>7. GivenUp' = GivenUp \cup {plan[it]}
  <2>1. /\ Len(residual') = Len(residual) + 1 /\ Len(residual) \in Nat /\ residual'[Len(residual) + 1] = r
        /\ \A i \in 1..Len(residual) : residual'[i] = residual[i]
    BY <1>4, <1>5
  <2>2. \A i : i \in 1..(Len(residual) + 1) <=> i \in 1..Len(residual) \/ i = Len(residual) + 1
    BY <2>1
  <2> QED BY <1>4, <2>1, <2>2 DEF GivenUp
<1>8. Elems(conds)' = Elems(conds)
  BY <1>1 DEF Elems
<1> QED BY <1>1, <1>6, <1>7, <1>8, ScanAccount

\* A filter that is translated.
LEMMA TranslateAccount == IInv /\ Account /\ Translate => Account'
<1> SUFFICES ASSUME IInv, Account, Translate PROVE Account' OBVIOUS
<1>1. phase = "build" /\ it <= Len(plan) /\ Offered(plan[it]) /\ Translatable(plan[it])
      /\ phase' = "build" /\ it' = it + 1 /\ UNCHANGED <<query, extra, plan, residual>>
      /\ conds' = Append(conds, TranslatedForm(plan[it]))
  BY DEF Translate, Building, table_filter, Translatable, TranslatedForm
<1>2. plan \in Seq(Filter) /\ it \in Nat \ {0} /\ conds \in Seq(Cond)
  BY DEF IInv, Types
<1>3. plan[it] \in Filter
  BY <1>1, <1>2
<1>4. Translated(plan[it]) \in Seq(Leaf)
  <2>1. plan[it].parts \in Seq(Leaf)
    BY <1>3 DEF Filter
  <2> QED BY <2>1, TranslatedParts DEF Translated
<1>5. TranslatedForm(plan[it]) \in Cond
  BY <1>3, <1>4, ConditionType DEF TranslatedForm
<1>6. Elems(conds') = Elems(conds) \cup {TranslatedForm(plan[it])}
  BY <1>1, <1>2, <1>5, ElemsAppend
<1>7. Elems(conds)' = Elems(conds) \cup {TranslatedForm(plan[it])}
  BY <1>6 DEF Elems
<1>8. GivenUp' = GivenUp /\ residual' \in Seq(Rejected)
  BY <1>1 DEF GivenUp, Account
<1> QED BY <1>1, <1>7, <1>8, ScanAccount

\* What was lifted joins the WHERE clause.
LEMMA AssembleAccount == IInv /\ Account /\ Assemble => Account'
<1> SUFFICES ASSUME IInv, Account, Assemble PROVE Account' OBVIOUS
<1> DEFINE lifted == [i \in 1..Len(extra) |-> extra[i].cond]
<1>1. phase = "build" /\ it > Len(plan) /\ phase' = "done" /\ conds' = conds \o lifted
      /\ UNCHANGED <<query, it, extra, plan, residual>>
      /\ it \in Nat \ {0} /\ plan \in Seq(Filter) /\ conds \in Seq(Cond) /\ extra \in Seq(Extra)
      /\ it - 1 <= Len(plan)
  BY DEF Assemble, IInv, Types, Account
<1>2. it - 1 = Len(plan)
  <2>1. Len(plan) \in Nat
    BY <1>1
  <2> QED BY <1>1, <2>1
<1>3. \A i \in 1..Len(extra) : extra[i].cond \in Cond
  <2>1. \A i \in 1..Len(extra) : extra[i] \in Extra BY ONLY <1>1
  <2> QED BY ONLY <2>1 DEF Extra
<1>4. lifted \in Seq(Cond) /\ Elems(lifted) = Waiting
  <2>1. Len(lifted) = Len(extra) /\ \A i \in 1..Len(extra) : lifted[i] = extra[i].cond
    BY <1>1
  <2>2. lifted \in Seq(Cond)
    BY <1>1, <1>3
  <2> HIDE DEF lifted
  <2> QED BY <2>1, <2>2 DEF Elems, Waiting
<1> HIDE DEF lifted
<1>5. Elems(conds') = Elems(conds) \cup Waiting
  BY <1>1, <1>4, ElemsConcat
<1>6. Scanned(it - 1) = Elems(plan)
  BY <1>2 DEF Scanned, Elems
<1>7. Elems(conds') = TranslatedOf(Elems(plan)) \cup Waiting /\ GivenUp = NotTranslated(Elems(plan))
  BY <1>1, <1>5, <1>6 DEF Account
<1>8. Filters' = Filters /\ Waiting' = Waiting /\ Elems(plan)' = Elems(plan) /\ GivenUp' = GivenUp
      /\ Elems(conds)' = Elems(conds')
  BY <1>1 DEF Filters, Seen, Waiting, Elems, GivenUp
<1>9. Waiting' = Lifted(Filters)' /\ Elems(plan)' = Kept(Filters)'
  BY <1>1, <1>8, SameForms DEF Account
<1>10. Elems(conds)' = TranslatedOf(Elems(plan))' \cup Waiting' /\ GivenUp' = NotTranslated(Elems(plan))'
  BY <1>1, <1>7, <1>8, SameForms
<1> QED BY <1>1, <1>9, <1>10 DEF Account

\* Every filter is counted, by every step.
LEMMA NextAccount == IInv /\ Account /\ [Next]_vars => Account'
<1> SUFFICES ASSUME IInv, Account, [Next]_vars PROVE Account' OBVIOUS
<1>0. << >> \in Seq(Constants)
  OBVIOUS
<1>1. CASE PushLike
  <2>1. Looking /\ Pushes(expr) /\ Lift(FALSE, << >>)
    BY <1>1 DEF PushLike, Pushes
  <2>2. FALSE = PushesEncoded(expr)
    BY <1>1 DEF PushLike, PushesLike, TryExtractLikePrefix, Is, PushesEncoded, TryExtractEquality, TryExtractInList
  <2> QED BY <1>0, <2>1, <2>2, LiftAccount
<1>2. CASE PushEncoded
  <2>1. Looking /\ Pushes(expr) /\ Lift(TRUE, << >>)
    BY <1>2 DEF PushEncoded, Pushes
  <2>2. TRUE = PushesEncoded(expr)
    <3>1. PushesEncoded(expr)
      BY <1>2 DEF PushEncoded
    <3> QED BY <3>1 DEF PushesEncoded
  <2> QED BY <1>0, <2>1, <2>2, LiftAccount
<1>3. CASE PushNotIn
  <2>1. Looking /\ Pushes(expr) /\ Lift(FALSE, Values(expr))
    BY <1>3 DEF PushNotIn, Pushes
  <2>2. FALSE = PushesEncoded(expr)
    BY <1>3 DEF PushNotIn, PushesNotIn, TryExtractNotIn, Is, PushesEncoded, TryExtractEquality, TryExtractInList
  <2>3. expr \in Filter
    BY <2>1, SeenNext DEF Looking
  <2>4. expr.parts \in Seq(Leaf) \ {<<>>}
    BY ONLY <2>3 DEF Filter
  <2>5. expr.parts[1] \in Leaf
    BY ONLY <2>4
  <2>6. Values(expr) \in Seq(Constants)
    BY ONLY <2>5 DEF Leaf, Values
  <2> QED BY <2>1, <2>2, <2>6, LiftAccount
<1>4. CASE PushNotBool
  <2>1. Looking /\ Pushes(expr) /\ Lift(FALSE, << >>)
    BY <1>4 DEF PushNotBool, Pushes
  <2>2. FALSE = PushesEncoded(expr)
    BY <1>4 DEF PushNotBool, PushesNotBool, TryExtractNotBoolColumn, Is, PushesEncoded, TryExtractEquality, TryExtractInList
  <2> QED BY <1>0, <2>1, <2>2, LiftAccount
<1>5. CASE Keep
  BY <1>5, KeepAccount
<1>6. CASE StartBuild
  BY <1>6, StartBuildAccount
<1>7. CASE NotOffered
  BY <1>7, NotOfferedAccount
<1>8. CASE ResidualRowId
  BY <1>8, ResidualAccount DEF ResidualRowId, Translatable
<1>9. CASE ResidualNone
  BY <1>9, ResidualAccount DEF ResidualNone, Translatable
<1>10. CASE ResidualUnsupported
  BY <1>10, ResidualAccount DEF ResidualUnsupported, Translatable
<1>11. CASE Translate
  BY <1>11, TranslateAccount
<1>12. CASE Assemble
  BY <1>12, AssembleAccount
<1>13. CASE UNCHANGED vars
  <2>1. UNCHANGED <<query, phase, it, extra, plan, conds, residual>>
    BY <1>13 DEF vars
  <2>2. /\ Waiting' = Waiting /\ Elems(plan)' = Elems(plan) /\ Elems(conds)' = Elems(conds)
        /\ GivenUp' = GivenUp /\ Filters' = Filters /\ Seen(it - 1)' = Seen(it - 1)
        /\ Scanned(it - 1)' = Scanned(it - 1)
    BY <2>1 DEF Waiting, Elems, GivenUp, Filters, Seen, Scanned
  <2> QED BY <2>1, <2>2, SameForms DEF Account
<1> QED
  BY <1>1, <1>2, <1>3, <1>4, <1>5, <1>6, <1>7, <1>8, <1>9, <1>10, <1>11, <1>12, <1>13 DEF Next

\* The query has only constants that Firebird reads as DuckDB does.
AllAlike == \A i \in 1..Len(query.filters) : AlikeIn(query.filters[i])

\* A filter of the query is applied once, on one side or the other.
LEMMA AccountRows == IInv /\ Account /\ AllAlike => RowsExact
<1> SUFFICES ASSUME IInv, Account, AllAlike, phase = "done",
                    NEW col \in DOMAIN Cells, NEW x \in Cells[col]
             PROVE  Delivers(col, x) <=> Wants(col, x)
  BY DEF RowsExact
<1>1. /\ Waiting = Lifted(Filters) /\ Elems(plan) = Kept(Filters)
      /\ Elems(conds) = TranslatedOf(Elems(plan)) \cup Waiting
      /\ GivenUp = NotTranslated(Elems(plan))
  BY DEF Account
<1>2. \A f \in Filters : f \in Filter /\ AlikeIn(f)
  <2>1. query.filters \in Seq(Filter)
    BY DEF IInv, Types, Query
  <2> QED BY <2>1 DEF Filters, Seen, AllAlike
<1>3. Dropped = GivenUp \ Reapplied
  BY DEF Dropped, GivenUp
<1>4. Reapplied = {f \in Elems(plan) : ~LeftToScan(f)}
  BY DEF Reapplied, Elems
<1>5. \A f : LeftToScan(f) => Offered(f) /\ ~IsNoneTextColumnGated(f.col)
  BY DEF Offered, LeftToScan, SupportsPushdownType
<1>6. Delivers(col, x) <=> /\ \A c \in Elems(conds) : c.col = col => FirebirdSelects(c, x)
                           /\ \A p \in Reapplied : p.col = col => DuckDBSelects(p, x)
  BY DEF Delivers, Elems
<1>7. Wants(col, x) <=> \A f \in Filters : f.col = col /\ f \notin Dropped => DuckDBSelects(f, x)
  BY DEF Wants, Filters, Seen
<1>8. ASSUME NEW f \in Filters, Pushes(f)
      PROVE  /\ LiftedForm(f) \in Elems(conds) /\ LiftedForm(f).col = f.col /\ f \notin Dropped
             /\ f.col = col => (FirebirdSelects(LiftedForm(f), x) <=> DuckDBSelects(f, x))
  <2>1. LiftedForm(f) \in Elems(conds) /\ f \notin Dropped
    BY <1>1, <1>3, <1>8 DEF Lifted, Kept, NotTranslated
  <2>2. LiftedForm(f).col = f.col
    BY DEF LiftedForm, Condition
  <2>3. f.col = col => (FirebirdSelects(LiftedForm(f), x) <=> DuckDBSelects(f, x))
    BY <1>2, <1>8, LiftedAlike
  <2> QED BY <2>1, <2>2, <2>3
<1>9. ASSUME NEW f \in Elems(plan), Offered(f), Translatable(f)
      PROVE  /\ TranslatedForm(f) \in Elems(conds) /\ TranslatedForm(f).col = f.col /\ f \notin Dropped
             /\ f \in Filters /\ (FirebirdSelects(TranslatedForm(f), x) <=> DuckDBSelects(f, x))
  <2>1. TranslatedForm(f) \in Elems(conds) /\ f \notin Dropped /\ f \in Filters
    BY <1>1, <1>3, <1>9 DEF TranslatedOf, NotTranslated, Kept
  <2>2. TranslatedForm(f).col = f.col
    BY DEF TranslatedForm, Condition
  <2>3. FirebirdSelects(TranslatedForm(f), x) <=> DuckDBSelects(f, x)
    BY <1>2, <1>9, <2>1, TranslatedAlike DEF Translatable
  <2> QED BY <2>1, <2>2, <2>3
<1>10. ASSUME Delivers(col, x), NEW f \in Filters, f.col = col, f \notin Dropped PROVE DuckDBSelects(f, x)
  <2>1. CASE Pushes(f)
    BY <1>6, <1>8, <1>10, <2>1
  <2>2. CASE ~Pushes(f)
    <3>1. f \in Elems(plan)
      BY <1>1, <2>2 DEF Kept
    <3>2. CASE ~LeftToScan(f)
      BY <1>4, <1>6, <1>10, <3>1, <3>2
    <3>3. CASE LeftToScan(f)
      <4>1. Offered(f) /\ f \notin Reapplied
        BY <1>4, <1>5, <3>3
      <4>2. Translatable(f)
        BY <1>1, <1>3, <1>10, <3>1, <4>1 DEF NotTranslated
      <4> QED BY <1>6, <1>9, <1>10, <3>1, <4>1, <4>2
    <3> QED BY <3>2, <3>3
  <2> QED BY <2>1, <2>2
<1>11. ASSUME Wants(col, x), NEW c \in Elems(conds), c.col = col PROVE FirebirdSelects(c, x)
  <2>1. CASE c \in Waiting
    <3>1. PICK f \in Filters : Pushes(f) /\ c = LiftedForm(f)
      BY <1>1, <2>1 DEF Lifted
    <3> QED BY <1>7, <1>8, <1>11, <3>1
  <2>2. CASE c \in TranslatedOf(Elems(plan))
    <3>1. PICK f \in Elems(plan) : Offered(f) /\ Translatable(f) /\ c = TranslatedForm(f)
      BY <2>2 DEF TranslatedOf
    <3> QED BY <1>7, <1>9, <1>11, <3>1
  <2> QED BY <1>1, <2>1, <2>2
<1>12. ASSUME Wants(col, x), NEW f \in Reapplied, f.col = col PROVE DuckDBSelects(f, x)
  <2>1. f \in Filters /\ f \notin Dropped
    BY <1>1, <1>3, <1>4 DEF Kept
  <2> QED BY <1>7, <1>12, <2>1
<1> QED BY <1>6, <1>7, <1>10, <1>11, <1>12

\* Whatever the filters, their columns, the encoding and the planner, the rows
\* that pass the WHERE clause and the filters applied above the scan are the
\* rows the filters of the query let through, dropped ones aside.
THEOREM PushdownIsExact == Spec => [](AllAlike => RowsExact)
<1>1. Init => IInv /\ Account BY InitIInv, InitAccount
<1>2. IInv /\ Account /\ [Next]_vars => (IInv /\ Account)' BY NextIInv, NextAccount
<1>3. IInv /\ Account => (AllAlike => RowsExact) BY AccountRows
<1> QED BY <1>1, <1>2, <1>3, PTL DEF Spec

=============================================================================
