---------------------------- MODULE ViewAnalysis ----------------------------
(* AnalyzeViewSource (firebird_view_analysis.cpp): the shape of a view from *)
(* the text of its SELECT, after comments and literals are blanked out.  A  *)
(* text is a sequence of characters; a word is one character of its own     *)
(* ("JOIN", "GROUP", "BY", "WHERE", "SUM" for every aggregate, "x" for     *)
(* other words).                                                            *)
EXTENDS Integers, Sequences, SequencesExt

Quote == "'"
Blank == " "
Newline == "\n"

\* The lexer: [to |-> next state, takes |-> characters consumed, out |-> ...].
Go(to, takes, out) == [to |-> to, takes |-> takes, out |-> out]
Blanks(n) == [i \in 1..n |-> Blank]

InCode(c, n) ==
  CASE c = Quote             -> Go("STR", 1, Blanks(1))
    [] c = "-" /\ n = "-"    -> Go("LINE_COMMENT", 2, Blanks(2))
    [] c = "/" /\ n = "*"    -> Go("BLOCK_COMMENT", 2, Blanks(2))
    [] OTHER                 -> Go("CODE", 1, <<c>>)

InString(c, n) ==
  CASE c = Quote /\ n = Quote -> Go("STR", 2, Blanks(2))
    [] c = Quote              -> Go("CODE", 1, Blanks(1))
    [] OTHER                  -> Go("STR", 1, Blanks(1))

InLineComment(c, n) ==
  IF c = Newline THEN Go("CODE", 1, <<c>>) ELSE Go("LINE_COMMENT", 1, Blanks(1))

\* A fault: the comment ends at its "*", and "/" is code again.
InBlockCommentEndsAtStar(c, n) ==
  IF c = "*" THEN Go("CODE", 1, Blanks(1)) ELSE Go("BLOCK_COMMENT", 1, Blanks(1))
InBlockComment(c, n) ==
  IF c = "*" /\ n = "/" THEN Go("CODE", 2, Blanks(2)) ELSE Go("BLOCK_COMMENT", 1, Blanks(1))

Lex(state, c, n) ==
  CASE state = "CODE" -> InCode(c, n)
    [] state = "STR" -> InString(c, n)
    [] state = "LINE_COMMENT" -> InLineComment(c, n)
    [] OTHER -> InBlockComment(c, n)

\* norm: what is left of src[i..] when the lexer reaches it in that state.
Normalized(src) ==
  LET from[i \in 1..Len(src) + 2, state \in {"CODE", "STR", "LINE_COMMENT", "BLOCK_COMMENT"}] ==
        IF i > Len(src) THEN <<>>
        ELSE LET go == Lex(state, src[i], IF i < Len(src) THEN src[i + 1] ELSE "NUL")
             IN go.out \o from[i + go.takes, go.to]
  IN from[1, "CODE"]

\* flat, padded: every run of white space is one blank.
IsSpace(c) == c \in {Blank, Newline}
Flattened(norm) ==
  <<Blank>> \o FlattenSeq([i \in DOMAIN norm |->
    IF ~IsSpace(norm[i]) THEN <<norm[i]>>
    ELSE IF i > 1 /\ IsSpace(norm[i - 1]) THEN <<>> ELSE <<Blank>>]) \o <<Blank>>

Finds(hay, needle) ==
  \E i \in 0..Len(hay) - Len(needle) : SubSeq(hay, i + 1, i + Len(needle)) = needle

AnalyzeViewSource(src) ==
  LET hay == Flattened(Normalized(src)) IN
  [has_join      |-> Finds(hay, <<Blank, "JOIN", Blank>>),
   has_group_by  |-> Finds(hay, <<Blank, "GROUP", Blank, "BY", Blank>>),
   has_where     |-> Finds(hay, <<Blank, "WHERE", Blank>>),
   has_aggregate |-> Finds(hay, <<"SUM", "(">>) \/ Finds(hay, <<"SUM", Blank, "(">>)]

\* FirebirdScanBind: a slice may be pushed into a view of this shape.
SimpleForPagination(src) ==
  LET va == AnalyzeViewSource(src) IN
  ~va.has_join /\ ~va.has_group_by /\ ~va.has_aggregate

-----------------------------------------------------------------------------
(* The same from the pieces the author wrote: [kind, body], where the body  *)
(* of a literal, a line or a block comment is any text without its end.     *)

WellFormed(piece) ==
  CASE piece.kind = "line" -> Newline \notin Range(piece.body)
    [] piece.kind = "block" ->
         \A i \in DOMAIN piece.body : SubSeq(piece.body \o <<"*", "/">>, i, i + 1) # <<"*", "/">>
    [] OTHER -> TRUE

Written(piece) ==
  CASE piece.kind = "code" -> piece.body
    [] piece.kind = "literal" ->
         <<Quote>> \o FlattenSeq([i \in DOMAIN piece.body |->
           IF piece.body[i] = Quote THEN <<Quote, Quote>> ELSE <<piece.body[i]>>]) \o <<Quote>>
    [] piece.kind = "line" -> <<"-", "-">> \o piece.body \o <<Newline>>
    [] piece.kind = "block" -> <<"/", "*">> \o piece.body \o <<"*", "/">>

Source(pieces) == FlattenSeq([i \in DOMAIN pieces |-> Written(pieces[i])])

\* The words and signs of the code, whatever stands between them.
Tokens(pieces) ==
  SelectSeq(FlattenSeq([i \in DOMAIN pieces |-> IF pieces[i].kind = "code" THEN pieces[i].body ELSE <<>>]),
            LAMBDA c : ~IsSpace(c))
=============================================================================
