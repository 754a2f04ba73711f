-------------------------- MODULE MCAttachedCatalog --------------------------
(***************************************************************************)
(* Two threads on a database with a keyed table, a quoted relation whose   *)
(* name differs from it only in case, a view over NONE text and a table    *)
(* with two columns that differ only in case.                              *)
(***************************************************************************)
EXTENDS AttachedCatalog

CONSTANTS t1, t2, emp, quoted_emp, view, clash

MCThreads == {t1, t2}
MCNames == <<emp, clash, view, quoted_emp>>
MCUpper == [r \in {emp, clash, view, quoted_emp} |-> IF r = quoted_emp THEN emp ELSE r]

OneView == <<view>>
OneUpper == [r \in {view} |-> r]
=============================================================================
