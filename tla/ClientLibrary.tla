---------------------------- MODULE ClientLibrary ----------------------------
(* fbapi() (firebird_client_loader.cpp): the Firebird client library is     *)
(* loaded by the first call that can, for the whole process.  A call is one *)
(* step, since it holds load_lock from its first line to its last; between  *)
(* two calls the user may set the variable or install another library.      *)
EXTENDS Integers, Sequences, SequencesExt

CONSTANTS
  Symbols,      \* the entry points, in the order they are bound
  Candidates    \* DefaultLibraryCandidates()

NoEnv == "unset or empty"
Null == "null"

\* The process: the function pointers, and what the last call did.
Start == [loaded |-> FALSE, api |-> [s \in Range(Symbols) |-> Null], outcome |-> "none"]

\* A fault: a library without the symbol leaves the pointer as it was.
BindSymbolsLeniently(state, lib, has) ==
  [loaded |-> TRUE, outcome |-> "api",
   api |-> [s \in Range(Symbols) |-> IF s \in has THEN lib ELSE state.api[s]]]

\* Pointers are overwritten one by one; the first missing symbol throws.
BindSymbols(state, lib, has) ==
  LET bound == {i \in DOMAIN Symbols : \A j \in 1..i : Symbols[j] \in has}
      missing == DOMAIN Symbols \ bound
      touched == {Symbols[i] : i \in bound}
  IN [loaded |-> missing = {},
      outcome |-> IF missing = {} THEN "api" ELSE "incomplete",
      api |-> [s \in Range(Symbols) |->
                 IF s \in touched THEN lib
                 ELSE IF missing # {} /\ s = Symbols[Min(missing)] THEN Null ELSE state.api[s]]]

Throws(state, why) == [state EXCEPT !.outcome = why]

\* world: the variable DUCKDB_FIREBIRD_CLIENT_LIBRARY and the symbols of each
\* library that can be opened.
Opens(world, lib) == lib \in DOMAIN world.libraries
LoadDefault(state, world) ==
  LET found == {i \in DOMAIN Candidates : Opens(world, Candidates[i])} IN
  IF found = {} THEN Throws(state, "not found")
  ELSE LET lib == Candidates[Min(found)] IN BindSymbols(state, lib, world.libraries[lib])
LoadOverride(state, world) ==
  IF ~Opens(world, world.env) THEN Throws(state, "override")
  ELSE BindSymbols(state, world.env, world.libraries[world.env])

fbapi(state, world) ==
  IF state.loaded THEN [state EXCEPT !.outcome = "api"]
  ELSE IF world.env # NoEnv THEN LoadOverride(state, world)
  ELSE LoadDefault(state, world)

\* The states after each call, one world per call.
Calls(worlds) ==
  LET after[i \in 0..Len(worlds)] == IF i = 0 THEN Start ELSE fbapi(after[i - 1], worlds[i])
  IN [i \in 1..Len(worlds) |-> after[i]]
=============================================================================
