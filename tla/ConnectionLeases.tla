-------------------------- MODULE ConnectionLeases --------------------------
(***************************************************************************)
(* What the connection pool promises its callers: a connection is opened   *)
(* once, belongs to at most one thread at a time, may go round between     *)
(* threads while it is open, and never comes back once it is closed.       *)
(* Nothing is said of queues, mutexes, caps or expiry.                     *)
(***************************************************************************)
CONSTANTS Threads, Conns, NoConn

VARIABLES lease,   \* the connection each thread may use, or NoConn
          life     \* "unborn", "open" or "closed", for each connection

vars == <<lease, life>>

Init ==
  /\ lease = [t \in Threads |-> NoConn]
  /\ life = [c \in Conns |-> "unborn"]

Leased(c) == \E t \in Threads : lease[t] = c

\* A thread without a lease is given a connection: a new one, or an open one
\* that no thread holds.
Open(t, c) ==
  /\ lease[t] = NoConn /\ life[c] = "unborn"
  /\ lease' = [lease EXCEPT ![t] = c]
  /\ life' = [life EXCEPT ![c] = "open"]

Reuse(t, c) ==
  /\ lease[t] = NoConn /\ life[c] = "open" /\ ~Leased(c)
  /\ lease' = [lease EXCEPT ![t] = c]
  /\ UNCHANGED life

\* A lease ends; its connection stays open for another, or is closed.
Return(t) ==
  /\ lease[t] # NoConn
  /\ lease' = [lease EXCEPT ![t] = NoConn]
  /\ life' \in {life, [life EXCEPT ![lease[t]] = "closed"]}

\* Connections nobody holds are closed, unborn ones (a construction that
\* failed) included.
Close(C) ==
  /\ \A c \in C : ~Leased(c)
  /\ life' = [c \in Conns |-> IF c \in C THEN "closed" ELSE life[c]]
  /\ UNCHANGED lease

Next ==
  \/ \E t \in Threads, c \in Conns : Open(t, c) \/ Reuse(t, c)
  \/ \E t \in Threads : Return(t)
  \/ \E C \in SUBSET Conns : Close(C)

Spec == Init /\ [][Next]_vars
=============================================================================
