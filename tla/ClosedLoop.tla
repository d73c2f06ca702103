----------------------------- MODULE ClosedLoop -----------------------------
(***************************************************************************)
(* What a closed-loop replay promises, without threads, sockets or clocks: *)
(* rounds of requests by a fixed set of clients, each client with at most  *)
(* one request under way, each request of a counted round ending in one    *)
(* credit or one charge.                                                   *)
(***************************************************************************)
EXTENDS Integers, FiniteSets

CONSTANT Client   \* the connections

VARIABLES
  counting,   \* is the round measured?
  busy,       \* clients with a request under way
  started,    \* requests started in the round
  credited,   \* requests of the round that succeeded
  charged     \* requests of the round that failed

vars == <<counting, busy, started, credited, charged>>

Init == counting = FALSE /\ busy = {} /\ started = 0 /\ credited = 0 /\ charged = 0

\* A round begins from rest and from zero.
Open ==
  /\ busy = {}
  /\ counting' \in BOOLEAN
  /\ started' = 0 /\ credited' = 0 /\ charged' = 0
  /\ UNCHANGED busy

Start(c) ==
  /\ c \notin busy
  /\ busy' = busy \union {c}
  /\ started' = started + 1
  /\ UNCHANGED <<counting, credited, charged>>

\* The request of c ends, with a credit or a charge if the round counts.
Finish(c) ==
  /\ c \in busy
  /\ busy' = busy \ {c}
  /\ IF counting
     THEN \/ credited' = credited + 1 /\ UNCHANGED charged
          \/ charged' = charged + 1 /\ UNCHANGED credited
     ELSE UNCHANGED <<credited, charged>>
  /\ UNCHANGED <<counting, started>>

\* A request that could not even be sent starts and fails in one step.
Bounce(c) ==
  /\ c \notin busy
  /\ started' = started + 1
  /\ charged' = IF counting THEN charged + 1 ELSE charged
  /\ UNCHANGED <<counting, busy, credited>>

\* No round is open any more.
Close == counting' = FALSE /\ UNCHANGED <<busy, started, credited, charged>>

Next == Open \/ Close \/ \E c \in Client : Start(c) \/ Finish(c) \/ Bounce(c)

Spec == Init /\ [][Next]_vars

\* The books of a counted round balance at every moment.
Balanced == counting => started = credited + charged + Cardinality(busy)
=============================================================================
