---------------------------- MODULE MeasuredCell ----------------------------
(***************************************************************************)
(* One cell as driver.py measures it: the validation pass of run_fixed over *)
(* the connections of async_http.py, the probe of the serving topology, the *)
(* replay beside its samplers, the probe again, and the verdict the result  *)
(* file records.  Queries are numbered in the order of the queue.           *)
(***************************************************************************)
EXTENDS ServedIndex

CONSTANTS Queries,      \* how many the validation pass asks
          Worker        \* WARMUP_CONCURRENCY tasks, and one connection each

ASSUME QueriesAssumption == Queries \in Nat

VARIABLES cell,         \* the driver: where it is, what it asked for and saw
          conn,         \* conn[w]: the queries sent on w's open socket, unread
          asks,         \* asks[w]: the query w waits for, 0 when none
          outcome       \* outcome[q]: "none", "ok", "foreign" or "error"

cellVars == <<cell, conn, asks, outcome>>

\* What the cell is asked to find: an index of any shape, of so many segments,
\* of the declared topology, or (HEALTH) no index at all.
Wanted == [indexed : {TRUE}, count : {0, 1}, topology : {FALSE}]
            \cup [indexed : {TRUE}, count : {Len(Tiers)}, topology : {TRUE}]
            \cup [indexed : {FALSE}, count : {0}, topology : {FALSE}]

CellInit ==
    /\ \E a \in Wanted :
          cell = [args |-> a, pc |-> "waiting", next |-> 1, errors |-> {},
                  before |-> Observed(NoIndex), after |-> Observed(NoIndex),
                  ran |-> {}, sampling |-> FALSE]
    /\ conn = [w \in Worker |-> <<>>]
    /\ asks = [w \in Worker |-> 0]
    /\ outcome = [q \in 1..Queries |-> "none"]

Step(from, to) == cell.pc = from /\ cell' = [cell EXCEPT !.pc = to]
Fail == cell' = [cell EXCEPT !.pc = "failed", !.sampling = FALSE]
Validation == UNCHANGED <<conn, asks, outcome>>

-----------------------------------------------------------------------------
\* run_fixed: each worker takes the next query off the queue, until it is empty.
\* A request that cannot be built is an error of its query alone.
BuildFails ==
    /\ cell.pc = "validate" /\ cell.next <= Queries
    /\ \E w \in Worker : asks[w] = 0
    /\ cell' = [cell EXCEPT !.next = @ + 1]
    /\ outcome' = [outcome EXCEPT ![cell.next] = "error"]
    /\ UNCHANGED <<conn, asks>>

Send(w) ==
    /\ cell.pc = "validate" /\ cell.next <= Queries /\ asks[w] = 0
    /\ cell' = [cell EXCEPT !.next = @ + 1]
    /\ asks' = [asks EXCEPT ![w] = cell.next]
    /\ conn' = [conn EXCEPT ![w] = Append(@, cell.next)]
    /\ UNCHANGED outcome

\* The answer read is that of the oldest request on the socket; validate()
\* accepts it or raises, and "connection: close" drops the socket.
Answer(w) ==
    /\ asks[w] # 0 /\ conn[w] # <<>>
    /\ \E verdict \in {"ok", "error"} :
          outcome' = [outcome EXCEPT ![asks[w]] =
             IF verdict = "ok" /\ Head(conn[w]) # asks[w] THEN "foreign" ELSE verdict]
    /\ asks' = [asks EXCEPT ![w] = 0]
    /\ conn' = [conn EXCEPT ![w] = Tail(@)]
    /\ UNCHANGED cell

\* A slip: the socket of a request that timed out is kept.
BreakKept(w) ==
    /\ asks[w] # 0
    /\ outcome' = [outcome EXCEPT ![asks[w]] = "error"]
    /\ asks' = [asks EXCEPT ![w] = 0]
    /\ UNCHANGED <<cell, conn>>
\* The deadline, a broken socket or a status that is not 2xx: the connection is
\* closed before the exception is recorded.
Break(w) ==
    /\ asks[w] # 0
    /\ outcome' = [outcome EXCEPT ![asks[w]] = "error"]
    /\ asks' = [asks EXCEPT ![w] = 0]
    /\ conn' = [conn EXCEPT ![w] = <<>>]
    /\ UNCHANGED cell

\* gather returns; one error refuses the cell.
Validated ==
    /\ cell.pc = "validate" /\ cell.next > Queries
    /\ \A w \in Worker : asks[w] = 0
    /\ IF \E q \in 1..Queries : outcome[q] = "error" THEN Fail
       ELSE Step("validate", IF cell.args.indexed THEN "before" ELSE "start")
    /\ Validation

-----------------------------------------------------------------------------
\* index_topology: the segments, then the merges (one answer for Luxir).
ObserveBefore ==
    /\ cell.pc = "before"
    /\ IF Parses(index)
         THEN cell' = [cell EXCEPT !.before = Observed(index), !.pc = "before merges"]
         ELSE Fail
    /\ Validation

CheckBefore ==
    /\ cell.pc = "before merges"
    /\ LET active == index.merging # {}
       IN  IF /\ Quiescent(cell.before, active, cell.args.count)
              /\ cell.args.topology => IsTopology(Len(Tiers), cell.before, active)
             THEN Step("before merges", "start") ELSE Fail
    /\ Validation

\* The samplers start, and the native replay runs until it exits; ran is what
\* the queries were served from, which Served keeps at every step of the engine.
StartReplay ==
    /\ cell.pc = "start"
    /\ cell' = [cell EXCEPT !.pc = "replay", !.sampling = TRUE, !.ran = {Observed(index)}]
    /\ Validation
Served(i) == IF cell.pc = "replay" THEN [cell EXCEPT !.ran = @ \cup {Observed(i)}]
             ELSE cell

\* Exit code 0 or 1 and a readable result, or an exception; finally stops the
\* samplers on each of them.
EndReplay ==
    /\ cell.pc = "replay"
    /\ \/ \E e \in SUBSET {"replay"} :
             cell' = [cell EXCEPT !.sampling = FALSE, !.errors = e,
                         !.pc = IF cell.args.indexed THEN "after" ELSE "record"]
       \/ Fail
    /\ Validation

ObserveAfter ==
    /\ cell.pc = "after"
    /\ IF Parses(index)
         THEN cell' = [cell EXCEPT !.after = Observed(index), !.pc = "after merges"]
         ELSE Fail
    /\ Validation

\* A slip: the two samples are compared by their number of segments.
CountAfter ==
    /\ cell.pc = "after merges"
    /\ LET count == Cardinality(cell.after.segs)
       IN  cell' = [cell EXCEPT !.pc = "record", !.errors = @ \cup
              {e \in {"changed", "count", "merges"} :
                 \/ e = "changed" /\ count # Cardinality(cell.before.segs)
                 \/ e = "count" /\ cell.args.count \notin {0, count}
                 \/ e = "merges" /\ index.merging # {}}]
    /\ Validation
\* The errors a cell is given after its replay, for what the probes say.
CheckAfter ==
    /\ cell.pc = "after merges"
    /\ LET active == index.merging # {}
       IN  cell' = [cell EXCEPT !.pc = "record", !.errors = @ \cup
              {e \in {"changed", "count", "merges", "declared"} :
                 \/ e = "changed" /\ cell.before # cell.after
                 \/ e = "count" /\ cell.args.count \notin {0, Cardinality(cell.after.segs)}
                 \/ e = "merges" /\ active
                 \/ /\ e = "declared" /\ cell.args.topology
                    /\ ~IsTopology(Len(Tiers), cell.after, active)}]
    /\ Validation

\* server_config asks the engine what it is and may raise; else the result is
\* written, and the exit status says whether it has errors.
Record ==
    /\ cell.pc = "record"
    /\ \/ cell' = [cell EXCEPT !.pc = IF cell.errors = {} THEN "passed" ELSE "flawed"]
       \/ Fail
    /\ Validation

CellRaises ==
    /\ cell.pc \in {"before", "before merges", "after", "after merges"}
    /\ Fail /\ Validation

CellStep ==
    \/ BuildFails \/ \E w \in Worker : Send(w) \/ Answer(w) \/ Break(w)
    \/ Validated \/ ObserveBefore \/ CheckBefore \/ StartReplay \/ EndReplay
    \/ ObserveAfter \/ CheckAfter \/ Record
=============================================================================
