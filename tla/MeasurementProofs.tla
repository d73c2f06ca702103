--------------------------- MODULE MeasurementProofs ---------------------------
(***************************************************************************)
(* For any corpus, topology, number of queries, connections and failures:  *)
(* no answer is taken for another query's; a feed that ends leaves the     *)
(* index with its settings restored; one that ends well has every document *)
(* in the tiers it declared; and a cell without an error was served from   *)
(* one set of segments.  Segments are intervals of documents: the          *)
(* invariant is that they part what was sent among them, and the measure   *)
(* that orders what a cell sees is their number, which merges only reduce. *)
(***************************************************************************)
EXTENDS Measurement, FiniteSetTheorems, WellFoundedInduction, TLAPS

-----------------------------------------------------------------------------
\* The validation pass.

CellFields == {"args", "pc", "next", "errors", "before", "after", "ran", "sampling"}
Judged == {"before", "before merges", "start", "replay", "after", "after merges",
           "record", "passed", "flawed"}

CellTyped ==
    /\ DOMAIN cell = CellFields /\ cell.next \in Nat \ {0}
    /\ DOMAIN asks = Worker /\ DOMAIN conn = Worker
    /\ outcome \in [1..Queries -> {"none", "ok", "error"}]

\* A socket carries the one query its worker waits for, and nothing is on a
\* socket that nobody waits at.
OneInFlight == \A w \in Worker : conn[w] = IF asks[w] = 0 THEN <<>> ELSE <<asks[w]>>

\* Each query that left the queue has its verdict or is in flight; after the
\* pass none is in flight, and a cell that goes on has accepted them all.
Accounted ==
    /\ \A q \in 1..Queries : q < cell.next =>
          outcome[q] # "none" \/ \E w \in Worker : asks[w] = q
    /\ cell.pc # "validate" => \A w \in Worker : asks[w] = 0
    /\ cell.pc \in Judged => \A q \in 1..Queries : outcome[q] = "ok"

AnswersInv == CellTyped /\ OneInFlight /\ Accounted

LEMMA AnswersInit == Init => AnswersInv
<1> SUFFICES ASSUME Init PROVE AnswersInv
  OBVIOUS
<1>1. PICK a \in Wanted :
        cell = [args |-> a, pc |-> "waiting", next |-> 1, errors |-> {},
                before |-> Observed(NoIndex), after |-> Observed(NoIndex),
                ran |-> {}, sampling |-> FALSE]
  BY DEF Init, CellInit
<1>2. /\ conn = [w \in Worker |-> <<>>] /\ asks = [w \in Worker |-> 0]
      /\ outcome = [q \in 1..Queries |-> "none"]
  BY DEF Init, CellInit
<1>3. DOMAIN cell = CellFields /\ cell.next = 1 /\ cell.pc = "waiting"
  BY <1>1 DEF CellFields
<1>4. \A q \in 1..Queries : ~(q < 1)
  OBVIOUS
<1> QED
  BY <1>2, <1>3, <1>4 DEF AnswersInv, CellTyped, OneInFlight, Accounted, Judged

\* Steps that leave the queries alone and move the driver on, or not at all.
LEMMA AnswersElsewhere ==
  ASSUME AnswersInv, UNCHANGED <<conn, asks, outcome>>,
         DOMAIN cell' = CellFields, cell'.next = cell.next,
         cell'.pc = "validate" => cell.pc \in {"validate", "waiting"},
         cell'.pc # "validate" => \A w \in Worker : asks[w] = 0,
         cell'.pc \in Judged => \A q \in 1..Queries : outcome[q] = "ok"
  PROVE  AnswersInv'
BY DEF AnswersInv, CellTyped, OneInFlight, Accounted

LEMMA AnswersPass ==
  ASSUME AnswersInv, BuildFails \/ \E w \in Worker : Send(w) \/ Answer(w) \/ Break(w)
  PROVE  AnswersInv'
<1>1. CASE BuildFails
  <2>1. /\ cell.pc = "validate" /\ cell' = [cell EXCEPT !.next = @ + 1]
        /\ outcome' = [outcome EXCEPT ![cell.next] = "error"]
        /\ UNCHANGED <<conn, asks>>
    BY <1>1 DEF BuildFails
  <2>2. DOMAIN cell' = CellFields /\ cell'.pc = "validate" /\ cell'.next = cell.next + 1
    BY <2>1 DEF AnswersInv, CellTyped, CellFields
  <2>3. /\ outcome' \in [1..Queries -> {"none", "ok", "error"}]
        /\ \A q \in 1..Queries : /\ q # cell.next => outcome'[q] = outcome[q]
                                 /\ q = cell.next => outcome'[q] = "error"
    BY <2>1 DEF AnswersInv, CellTyped
  <2>4. \A q \in 1..Queries : q < cell.next + 1 => q < cell.next \/ q = cell.next
    BY DEF AnswersInv, CellTyped
  <2>5. cell.next + 1 \in Nat \ {0}
    BY DEF AnswersInv, CellTyped
  <2>6. CellTyped'
    BY <2>1, <2>2, <2>3, <2>5 DEF AnswersInv, CellTyped
  <2>7. OneInFlight'
    BY <2>1 DEF AnswersInv, OneInFlight
  <2>8. Accounted'
    <3>1. ASSUME NEW q \in 1..Queries, q < cell.next + 1
          PROVE  outcome'[q] # "none" \/ \E w \in Worker : asks[w] = q
      BY <2>3, <2>4, <3>1 DEF AnswersInv, Accounted
    <3> QED
      BY <2>1, <2>2, <3>1 DEF Accounted, Judged
  <2> QED
    BY <2>6, <2>7, <2>8 DEF AnswersInv
<1>2. ASSUME NEW w \in Worker, Send(w) PROVE AnswersInv'
  <2>1. /\ cell.pc = "validate" /\ cell' = [cell EXCEPT !.next = @ + 1] /\ asks[w] = 0
        /\ asks' = [asks EXCEPT ![w] = cell.next]
        /\ conn' = [conn EXCEPT ![w] = Append(@, cell.next)]
        /\ UNCHANGED outcome
    BY <1>2 DEF Send
  <2>2. /\ DOMAIN cell' = CellFields /\ cell'.pc = "validate"
        /\ cell'.next = cell.next + 1 /\ cell.next \in Nat /\ cell.next + 1 \in Nat \ {0}
    BY <2>1 DEF AnswersInv, CellTyped, CellFields
  <2>3. conn[w] = <<>> /\ Append(conn[w], cell.next) = <<cell.next>>
    <3>1. conn[w] = <<>>
      BY <2>1 DEF AnswersInv, OneInFlight
    <3>2. Append(<<>>, cell.next) = <<cell.next>>
      BY <2>2
    <3> QED
      BY <3>1, <3>2
  <2>4. /\ DOMAIN asks' = Worker /\ DOMAIN conn' = Worker
        /\ asks'[w] = cell.next /\ conn'[w] = <<cell.next>>
        /\ \A v \in Worker \ {w} : asks'[v] = asks[v] /\ conn'[v] = conn[v]
    BY <2>1, <2>3 DEF AnswersInv, CellTyped
  <2>5. cell.next # 0
    BY DEF AnswersInv, CellTyped
  <2>6. OneInFlight'
    BY <2>4, <2>5 DEF AnswersInv, OneInFlight
  <2>7. Accounted'
    <3>1. ASSUME NEW q \in 1..Queries, q < cell.next + 1
          PROVE  outcome[q] # "none" \/ \E v \in Worker : asks'[v] = q
      <4>1. q < cell.next \/ q = cell.next
        BY <2>2, <3>1
      <4> QED
        BY <2>1, <2>4, <3>1, <4>1 DEF AnswersInv, Accounted
    <3> QED
      BY <2>1, <2>2, <3>1 DEF Accounted, Judged
  <2> QED
    BY <2>1, <2>2, <2>4, <2>6, <2>7 DEF AnswersInv, CellTyped
<1>3. ASSUME NEW w \in Worker, Answer(w) \/ Break(w) PROVE AnswersInv'
  <2>1. PICK verdict \in {"ok", "error"} :
          /\ outcome' = [outcome EXCEPT ![asks[w]] = verdict]
          /\ asks' = [asks EXCEPT ![w] = 0] /\ conn' = [conn EXCEPT ![w] = <<>>]
          /\ UNCHANGED cell /\ asks[w] # 0
    <3>1. CASE Break(w)
      BY <3>1 DEF Break
    <3>2. CASE Answer(w)
      <4>1. asks[w] # 0 /\ conn[w] = <<asks[w]>>
        BY <3>2 DEF Answer, AnswersInv, OneInFlight
      <4>2. Head(conn[w]) = asks[w] /\ Tail(conn[w]) = <<>>
        BY <4>1
      <4> QED
        BY <3>2, <4>1, <4>2 DEF Answer
    <3> QED
      BY <1>3, <3>1, <3>2
  <2>2. /\ DOMAIN asks' = Worker /\ DOMAIN conn' = Worker /\ asks'[w] = 0 /\ conn'[w] = <<>>
        /\ \A v \in Worker \ {w} : asks'[v] = asks[v] /\ conn'[v] = conn[v]
    BY <2>1 DEF AnswersInv, CellTyped
  <2>3. /\ outcome' \in [1..Queries -> {"none", "ok", "error"}]
        /\ \A q \in 1..Queries : /\ q # asks[w] => outcome'[q] = outcome[q]
                                 /\ q = asks[w] => outcome'[q] = verdict
    BY <2>1 DEF AnswersInv, CellTyped
  <2>4. cell.pc = "validate"
    BY <2>1 DEF AnswersInv, Accounted
  <2>5. OneInFlight'
    BY <2>2 DEF AnswersInv, OneInFlight
  <2>6. \A q \in 1..Queries : q < cell.next =>
          outcome'[q] # "none" \/ \E v \in Worker : asks'[v] = q
    <3> SUFFICES ASSUME NEW q \in 1..Queries, q < cell.next, q # asks[w]
                 PROVE  outcome'[q] # "none" \/ \E v \in Worker : asks'[v] = q
      BY <2>3
    <3>1. outcome[q] # "none" \/ \E v \in Worker \ {w} : asks[v] = q
      BY DEF AnswersInv, Accounted
    <3> QED
      BY <2>2, <2>3, <3>1
  <2> QED
    BY <2>1, <2>2, <2>3, <2>4, <2>5, <2>6 DEF AnswersInv, CellTyped, Accounted, Judged
<1> QED
  BY <1>1, <1>2, <1>3
\* The driver's other steps: it goes on to a judged place only from a judged
\* place, or from a pass without an error.
LEMMA AnswersDriver ==
  ASSUME AnswersInv,
         \/ Validated \/ ObserveBefore \/ CheckBefore \/ StartReplay \/ EndReplay
         \/ ObserveAfter \/ CheckAfter \/ Record \/ CellRaises
         \/ (Step("waiting", "validate") /\ Validation)
  PROVE  AnswersInv'
<1>1. UNCHANGED <<conn, asks, outcome>>
  BY DEF Validated, ObserveBefore, CheckBefore, StartReplay, EndReplay, ObserveAfter,
         CheckAfter, Record, CellRaises, Validation
<1>2. CASE Validated
  <2>1. /\ cell.pc = "validate" /\ cell.next > Queries /\ \A w \in Worker : asks[w] = 0
        /\ \/ cell' = [cell EXCEPT !.pc = "failed", !.sampling = FALSE]
           \/ /\ \A q \in 1..Queries : outcome[q] # "error"
              /\ \E to \in {"before", "start"} : cell' = [cell EXCEPT !.pc = to]
    BY <1>2 DEF Validated, Fail, Step
  <2>2. /\ DOMAIN cell' = CellFields /\ cell'.next = cell.next
        /\ cell'.pc \in {"failed", "before", "start"}
        /\ cell'.pc # "failed" => \A q \in 1..Queries : outcome[q] # "error"
    BY <2>1 DEF AnswersInv, CellTyped, CellFields
  <2>3. \A q \in 1..Queries : outcome[q] \in {"ok", "error"}
    <3>1. \A q \in 1..Queries : q < cell.next /\ q # 0
      BY <2>1, QueriesAssumption DEF AnswersInv, CellTyped
    <3> QED
      BY <2>1, <3>1 DEF AnswersInv, CellTyped, Accounted
  <2> QED
    BY <1>1, <2>1, <2>2, <2>3, AnswersElsewhere DEF Judged
<1>3. CASE Step("waiting", "validate") /\ Validation
  <2>1. DOMAIN cell' = CellFields /\ cell'.next = cell.next /\ cell'.pc = "validate"
    BY <1>3 DEF Step, AnswersInv, CellTyped, CellFields
  <2> QED
    BY <1>1, <1>3, <2>1, AnswersElsewhere DEF Step, Judged
<1>4. CASE \/ ObserveBefore \/ CheckBefore \/ StartReplay \/ EndReplay \/ ObserveAfter
           \/ CheckAfter \/ Record \/ CellRaises
  <2>1. /\ cell.pc \in Judged /\ DOMAIN cell' = CellFields /\ cell'.next = cell.next
        /\ cell'.pc \in Judged \cup {"failed"}
    <3>1. CASE ObserveBefore \/ CheckBefore
      BY <3>1 DEF ObserveBefore, CheckBefore, Fail, Step, Judged, AnswersInv, CellTyped, CellFields
    <3>2. CASE StartReplay \/ EndReplay
      BY <3>2 DEF StartReplay, EndReplay, Fail, Step, Judged, AnswersInv, CellTyped, CellFields
    <3>3. CASE ObserveAfter \/ Record \/ CellRaises
      BY <3>3 DEF ObserveAfter, Record, CellRaises, Fail, Judged, AnswersInv, CellTyped, CellFields
    <3>4. CASE CheckAfter
      <4>1. PICK e : cell' = [cell EXCEPT !.pc = "record", !.errors = e]
        BY <3>4 DEF CheckAfter
      <4>2. cell.pc = "after merges"
        BY <3>4 DEF CheckAfter
      <4> QED
        BY <4>1, <4>2 DEF Judged, AnswersInv, CellTyped, CellFields
    <3> QED
      BY <1>4, <3>1, <3>2, <3>3, <3>4
  <2> QED
    BY <1>1, <2>1, AnswersElsewhere DEF AnswersInv, Accounted, Judged
<1> QED
  BY <1>2, <1>3, <1>4

LEMMA AnswersServe == AnswersInv /\ Serves => AnswersInv'
<1> SUFFICES ASSUME AnswersInv, Serves PROVE AnswersInv'
  OBVIOUS
<1>1. /\ UNCHANGED <<conn, asks, outcome>>
      /\ DOMAIN cell' = CellFields /\ cell'.next = cell.next /\ cell'.pc = cell.pc
  <2>1. cell' = cell \/ \E r : cell' = [cell EXCEPT !.ran = r]
    BY DEF Serves, Served
  <2> QED
    BY <2>1 DEF Serves, AnswersInv, CellTyped, CellFields
<1> QED
  BY <1>1, AnswersElsewhere DEF AnswersInv, Accounted

LEMMA AnswersStep == AnswersInv /\ [Next]_vars => AnswersInv'
<1> SUFFICES ASSUME AnswersInv, [Next]_vars PROVE AnswersInv'
  OBVIOUS
<1>1. CASE UNCHANGED cellVars
  <2>1. UNCHANGED <<cell, conn, asks, outcome>>
    BY <1>1 DEF cellVars
  <2> QED
    BY <2>1, AnswersElsewhere DEF AnswersInv, CellTyped, Accounted
<1>2. CASE CellNext
  BY <1>2, AnswersPass, AnswersDriver DEF CellNext, CellStep
<1>3. CASE CellFails \/ Begin
  BY <1>3, AnswersDriver DEF CellFails, Begin
<1>4. CASE MergeStarts \/ MergeEnds \/ Background
  BY <1>4, AnswersServe DEF MergeStarts, MergeEnds, Background
<1>5. CASE FeedNext \/ FeedFails \/ Timeout \/ Stopped \/ UNCHANGED vars
  BY <1>1, <1>5 DEF FeedNext, FeedFails, Timeout, Stopped, vars
<1> QED
  BY <1>2, <1>3, <1>4, <1>5 DEF Next

\* An answer is only taken for the query it belongs to, and the replay begins
\* when all are answered (async_http.py:48-85, driver.py:126-173).
THEOREM AnswersAreOwn == Spec => []OwnAnswers
<1>1. AnswersInv => OwnAnswers
  BY DEF AnswersInv, CellTyped, Accounted, Judged, OwnAnswers
<1> QED
  BY <1>1, AnswersInit, AnswersStep, PTL DEF Spec

-----------------------------------------------------------------------------
\* The settings of the index that a REST feed makes.

FeedFields == {"args", "left", "range", "sent", "at", "late", "obs", "pc"}
IndexFields == {"exists", "segs", "reader", "committed", "merging", "refresh", "held",
                "guard"}
Usual(i) == i.refresh /\ ~i.held

\* Before the settings are restored, and once they are.
Building == {"delete", "put", "restore"} \cup Guarded
Restored == {"publish", "optimize", "final", "final merges", "count", "settle flush",
             "settle refresh", "settle", "settle merges", "done"}

SettingsInv ==
    /\ DOMAIN feed = FeedFields /\ DOMAIN index = IndexFields
    /\ feed.args.kind = "rest" =>
          /\ feed.pc \in Building \cup Restored \cup {"failed"}
          /\ feed.pc \in Restored => Usual(index)
          /\ feed.pc = "failed" =>
                Usual(index) \/ feed.at \in Unguarded

\* An index with the settings of another.
Like(i, j) == DOMAIN i = IndexFields /\ i.refresh = j.refresh /\ i.held = j.held

LEMMA Alike ==
  ASSUME NEW i, DOMAIN i = IndexFields
  PROVE  /\ Like(Refreshed(i), i) /\ Like(Flushed(i), i)
         /\ \A n : \A j \in Ingested(i, n) \cup ForceMerged(i, n) : Like(j, i)
<1>1. Like(Refreshed(i), i) /\ Like(Flushed(i), i)
  BY DEF Like, Refreshed, Flushed, IndexFields
<1>2. ASSUME NEW n, NEW j \in Ingested(i, n) PROVE Like(j, i)
  <2>1. j = i \/ \E S : j = [i EXCEPT !.segs = S]
    BY DEF Ingested
  <2> QED
    BY <2>1 DEF Like, IndexFields
<1>3. ASSUME NEW n, NEW j \in ForceMerged(i, n) PROVE Like(j, i)
  <2>1. \E S : j = [i EXCEPT !.segs = S, !.committed = S]
    BY DEF ForceMerged
  <2> QED
    BY <2>1 DEF Like, IndexFields
<1> QED
  BY <1>1, <1>2, <1>3

LEMMA SettingsInit == Init => SettingsInv
<1> SUFFICES ASSUME Init PROVE SettingsInv
  OBVIOUS
<1>1. DOMAIN index = IndexFields
  BY DEF Init, NoIndex, IndexFields
<1>2. PICK a, n :
        feed = [args |-> a, left |-> n, range |-> 1, sent |-> 0, at |-> "nowhere",
                late |-> FALSE, obs |-> Observed(NoIndex),
                pc |-> IF a.kind = "rest" THEN "delete" ELSE "stream"]
  BY DEF Init, FeedInit
<1>3. DOMAIN feed = FeedFields /\ (feed.args.kind = "rest" => feed.pc = "delete")
  BY <1>2 DEF FeedFields
<1> QED
  BY <1>1, <1>3 DEF SettingsInv, Building, Restored

\* A step within the building, or within what follows the restoring.
LEMMA GoesOn ==
  ASSUME SettingsInv, DOMAIN feed' = FeedFields, feed'.args = feed.args,
         Like(index', index),
         feed.args.kind = "rest" => \/ feed.pc \in Building /\ feed'.pc \in Building
                                    \/ feed.pc \in Restored /\ feed'.pc \in Restored
  PROVE  SettingsInv'
<1>1. Building \cap Restored = {} /\ "failed" \notin Building \cup Restored
  BY DEF Building, Restored, Guarded
<1> QED
  BY <1>1 DEF SettingsInv, Like, Usual

\* An exception: the settings are still to be restored, or they are and stay.
LEMMA Fails ==
  ASSUME SettingsInv, NEW g, DOMAIN g = FeedFields, g.args = feed.args, g.pc = feed.pc,
         feed.pc \notin Over, feed' = Raised(g),
         DOMAIN index' = IndexFields, Like(index', index) \/ feed.pc \in {"delete", "put"}
  PROVE  SettingsInv'
<1>1. /\ DOMAIN feed' = FeedFields /\ feed'.args = feed.args /\ feed'.at = feed.pc
      /\ feed'.pc = IF feed.pc \in Guarded /\ feed.args.kind = "rest" THEN "restore"
                    ELSE "failed"
  BY DEF Raised, FeedFields
<1>2. "failed" \notin Building \cup Restored /\ "restore" \in Building \ Restored
  BY DEF Building, Restored, Guarded
<1>3. feed.args.kind = "rest" =>
        feed.pc \in Guarded \/ feed.pc \in Restored \/ feed.pc \in {"delete", "put", "restore"}
  BY DEF SettingsInv, Building, Over
<1>4. feed.pc \in Restored => feed.pc \notin {"delete", "put"}
  BY DEF Restored
<1> QED
  BY <1>1, <1>2, <1>3, <1>4 DEF SettingsInv, Like, Usual, Unguarded

\* From DELETE to the end of the sending.
LEMMA MakesAndSends ==
  ASSUME SettingsInv, Delete \/ Put \/ PutRefused \/ SendCorpus \/ SendRange
  PROVE  SettingsInv'
<1>0. DOMAIN feed = FeedFields /\ DOMAIN index = IndexFields
  BY DEF SettingsInv
<1>1. CASE Delete
  <2>1. /\ feed.pc = "delete" /\ feed' = [feed EXCEPT !.pc = "put"]
        /\ index' = NoIndex \/ index' = index
    BY <1>1 DEF Delete, Request, Goto
  <2>2. /\ DOMAIN feed' = FeedFields /\ feed'.args = feed.args /\ feed'.pc = "put"
        /\ DOMAIN index' = IndexFields
    BY <1>0, <2>1 DEF NoIndex, FeedFields, IndexFields
  <2> QED
    BY <2>2 DEF SettingsInv, Building, Restored, Guarded
<1>2. CASE Put
  <2>1. /\ feed.pc = "put" /\ DOMAIN index' = IndexFields
        /\ \/ feed' = [Raised(feed) EXCEPT !.at = "clients"]
           \/ \E to \in {"range", "bulk"} : feed' = [feed EXCEPT !.pc = to]
    BY <1>2 DEF Put, Goto, Created, NoIndex, IndexFields
  <2>2. CASE feed' = [Raised(feed) EXCEPT !.at = "clients"]
    <3>1. /\ DOMAIN feed' = FeedFields /\ feed'.args = feed.args /\ feed'.at = "clients"
          /\ feed'.pc = "failed"
      BY <1>0, <2>1, <2>2 DEF Raised, FeedFields, Guarded
    <3>2. "failed" \notin Building \cup Restored
      BY DEF Building, Restored, Guarded
    <3> QED
      BY <2>1, <3>1, <3>2 DEF SettingsInv, Unguarded
  <2>3. CASE \E to \in {"range", "bulk"} : feed' = [feed EXCEPT !.pc = to]
    <3>1. DOMAIN feed' = FeedFields /\ feed'.args = feed.args /\ feed'.pc \in {"range", "bulk"}
      BY <1>0, <2>3 DEF FeedFields
    <3> QED
      BY <2>1, <3>1 DEF SettingsInv, Building, Restored, Guarded
  <2> QED
    BY <2>1, <2>2, <2>3
<1>3. CASE PutRefused
  BY <1>0, <1>3, Fails DEF PutRefused, Raise, Over
<1>4. CASE SendCorpus
  <2>1. PICK i \in Ingested(index, feed.left) : index' = i \/ index' = Flushed(i)
    BY <1>4 DEF SendCorpus
  <2>2. Like(i, index)
    BY <1>0, Alike
  <2>3. Like(index', index)
    BY <2>1, <2>2, Alike DEF Like
  <2>4. /\ DOMAIN feed' = FeedFields /\ feed'.args = feed.args /\ feed'.pc = "restore"
        /\ feed.pc = "bulk"
    BY <1>0, <1>4 DEF SendCorpus, FeedFields
  <2> QED
    BY <2>3, <2>4, GoesOn DEF Building, Guarded
<1>5. CASE SendRange
  <2>1. PICK n : /\ index' \in Ingested(index, n) /\ feed.pc = "range"
                 /\ LET sent == [feed EXCEPT !.left = @ - n, !.sent = @ + n]
                    IN  feed' = Raised(sent) \/ feed' = [sent EXCEPT !.pc = "refresh"]
    BY <1>5 DEF SendRange
  <2>2. Like(index', index)
    BY <1>0, <2>1, Alike
  <2> DEFINE sent == [feed EXCEPT !.left = @ - n, !.sent = @ + n]
  <2>3. DOMAIN sent = FeedFields /\ sent.args = feed.args /\ sent.pc = feed.pc
    BY <1>0 DEF FeedFields
  <2>4. feed' = Raised(sent) \/ feed' = [sent EXCEPT !.pc = "refresh"]
    BY <2>1
  <2> HIDE DEF sent
  <2>5. CASE feed' = Raised(sent)
    BY <2>1, <2>2, <2>3, <2>5, Fails DEF Like, Over
  <2>6. CASE feed' = [sent EXCEPT !.pc = "refresh"]
    <3>1. DOMAIN feed' = FeedFields /\ feed'.args = feed.args /\ feed'.pc = "refresh"
      BY <2>3, <2>6 DEF FeedFields
    <3> QED
      BY <2>1, <2>2, <3>1, GoesOn DEF Building, Guarded
  <2> QED
    BY <2>4, <2>5, <2>6
<1> QED
  BY <1>1, <1>2, <1>3, <1>4, <1>5

\* The requests that only move on, with the index flushed, refreshed or merged.
LEMMA MovesOn ==
  ASSUME SettingsInv,
         \/ RefreshRange \/ FlushRange \/ ForceRange \/ ReopenRange \/ Publish
         \/ Optimize \/ Count \/ SettleFlush \/ SettleRefresh
  PROVE  SettingsInv'
<1>0. DOMAIN feed = FeedFields /\ DOMAIN index = IndexFields
  BY DEF SettingsInv
<1>1. Like(index', index)
  <2>1. CASE RefreshRange \/ FlushRange \/ ReopenRange \/ SettleFlush \/ SettleRefresh
    BY <1>0, <2>1, Alike
       DEF RefreshRange, FlushRange, ReopenRange, SettleFlush, SettleRefresh, Request
  <2>2. CASE ForceRange
    BY <1>0, <2>2, Alike DEF ForceRange
  <2>3. CASE Publish \/ Count
    BY <1>0, <2>3, Alike DEF Publish, Count, Request, Like
  <2>4. CASE Optimize
    <3>1. \/ index' = index
          \/ \E i \in ForceMerged(index, 1) : index' = Refreshed(i) \/ index' = i
      BY <2>4 DEF Optimize
    <3> QED
      BY <1>0, <3>1, Alike DEF Like
  <2> QED
    BY <2>1, <2>2, <2>3, <2>4
<1>2. PICK to : /\ feed' = [feed EXCEPT !.pc = to]
                /\ \/ feed.pc \in Building /\ to \in Building
                   \/ feed.pc \in Restored /\ to \in Restored
  <2>1. CASE RefreshRange \/ FlushRange \/ ForceRange \/ ReopenRange
    BY <2>1 DEF RefreshRange, FlushRange, ForceRange, ReopenRange, Request, Goto,
                Building, Guarded
  <2>2. CASE Publish \/ SettleFlush \/ SettleRefresh
    BY <2>2 DEF Publish, SettleFlush, SettleRefresh, Request, Goto, Restored
  <2>3. CASE Optimize
    BY <2>3 DEF Optimize, Goto, Restored
  <2>4. CASE Count
    BY <2>4 DEF Count, Request, Goto, Restored
  <2> QED
    BY <2>1, <2>2, <2>3, <2>4
<1>3. DOMAIN feed' = FeedFields /\ feed'.args = feed.args /\ feed'.pc = to
  BY <1>0, <1>2 DEF FeedFields
<1> QED
  BY <1>1, <1>2, <1>3, GoesOn

\* A probe or a check: it goes on or raises, and leaves the index alone.
LEMMA Probes ==
  ASSUME SettingsInv,
         \/ ProbeSegments("prove", "merges") \/ ProbeSegments("final", "final merges")
         \/ ProbeSegments("settle", "settle merges")
         \/ RangeProved \/ NothingMore \/ FinalProved \/ SettleMerges \/ Deadline
  PROVE  SettingsInv'
<1>0. DOMAIN feed = FeedFields /\ DOMAIN index = IndexFields /\ Like(index, index)
  BY DEF SettingsInv, Like
<1>1. index' = index /\ feed.pc \notin Over
  BY DEF ProbeSegments, RangeProved, NothingMore, FinalProved, SettleMerges, Deadline, Over
<1> DEFINE on == /\ DOMAIN feed' = FeedFields /\ feed'.args = feed.args
                 /\ feed.args.kind = "rest" =>
                       \/ feed.pc \in Building /\ feed'.pc \in Building
                       \/ feed.pc \in Restored /\ feed'.pc \in Restored
<1>2. feed' = Raised(feed) \/ on
  <2>1. CASE ProbeSegments("prove", "merges")
    BY <1>0, <2>1 DEF ProbeSegments, FeedFields, Building, Guarded
  <2>2. CASE \/ ProbeSegments("final", "final merges")
             \/ ProbeSegments("settle", "settle merges")
    BY <1>0, <2>2 DEF ProbeSegments, FeedFields, Restored
  <2>3. CASE RangeProved
    <3>1. PICK n, to :
            /\ feed' = Raised(feed) \/ feed' = [feed EXCEPT !.range = n, !.pc = to]
            /\ to = "extra" \/ to = IF feed.args.kind = "rest" THEN "range" ELSE "stream"
      BY <2>3 DEF RangeProved
    <3>2. feed.pc = "merges"
      BY <2>3 DEF RangeProved
    <3> QED
      BY <1>0, <3>1, <3>2 DEF FeedFields, Building, Guarded
  <2>4. CASE NothingMore
    <3>1. PICK to :
            /\ feed' = Raised(feed) \/ feed' = [feed EXCEPT !.pc = to]
            /\ to = IF feed.args.kind = "rest" THEN "restore" ELSE "count"
      BY <2>4 DEF NothingMore
    <3>2. feed.pc = "extra"
      BY <2>4 DEF NothingMore
    <3> QED
      BY <1>0, <3>1, <3>2 DEF FeedFields, Building, Guarded
  <2>5. CASE FinalProved
    BY <1>0, <2>5 DEF FinalProved, FeedFields, Restored
  <2>6. CASE SettleMerges
    BY <1>0, <2>6 DEF SettleMerges, FeedFields, Restored
  <2>7. CASE Deadline
    BY <1>0, <2>7 DEF Deadline, FeedFields, Restored
  <2> QED
    BY <2>1, <2>2, <2>3, <2>4, <2>5, <2>6, <2>7
<1>3. CASE feed' = Raised(feed)
  BY <1>0, <1>1, <1>3, Fails DEF Like
<1>4. CASE on
  BY <1>0, <1>1, <1>4, GoesOn
<1> QED
  BY <1>2, <1>3, <1>4

LEMMA Restores == SettingsInv /\ Restore => SettingsInv'
<1> SUFFICES ASSUME SettingsInv, Restore PROVE SettingsInv'
  OBVIOUS
<1>1. PICK to \in {"failed", "publish"} :
        /\ feed.pc = "restore" /\ feed' = [feed EXCEPT !.pc = to]
        /\ index' = [index EXCEPT !.refresh = TRUE, !.held = FALSE]
  BY DEF Restore, Goto
<1>2. DOMAIN index' = IndexFields /\ Usual(index')
  BY <1>1 DEF SettingsInv, IndexFields, Usual
<1>3. DOMAIN feed' = FeedFields /\ feed'.pc = to
  BY <1>1 DEF SettingsInv, FeedFields
<1> QED
  BY <1>2, <1>3 DEF SettingsInv, Usual, Restored

\* Luxir's stream makes an index of its own settings.
LEMMA Streams == SettingsInv /\ StreamRange => SettingsInv'
<1> SUFFICES ASSUME SettingsInv, StreamRange PROVE SettingsInv'
  OBVIOUS
<1>1. feed.args.kind # "rest" /\ feed.pc = "stream"
  BY DEF StreamRange, SettingsInv, Building, Restored, Guarded
<1>2. PICK n, base, i :
        /\ base \in {index, [NoIndex EXCEPT !.exists = TRUE]} /\ i \in Ingested(base, n)
        /\ LET sent == [feed EXCEPT !.left = @ - n, !.sent = @ + n] IN
           \/ index' = i /\ feed' = Raised(sent)
           \/ /\ \E m \in ForceMerged(i, feed.range) : index' = Refreshed(m)
              /\ feed' = [sent EXCEPT !.pc = "prove"]
  BY DEF StreamRange
<1>3. DOMAIN base = IndexFields
  BY <1>2 DEF SettingsInv, NoIndex, IndexFields
<1>4. DOMAIN i = IndexFields
  BY <1>2, <1>3, Alike DEF Like
<1>5. DOMAIN index' = IndexFields
  BY <1>2, <1>4, Alike DEF Like
<1>6. DOMAIN feed' = FeedFields /\ feed'.args = feed.args
  BY <1>2 DEF SettingsInv, FeedFields, Raised
<1> QED
  BY <1>1, <1>5, <1>6 DEF SettingsInv

LEMMA RequestsFail == SettingsInv /\ RequestFails => SettingsInv'
<1> SUFFICES ASSUME SettingsInv, RequestFails PROVE SettingsInv'
  OBVIOUS
<1>0. DOMAIN feed = FeedFields /\ DOMAIN index = IndexFields /\ Like(index, index)
  BY DEF SettingsInv, Like
<1>1. feed' = Raised(feed) /\ feed.pc \notin Over
  BY DEF RequestFails, Asking, Guarded, Over
<1>2. /\ DOMAIN index' = IndexFields
      /\ Like(index', index) \/ feed.pc \in {"delete", "put"}
  <2>1. CASE feed.pc \in {"bulk", "range"}
    <3>1. \E n : index' \in Ingested(index, n)
      BY <2>1 DEF RequestFails
    <3> QED
      BY <1>0, <3>1, Alike DEF Like
  <2>2. CASE feed.pc = "delete"
    <3>1. index' \in {index, NoIndex}
      BY <2>2 DEF RequestFails
    <3> QED
      BY <1>0, <2>2, <3>1 DEF NoIndex, IndexFields
  <2>3. CASE feed.pc = "put"
    <3>1. index' \in {index, Created}
      BY <2>3 DEF RequestFails
    <3> QED
      BY <1>0, <2>3, <3>1 DEF Created, NoIndex, IndexFields
  <2>4. CASE feed.pc \notin {"bulk", "range", "delete", "put"}
    <3>1. index' = index
      BY <2>4 DEF RequestFails
    <3> QED
      BY <1>0, <3>1
  <2> QED
    BY <2>1, <2>2, <2>3, <2>4
<1> QED
  BY <1>0, <1>1, <1>2, Fails

\* What the engine does by itself changes no settings.
LEMMA EngineKeeps ==
  ASSUME SettingsInv, MergeStarts \/ MergeEnds \/ Background
  PROVE  SettingsInv'
<1>0. DOMAIN index = IndexFields
  BY DEF SettingsInv
<1>1. feed' = feed
  BY DEF MergeStarts, MergeEnds, Background, Serves
<1>2. Like(index', index)
  <2>1. CASE MergeStarts
    BY <1>0, <2>1 DEF MergeStarts, StartMerge, Like, IndexFields
  <2>2. CASE MergeEnds
    BY <1>0, <2>2 DEF MergeEnds, FinishMerge, Like, IndexFields
  <2>3. CASE Background
    BY <1>0, <2>3, Alike DEF Background, IntervalRefresh, TranslogFlush
  <2> QED
    BY <2>1, <2>2, <2>3
<1> QED
  BY <1>1, <1>2 DEF SettingsInv, Like, Usual

LEMMA SettingsStep == SettingsInv /\ [Next]_vars => SettingsInv'
<1> SUFFICES ASSUME SettingsInv, [Next]_vars PROVE SettingsInv'
  OBVIOUS
<1>1. CASE FeedNext
  BY <1>1, MakesAndSends, MovesOn, Probes, Restores, Streams DEF FeedNext, FeedStep
<1>2. CASE FeedFails \/ Timeout
  BY <1>2, RequestsFail, Probes DEF FeedFails, Timeout
<1>3. CASE MergeStarts \/ MergeEnds \/ Background
  BY <1>3, EngineKeeps
<1>4. CASE Begin \/ CellNext \/ CellFails \/ Stopped \/ UNCHANGED vars
  <2>1. UNCHANGED <<index, feed>>
    BY <1>4 DEF Begin, CellNext, CellFails, Stopped, vars
  <2> QED
    BY <2>1 DEF SettingsInv, Usual
<1> QED
  BY <1>1, <1>2, <1>3, <1>4 DEF Next

\* The finally block: once the PUT was answered and the options were accepted,
\* only a failure of the restoring request itself leaves the construction settings
\* (feed_rest.py:385-401).
THEOREM SettingsComeBack == Spec => []SettingsRestored
<1>1. SettingsInv => SettingsRestored
  <2>1. /\ "done" \in Restored /\ "failed" \notin Building \cup Restored
        /\ \A pc \in Over : pc = "done" \/ pc = "failed"
    BY DEF Restored, Building, Guarded, Over
  <2> QED
    BY <2>1 DEF SettingsInv, SettingsRestored, Usual
<1> QED
  BY <1>1, SettingsInit, SettingsStep, PTL DEF Spec

-----------------------------------------------------------------------------
(* What an index holds of what it was sent.                                *)

\* The documents in some segments.
Covered(S) == UNION {s[1]..s[2] : s \in S}
Segments == {s \in (Nat \ {0}) \X (Nat \ {0}) : s[1] <= s[2]}

\* S parts the documents 1..d among segments, each in one.
Parts(S, d) ==
    /\ S \subseteq Segments /\ IsFiniteSet(S)
    /\ d \in Nat /\ Covered(S) = 1..d
    /\ \A s, t \in S : s # t => s[2] < t[1] \/ t[2] < s[1]

\* A merge under way joins two neighbours.
Joins(m, S) == m = {} \/ \E a, b \in S : b[1] = a[2] + 1 /\ m = {a, b}

PartsInv ==
    /\ \E d \in Nat : Parts(index.segs, d)
    /\ Joins(index.merging, index.segs)

\* What a feed without a failure has sent is in the index.
Ranging == {"delete", "put", "range", "stream", "refresh", "flush", "force", "reopen", "prove", "merges"}
Settling == {"settle flush", "settle refresh", "settle", "settle merges"}
SentInv ==
    /\ feed.args \in RestArgs \cup LuxirArgs
    /\ feed.left \in Nat /\ feed.sent \in Nat /\ feed.range \in Nat \ {0}
    /\ feed.pc \in Ranging => feed.range <= Len(Tiers)
    /\ feed.args.kind # "rest" =>
          /\ feed.pc \in {"stream", "prove", "merges", "extra", "count", "done", "failed"}
          /\ index.exists \/ index.segs = {}
    /\ feed.pc \in {"delete", "put", "bulk"} => feed.sent = 0
    /\ feed.pc \notin {"restore", "failed"} => feed.at = "nowhere"
    /\ feed.at = "nowhere" => Parts(index.segs, feed.sent)

\* A topology is read to its end, and seen whole.
SeenInv ==
    /\ index.guard => index.merging = {} /\ feed.args.kind = "rest"
    /\ feed.args.topology =>
          /\ feed.pc \notin Settling
          /\ feed.at = "nowhere" /\ feed.pc \in Restored \cup {"restore"} => feed.left = 0
          /\ feed.pc \in {"extra", "count", "done"} =>
                Shape(feed.obs.segs) = Tiered(Len(Tiers)) /\ feed.obs.merging = {}
          /\ index.guard /\ feed.pc \in {"final merges", "count", "done"} =>
                Observed(index) = feed.obs /\ Parses(index)
FeedInv == PartsInv /\ SentInv /\ SeenInv

\* What became of a set of segments: it is there, or its merges have made it smaller.
Since(S, T) == S = T \/ Cardinality(T) < Cardinality(S)

\* The two probes and what was served between them.
Watched == {"before merges", "start", "replay", "after"}
Accepted == {"start", "replay", "after", "after merges", "record", "passed"}
Pair(o) == o = [segs |-> o.segs, merging |-> o.merging]
StableInv ==
    /\ cell.pc # "waiting" => feed.pc = "done"
    /\ cell.pc \in {"record", "passed"} /\ cell.errors = {} /\ cell.args.indexed =>
          cell.before = cell.after
    /\ cell.pc = "passed" => cell.errors = {}
    /\ cell.args.indexed /\ cell.pc \in Watched =>
          Pair(cell.before) /\ IsFiniteSet(cell.before.segs) /\ Since(cell.before.segs, index.segs)
    /\ cell.args.indexed /\ cell.pc \in Accepted =>
          /\ cell.before.merging = {}
          /\ cell.args.count # 0 => Cardinality(cell.before.segs) = cell.args.count
          /\ cell.args.topology => Shape(cell.before.segs) = Tiered(Len(Tiers))
    /\ cell.args.indexed /\ cell.pc \in {"replay", "after"} =>
          /\ cell.ran # {}
          /\ \A o \in cell.ran :
                /\ Pair(o) /\ IsFiniteSet(o.segs)
                /\ Since(cell.before.segs, o.segs) /\ Since(o.segs, index.segs)
                /\ o.segs = index.segs => o.merging \in {{}, index.merging}
    /\ cell.args.indexed /\ cell.pc \in {"after merges", "record", "passed"}
       /\ cell.before = cell.after => cell.ran = {cell.before}

-----------------------------------------------------------------------------
(* Segments.                                                               *)

\* A segment is an interval of the documents there are.
LEMMA InSegment ==
  ASSUME NEW S, NEW d, Parts(S, d), NEW s \in S
  PROVE  /\ s[1] \in Nat \ {0} /\ s[2] \in Nat \ {0} /\ s[1] <= s[2] /\ s[2] <= d
         /\ d \in Nat
<1>1. s \in Segments /\ d \in Nat
  BY DEF Parts
<1>2. s[1] \in Nat \ {0} /\ s[2] \in Nat \ {0} /\ s[1] <= s[2]
  BY <1>1 DEF Segments
<1>3. s[2] \in s[1]..s[2]
  BY <1>2
<1>4. s[2] \in 1..d
  BY <1>3 DEF Parts, Covered
<1> QED BY <1>1, <1>2, <1>4

\* Parts counts the documents.
LEMMA DocsOf == ASSUME NEW S, NEW d, Parts(S, d) PROVE Docs(S) = d
<1>1. Docs(S) = Cardinality(1..d) /\ d \in Nat
  BY DEF Docs, Parts, Covered
<1>2. Cardinality(1..d) = d
  BY <1>1, FS_Interval
<1> QED BY <1>1, <1>2

\* An index without segments holds nothing.
LEMMA NoSegments == Parts({}, 0)
<1>1. IsFiniteSet({})
  BY FS_EmptySet
<1>2. Covered({}) = {} /\ 1..0 = {}
  BY DEF Covered
<1> QED BY <1>1, <1>2 DEF Parts

\* A segment of the documents that come next.
LEMMA OneMore ==
  ASSUME NEW S, NEW d, Parts(S, d), NEW n \in Nat \ {0}
  PROVE  Parts(S \cup {<<d + 1, d + n>>}, d + n)
<1> DEFINE p == <<d + 1, d + n>>
<1>1. d \in Nat /\ p \in Segments /\ p[1] = d + 1 /\ p[2] = d + n
  BY DEF Parts, Segments
<1> HIDE DEF p
<1>2. IsFiniteSet(S \cup {p})
  BY FS_AddElement DEF Parts
<1>3. Covered(S \cup {p}) = 1..(d + n)
  <2>1. Covered(S \cup {p}) = Covered(S) \cup (p[1]..p[2])
    BY DEF Covered
  <2>2. Covered(S) = 1..d
    BY DEF Parts
  <2>3. (1..d) \cup ((d + 1)..(d + n)) = 1..(d + n)
    BY <1>1
  <2> QED BY <1>1, <2>1, <2>2, <2>3
<1>4. ASSUME NEW s \in S \cup {p}, NEW t \in S \cup {p}, s # t
      PROVE  s[2] < t[1] \/ t[2] < s[1]
  <2>1. CASE s \in S /\ t \in S
    BY <1>4, <2>1 DEF Parts
  <2>2. CASE s = p /\ t \in S
    BY <1>1, <2>2, InSegment
  <2>3. CASE t = p /\ s \in S
    BY <1>1, <2>3, InSegment
  <2> QED BY <1>4, <2>1, <2>2, <2>3
<1>5. S \cup {p} \subseteq Segments /\ d + n \in Nat
  BY <1>1 DEF Parts
<1> QED BY <1>2, <1>3, <1>4, <1>5 DEF Parts, p

\* What arrives is the documents that come next, in one segment or two.
LEMMA Arrive ==
  ASSUME NEW i, DOMAIN i = IndexFields, NEW d, Parts(i.segs, d), NEW n \in Nat,
         NEW j \in Ingested(i, n)
  PROVE  /\ Parts(j.segs, d + n) /\ i.segs \subseteq j.segs
         /\ j.merging = i.merging /\ j.guard = i.guard
<1>1. Docs(i.segs) = d /\ d \in Nat
  BY DocsOf DEF Parts
<1>2. CASE n = 0
  BY <1>1, <1>2 DEF Ingested
<1>3. CASE n # 0
  <2>1. PICK new : /\ j = [i EXCEPT !.segs = @ \cup new]
                   /\ new \in {{<<d + 1, d + n>>}} \cup
                        {{<<d + 1, d + c>>, <<d + c + 1, d + n>>} : c \in 1..(n - 1)}
    <3>1. PICK pieces : /\ pieces = {{<<d + 1, d + n>>}} \cup
                             {{<<d + 1, d + c>>, <<d + c + 1, d + n>>} : c \in 1..(n - 1)}
                        /\ j \in {[i EXCEPT !.segs = @ \cup new] : new \in pieces}
      BY <1>1, <1>3 DEF Ingested
    <3> QED BY <3>1
  <2>2. /\ j.segs = i.segs \cup new
        /\ j.merging = i.merging /\ j.guard = i.guard
    BY <2>1 DEF IndexFields
  <2>3. Parts(i.segs \cup new, d + n)
    <3>1. CASE new = {<<d + 1, d + n>>}
      BY <1>3, <3>1, OneMore
    <3>2. ASSUME NEW c \in 1..(n - 1), new = {<<d + 1, d + c>>, <<d + c + 1, d + n>>}
          PROVE  Parts(i.segs \cup new, d + n)
      <4> DEFINE S == i.segs \cup {<<d + 1, d + c>>}
      <4>1. c \in Nat \ {0} /\ n - c \in Nat \ {0} /\ (d + c) + (n - c) = d + n
        BY <1>1
      <4>2. Parts(S, d + c)
        BY <4>1, OneMore
      <4> HIDE DEF S
      <4>3. Parts(S \cup {<<(d + c) + 1, (d + c) + (n - c)>>}, (d + c) + (n - c))
        BY <4>1, <4>2, OneMore
      <4>4. i.segs \cup new = S \cup {<<(d + c) + 1, (d + c) + (n - c)>>}
        <5> DEFINE x == <<d + c + 1, d + n>>
        <5>1. <<(d + c) + 1, (d + c) + (n - c)>> = x
          BY <4>1
        <5>2. i.segs \cup new = S \cup {x}
          BY <3>2 DEF S
        <5> QED BY <5>1, <5>2
      <4> QED BY <4>1, <4>3, <4>4
    <3> QED BY <2>1, <3>1, <3>2
  <2> QED BY <2>2, <2>3
<1> QED BY <1>2, <1>3

\* Two neighbours become one segment, and there are fewer.
LEMMA Merged ==
  ASSUME NEW S, NEW d, Parts(S, d), NEW a \in S, NEW b \in S, b[1] = a[2] + 1
  PROVE  LET T == (S \ {a, b}) \cup {<<a[1], b[2]>>} IN
         Parts(T, d) /\ Since(S, T) /\ S # T
<1> DEFINE p == <<a[1], b[2]>>
           R == S \ {a, b}
<1>1. /\ a[1] \in Nat \ {0} /\ a[2] \in Nat \ {0} /\ b[2] \in Nat \ {0} /\ b[1] \in Nat
      /\ a[1] <= a[2] /\ b[1] <= b[2] /\ b[1] = a[2] + 1 /\ d \in Nat
  BY InSegment
<1>2. p \in Segments /\ p[1] = a[1] /\ p[2] = b[2]
  BY <1>1 DEF Segments
<1> HIDE DEF p
<1>3. a # b
  BY <1>1
<1>4. Covered(R \cup {p}) = 1..d
  <2>1. Covered(R \cup {p}) = Covered(R) \cup (p[1]..p[2])
    BY DEF Covered
  <2>2. Covered(S) = Covered(R) \cup ((a[1]..a[2]) \cup (b[1]..b[2]))
    BY DEF Covered
  <2>3. (a[1]..a[2]) \cup (b[1]..b[2]) = a[1]..b[2]
    BY <1>1
  <2> QED BY <1>2, <2>1, <2>2, <2>3 DEF Parts
<1>5. IsFiniteSet(R \cup {p})
  BY FS_AddElement, FS_Subset, R \subseteq S DEF Parts
<1>6. ASSUME NEW s \in R PROVE s[2] < p[1] \/ p[2] < s[1]
  <2>1. (s[2] < a[1] \/ a[2] < s[1]) /\ (s[2] < b[1] \/ b[2] < s[1])
    BY <1>6 DEF Parts
  <2>2. s[1] \in Nat /\ s[2] \in Nat /\ s[1] <= s[2]
    BY <1>6, InSegment
  <2> QED BY <1>1, <1>2, <2>1, <2>2
<1>7. ASSUME NEW s \in R \cup {p}, NEW t \in R \cup {p}, s # t
      PROVE  s[2] < t[1] \/ t[2] < s[1]
  <2>1. CASE s \in R /\ t \in R
    BY <1>7, <2>1 DEF Parts
  <2>2. CASE s = p /\ t \in R
    BY <2>2, <1>6
  <2>3. CASE t = p /\ s \in R
    BY <2>3, <1>6
  <2> QED BY <1>7, <2>1, <2>2, <2>3
<1>8. Parts(R \cup {p}, d)
  <2>1. R \cup {p} \subseteq Segments
    BY <1>2 DEF Parts
  <2> QED BY <1>1, <1>4, <1>5, <1>7, <2>1 DEF Parts
<1>9. Cardinality(R \cup {p}) < Cardinality(S)
  <2>1. IsFiniteSet(S) /\ Cardinality(S) \in Nat
    BY FS_CardinalityType DEF Parts
  <2>2. IsFiniteSet(S \ {a}) /\ Cardinality(S \ {a}) = Cardinality(S) - 1
    BY <2>1, FS_RemoveElement
  <2>3. /\ IsFiniteSet((S \ {a}) \ {b})
        /\ Cardinality((S \ {a}) \ {b}) = Cardinality(S \ {a}) - 1
    <3>1. b \in S \ {a}
      BY <1>3
    <3> QED BY <2>2, <3>1, FS_RemoveElement
  <2>4. (S \ {a}) \ {b} = R
    OBVIOUS
  <2> HIDE DEF R
  <2>5. Cardinality(R) \in Nat /\ Cardinality(R) = Cardinality(S) - 2 /\ IsFiniteSet(R)
    <3>1. IsFiniteSet(R) /\ Cardinality(R) = Cardinality(S \ {a}) - 1
      BY <2>3, <2>4
    <3>2. Cardinality(R) \in Nat
      BY <3>1, FS_CardinalityType
    <3> QED BY <2>1, <2>2, <3>1, <3>2
  <2>6. Cardinality(R \cup {p}) <= Cardinality(R) + 1 /\ Cardinality(R \cup {p}) \in Nat
    <3>1. Cardinality(R \cup {p}) = IF p \in R THEN Cardinality(R) ELSE Cardinality(R) + 1
      BY <2>5, FS_AddElement
    <3> QED BY <2>5, <3>1
  <2> QED BY <2>1, <2>5, <2>6
<1>10. Cardinality(S) \in Nat /\ Cardinality(R \cup {p}) \in Nat
  BY <1>5, FS_CardinalityType DEF Parts
<1> QED BY <1>8, <1>9, <1>10 DEF Since, p

\* The ends of what two neighbours become.
LEMMA Outermost ==
  ASSUME NEW a, NEW b, a[1] \in Nat, b[1] \in Nat, a[2] \in Nat, b[2] \in Nat,
         a[1] <= b[1], a[2] <= b[2]
  PROVE  /\ Min({s[1] : s \in {a, b}}) = a[1]
         /\ Max({s[2] : s \in {a, b}}) = b[2]
<1> DEFINE F == {s[1] : s \in {a, b}}
           L == {s[2] : s \in {a, b}}
<1>1. F = {a[1], b[1]} /\ L = {a[2], b[2]}
  OBVIOUS
<1> HIDE DEF F, L
<1>2. \A x \in Int : x \in F /\ (\A y \in F : x <= y) <=> x = a[1]
  BY <1>1
<1>3. \A x \in Int : x \in L /\ (\A y \in L : x >= y) <=> x = b[2]
  BY <1>1
<1>4. Min(F) = a[1]
  <2>1. a[1] \in F /\ \A y \in F : a[1] <= y
    BY <1>1
  <2>2. Min(F) \in F /\ \A y \in F : Min(F) <= y
    BY <2>1 DEF Min
  <2> QED BY <1>1, <2>1, <2>2
<1>5. Max(L) = b[2]
  <2>1. b[2] \in L /\ \A y \in L : b[2] >= y
    BY <1>1
  <2>2. Max(L) \in L /\ \A y \in L : Max(L) >= y
    BY <2>1 DEF Max
  <2> QED BY <1>1, <2>1, <2>2
<1> QED BY <1>4, <1>5 DEF F, L

\* The greatest of some numbers up to d.
LEMMA Greatest ==
  ASSUME NEW d \in Nat, NEW E, E \subseteq 0..d, E # {}
  PROVE  Max(E) \in E /\ \A y \in E : y <= Max(E)
<1> DEFINE F == {x \in 0..d : d - x \in E}
<1>1. F \subseteq Nat /\ F # {}
  <2>1. PICK y \in E : y \in 0..d
    OBVIOUS
  <2>2. d - y \in 0..d /\ d - (d - y) = y
    BY <2>1
  <2>3. d - y \in F
    BY <2>1, <2>2
  <2>4. F \subseteq Nat
    OBVIOUS
  <2> QED BY <2>3, <2>4
<1> HIDE DEF F
<1>2. PICK x \in F : \A y \in F : ~(<<y, x>> \in OpToRel(<, Nat))
  BY <1>1, WFMin, NatLessThanWellFounded
<1>3. \A y \in F : x <= y
  <2> SUFFICES ASSUME NEW y \in F PROVE x <= y
    OBVIOUS
  <2>1. x \in Nat /\ y \in Nat
    BY <1>1
  <2>2. ~(y < x)
    BY <1>2, <2>1 DEF OpToRel
  <2> QED BY <2>1, <2>2
<1>0. d - x \in E
  BY DEF F
<1>4. d - x \in E /\ \A y \in E : d - x >= y
  <2> SUFFICES ASSUME NEW y \in E PROVE d - x >= y
    BY <1>0
  <2>1. y \in 0..d /\ d - y \in 0..d /\ d - (d - y) = y
    OBVIOUS
  <2>2. d - y \in F
    BY <2>1 DEF F
  <2>3. x <= d - y /\ x \in 0..d
    BY <1>3, <2>2 DEF F
  <2> QED BY <2>1, <2>3
<1>5. Max(E) \in E /\ \A y \in E : Max(E) >= y
  BY <1>4 DEF Max
<1>6. Max(E) \in 0..d /\ \A y \in E : y \in 0..d
  BY <1>5
<1> QED BY <1>5, <1>6

\* A force merge: whatever it joins, each document stays in one segment.
LEMMA Forced ==
  ASSUME NEW i, DOMAIN i = IndexFields, NEW d, Parts(i.segs, d), NEW n,
         NEW j \in ForceMerged(i, n)
  PROVE  Parts(j.segs, d) /\ j.merging = i.merging /\ j.guard = i.guard
<1> DEFINE S == i.segs
           ends(K, k) == {s[2] : s \in {s \in S : \A h \in K : h[1] > k[1] => s[1] < h[1]}}
           part(K) == {<<k[1], Max(ends(K, k))>> : k \in K}
<1>1. PICK T : /\ j = [i EXCEPT !.segs = T, !.committed = T]
               /\ T = S \/ \E K \in SUBSET S : (\E k \in K : k[1] = 1) /\ T = part(K)
  <2> DEFINE groups == {K \in SUBSET S : Cardinality(K) = n /\ \E k \in K : k[1] = 1}
             merged == IF Cardinality(S) <= n THEN {S} ELSE {part(K) : K \in groups}
  <2>1. j \in {[i EXCEPT !.segs = T, !.committed = T] : T \in merged}
    BY DEF ForceMerged
  <2> HIDE DEF merged
  <2>2. PICK T \in merged : j = [i EXCEPT !.segs = T, !.committed = T]
    BY <2>1
  <2>3. T = S \/ \E K \in groups : T = part(K)
    BY <2>2 DEF merged
  <2> QED BY <2>2, <2>3
<1>2. j.segs = T /\ j.merging = i.merging /\ j.guard = i.guard
  BY <1>1 DEF IndexFields
<1>3. ASSUME NEW K \in SUBSET S, NEW first \in K, first[1] = 1 PROVE Parts(part(K), d)
  <2>1. d \in Nat /\ IsFiniteSet(K) /\ S \subseteq Segments
    BY <1>3, FS_Subset DEF Parts
  <2>2. \A s \in S : /\ s[1] \in Nat \ {0} /\ s[2] \in Nat \ {0} /\ s[1] <= s[2]
                     /\ s[2] <= d /\ s[2] \in 0..d
    BY <2>1, InSegment
  <2>3. ASSUME NEW k \in K
        PROVE  /\ k[2] <= Max(ends(K, k))
               /\ \A s \in S : (\A h \in K : h[1] > k[1] => s[1] < h[1]) => s[2] <= Max(ends(K, k))
               /\ \E s \in S : /\ \A h \in K : h[1] > k[1] => s[1] < h[1]
                               /\ Max(ends(K, k)) = s[2]
    <3> DEFINE E == ends(K, k)
    <3>1. \A h \in K : h[1] > k[1] => k[1] < h[1]
      BY <2>2
    <3>2. k[2] \in E /\ E \subseteq 0..d
      BY <2>2, <2>3, <3>1
    <3> HIDE DEF E
    <3>3. Max(E) \in E /\ \A y \in E : y <= Max(E)
      BY <2>1, <3>2, Greatest
    <3> QED BY <3>2, <3>3 DEF E
  <2> DEFINE L(k) == Max(ends(K, k))
             p(k) == <<k[1], L(k)>>
  <2>4. ASSUME NEW k \in K PROVE /\ L(k) \in Nat \ {0} /\ k[1] <= L(k) /\ L(k) <= d
                                 /\ k[2] <= L(k) /\ k[1] \in Nat \ {0}
    <3>1. PICK s \in S : L(k) = s[2]
      BY <2>3
    <3>2. k[2] <= L(k)
      BY <2>3
    <3> HIDE DEF L
    <3> QED BY <2>2, <2>4, <3>1, <3>2
  <2>5. \A s \in S : \A k \in K : (\A h \in K : h[1] > k[1] => s[1] < h[1]) => s[2] <= L(k)
    BY <2>3
  <2>6. ASSUME NEW k \in K, NEW h \in K, h[1] > k[1] PROVE L(k) < h[1]
    <3>1. PICK s \in S : s[1] < h[1] /\ L(k) = s[2]
      BY <2>3, <2>6
    <3> HIDE DEF L
    <3>2. s # h /\ h \in S
      BY <2>2, <3>1
    <3>3. s[2] < h[1] \/ h[2] < s[1]
      BY <3>2 DEF Parts
    <3> QED BY <2>2, <3>1, <3>2, <3>3
  <2> HIDE DEF L
  <2>7. part(K) = {p(k) : k \in K}
    BY DEF L
  <2>8. {p(k) : k \in K} \subseteq Segments
    BY <2>4 DEF Segments
  <2>9. IsFiniteSet({p(k) : k \in K})
    <3> DEFINE f == [k \in K |-> p(k)]
    <3>1. f \in Surjection(K, {p(k) : k \in K})
      BY DEF Surjection
    <3> HIDE DEF f
    <3> QED BY <2>1, <3>1, FS_Surjection
  <2>10. Covered({p(k) : k \in K}) = 1..d
    <3>1. ASSUME NEW x \in Covered({p(k) : k \in K}) PROVE x \in 1..d
      <4>1. PICK k \in K : x \in k[1]..L(k)
        BY <3>1 DEF Covered
      <4> QED BY <2>1, <2>4, <4>1
    <3>2. ASSUME NEW x \in 1..d PROVE x \in Covered({p(k) : k \in K})
      <4> DEFINE B == {k[1] : k \in {k \in K : k[1] <= x}}
      <4>1. 1 \in B
        BY <1>3, <2>1, <3>2
      <4>2. B \subseteq 0..x
        BY <2>4
      <4> HIDE DEF B
      <4>3. Max(B) \in B /\ \A y \in B : y <= Max(B)
        BY <2>1, <4>1, <4>2, Greatest
      <4>4. PICK k \in K : k[1] <= x /\ k[1] = Max(B)
        BY <4>3 DEF B
      <4>5. \A h \in K : h[1] <= x => h[1] <= k[1]
        BY <4>3, <4>4 DEF B
      <4>6. PICK s \in S : x \in s[1]..s[2]
        BY <3>2 DEF Parts, Covered
      <4>7. \A h \in K : h[1] > k[1] => s[1] < h[1]
        <5> SUFFICES ASSUME NEW h \in K, h[1] > k[1] PROVE s[1] < h[1]
          OBVIOUS
        <5>1. h[1] \in Nat /\ k[1] \in Nat /\ s[1] \in Nat /\ x \in Nat /\ s[1] <= x
          BY <2>1, <2>2, <2>4, <4>6
        <5>2. ~(h[1] <= x)
          BY <4>5, <5>1
        <5> QED BY <5>1, <5>2
      <4>8. s[2] <= L(k)
        BY <2>5, <4>7
      <4>9. x \in k[1]..L(k)
        BY <2>2, <2>4, <4>4, <4>6, <4>8
      <4>10. p(k)[1] = k[1] /\ p(k)[2] = L(k)
        OBVIOUS
      <4> HIDE DEF p
      <4> QED BY <4>9, <4>10 DEF Covered
    <3> QED BY <3>1, <3>2
  <2>11. ASSUME NEW s \in {p(k) : k \in K}, NEW t \in {p(k) : k \in K}, s # t
         PROVE  s[2] < t[1] \/ t[2] < s[1]
    <3>1. PICK k \in K, h \in K : s = p(k) /\ t = p(h)
      BY <2>11
    <3>2. k # h /\ s[1] = k[1] /\ s[2] = L(k) /\ t[1] = h[1] /\ t[2] = L(h)
      BY <2>11, <3>1
    <3>3. k[1] # h[1]
      <4>1. k[2] < h[1] \/ h[2] < k[1]
        BY <3>2 DEF Parts
      <4>2. k \in S /\ h \in S
        OBVIOUS
      <4> QED BY <2>2, <4>1, <4>2
    <3>4. h[1] > k[1] \/ k[1] > h[1]
      BY <2>4, <3>3
    <3> QED BY <2>6, <3>2, <3>4
  <2> QED BY <2>1, <2>7, <2>8, <2>9, <2>10, <2>11 DEF Parts
<1>4. Parts(T, d)
  BY <1>1, <1>3
<1> QED BY <1>2, <1>4

-----------------------------------------------------------------------------
(* The feed and the index.                                                 *)

\* An exception, or a request that fails: nothing is promised but the index itself.
LEMMA Breaks ==
  ASSUME SettingsInv, FeedInv, NEW g, DOMAIN g = FeedFields, g.args = feed.args, g.pc = feed.pc,
         g.range = feed.range, g.left \in Nat, g.sent \in Nat,
         feed.pc \notin Over \cup {"nowhere"}, feed' = Raised(g),
         PartsInv', index'.guard => index'.merging = {} /\ feed.args.kind = "rest",
         feed.args.kind # "rest" => index'.exists \/ index'.segs = {}
  PROVE  FeedInv'
<1>1. /\ feed'.args = feed.args /\ feed'.at = feed.pc /\ feed'.range = feed.range
      /\ feed'.left = g.left /\ feed'.sent = g.sent
      /\ feed'.pc = IF feed.pc \in Guarded /\ feed.args.kind = "rest" THEN "restore"
                    ELSE "failed"
  BY DEF Raised, FeedFields
<1>2. feed'.at # "nowhere" /\ feed'.pc \in {"restore", "failed"}
  BY <1>1
<1>3. SentInv'
  BY <1>1, <1>2 DEF FeedInv, SentInv, Ranging
<1>4. SeenInv'
  BY <1>1, <1>2 DEF SeenInv, Settling, Restored
<1> QED BY <1>3, <1>4 DEF FeedInv

\* The program goes on, and the index holds what it held.
LEMMA Continues ==
  ASSUME SettingsInv, FeedInv, NEW to, feed' = [feed EXCEPT !.pc = to],
         PartsInv', \A d \in Nat : Parts(index.segs, d) => Parts(index'.segs, d),
         index'.guard => index'.merging = {} /\ feed.args.kind = "rest",
         index'.exists = index.exists, index'.segs = {} \/ index.segs # {},
         to \in Ranging => feed.range <= Len(Tiers),
         to \in {"delete", "put", "bulk"} => feed.sent = 0,
         to \notin {"restore", "failed"} => feed.at = "nowhere",
         feed.args.kind # "rest" => to \in {"stream", "prove", "merges", "extra", "count", "done", "failed"},
         feed.args.topology =>
           /\ to \notin Settling
           /\ feed.at = "nowhere" /\ to \in Restored \cup {"restore"} => feed.left = 0
           /\ to \in {"extra", "count", "done"} =>
                Shape(feed.obs.segs) = Tiered(Len(Tiers)) /\ feed.obs.merging = {}
           /\ index'.guard /\ to \in {"final merges", "count", "done"} =>
                Observed(index') = feed.obs /\ Parses(index')
  PROVE  FeedInv'
<1>1. /\ feed'.args = feed.args /\ feed'.at = feed.at /\ feed'.range = feed.range
      /\ feed'.left = feed.left /\ feed'.sent = feed.sent /\ feed'.obs = feed.obs
      /\ feed'.pc = to
  BY DEF SettingsInv, FeedFields
<1>2. SentInv'
  BY <1>1 DEF FeedInv, SentInv
<1>3. SeenInv'
  BY <1>1 DEF SeenInv
<1> QED BY <1>2, <1>3 DEF FeedInv

\* What a refresh and a flush leave as it is.
LEMMA SameSegments ==
  ASSUME NEW i, DOMAIN i = IndexFields, NEW j \in {i, Refreshed(i), Flushed(i)}
  PROVE  /\ j.segs = i.segs /\ j.merging = i.merging /\ j.guard = i.guard
         /\ j.exists = i.exists /\ DOMAIN j = IndexFields
BY DEF Refreshed, Flushed, IndexFields

\* DELETE and PUT: an index that holds nothing.
LEMMA Makes ==
  ASSUME SettingsInv, FeedInv, Delete \/ Put \/ PutRefused
  PROVE  FeedInv'
<1>0. DOMAIN feed = FeedFields /\ DOMAIN index = IndexFields
  BY DEF SettingsInv
<1>1. feed.pc \in {"delete", "put"} /\ feed.args.kind = "rest" /\ feed.sent = 0
      /\ feed.at = "nowhere" /\ feed.range <= Len(Tiers) /\ feed.left \in Nat
  BY DEF Delete, Put, PutRefused, Request, FeedInv, SentInv, Ranging
<1>2. /\ NoIndex.segs = {} /\ NoIndex.merging = {} /\ NoIndex.guard = FALSE
      /\ NoIndex.exists = FALSE
  BY DEF NoIndex
<1>3. Parts({}, 0) /\ 0 \in Nat
  BY NoSegments
<1>4. CASE Delete
  <2>1. feed' = [feed EXCEPT !.pc = "put"] /\ index' \in {index, NoIndex}
    BY <1>4 DEF Delete, Request, Goto
  <2>2. /\ PartsInv' /\ (index'.guard => index'.merging = {})
        /\ Parts(index'.segs, feed.sent)
    <3>1. CASE index' = index
      BY <1>1, <3>1 DEF FeedInv, PartsInv, SentInv, SeenInv
    <3>2. CASE index' = NoIndex
      BY <1>1, <1>2, <1>3, <3>2 DEF PartsInv, Joins
    <3> QED BY <2>1, <3>1, <3>2
  <2>3. /\ feed'.args = feed.args /\ feed'.at = feed.at /\ feed'.range = feed.range
        /\ feed'.left = feed.left /\ feed'.sent = feed.sent /\ feed'.pc = "put"
    BY <1>0, <2>1 DEF FeedFields
  <2>4. SentInv'
    BY <1>1, <2>2, <2>3 DEF FeedInv, SentInv
  <2>5. SeenInv'
    BY <1>1, <2>2, <2>3 DEF SeenInv, Settling, Restored
  <2> QED BY <2>2, <2>4, <2>5 DEF FeedInv
<1>5. CASE Put
  <2>1. /\ feed.pc = "put"
        /\ index'.segs = {} /\ index'.merging = {} /\ index'.exists = TRUE
        /\ \/ feed' = [Raised(feed) EXCEPT !.at = "clients"]
           \/ \E to \in {"range", "bulk"} : feed' = [feed EXCEPT !.pc = to]
    BY <1>5 DEF Put, Goto, Created, NoIndex
  <2>2. PartsInv'
    BY <1>3, <2>1 DEF PartsInv, Joins
  <2>3. CASE feed' = [Raised(feed) EXCEPT !.at = "clients"]
    <3>1. /\ feed'.args = feed.args /\ feed'.at = "clients" /\ feed'.range = feed.range
          /\ feed'.left = feed.left /\ feed'.sent = feed.sent /\ feed'.pc = "failed"
      BY <1>0, <2>1, <2>3 DEF Raised, FeedFields, Guarded
    <3>2. SentInv'
      BY <1>1, <3>1 DEF FeedInv, SentInv, Ranging
    <3>3. SeenInv'
      BY <1>1, <2>1, <3>1 DEF SeenInv, Settling, Restored
    <3> QED BY <2>2, <3>2, <3>3 DEF FeedInv
  <2>4. ASSUME NEW to \in {"range", "bulk"}, feed' = [feed EXCEPT !.pc = to] PROVE FeedInv'
    <3>1. /\ feed'.args = feed.args /\ feed'.at = feed.at /\ feed'.range = feed.range
          /\ feed'.left = feed.left /\ feed'.sent = feed.sent /\ feed'.pc = to
      BY <1>0, <2>4 DEF FeedFields
    <3>2. SentInv'
      BY <1>1, <1>3, <2>1, <3>1 DEF FeedInv, SentInv
    <3>3. SeenInv'
      BY <1>1, <2>1, <3>1 DEF SeenInv, Settling, Restored
    <3> QED BY <2>2, <3>2, <3>3 DEF FeedInv
  <2> QED BY <2>1, <2>3, <2>4
<1>6. CASE PutRefused
  <2>1. feed' = Raised(feed) /\ index' = index
    BY <1>6 DEF PutRefused, Raise
  <2>2. PartsInv' /\ (index'.guard => index'.merging = {})
    BY <2>1 DEF FeedInv, PartsInv, SeenInv
  <2> QED BY <1>0, <1>1, <2>1, <2>2, Breaks DEF FeedInv, SentInv, Over
<1> QED BY <1>4, <1>5, <1>6

\* How many documents of a range the source still has.
LEMMA Taken ==
  ASSUME NEW a \in Nat, NEW b \in Nat
  PROVE  Min({a, b}) \in Nat /\ Min({a, b}) <= b
<1>1. \E x \in {a, b} : \A y \in {a, b} : x <= y
  OBVIOUS
<1>2. Min({a, b}) \in {a, b} /\ \A y \in {a, b} : Min({a, b}) <= y
  BY <1>1 DEF Min
<1> QED BY <1>2

\* What is sent arrives.
LEMMA Feeds ==
  ASSUME SettingsInv, FeedInv, SendCorpus \/ SendRange
  PROVE  FeedInv'
<1>0. DOMAIN feed = FeedFields /\ DOMAIN index = IndexFields
  BY DEF SettingsInv
<1>1. /\ feed.pc \in {"bulk", "range"} /\ feed.args.kind = "rest"
      /\ feed.at = "nowhere" /\ feed.left \in Nat /\ feed.sent \in Nat /\ feed.range \in Nat \ {0}
      /\ Parts(index.segs, feed.sent) /\ Joins(index.merging, index.segs)
      /\ index.guard => index.merging = {}
  BY DEF SendCorpus, SendRange, FeedInv, PartsInv, SentInv, SeenInv
<1>5. \A n \in Nat : \A j \in Ingested(index, n) :
        /\ Parts(j.segs, feed.sent + n) /\ index.segs \subseteq j.segs
        /\ j.merging = index.merging /\ j.guard = index.guard
  BY <1>0, <1>1, Arrive
<1>2. CASE SendCorpus
  <2>1. /\ feed.pc = "bulk" /\ feed.sent = 0
        /\ feed' = [feed EXCEPT !.pc = "restore", !.left = 0, !.sent = feed.left]
    BY <1>2 DEF SendCorpus, FeedInv, SentInv
  <2>2. PICK i \in Ingested(index, feed.left) : index' = i \/ index' = Flushed(i)
    BY <1>2 DEF SendCorpus
  <2>3. /\ Parts(i.segs, feed.sent + feed.left) /\ index.segs \subseteq i.segs
        /\ i.merging = index.merging /\ i.guard = index.guard /\ DOMAIN i = IndexFields
    <3>1. DOMAIN i = IndexFields
      BY <1>0, Alike DEF Like
    <3> QED BY <1>1, <1>5, <3>1
  <2>4. index'.segs = i.segs /\ index'.merging = i.merging /\ index'.guard = i.guard
    BY <2>2, <2>3, SameSegments
  <2>5. Parts(index'.segs, feed.left)
    BY <1>1, <2>1, <2>3, <2>4
  <2>6. PartsInv'
    BY <1>1, <2>3, <2>4, <2>5 DEF PartsInv, Joins
  <2>7. /\ feed'.args = feed.args /\ feed'.at = feed.at /\ feed'.range = feed.range
        /\ feed'.left = 0 /\ feed'.sent = feed.left /\ feed'.pc = "restore"
    BY <1>0, <2>1 DEF FeedFields
  <2>8. SentInv'
    BY <1>1, <2>5, <2>7 DEF FeedInv, SentInv, Ranging
  <2>9. SeenInv'
    BY <1>1, <2>3, <2>4, <2>7 DEF SeenInv, Settling, Restored
  <2> QED BY <2>6, <2>8, <2>9 DEF FeedInv
<1>3. CASE SendRange
  <2> DEFINE n == Min({Tiers[feed.range], feed.left})
             sent == [feed EXCEPT !.left = @ - n, !.sent = @ + n]
  <2>1. /\ feed.pc = "range" /\ index' \in Ingested(index, n)
        /\ feed' = Raised(sent) \/ feed' = [sent EXCEPT !.pc = "refresh"]
    BY <1>3 DEF SendRange
  <2>2. n \in Nat /\ n <= feed.left
    <3>1. feed.range \in 1..Len(Tiers)
      BY <1>1, <2>1, TiersAssumption DEF FeedInv, SentInv, Ranging
    <3>2. Tiers[feed.range] \in Nat
      BY <3>1, TiersAssumption
    <3> QED BY <1>1, <3>2, Taken
  <2> HIDE DEF n
  <2>3. /\ Parts(index'.segs, feed.sent + n) /\ index.segs \subseteq index'.segs
        /\ index'.merging = index.merging /\ index'.guard = index.guard
    BY <1>5, <2>1, <2>2
  <2>4. PartsInv'
    BY <1>1, <2>2, <2>3 DEF PartsInv, Joins
  <2>5. /\ DOMAIN sent = FeedFields /\ sent.args = feed.args /\ sent.pc = feed.pc
        /\ sent.range = feed.range /\ sent.left = feed.left - n /\ sent.sent = feed.sent + n
        /\ sent.at = feed.at
    BY <1>0 DEF FeedFields
  <2>6. sent.left \in Nat /\ sent.sent \in Nat
    BY <1>1, <2>2, <2>5
  <2> HIDE DEF sent
  <2>7. CASE feed' = Raised(sent)
    BY <1>1, <2>1, <2>3, <2>4, <2>5, <2>6, <2>7, Breaks DEF Over
  <2>8. CASE feed' = [sent EXCEPT !.pc = "refresh"]
    <3>1. /\ feed'.args = feed.args /\ feed'.at = feed.at /\ feed'.range = feed.range
          /\ feed'.left = sent.left /\ feed'.sent = feed.sent + n /\ feed'.pc = "refresh"
      BY <2>5, <2>8 DEF FeedFields
    <3>2. SentInv'
      BY <1>1, <2>1, <2>3, <2>5, <2>6, <3>1 DEF FeedInv, SentInv, Ranging
    <3>3. SeenInv'
      BY <1>1, <2>3, <3>1 DEF SeenInv, Settling, Restored
    <3> QED BY <2>4, <3>2, <3>3 DEF FeedInv
  <2> QED BY <2>1, <2>7, <2>8
<1> QED BY <1>2, <1>3

\* The requests that refresh, flush or merge, or only ask.
LEMMA Goes ==
  ASSUME SettingsInv, FeedInv,
         \/ RefreshRange \/ FlushRange \/ ForceRange \/ ReopenRange \/ Restore \/ Publish
         \/ Optimize \/ Count \/ SettleFlush \/ SettleRefresh
  PROVE  FeedInv'
<1>0. DOMAIN feed = FeedFields /\ DOMAIN index = IndexFields
  BY DEF SettingsInv
<1>1. PICK to : feed' = [feed EXCEPT !.pc = to] /\
        \/ /\ to \in {"flush", "force", "reopen", "prove"}
           /\ feed.pc \in {"refresh", "flush", "force", "reopen"}
        \/ to \in {"failed", "publish"} /\ feed.pc = "restore" /\ (to = "failed" <=> feed.at # "nowhere")
        \/ to = "optimize" /\ feed.pc = "publish"
        \/ to = (IF feed.args.topology THEN "final" ELSE "count") /\ feed.pc = "optimize"
        \/ /\ to = IF feed.args.settle /\ feed.args.refresh /\ ~feed.args.topology
                    THEN "settle flush" ELSE "done"
           /\ feed.pc = "count" /\ index' = index
        \/ to \in {"settle refresh", "settle"} /\ feed.pc \in {"settle flush", "settle refresh"}
  <2>1. CASE RefreshRange \/ FlushRange \/ ForceRange \/ ReopenRange
    <3>1. /\ feed.pc \in {"refresh", "flush", "force", "reopen"}
          /\ \E to \in {"flush", "force", "reopen", "prove"} : feed' = [feed EXCEPT !.pc = to]
      BY <2>1 DEF RefreshRange, FlushRange, ForceRange, ReopenRange, Request, Goto
    <3> QED BY <3>1
  <2>2. CASE Restore \/ Publish
    <3>1. CASE Restore
      <4>1. /\ feed.pc = "restore"
            /\ feed' = [feed EXCEPT !.pc = IF feed.at # "nowhere" THEN "failed" ELSE "publish"]
        BY <3>1 DEF Restore, Goto
      <4> QED BY <4>1
    <3>2. CASE Publish
      BY <3>2 DEF Publish, Request, Goto
    <3> QED BY <2>2, <3>1, <3>2
  <2>3. CASE Optimize \/ Count
    BY <2>3 DEF Optimize, Count, Request, Goto
  <2>4. CASE SettleFlush \/ SettleRefresh
    BY <2>4 DEF SettleFlush, SettleRefresh, Request, Goto
  <2> QED BY <2>1, <2>2, <2>3, <2>4
<1>2. PICK d \in Nat : Parts(index.segs, d)
  BY DEF FeedInv, PartsInv
<1>3. /\ index'.merging = index.merging /\ index'.guard = index.guard
      /\ index'.exists = index.exists
      /\ \/ index'.segs = index.segs
         \/ /\ index.merging = {}
            /\ \A e \in Nat : Parts(index.segs, e) => Parts(index'.segs, e)
  <2>1. ASSUME NEW n, NEW i \in ForceMerged(index, n)
        PROVE  /\ \A e \in Nat : Parts(index.segs, e) => Parts(i.segs, e)
               /\ i.merging = index.merging /\ i.guard = index.guard
               /\ i.exists = index.exists /\ DOMAIN i = IndexFields
    <3>1. DOMAIN i = IndexFields
      BY <1>0, <2>1, Alike DEF Like
    <3>2. i.exists = index.exists
      <4>1. \E S : i = [index EXCEPT !.segs = S, !.committed = S]
        BY <2>1 DEF ForceMerged
      <4> QED BY <1>0, <4>1 DEF IndexFields
    <3>3. i.merging = index.merging /\ i.guard = index.guard
      BY <1>0, <1>2, <2>1, Forced
    <3>4. \A e \in Nat : Parts(index.segs, e) => Parts(i.segs, e)
      BY <1>0, <2>1, Forced
    <3> QED BY <3>1, <3>2, <3>3, <3>4
  <2>2. CASE RefreshRange \/ FlushRange \/ ReopenRange \/ SettleFlush \/ SettleRefresh
    <3>1. index' \in {index, Refreshed(index), Flushed(index)}
      BY <2>2 DEF RefreshRange, FlushRange, ReopenRange, SettleFlush, SettleRefresh, Request
    <3> QED BY <1>0, <3>1, SameSegments
  <2>3. CASE Publish \/ Count
    <3>1. index' \in {index, Refreshed(index), Flushed(index)}
      BY <2>3 DEF Publish, Count, Request
    <3> QED BY <1>0, <3>1, SameSegments
  <2>4. CASE Restore
    BY <1>0, <2>4 DEF Restore, IndexFields
  <2>5. CASE ForceRange
    <3>1. index.merging = {} /\ index' \in ForceMerged(index, feed.range)
      BY <2>5 DEF ForceRange
    <3> QED BY <2>1, <3>1
  <2>6. CASE Optimize
    <3>1. CASE index' = index
      BY <3>1
    <3>2. ASSUME NEW i \in ForceMerged(index, 1), index.merging = {},
                 index' = i \/ index' = Refreshed(i)
          PROVE  /\ index'.merging = index.merging /\ index'.guard = index.guard
                 /\ index'.exists = index.exists
                 /\ \A e \in Nat : Parts(index.segs, e) => Parts(index'.segs, e)
      <4>1. index'.segs = i.segs /\ index'.merging = i.merging /\ index'.guard = i.guard
            /\ index'.exists = i.exists
        BY <2>1, <3>2, SameSegments
      <4> QED BY <2>1, <3>2, <4>1
    <3> QED BY <2>6, <3>1, <3>2 DEF Optimize
  <2> QED BY <2>2, <2>3, <2>4, <2>5, <2>6
<1>4. \A e \in Nat : Parts(index.segs, e) => Parts(index'.segs, e)
  BY <1>3
<1>5. PartsInv'
  BY <1>2, <1>3, <1>4 DEF FeedInv, PartsInv, Joins
<1>6. index'.segs = {} \/ index.segs # {}
  <2> SUFFICES ASSUME index.segs = {} PROVE index'.segs = {}
    OBVIOUS
  <2>1. Parts(index'.segs, d) /\ d = Docs({})
    BY <1>2, <1>4, DocsOf
  <2>2. d = 0
    BY <2>1, NoSegments, DocsOf
  <2> QED BY <2>1, <2>2, InSegment
<1>7. index'.guard => index'.merging = {} /\ feed.args.kind = "rest"
  BY <1>3 DEF FeedInv, SeenInv
<1>8. \/ feed.pc \in Restored
      \/ feed.pc \in {"restore", "refresh", "flush", "force", "reopen"} /\ feed.args.kind = "rest"
  BY <1>1 DEF Restored, FeedInv, SentInv
<1>9. feed.pc # "restore" => feed.at = "nowhere"
  BY <1>1 DEF FeedInv, SentInv
<1>10. feed.args.topology =>
           /\ to \notin Settling
           /\ feed.at = "nowhere" /\ to \in Restored \cup {"restore"} => feed.left = 0
           /\ to \in {"extra", "count", "done"} =>
                Shape(feed.obs.segs) = Tiered(Len(Tiers)) /\ feed.obs.merging = {}
           /\ index'.guard /\ to \in {"final merges", "count", "done"} =>
                Observed(index') = feed.obs /\ Parses(index')
  BY <1>1 DEF FeedInv, SeenInv, Settling, Restored
<1>11. /\ to \in Ranging => feed.range <= Len(Tiers)
       /\ to \notin {"delete", "put", "bulk"}
       /\ to \notin {"restore", "failed"} => feed.at = "nowhere"
       /\ feed.args.kind # "rest" => to \in {"stream", "prove", "merges", "extra", "count", "done", "failed"}
  BY <1>1, <1>9 DEF FeedInv, SentInv, Ranging, RestArgs, LuxirArgs
<1> QED BY <1>1, <1>3, <1>4, <1>5, <1>6, <1>7, <1>10, <1>11, Continues

Checking ==
  \/ ProbeSegments("prove", "merges") \/ ProbeSegments("final", "final merges")
  \/ ProbeSegments("settle", "settle merges")
  \/ RangeProved \/ NothingMore \/ FinalProved \/ SettleMerges \/ Deadline

\* A probe or a check of what it saw, which leave the index alone.
LEMMA Checks ==
  ASSUME SettingsInv, FeedInv, Checking
  PROVE  FeedInv'
<1>0. /\ DOMAIN feed = FeedFields /\ DOMAIN index = IndexFields /\ index' = index
      /\ feed.pc \notin Over \cup {"nowhere", "restore"} /\ feed.at = "nowhere"
  BY DEF Checking, SettingsInv, ProbeSegments, RangeProved, NothingMore, FinalProved, SettleMerges,
         Deadline, Over, FeedInv, SentInv
<1>1. /\ PartsInv' /\ (index'.guard => index'.merging = {} /\ feed.args.kind = "rest")
      /\ feed.args.kind # "rest" => index'.exists \/ index'.segs = {}
  BY <1>0 DEF FeedInv, PartsInv, SentInv, SeenInv
<1>2. CASE feed' = Raised(feed)
  BY <1>0, <1>1, <1>2, Breaks DEF FeedInv, SentInv
<1> DEFINE same == /\ feed'.args = feed.args /\ feed'.at = feed.at
                   /\ feed'.left = feed.left /\ feed'.sent = feed.sent
<1>3. ASSUME NEW from \in {"prove", "final", "settle"}, NEW to \in {"merges", "final merges", "settle merges"},
             ProbeSegments(from, to), feed' # Raised(feed),
             (from = "prove" /\ to = "merges") \/ (from = "final" /\ to = "final merges")
               \/ (from = "settle" /\ to = "settle merges")
      PROVE  FeedInv'
  <2>1. /\ feed.pc = from /\ Parses(index)
        /\ feed' = [feed EXCEPT !.obs = Observed(index), !.pc = to]
    BY <1>3 DEF ProbeSegments
  <2>2. same /\ feed'.range = feed.range /\ feed'.pc = to /\ feed'.obs = Observed(index)
    BY <1>0, <2>1 DEF FeedFields
  <2>3. SentInv'
    BY <1>0, <1>3, <2>1, <2>2 DEF FeedInv, SentInv, Ranging
  <2>4. SeenInv'
    BY <1>0, <1>3, <2>1, <2>2 DEF FeedInv, SeenInv, Settling, Restored
  <2> QED BY <1>1, <2>3, <2>4 DEF FeedInv
<1>4. ASSUME RangeProved, feed' # Raised(feed) PROVE FeedInv'
  <2>1. /\ feed.pc = "merges" /\ IsTopology(feed.range, feed.obs, ActiveMerges)
        /\ feed' = [feed EXCEPT !.range = @ + 1,
                       !.pc = IF feed.range = Len(Tiers) THEN "extra"
                              ELSE IF feed.args.kind = "rest" THEN "range" ELSE "stream"]
    BY <1>4 DEF RangeProved
  <2>2. /\ same /\ feed'.range = feed.range + 1 /\ feed'.obs = feed.obs
        /\ feed'.pc = IF feed.range = Len(Tiers) THEN "extra"
                      ELSE IF feed.args.kind = "rest" THEN "range" ELSE "stream"
    BY <1>0, <2>1 DEF FeedFields
  <2>3. feed.range \in Nat \ {0} /\ feed.range <= Len(Tiers) /\ Len(Tiers) \in Nat
    <3>1. feed.pc \in Ranging
      BY <2>1 DEF Ranging
    <3>2. feed.range \in Nat \ {0} /\ feed.range <= Len(Tiers)
      BY <3>1 DEF FeedInv, SentInv
    <3> QED BY <3>2, TiersAssumption
  <2>4. Shape(feed.obs.segs) = Tiered(feed.range) /\ feed.obs.merging = {}
    BY <2>1 DEF IsTopology
  <2>5. feed'.range \in Nat \ {0} /\ (feed.range # Len(Tiers) => feed'.range <= Len(Tiers))
    <3>1. feed'.range = feed.range + 1
      BY <2>2
    <3> QED BY <2>3, <3>1
  <2>6. SentInv'
    BY <1>0, <2>2, <2>5 DEF FeedInv, SentInv, Ranging
  <2>7. SeenInv'
    BY <1>0, <2>2, <2>4 DEF FeedInv, SeenInv, Settling, Restored
  <2> QED BY <1>1, <2>6, <2>7 DEF FeedInv
<1>5. ASSUME NothingMore, feed' # Raised(feed) PROVE FeedInv'
  <2>1. /\ feed.pc = "extra" /\ ~(feed.left > 0)
        /\ feed' = [feed EXCEPT !.pc = IF feed.args.kind = "rest" THEN "restore" ELSE "count"]
    BY <1>5 DEF NothingMore
  <2>2. /\ same /\ feed'.range = feed.range /\ feed'.obs = feed.obs
        /\ feed'.pc = IF feed.args.kind = "rest" THEN "restore" ELSE "count"
    BY <1>0, <2>1 DEF FeedFields
  <2>3. feed.left = 0
    <3>1. feed.left \in Nat /\ ~(feed.left > 0)
      BY <2>1 DEF FeedInv, SentInv
    <3> QED BY <3>1
  <2>4. SentInv'
    BY <1>0, <2>2 DEF FeedInv, SentInv, Ranging
  <2>5. SeenInv'
    <3>1. CASE feed.args.kind = "rest"
      BY <1>0, <2>2, <2>3, <3>1 DEF FeedInv, SeenInv, Settling, Restored
    <3>2. CASE feed.args.kind # "rest"
      BY <1>0, <2>1, <2>2, <2>3, <3>2 DEF FeedInv, SeenInv, Settling, Restored
    <3> QED BY <3>1, <3>2
  <2> QED BY <1>1, <2>4, <2>5 DEF FeedInv
<1>6. ASSUME FinalProved, feed' # Raised(feed) PROVE FeedInv'
  <2>1. /\ feed.pc = "final merges" /\ IsTopology(Len(Tiers), feed.obs, ActiveMerges)
        /\ feed' = [feed EXCEPT !.pc = "count"]
    BY <1>6 DEF FinalProved
  <2>2. same /\ feed'.range = feed.range /\ feed'.obs = feed.obs /\ feed'.pc = "count"
    BY <1>0, <2>1 DEF FeedFields
  <2>3. Shape(feed.obs.segs) = Tiered(Len(Tiers)) /\ feed.obs.merging = {}
    BY <2>1 DEF IsTopology
  <2>4. SentInv'
    BY <1>0, <2>2 DEF FeedInv, SentInv, Ranging
  <2>5. SeenInv'
    BY <1>0, <2>1, <2>2, <2>3 DEF FeedInv, SeenInv, Settling, Restored, Observed, Parses
  <2> QED BY <1>1, <2>4, <2>5 DEF FeedInv
<1>7. ASSUME SettleMerges \/ Deadline, feed' # Raised(feed) PROVE FeedInv'
  <2>1. /\ feed.pc \in Settling
        /\ \/ \E to \in {"done", "settle flush"} : feed' = [feed EXCEPT !.pc = to]
           \/ feed' = [feed EXCEPT !.late = TRUE]
    <3>1. CASE SettleMerges
      BY <1>7, <3>1 DEF SettleMerges, Settling
    <3>2. CASE Deadline
      BY <3>2 DEF Deadline, Settling
    <3> QED BY <1>7, <3>1, <3>2
  <2>2. same /\ feed'.range = feed.range /\ feed'.obs = feed.obs
        /\ feed'.pc \in {"done", "settle flush", feed.pc}
    BY <1>0, <2>1 DEF FeedFields
  <2>3. ~feed.args.topology /\ feed.args.kind = "rest"
    BY <2>1 DEF FeedInv, SentInv, SeenInv, Settling, LuxirArgs, RestArgs
  <2>4. SentInv'
    BY <1>0, <2>1, <2>2, <2>3 DEF FeedInv, SentInv, Ranging, Settling
  <2>5. SeenInv'
    BY <1>0, <2>1, <2>2, <2>3 DEF FeedInv, SeenInv
  <2> QED BY <1>1, <2>4, <2>5 DEF FeedInv
<1> QED BY <1>2, <1>3, <1>4, <1>5, <1>6, <1>7 DEF Checking

\* Luxir's stream, into the index it finds or the one it makes.
LEMMA StreamFeeds == SettingsInv /\ FeedInv /\ StreamRange => FeedInv'
<1> SUFFICES ASSUME SettingsInv, FeedInv, StreamRange PROVE FeedInv'
  OBVIOUS
<1> DEFINE n == Min({Tiers[feed.range], feed.left})
           sent == [feed EXCEPT !.left = @ - n, !.sent = @ + n]
           base == IF index.exists THEN index ELSE [NoIndex EXCEPT !.exists = TRUE]
<1>0. /\ DOMAIN feed = FeedFields /\ DOMAIN index = IndexFields /\ feed.at = "nowhere"
      /\ feed.pc = "stream" /\ feed.args.kind # "rest" /\ index.merging = {}
      /\ feed.left \in Nat /\ feed.sent \in Nat /\ Parts(index.segs, feed.sent)
      /\ index.exists \/ index.segs = {}
  <2>1. feed.pc = "stream" /\ index.merging = {}
    BY DEF StreamRange
  <2>2. feed.args.kind # "rest"
    BY <2>1 DEF SettingsInv, Building, Restored, Guarded
  <2> QED BY <2>1, <2>2 DEF SettingsInv, FeedInv, SentInv
<1>1. PICK i \in Ingested(base, n) :
        IF n < Tiers[feed.range]
          THEN index' = i /\ feed' = Raised(sent)
          ELSE /\ \E m \in ForceMerged(i, feed.range) : index' = Refreshed(m)
               /\ feed' = [sent EXCEPT !.pc = "prove"]
  BY DEF StreamRange
<1>2. n \in Nat /\ n <= feed.left
  <2>1. feed.range \in 1..Len(Tiers)
    BY <1>0, TiersAssumption DEF FeedInv, SentInv, Ranging
  <2>2. Tiers[feed.range] \in Nat
    BY <2>1, TiersAssumption
  <2> QED BY <1>0, <2>2, Taken
<1> HIDE DEF n
<1>3. /\ DOMAIN base = IndexFields /\ Parts(base.segs, feed.sent) /\ base.merging = {}
      /\ base.guard = FALSE /\ base.exists
  <2>1. CASE index.exists
    <3>1. ~index.guard
      BY <1>0 DEF FeedInv, SeenInv
    <3> QED BY <1>0, <2>1, <3>1 DEF FeedInv, SeenInv
  <2>2. CASE ~index.exists
    <3>1. base = [NoIndex EXCEPT !.exists = TRUE]
      BY <2>2
    <3>2. /\ DOMAIN base = IndexFields /\ base.segs = {} /\ base.merging = {}
          /\ base.guard = FALSE /\ base.exists = TRUE
      BY <3>1 DEF NoIndex, IndexFields
    <3>3. Parts({}, feed.sent)
      BY <1>0, <2>2
    <3> QED BY <3>2, <3>3
  <2> QED BY <2>1, <2>2
<1> HIDE DEF base
<1>4. /\ Parts(i.segs, feed.sent + n) /\ i.merging = {} /\ i.guard = FALSE
      /\ DOMAIN i = IndexFields /\ i.exists
  <2>1. \A j \in Ingested(base, n) :
           Parts(j.segs, feed.sent + n) /\ j.merging = base.merging /\ j.guard = base.guard
    <3>1. n \in Nat /\ DOMAIN base = IndexFields /\ Parts(base.segs, feed.sent)
      BY <1>2, <1>3
    <3> QED BY <3>1, Arrive
  <2>2. i = base \/ \E S : i = [base EXCEPT !.segs = S]
    BY DEF Ingested
  <2>3. i.exists /\ DOMAIN i = IndexFields
    BY <1>3, <2>2 DEF IndexFields
  <2> QED BY <1>3, <2>1, <2>3
<1>5. /\ Parts(index'.segs, feed.sent + n) /\ index'.merging = {} /\ index'.guard = FALSE
      /\ index'.exists
  <2>1. CASE index' = i
    BY <1>4, <2>1
  <2>2. ASSUME NEW m \in ForceMerged(i, feed.range), index' = Refreshed(m)
        PROVE  /\ Parts(index'.segs, feed.sent + n) /\ index'.merging = {} /\ index'.guard = FALSE
               /\ index'.exists
    <3>1. \E S : m = [i EXCEPT !.segs = S, !.committed = S]
      BY <2>2 DEF ForceMerged
    <3>2. DOMAIN m = IndexFields /\ m.exists
      BY <1>4, <3>1 DEF IndexFields
    <3>3. Parts(m.segs, feed.sent + n) /\ m.merging = {} /\ m.guard = FALSE
      BY <1>4, <2>2, Forced
    <3> QED BY <2>2, <3>2, <3>3, SameSegments
  <2> QED BY <1>1, <2>1, <2>2
<1>6. PartsInv'
  BY <1>0, <1>2, <1>5 DEF PartsInv, Joins
<1>7. /\ DOMAIN sent = FeedFields /\ sent.args = feed.args /\ sent.pc = feed.pc
      /\ sent.range = feed.range /\ sent.left = feed.left - n /\ sent.sent = feed.sent + n
      /\ sent.at = feed.at
  BY <1>0 DEF FeedFields
<1>8. sent.left \in Nat /\ sent.sent \in Nat
  BY <1>0, <1>2, <1>7
<1> HIDE DEF sent
<1>9. CASE feed' = Raised(sent)
  BY <1>0, <1>5, <1>6, <1>7, <1>8, <1>9, Breaks DEF Over
<1>10. CASE feed' = [sent EXCEPT !.pc = "prove"]
  <2>1. /\ feed'.args = feed.args /\ feed'.at = feed.at /\ feed'.range = feed.range
        /\ feed'.left = sent.left /\ feed'.sent = feed.sent + n /\ feed'.pc = "prove"
    BY <1>7, <1>10 DEF FeedFields
  <2>2. SentInv'
    BY <1>0, <1>5, <1>7, <1>8, <2>1 DEF FeedInv, SentInv, Ranging
  <2>3. SeenInv'
    BY <1>5, <2>1 DEF SeenInv, Settling, Restored
  <2> QED BY <1>6, <2>2, <2>3 DEF FeedInv
<1> QED BY <1>1, <1>9, <1>10

\* A request that fails may have done its work in part.
LEMMA RequestBreaks == SettingsInv /\ FeedInv /\ RequestFails => FeedInv'
<1> SUFFICES ASSUME SettingsInv, FeedInv, RequestFails PROVE FeedInv'
  OBVIOUS
<1>1. /\ DOMAIN feed = FeedFields /\ DOMAIN index = IndexFields
      /\ feed' = Raised(feed) /\ feed.pc \notin Over \cup {"nowhere"}
      /\ feed.left \in Nat /\ feed.sent \in Nat
  BY DEF RequestFails, Asking, Guarded, Over, SettingsInv, FeedInv, SentInv
<1>2. PICK d \in Nat : Parts(index.segs, d)
  BY DEF FeedInv, PartsInv
<1>3. /\ PartsInv' /\ (index'.guard => index'.merging = {} /\ feed.args.kind = "rest")
      /\ feed.args.kind # "rest" => index'.exists \/ index'.segs = {}
  <2>1. CASE feed.pc \in {"bulk", "range"}
    <3>1. PICK n \in 0..feed.left : index' \in Ingested(index, n)
      BY <2>1 DEF RequestFails
    <3>2. n \in Nat /\ d + n \in Nat
      BY <1>1
    <3>3. /\ Parts(index'.segs, d + n) /\ index.segs \subseteq index'.segs
          /\ index'.merging = index.merging /\ index'.guard = index.guard
      BY <1>1, <1>2, <3>1, <3>2, Arrive
    <3>4. feed.args.kind = "rest"
      BY <2>1 DEF FeedInv, SentInv
    <3> QED BY <3>2, <3>3, <3>4 DEF FeedInv, PartsInv, SeenInv, Joins
  <2>2. CASE index' = NoIndex
    <3>1. /\ NoIndex.segs = {} /\ NoIndex.merging = {} /\ NoIndex.guard = FALSE
          /\ 0 \in Nat
      BY DEF NoIndex
    <3> QED BY <2>2, <3>1, NoSegments DEF PartsInv, Joins
  <2>3. CASE index' = index
    BY <2>3 DEF FeedInv, PartsInv, SentInv, SeenInv
  <2>4. CASE feed.pc = "put" /\ index' = Created
    <3>1. /\ Created.segs = {} /\ Created.merging = {} /\ 0 \in Nat
      BY DEF Created, NoIndex
    <3>2. feed.args.kind = "rest"
      BY <2>4 DEF FeedInv, SentInv
    <3> QED BY <2>4, <3>1, <3>2, NoSegments DEF PartsInv, Joins
  <2>5. feed.pc \notin {"bulk", "range"} =>
          index' \in {index, NoIndex} \/ (feed.pc = "put" /\ index' = Created)
    BY DEF RequestFails
  <2> QED BY <2>1, <2>2, <2>3, <2>4, <2>5
<1> QED BY <1>1, <1>3, Breaks DEF FeedInv, SentInv

\* What the engine does by itself.
LEMMA EngineActs ==
  ASSUME SettingsInv, FeedInv, MergeStarts \/ MergeEnds \/ Background
  PROVE  /\ FeedInv' /\ feed' = feed /\ cell' = Served(index')
         /\ IsFiniteSet(index'.segs)
         /\ Since(index.segs, index'.segs)
         /\ index'.segs = index.segs => index.merging \in {{}, index'.merging}
<1>0. /\ DOMAIN index = IndexFields /\ feed' = feed /\ cell' = Served(index')
      /\ Joins(index.merging, index.segs)
  BY DEF SettingsInv, MergeStarts, MergeEnds, Background, Serves, FeedInv, PartsInv
<1>1. PICK d \in Nat : Parts(index.segs, d)
  BY DEF FeedInv, PartsInv
<1>2. CASE MergeStarts
  <2>1. /\ ~index.guard /\ index.merging = {}
        /\ \E a, b \in index.segs : b[1] = a[2] + 1 /\ index' = [index EXCEPT !.merging = {a, b}]
    BY <1>2 DEF MergeStarts, StartMerge
  <2>2. /\ index'.segs = index.segs /\ index'.guard = index.guard /\ index'.exists = index.exists
        /\ Joins(index'.merging, index'.segs)
    BY <1>0, <2>1 DEF IndexFields, Joins
  <2>3. PartsInv' /\ IsFiniteSet(index'.segs)
    BY <1>1, <2>2 DEF PartsInv, Parts
  <2>4. SentInv' /\ SeenInv'
    BY <1>0, <2>1, <2>2 DEF FeedInv, SentInv, SeenInv
  <2> QED BY <1>0, <2>1, <2>2, <2>3, <2>4 DEF FeedInv, Since
<1>3. CASE MergeEnds
  <2>1. PICK a \in index.segs, b \in index.segs : b[1] = a[2] + 1 /\ index.merging = {a, b}
    BY <1>0, <1>3 DEF MergeEnds, FinishMerge, Joins
  <2>2. /\ a[1] \in Nat /\ a[2] \in Nat /\ b[1] \in Nat /\ b[2] \in Nat
        /\ a[1] <= b[1] /\ a[2] <= b[2]
    <3>1. a[1] \in Nat /\ a[2] \in Nat /\ a[1] <= a[2]
      BY <1>1, InSegment
    <3>2. b[1] \in Nat /\ b[2] \in Nat /\ b[1] <= b[2]
      BY <1>1, InSegment
    <3> QED BY <2>1, <3>1, <3>2
  <2>3. Min({s[1] : s \in {a, b}}) = a[1] /\ Max({s[2] : s \in {a, b}}) = b[2]
    BY <2>2, Outermost
  <2> DEFINE T == (index.segs \ {a, b}) \cup {<<a[1], b[2]>>}
  <2>4. index' = [index EXCEPT !.merging = {}, !.segs = T]
    <3>1. index' = [index EXCEPT !.merging = {},
             !.segs = (@ \ index.merging) \cup {<<Min({s[1] : s \in index.merging}),
                                                  Max({s[2] : s \in index.merging})>>}]
      BY <1>3 DEF MergeEnds, FinishMerge
    <3> QED BY <2>1, <2>3, <3>1
  <2>5. \A e \in Nat : Parts(index.segs, e) => Parts(T, e) /\ Since(index.segs, T) /\ index.segs # T
    BY <2>1, Merged
  <2>6. <<a[1], b[2]>> \in T
    OBVIOUS
  <2> HIDE DEF T
  <2>7. /\ index'.segs = T /\ index'.merging = {} /\ index'.guard = index.guard
        /\ index'.exists = index.exists
    BY <1>0, <2>4 DEF IndexFields
  <2>8. PartsInv' /\ IsFiniteSet(T)
    BY <1>1, <2>5, <2>7 DEF PartsInv, Parts, Joins
  <2>9. ~index.guard
    BY <2>1 DEF FeedInv, SeenInv
  <2>10. SentInv'
    BY <1>0, <2>1, <2>5, <2>7 DEF FeedInv, SentInv
  <2>11. SeenInv'
    BY <1>0, <2>7, <2>9 DEF FeedInv, SeenInv
  <2> QED BY <1>0, <1>1, <2>5, <2>7, <2>8, <2>10, <2>11 DEF FeedInv
<1>4. CASE Background
  <2>1. /\ index' \in {index, Refreshed(index), Flushed(index)}
    BY <1>4 DEF Background, IntervalRefresh, TranslogFlush
  <2>2. /\ index'.segs = index.segs /\ index'.guard = index.guard /\ index'.exists = index.exists
        /\ index'.merging = index.merging /\ Observed(index') = Observed(index)
    BY <1>0, <2>1, SameSegments DEF Observed
  <2>3. Parses(index) => Parses(index')
    BY <1>0, <2>1 DEF Refreshed, Flushed, Parses, IndexFields
  <2>4. PartsInv' /\ IsFiniteSet(index'.segs)
    BY <1>0, <1>1, <2>2 DEF PartsInv, Parts
  <2>5. SentInv'
    BY <1>0, <2>2 DEF FeedInv, SentInv
  <2>6. SeenInv'
    BY <1>0, <2>2, <2>3 DEF FeedInv, SeenInv
  <2> QED BY <1>0, <2>2, <2>4, <2>5, <2>6 DEF FeedInv, Since
<1> QED BY <1>2, <1>3, <1>4

\* The first states, and every step.
LEMMA FeedStarts == Init => FeedInv
<1> SUFFICES ASSUME Init PROVE FeedInv
  OBVIOUS
<1>1. /\ index.segs = {} /\ index.merging = {} /\ index.guard = FALSE
  BY DEF Init, NoIndex
<1>2. PICK a \in Args, n \in Sources :
        feed = [args |-> a, left |-> n, range |-> 1, sent |-> 0, at |-> "nowhere",
                late |-> FALSE, obs |-> Observed(NoIndex),
                pc |-> IF a.kind = "rest" THEN "delete" ELSE "stream"]
  BY DEF Init, FeedInit
<1>3. /\ feed.args \in RestArgs \cup LuxirArgs /\ feed.left \in Nat /\ feed.range = 1
      /\ feed.sent = 0 /\ feed.at = "nowhere"
      /\ feed.pc = IF feed.args.kind = "rest" THEN "delete" ELSE "stream"
  BY <1>2, MeasurementAssumption
<1>4. PartsInv
  BY <1>1, NoSegments DEF PartsInv, Joins
<1>5. 1 <= Len(Tiers) /\ 1 \in Nat \ {0} /\ 0 \in Nat
  BY TiersAssumption
<1>6. SentInv
  BY <1>1, <1>3, <1>5, NoSegments DEF SentInv
<1>7. SeenInv
  BY <1>1, <1>3 DEF SeenInv, Settling, Restored
<1> QED BY <1>4, <1>6, <1>7 DEF FeedInv

LEMMA FeedGoes == SettingsInv /\ FeedInv /\ [Next]_vars => FeedInv'
<1> SUFFICES ASSUME SettingsInv, FeedInv, [Next]_vars PROVE FeedInv'
  OBVIOUS
<1>1. CASE FeedNext
  BY <1>1, Makes, Feeds, Goes, Checks, StreamFeeds DEF FeedNext, FeedStep, Checking
<1>2. CASE FeedFails \/ Timeout
  BY <1>2, RequestBreaks, Checks DEF FeedFails, Timeout, Checking
<1>3. CASE MergeStarts \/ MergeEnds \/ Background
  BY <1>3, EngineActs
<1>4. CASE Begin \/ CellNext \/ CellFails \/ Stopped \/ UNCHANGED vars
  <2>1. UNCHANGED <<index, feed>>
    BY <1>4 DEF Begin, CellNext, CellFails, Stopped, vars
  <2> QED BY <2>1 DEF FeedInv, PartsInv, SentInv, SeenInv
<1> QED BY <1>1, <1>2, <1>3, <1>4 DEF Next

LEMMA SettingsHold == Spec => []SettingsInv
BY SettingsInit, SettingsStep, PTL DEF Spec

LEMMA FeedHolds == Spec => []FeedInv
BY FeedStarts, FeedGoes, SettingsHold, PTL DEF Spec

\* A topology feed that ends well has read its corpus to the end, has every
\* document it sent in the index, and last saw the declared tiers, which REST's
\* merge policy leaves as they are (feed_rest.py and feed_luxir.py), for every
\* topology and source, and whatever else the engine merges.
THEOREM FedWhole == Spec => []FedAsDeclared
<1>1. FeedInv => FedAsDeclared
  <2> SUFFICES ASSUME FeedInv, feed.pc = "done", feed.args.topology PROVE FedAsDeclared
    BY DEF FedAsDeclared
  <2>1. feed.at = "nowhere" /\ Parts(index.segs, feed.sent)
    BY DEF FeedInv, SentInv
  <2>2. feed.sent = Docs(index.segs)
    BY <2>1, DocsOf
  <2> QED BY <2>1, <2>2 DEF FeedInv, SeenInv, FedAsDeclared, Restored
<1> QED BY <1>1, FeedHolds, PTL

\* Without a failure each document sent is in exactly one segment, whatever the
\* engine merges by itself or is asked to.
DocumentsKept == feed.at = "nowhere" => Parts(index.segs, feed.sent)

\* No step of a feed and no merge loses a document or keeps it twice.
THEOREM DocumentsStay == Spec => []DocumentsKept
<1>1. FeedInv => DocumentsKept
  BY DEF FeedInv, SentInv, DocumentsKept
<1> QED BY <1>1, FeedHolds, PTL


-----------------------------------------------------------------------------
(* What a cell was served.                                                 *)

\* Segments only become fewer: once merged away, they do not come back.
LEMMA SinceIs ==
  ASSUME NEW S, NEW T, NEW U, IsFiniteSet(S), IsFiniteSet(T), IsFiniteSet(U),
         Since(S, T), Since(T, U)
  PROVE  Since(S, U) /\ (S = U => T = U)
<1>1. Cardinality(S) \in Nat /\ Cardinality(T) \in Nat /\ Cardinality(U) \in Nat
  BY FS_CardinalityType
<1>2. CASE S = T
  BY <1>2
<1>3. CASE Cardinality(T) < Cardinality(S)
  <2>1. Cardinality(U) <= Cardinality(T)
    BY <1>1 DEF Since
  <2>2. Cardinality(U) < Cardinality(S)
    BY <1>1, <1>3, <2>1
  <2>3. S # U
    BY <1>1, <2>2
  <2> QED BY <2>2, <2>3 DEF Since
<1> QED BY <1>2, <1>3 DEF Since

\* The driver's steps that see the index, or judge what was seen.
LEMMA CellJudges ==
  ASSUME AnswersInv, FeedInv, StableInv, UNCHANGED <<index, feed>>,
         \/ Validated \/ ObserveBefore \/ CheckBefore \/ StartReplay \/ EndReplay
         \/ ObserveAfter \/ CheckAfter \/ Record \/ CellRaises
  PROVE  StableInv'
<1>0. DOMAIN cell = CellFields /\ IsFiniteSet(index.segs) /\ Pair(Observed(index))
      /\ Observed(index).segs = index.segs /\ Observed(index).merging = index.merging
  BY DEF AnswersInv, CellTyped, FeedInv, PartsInv, Parts, Pair, Observed
<1>1. feed'.pc = "done" /\ feed.pc = "done"
  BY DEF StableInv, Validated, ObserveBefore, CheckBefore, StartReplay, EndReplay,
         ObserveAfter, CheckAfter, Record, CellRaises, Step
<1>2. CASE cell'.pc \notin Watched \cup Accepted \cup {"after merges"}
  BY <1>1, <1>2 DEF StableInv, Watched, Accepted
<1> DEFINE same == cell'.args = cell.args /\ cell'.before = cell.before /\ cell'.after = cell.after
                   /\ cell'.ran = cell.ran
<1>12. "failed" \notin Watched \cup Accepted
  BY DEF Watched, Accepted
<1>14. Fail => cell'.pc = "failed"
  BY <1>0 DEF Fail, CellFields
<1>3. ASSUME Validated, cell'.pc \in Watched \cup Accepted PROVE StableInv'
  <2>1. \E to \in {"before", "start"} : cell' = [cell EXCEPT !.pc = to]
                                        /\ (to = "start" => ~cell.args.indexed)
    BY <1>3, <1>14, <1>12 DEF Validated, Step
  <2>2. cell'.args = cell.args /\ cell'.pc = "start" /\ ~cell.args.indexed
    BY <1>0, <1>3, <2>1 DEF CellFields, Watched, Accepted
  <2> QED BY <1>1, <2>2 DEF StableInv
<1>4. ASSUME ObserveBefore, cell'.pc \in Watched \cup Accepted PROVE StableInv'
  <2>1. cell' = [cell EXCEPT !.before = Observed(index), !.pc = "before merges"]
    BY <1>0, <1>4 DEF ObserveBefore, Fail, CellFields, Watched, Accepted
  <2>2. cell'.args = cell.args /\ cell'.pc = "before merges" /\ cell'.before = Observed(index)
    BY <1>0, <2>1 DEF CellFields
  <2> QED BY <1>0, <1>1, <2>2 DEF StableInv, Since, Watched, Accepted
<1>5. ASSUME CheckBefore, cell'.pc \in Watched \cup Accepted PROVE StableInv'
  <2>1. /\ cell.pc = "before merges" /\ cell' = [cell EXCEPT !.pc = "start"]
        /\ Quiescent(cell.before, index.merging # {}, cell.args.count)
        /\ cell.args.topology => IsTopology(Len(Tiers), cell.before, index.merging # {})
    BY <1>5, <1>12, <1>14 DEF CheckBefore, Step
  <2>2. /\ cell.before.merging = {}
        /\ cell.args.count # 0 => Cardinality(cell.before.segs) = cell.args.count
        /\ cell.args.topology => Shape(cell.before.segs) = Tiered(Len(Tiers))
    BY <2>1 DEF Quiescent, IsTopology
  <2>3. same /\ cell'.pc = "start"
    BY <1>0, <2>1 DEF CellFields
  <2> QED BY <1>1, <2>1, <2>2, <2>3 DEF StableInv, Watched
<1>6. ASSUME StartReplay PROVE StableInv'
  <2>1. /\ cell.pc = "start"
        /\ cell' = [cell EXCEPT !.pc = "replay", !.sampling = TRUE, !.ran = {Observed(index)}]
    BY <1>6 DEF StartReplay
  <2>2. /\ cell'.args = cell.args /\ cell'.before = cell.before /\ cell'.pc = "replay"
        /\ cell'.ran = {Observed(index)}
    BY <1>0, <2>1 DEF CellFields
  <2>3. Since(index.segs, index.segs)
    BY DEF Since
  <2> QED BY <1>0, <1>1, <2>1, <2>2, <2>3 DEF StableInv, Watched, Accepted
<1>7. ASSUME EndReplay, cell'.pc \in Watched \cup Accepted PROVE StableInv'
  <2>1. /\ cell.pc = "replay"
        /\ \E e : cell' = [cell EXCEPT !.sampling = FALSE, !.errors = e,
                             !.pc = IF cell.args.indexed THEN "after" ELSE "record"]
    BY <1>0, <1>7 DEF EndReplay, Fail, CellFields, Watched, Accepted
  <2>2. same /\ cell'.pc = IF cell.args.indexed THEN "after" ELSE "record"
    BY <1>0, <2>1 DEF CellFields
  <2> QED BY <1>1, <2>1, <2>2 DEF StableInv, Watched, Accepted
<1>8. ASSUME ObserveAfter, cell'.pc # "failed" PROVE StableInv'
  <2>1. /\ cell.pc = "after"
        /\ cell' = [cell EXCEPT !.after = Observed(index), !.pc = "after merges"]
    BY <1>0, <1>8 DEF ObserveAfter, Fail, CellFields
  <2>2. /\ cell'.args = cell.args /\ cell'.before = cell.before /\ cell'.ran = cell.ran
        /\ cell'.after = Observed(index) /\ cell'.pc = "after merges"
    BY <1>0, <2>1 DEF CellFields
  <2>3. ASSUME cell.args.indexed, cell.before = Observed(index) PROVE cell.ran = {cell.before}
    <3>1. /\ cell.before.merging = {} /\ cell.before.segs = index.segs
          /\ index.merging = {} /\ cell.ran # {} /\ Pair(cell.before)
      BY <1>0, <2>1, <2>3 DEF StableInv, Watched, Accepted
    <3>2. ASSUME NEW o \in cell.ran PROVE o = cell.before
      <4>1. /\ Pair(o) /\ IsFiniteSet(o.segs) /\ Since(cell.before.segs, o.segs)
            /\ Since(o.segs, index.segs)
            /\ o.segs = index.segs => o.merging \in {{}, index.merging}
        BY <2>1, <2>3 DEF StableInv
      <4>2. o.segs = index.segs
        BY <1>0, <3>1, <4>1, SinceIs
      <4> QED BY <3>1, <4>1, <4>2 DEF Pair
    <3> QED BY <3>1, <3>2
  <2>4. Accepted \cap {"after merges"} = {"after merges"} /\ "after merges" \notin Watched
    BY DEF Accepted, Watched
  <2> QED BY <1>1, <2>1, <2>2, <2>3 DEF StableInv, Watched, Accepted
<1>9. ASSUME CheckAfter PROVE StableInv'
  <2>1. PICK e : /\ cell.pc = "after merges"
                 /\ cell' = [cell EXCEPT !.pc = "record", !.errors = @ \cup e]
                 /\ cell.before # cell.after => "changed" \in e
    <3> DEFINE active == index.merging # {}
               e == {x \in {"changed", "count", "merges", "declared"} :
                       \/ x = "changed" /\ cell.before # cell.after
                       \/ x = "count" /\ cell.args.count \notin {0, Cardinality(cell.after.segs)}
                       \/ x = "merges" /\ active
                       \/ /\ x = "declared" /\ cell.args.topology
                          /\ ~IsTopology(Len(Tiers), cell.after, active)}
    <3>1. cell.pc = "after merges" /\ cell' = [cell EXCEPT !.pc = "record", !.errors = @ \cup e]
      BY <1>9 DEF CheckAfter
    <3>2. cell.before # cell.after => "changed" \in e
      OBVIOUS
    <3> HIDE DEF e
    <3> QED BY <3>1, <3>2
  <2>2. same /\ cell'.pc = "record" /\ cell'.errors = cell.errors \cup e
    BY <1>0, <2>1 DEF CellFields
  <2>3. cell'.errors = {} => cell.before = cell.after
    BY <2>1, <2>2
  <2> QED BY <1>1, <2>1, <2>2, <2>3 DEF StableInv, Watched, Accepted
<1>10. ASSUME Record, cell'.pc # "failed" PROVE StableInv'
  <2>1. /\ cell.pc = "record"
        /\ cell' = [cell EXCEPT !.pc = IF cell.errors = {} THEN "passed" ELSE "flawed"]
    BY <1>0, <1>10 DEF Record, Fail, CellFields
  <2>2. same /\ cell'.pc = (IF cell.errors = {} THEN "passed" ELSE "flawed")
        /\ cell'.errors = cell.errors
    BY <1>0, <2>1 DEF CellFields
  <2> QED BY <1>1, <2>1, <2>2 DEF StableInv, Watched, Accepted
<1>11. CellRaises => cell'.pc = "failed"
  BY <1>0 DEF CellRaises, Fail, CellFields
<1>13. cell'.pc \notin Watched \cup Accepted => StableInv'
  BY <1>1, <1>2 DEF StableInv, Watched, Accepted
<1> QED BY <1>3, <1>4, <1>5, <1>6, <1>7, <1>8, <1>9, <1>10, <1>11, <1>12, <1>13

\* The engine goes on under a cell: what was served is there or was merged away.
LEMMA CellServed ==
  ASSUME AnswersInv, SettingsInv, FeedInv, StableInv, MergeStarts \/ MergeEnds \/ Background
  PROVE  StableInv'
<1>1. /\ DOMAIN cell = CellFields /\ feed' = feed /\ cell' = Served(index')
      /\ IsFiniteSet(index.segs) /\ IsFiniteSet(index'.segs)
      /\ Since(index.segs, index'.segs)
      /\ index'.segs = index.segs => index.merging \in {{}, index'.merging}
  BY EngineActs DEF AnswersInv, CellTyped, FeedInv, PartsInv, Parts
<1>2. /\ cell'.args = cell.args /\ cell'.pc = cell.pc /\ cell'.before = cell.before
      /\ cell'.after = cell.after /\ cell'.errors = cell.errors
      /\ cell'.ran = IF cell.pc = "replay" THEN cell.ran \cup {Observed(index')} ELSE cell.ran
  BY <1>1 DEF Served, CellFields
<1>3. ASSUME NEW S, IsFiniteSet(S), Since(S, index.segs)
      PROVE  Since(S, index'.segs) /\ (S = index'.segs => index.segs = index'.segs)
  BY <1>1, <1>3, SinceIs
<1>4. ASSUME cell.args.indexed, cell.pc \in {"replay", "after"}, NEW o \in cell'.ran
      PROVE  /\ Pair(o) /\ IsFiniteSet(o.segs)
             /\ Since(cell.before.segs, o.segs) /\ Since(o.segs, index'.segs)
             /\ o.segs = index'.segs => o.merging \in {{}, index'.merging}
  <2>1. /\ IsFiniteSet(cell.before.segs) /\ Since(cell.before.segs, index.segs)
    BY <1>4 DEF StableInv, Watched
  <2>2. CASE o \in cell.ran
    <3>1. /\ Pair(o) /\ IsFiniteSet(o.segs)
          /\ Since(cell.before.segs, o.segs) /\ Since(o.segs, index.segs)
          /\ o.segs = index.segs => o.merging \in {{}, index.merging}
      BY <1>4, <2>2 DEF StableInv
    <3>2. /\ Since(o.segs, index'.segs)
          /\ o.segs = index'.segs => index.segs = index'.segs
      BY <1>3, <3>1
    <3> QED BY <1>1, <3>1, <3>2
  <2>3. CASE o = Observed(index')
    <3>1. Pair(o) /\ o.segs = index'.segs /\ o.merging = index'.merging
      BY <2>3 DEF Observed, Pair
    <3> QED BY <1>1, <1>3, <2>1, <3>1 DEF Since
  <2> QED BY <1>2, <2>2, <2>3
<1>5. ASSUME cell.args.indexed, cell.pc \in Watched
      PROVE  /\ Pair(cell.before) /\ IsFiniteSet(cell.before.segs)
             /\ Since(cell.before.segs, index'.segs)
  BY <1>3, <1>5 DEF StableInv
<1>6. cell.args.indexed /\ cell.pc \in {"replay", "after"} => cell'.ran # {}
  BY <1>2 DEF StableInv
<1> HIDE DEF Watched, Accepted
<1> QED BY <1>1, <1>2, <1>4, <1>5, <1>6 DEF StableInv

\* The first states, and every step.
LEMMA CellStarts == Init => StableInv
<1> SUFFICES ASSUME Init PROVE StableInv
  OBVIOUS
<1>1. cell.pc = "waiting"
  BY DEF Init, CellInit
<1> QED BY <1>1 DEF StableInv, Watched, Accepted

LEMMA CellGoes ==
  AnswersInv /\ SettingsInv /\ FeedInv /\ StableInv /\ [Next]_vars => StableInv'
<1> SUFFICES ASSUME AnswersInv, SettingsInv, FeedInv, StableInv, [Next]_vars PROVE StableInv'
  OBVIOUS
<1>0. DOMAIN cell = CellFields
  BY DEF AnswersInv, CellTyped
<1>1. CASE FeedNext \/ FeedFails \/ Timeout
  <2>1. cell' = cell
    BY <1>1 DEF FeedNext, FeedFails, Timeout, cellVars
  <2>2. feed.pc # "done"
    <3>1. CASE FeedNext
      BY <3>1 DEF FeedNext, FeedStep, Delete, Put, PutRefused, SendCorpus, SendRange,
                  RefreshRange, FlushRange, ForceRange, ReopenRange, ProbeSegments,
                  RangeProved, NothingMore, Restore, Publish, Optimize, FinalProved, Count,
                  SettleFlush, SettleRefresh, SettleMerges, StreamRange, Request
    <3>2. CASE FeedFails \/ Timeout
      BY <3>2 DEF FeedFails, Timeout, RequestFails, Asking, Guarded, Deadline
    <3> QED BY <1>1, <3>1, <3>2
  <2>3. cell.pc = "waiting"
    BY <2>2 DEF StableInv
  <2> QED BY <2>1, <2>3 DEF StableInv, Watched, Accepted
<1>2. CASE Begin
  <2>1. feed.pc = "done" /\ feed' = feed /\ cell' = [cell EXCEPT !.pc = "validate"]
    BY <1>2 DEF Begin, Step
  <2>2. cell'.pc = "validate"
    BY <1>0, <2>1 DEF CellFields
  <2> QED BY <2>1, <2>2 DEF StableInv, Watched, Accepted
<1>3. CASE CellNext \/ CellFails
  <2>1. UNCHANGED <<index, feed>>
    BY <1>3 DEF CellNext, CellFails
  <2>2. ASSUME BuildFails \/ \E w \in Worker : Send(w) PROVE StableInv'
    <3>1. cell.pc = "validate" /\ cell' = [cell EXCEPT !.next = @ + 1]
      BY <2>2 DEF BuildFails, Send
    <3>2. cell'.pc = "validate"
      BY <1>0, <3>1 DEF CellFields
    <3> QED BY <2>1, <3>1, <3>2 DEF StableInv, Watched, Accepted
  <2>3. ASSUME NEW w \in Worker, Answer(w) \/ Break(w) PROVE StableInv'
    <3>1. cell' = cell
      BY <2>3 DEF Answer, Break
    <3> QED BY <2>1, <3>1 DEF StableInv
  <2> QED BY <1>3, <2>1, <2>2, <2>3, CellJudges DEF CellNext, CellStep, CellFails
<1>4. CASE MergeStarts \/ MergeEnds \/ Background
  BY <1>4, CellServed
<1>5. CASE Stopped \/ UNCHANGED vars
  <2>1. UNCHANGED <<index, feed, cell>>
    BY <1>5 DEF Stopped, vars, cellVars
  <2> QED BY <2>1 DEF StableInv
<1> QED BY <1>1, <1>2, <1>3, <1>4, <1>5 DEF Next

\* A cell whose result has no error was served from the segments it declares from
\* the first probe to the second: merges only make segments fewer, so that two
\* probes alike leave nothing in between (driver.py's topology checks).
THEOREM CellWasStable == Spec => []CleanCellWasStable
<1>1. StableInv => CleanCellWasStable
  BY DEF StableInv, CleanCellWasStable, Accepted
<1>2. Spec => []AnswersInv
  BY AnswersInit, AnswersStep, PTL DEF Spec
<1>3. Spec => []StableInv
  BY <1>2, CellStarts, CellGoes, SettingsHold, FeedHolds, PTL DEF Spec
<1> QED BY <1>1, <1>3, PTL
=============================================================================
