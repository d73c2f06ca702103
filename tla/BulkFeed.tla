------------------------------ MODULE BulkFeed ------------------------------
(***************************************************************************)
(* python/feed_rest.py: send_chunks drains one generator of _bulk bodies   *)
(* (bulk_chunks_from_stream) over parallel client threads.  The generator, *)
(* the tallies and the first error are shared under one lock; requests and *)
(* flushes are made outside it.  Documents are numbered in the order of    *)
(* the corpus; blank lines are skipped and leave no trace.                 *)
(***************************************************************************)
EXTENDS Integers, FiniteSets

CONSTANTS
  Client,       \* the worker threads there may be
  Args          \* what send_chunks may be called with

NoLimit == -1
Limits == Nat \cup {NoLimit}

\* clients: those that run (one: worker() in the caller's thread); docs: what
\* the source holds; limit: document_limit; bad: its first record has no id.
\* main refuses --flush-every with several clients.
ASSUME ArgsAssumption ==
  /\ IsFiniteSet(Client)
  /\ Args \subseteq [clients : (SUBSET Client) \ {{}},
                     docs : Nat, limit : Limits, bad : BOOLEAN,
                     chunk : Nat \ {0}, flush_every : Nat]
  /\ \A a \in Args : a.flush_every > 0 => Cardinality(a.clients) = 1

VARIABLES
  args,
  taken,        \* total_docs of the generator
  gen,          \* the generator: "open", or "closed": it returned or raised
  error,        \* state["error"]
  batches, documents,                   \* state's tallies
  pc,           \* per client: where its worker is
  chunk,        \* per client: the documents of its chunk, until they are tallied
  cause,        \* per client: the exception it is about to record
  sent_since_flush,                     \* per client
  indexed,      \* per document: how often the engine has indexed it
  flushes,      \* flushes that have been answered
  flushed,      \* tallied documents at the last one
  outcome       \* of send_chunks: "running", "returned", "raised"

gen_vars == <<taken, gen>>
tallies  == <<batches, documents>>
engine   == <<indexed, flushes, flushed>>
vars == <<args, taken, gen, error, batches, documents, pc, chunk, cause,
          sent_since_flush, indexed, flushes, flushed, outcome>>

NoError == "none"
Minimum(a, b) == IF a < b THEN a ELSE b

Init ==
  /\ args \in Args
  /\ taken = 0 /\ gen = "open" /\ error = NoError
  /\ batches = 0 /\ documents = 0
  /\ pc = [c \in Client |-> IF c \in args.clients THEN "take" ELSE "idle"]
  /\ chunk = [c \in Client |-> {}]
  /\ cause = [c \in Client |-> NoError]
  /\ sent_since_flush = [c \in Client |-> 0]
  /\ indexed = [d \in 1 .. args.docs |-> 0] /\ flushes = 0 /\ flushed = 0
  /\ outcome = "running"

Goto(c, label) == pc' = [pc EXCEPT ![c] = label]
Raise(c, what) == Goto(c, "fail") /\ cause' = [cause EXCEPT ![c] = what]

-----------------------------------------------------------------------------
(* bulk_chunks_from_stream: what next(chunks) does.                        *)

\* Documents still wanted, and how many the next body would hold.
Wanted == IF args.limit = NoLimit THEN args.docs ELSE args.limit
Size == Minimum(args.chunk, Wanted - taken)
Short == taken + Size > args.docs       \* the source ends before the limit
Malformed == taken = 0 /\ args.bad /\ args.docs > 0 /\ Wanted > 0

GenEnds   == gen = "closed" \/ Wanted = taken
GenRaises == ~GenEnds /\ (Short \/ Malformed)
GenYields == ~GenEnds /\ ~Short /\ ~Malformed

-----------------------------------------------------------------------------
(* worker().                                                               *)

\* The first lock section: the flag, then the generator.
Take(c) ==
  /\ pc[c] = "take"
  /\ \/ error # NoError /\ Goto(c, "done") /\ UNCHANGED <<gen_vars, error, chunk>>
     \/ /\ error = NoError /\ GenYields
        /\ taken' = taken + Size /\ Goto(c, "send")
        /\ chunk' = [chunk EXCEPT ![c] = taken + 1 .. taken + Size]
        /\ UNCHANGED <<gen, error>>
     \/ /\ error = NoError /\ GenEnds
        /\ gen' = "closed" /\ Goto(c, "drain") /\ UNCHANGED <<taken, error, chunk>>
     \/ /\ error = NoError /\ GenRaises
        /\ gen' = "closed" /\ Goto(c, "done")
        /\ error' = "source" /\ UNCHANGED <<taken, chunk>>
  /\ UNCHANGED <<args, tallies, cause, sent_since_flush, engine, outcome>>

\* `docs` reach the engine.
Index(docs) == indexed' = [d \in DOMAIN indexed |-> indexed[d] + IF d \in docs THEN 1 ELSE 0]

\* A slip: a request that failed is taken for sent.
SendUnchecked(c) ==
  /\ pc[c] = "send"
  /\ \E docs \in SUBSET chunk[c] : Index(docs) /\ Goto(c, "tally")
  /\ UNCHANGED <<args, gen_vars, error, tallies, chunk, cause, sent_since_flush,
                 flushes, flushed, outcome>>

\* send_bulk: the answer says that all were indexed; or it reports failures,
\* is an HTTP error, is lost or is late, and any of them may be indexed.
Send(c) ==
  /\ pc[c] = "send"
  /\ \/ Index(chunk[c]) /\ Goto(c, "tally") /\ UNCHANGED cause
     \/ \E docs \in SUBSET chunk[c] : Index(docs) /\ Raise(c, "send")
  /\ UNCHANGED <<args, gen_vars, error, tallies, chunk, sent_since_flush,
                 flushes, flushed, outcome>>

\* A slip: a client that failed goes on with the next chunk.
FailAndGoOn(c) ==
  /\ pc[c] = "fail" /\ Goto(c, "take")
  /\ UNCHANGED error
  /\ UNCHANGED <<args, gen_vars, tallies, chunk, cause, sent_since_flush, engine, outcome>>

\* except: the first error is kept.
Fail(c) ==
  /\ pc[c] = "fail" /\ Goto(c, "done")
  /\ error' = IF error = NoError THEN cause[c] ELSE error
  /\ UNCHANGED <<args, gen_vars, tallies, chunk, cause, sent_since_flush, engine, outcome>>

\* The second lock section, and the client's own count.
Tally(c) ==
  /\ pc[c] = "tally"
  /\ batches' = batches + 1 /\ documents' = documents + Cardinality(chunk[c])
  /\ chunk' = [chunk EXCEPT ![c] = {}]
  /\ IF args.flush_every = 0
     THEN Goto(c, "take") /\ UNCHANGED sent_since_flush
     ELSE /\ sent_since_flush' = [sent_since_flush EXCEPT ![c] = @ + Cardinality(chunk[c])]
          /\ Goto(c, IF sent_since_flush'[c] >= args.flush_every THEN "flush" ELSE "take")
  /\ UNCHANGED <<args, gen_vars, error, cause, engine, outcome>>

\* A slip: the remainder is dropped.
FlushResetting(c) ==
  /\ pc[c] = "flush"
  /\ flushes' = flushes + 1 /\ flushed' = documents /\ Goto(c, "take")
  /\ sent_since_flush' = [sent_since_flush EXCEPT ![c] = 0]
  /\ UNCHANGED <<args, gen_vars, error, tallies, chunk, cause, indexed, outcome>>

\* flush(): one per chunk at most; the remainder is carried over.
Flush(c) ==
  /\ pc[c] = "flush"
  /\ \/ /\ flushes' = flushes + 1 /\ flushed' = documents /\ Goto(c, "take")
        /\ sent_since_flush' = [sent_since_flush EXCEPT ![c] = @ - args.flush_every]
        /\ UNCHANGED cause
     \/ Raise(c, "flush") /\ UNCHANGED <<flushes, flushed, sent_since_flush>>
  /\ UNCHANGED <<args, gen_vars, error, tallies, chunk, indexed, outcome>>

\* A slip: a client without a chunk asks for one again.
DrainContinues(c) ==
  /\ pc[c] = "drain" /\ Goto(c, "take")
  /\ UNCHANGED <<args, gen_vars, error, tallies, chunk, cause, sent_since_flush, engine, outcome>>

\* The generator is exhausted: the last flush.
Drain(c) ==
  /\ pc[c] = "drain"
  /\ \/ /\ args.flush_every = 0 \/ sent_since_flush[c] = 0
        /\ Goto(c, "done") /\ UNCHANGED <<cause, flushes, flushed>>
     \/ /\ args.flush_every > 0 /\ sent_since_flush[c] > 0
        /\ \/ /\ flushes' = flushes + 1 /\ flushed' = documents /\ Goto(c, "done")
              /\ UNCHANGED cause
           \/ Raise(c, "flush") /\ UNCHANGED <<flushes, flushed>>
  /\ UNCHANGED <<args, gen_vars, error, tallies, chunk, sent_since_flush, indexed, outcome>>

Worker(c) ==
  Take(c) \/ Send(c) \/ Fail(c) \/ Tally(c) \/ Flush(c) \/ Drain(c)

\* send_chunks joins the threads, then raises the error or returns state.
Join ==
  /\ outcome = "running" /\ \A c \in args.clients : pc[c] = "done"
  /\ outcome' = IF error = NoError THEN "returned" ELSE "raised"
  /\ UNCHANGED <<args, gen_vars, error, tallies, pc, chunk, cause, sent_since_flush, engine>>

Finish == outcome # "running" /\ UNCHANGED vars

Next == Join \/ Finish \/ \E c \in Client : Worker(c)

\* Threads run, and requests are answered or time out.
Spec == Init /\ [][Next]_vars
FairSpec == Spec /\ WF_vars(Join) /\ \A c \in Client : WF_vars(Worker(c))

-----------------------------------------------------------------------------
(* Properties.                                                             *)

Labels == {"idle", "take", "send", "fail", "tally", "flush", "drain", "done"}
Errors == {NoError, "source", "send", "flush"}

\* The shared state and each client's keep their types.
TypeOK ==
  /\ args \in Args
  /\ taken \in Nat /\ gen \in {"open", "closed"} /\ error \in Errors
  /\ batches \in Nat /\ documents \in Nat
  /\ pc \in [Client -> Labels] /\ chunk \in [Client -> SUBSET (1 .. args.docs)]
  /\ cause \in [Client -> Errors]
  /\ sent_since_flush \in [Client -> Nat]
  /\ indexed \in [1 .. args.docs -> Nat] /\ flushes \in Nat /\ flushed \in Nat
  /\ outcome \in {"running", "returned", "raised"}

\* When send_chunks returns, the engine has every document that was wanted,
\* once, whatever clients shared the work and however they were interleaved,
\* the source was neither short nor malformed, and the tally of documents,
\* which feed_topology compares with the declared range, counts all of them.
FeedIsWhole ==
  outcome = "returned" =>
    /\ Wanted <= args.docs /\ documents = Wanted
    /\ \A d \in 1 .. args.docs : indexed[d] = IF d <= Wanted THEN 1 ELSE 0

\* No document is ever indexed twice, on any path: a feed is append-only, with
\* ids the engine makes, so a body that is sent again is a duplicate.
NeverTwice == \A d \in 1 .. args.docs : indexed[d] <= 1

\* A feed that fails leaves at most one chunk per client unaccounted for.
LossBounded == taken - documents <= Cardinality(args.clients) * args.chunk

\* Between chunks, the flushes made are the whole ranges of flush_every
\* documents sent so far, when chunks are not larger than those; and a feed
\* that succeeds leaves no document unflushed, whatever the sizes.
FlushesKeepUp ==
  args.flush_every > 0 =>
    /\ \A c \in Client : pc[c] = "take" /\ args.chunk <= args.flush_every
         => flushes = documents \div args.flush_every
    /\ outcome = "returned" => flushed = documents

\* send_chunks returns or raises.
FeedEnds == <>(outcome # "running")
=============================================================================
