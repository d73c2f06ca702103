--------------------------- MODULE BulkFeedProofs ---------------------------
(***************************************************************************)
(* Proofs about BulkFeed, for any clients and any source: types; that a    *)
(* document is never indexed twice; that a feed which returns has indexed  *)
(* every document that was wanted and counts them all; that one which      *)
(* fails leaves at most a chunk per client uncounted; that flushes keep up *)
(* with the documents sent.                                                *)
(***************************************************************************)
EXTENDS BulkFeed, FiniteSetTheorems, TLAPS

InHand == UNION {chunk[c] : c \in Client}

\* Chunks in hand are distinct documents the generator has given out; they
\* leave the hands of a client when they are tallied, or never.
ChunksApart ==
  /\ \A c \in Client : chunk[c] \subseteq 1 .. taken
  /\ \A c, e \in Client : c # e => chunk[c] \cap chunk[e] = {}
  /\ \A c \in Client : pc[c] \in {"idle", "take", "flush", "drain"} => chunk[c] = {}

\* What is not given out or not sent is not indexed; what is neither in hand
\* nor lost is indexed.
IndexedOnce ==
  /\ taken <= args.docs /\ taken <= Wanted
  /\ \A d \in 1 .. args.docs : indexed[d] <= 1 /\ (d > taken => indexed[d] = 0)
  /\ \A c \in Client : pc[c] = "send" => \A d \in chunk[c] : indexed[d] = 0
  /\ \A c \in Client : pc[c] = "tally" => \A d \in chunk[c] : indexed[d] = 1
  /\ \A d \in 1 .. taken : indexed[d] = 1 \/ d \in InHand

\* Without an error, a client that is done found the source exhausted.
Exhausted ==
  /\ gen = "closed" /\ error = NoError => taken = Wanted
  /\ \A c \in Client : pc[c] = "drain" => gen = "closed" \/ error # NoError
  /\ \A c \in Client : pc[c] = "fail" => cause[c] # NoError
  /\ \A c \in Client : pc[c] = "done" /\ error = NoError => chunk[c] = {} /\ gen = "closed"
  /\ \A c \in Client : pc[c] = "idle" <=> c \notin args.clients
  /\ outcome # "running" => \A c \in args.clients : pc[c] = "done"
  /\ outcome = "returned" => error = NoError

\* Every document given out is tallied or in hand.
Tallied == documents + Cardinality(InHand) = taken

\* A flush is made when flush_every documents are due.
FlushDue == \A c \in Client : pc[c] = "flush" => sent_since_flush[c] >= args.flush_every

IInv == TypeOK /\ ChunksApart /\ IndexedOnce /\ Exhausted /\ Tallied /\ FlushDue

-----------------------------------------------------------------------------
\* The fields of the arguments.
LEMMA ArgsFacts ==
  ASSUME args \in Args
  PROVE  /\ args.clients \in (SUBSET Client) \ {{}}
         /\ args.docs \in Nat /\ args.limit \in Limits /\ args.bad \in BOOLEAN
         /\ args.chunk \in Nat \ {0} /\ args.flush_every \in Nat
         /\ Wanted \in Nat
BY ArgsAssumption DEF Wanted, Limits, NoLimit

\* What is in the hands of the clients is finite.
LEMMA InHandFinite ==
  ASSUME TypeOK
  PROVE  /\ IsFiniteSet(InHand) /\ Cardinality(InHand) \in Nat
         /\ \A c \in Client : IsFiniteSet(chunk[c]) /\ Cardinality(chunk[c]) \in Nat
<1>0. args.docs \in Int
  BY ArgsFacts DEF TypeOK
<1>1. IsFiniteSet(1 .. args.docs)
  BY <1>0, FS_Interval
<1>2. InHand \subseteq 1 .. args.docs /\ \A c \in Client : chunk[c] \subseteq 1 .. args.docs
  BY DEF TypeOK, InHand
<1> QED
  BY <1>1, <1>2, FS_Subset, FS_CardinalityType

\* Steps that move one client between labels, none of them "send" or "tally"
\* and no chunk with it, keep what relates documents and chunks.
LEMMA SameChunks ==
  ASSUME ChunksApart, IndexedOnce, Tallied, TypeOK,
         NEW c \in Client, NEW label, pc' = [pc EXCEPT ![c] = label],
         label \notin {"send", "tally"},
         label \in {"idle", "take", "flush", "drain"} => chunk[c] = {},
         UNCHANGED <<args, taken, chunk, indexed, documents>>
  PROVE  ChunksApart' /\ IndexedOnce' /\ Tallied'
<1>1. ChunksApart'
  BY DEF ChunksApart, TypeOK
<1>2. InHand' = InHand /\ Wanted' = Wanted
  BY DEF InHand, Wanted
<1>3. IndexedOnce'
  BY <1>2 DEF IndexedOnce, TypeOK
<1>4. Tallied'
  BY <1>2 DEF Tallied
<1> QED
  BY <1>1, <1>3, <1>4

LEMMA InitKeeps ==
  ASSUME Init
  PROVE  IInv
<1>1. args \in Args
  BY DEF Init
<1>2. TypeOK
  BY <1>1, ArgsFacts DEF Init, TypeOK, Labels, Errors, NoError
<1>3. InHand = {}
  BY DEF Init, InHand
<1>4. ChunksApart
  BY DEF Init, ChunksApart
<1>5. IndexedOnce
  BY <1>1, ArgsFacts DEF Init, IndexedOnce
<1>6. Exhausted
  BY DEF Init, Exhausted
<1>7. Tallied
  BY <1>3, FS_EmptySet DEF Init, Tallied
<1>8. FlushDue
  BY DEF Init, FlushDue
<1> QED
  BY <1>2, <1>4, <1>5, <1>6, <1>7, <1>8 DEF IInv

-----------------------------------------------------------------------------
\* The next body is handed out whole.
LEMMA YieldKeeps ==
  ASSUME IInv, NEW c \in Client, Take(c), error = NoError, GenYields,
         taken' = taken + Size, Goto(c, "send"),
         chunk' = [chunk EXCEPT ![c] = taken + 1 .. taken + Size],
         UNCHANGED <<gen, error>>
  PROVE  IInv'
<1>0. /\ args \in Args /\ taken \in Nat /\ documents \in Nat /\ Wanted \in Nat
      /\ args.docs \in Nat /\ args.chunk \in Nat \ {0}
      /\ taken <= Wanted /\ taken # Wanted
      /\ pc[c] = "take" /\ chunk[c] = {}
  BY ArgsFacts DEF IInv, TypeOK, IndexedOnce, GenYields, GenEnds, Take, ChunksApart
<1>1. Size \in Nat \ {0} /\ taken + Size <= Wanted /\ taken + Size <= args.docs
  BY <1>0 DEF Size, Minimum, GenYields, Short
<1>2. UNCHANGED <<args, documents, batches, cause, sent_since_flush, indexed, flushes, flushed, outcome>>
  BY DEF Take, tallies, engine
<1>3. Wanted' = Wanted
  BY <1>2 DEF Wanted
<1> DEFINE body == taken + 1 .. taken + Size
<1>4. body \subseteq 1 .. args.docs /\ body \subseteq 1 .. taken' /\ body \cap 1 .. taken = {}
  BY <1>0, <1>1
<1>5. pc' = [pc EXCEPT ![c] = "send"] /\ chunk' = [chunk EXCEPT ![c] = body]
  BY DEF Goto
<1> HIDE DEF body
<1>6. TypeOK'
  BY <1>0, <1>1, <1>2, <1>4, <1>5 DEF IInv, TypeOK, Labels
<1>7. ChunksApart'
  <2>1. \A e \in Client : e # c => chunk[e] \subseteq 1 .. taken /\ chunk'[e] = chunk[e]
    BY <1>5 DEF IInv, TypeOK, ChunksApart
  <2>2. chunk'[c] = body
    BY <1>5 DEF IInv, TypeOK
  <2>3. 1 .. taken \subseteq 1 .. taken'
    BY <1>0, <1>1
  <2>4. \A e \in Client : chunk'[e] \subseteq 1 .. taken'
    BY <2>1, <2>2, <2>3, <1>4
  <2>5. \A e, f \in Client : e # f => chunk'[e] \cap chunk'[f] = {}
    BY <2>1, <2>2, <1>4 DEF IInv, ChunksApart
  <2>6. \A e \in Client : pc'[e] \in {"idle", "take", "flush", "drain"} => chunk'[e] = {}
    BY <2>1, <1>5 DEF IInv, TypeOK, ChunksApart
  <2> QED
    BY <2>4, <2>5, <2>6 DEF ChunksApart
<1>8. InHand' = InHand \cup body
  BY <1>0, <1>5 DEF InHand, IInv, TypeOK
<1>9. IndexedOnce'
  <2>1. taken' <= args'.docs /\ taken' <= Wanted'
    BY <1>1, <1>2, <1>3
  <2>2. \A d \in 1 .. args'.docs : indexed'[d] <= 1 /\ (d > taken' => indexed'[d] = 0)
    BY <1>0, <1>1, <1>2 DEF IInv, IndexedOnce
  <2>3. \A d \in body : indexed[d] = 0
    BY <1>0, <1>1, <1>4 DEF IInv, IndexedOnce, body
  <2>4. \A e \in Client : pc'[e] = "send" => \A d \in chunk'[e] : indexed'[d] = 0
    BY <2>3, <1>2, <1>5 DEF IInv, TypeOK, IndexedOnce
  <2>5. \A e \in Client : pc'[e] = "tally" => \A d \in chunk'[e] : indexed'[d] = 1
    BY <1>2, <1>5 DEF IInv, TypeOK, IndexedOnce
  <2>6. \A d \in 1 .. taken' : d \in 1 .. taken \/ d \in body
    BY <1>0, <1>1 DEF body
  <2>7. \A d \in 1 .. taken' : indexed'[d] = 1 \/ d \in InHand'
    BY <2>6, <1>2, <1>8 DEF IInv, IndexedOnce
  <2> QED
    BY <2>1, <2>2, <2>4, <2>5, <2>7 DEF IndexedOnce
<1>10. Exhausted'
  BY <1>0, <1>2, <1>3, <1>5 DEF IInv, TypeOK, Exhausted, GenYields, GenEnds, NoError
<1>11. Tallied'
  <2> DEFINE lo == taken + 1
             hi == taken + Size
  <2>0. lo \in Int /\ hi \in Int /\ lo <= hi /\ hi - lo + 1 = Size
    BY <1>0, <1>1
  <2>a. body = lo .. hi
    BY DEF body
  <2> HIDE DEF lo, hi
  <2>b. IsFiniteSet(lo .. hi) /\ Cardinality(lo .. hi) = IF lo > hi THEN 0 ELSE hi - lo + 1
    BY <2>0, FS_Interval
  <2>1. IsFiniteSet(body) /\ Cardinality(body) = Size
    BY <2>0, <2>a, <2>b
  <2>2. InHand \cap body = {}
    BY <1>4 DEF IInv, ChunksApart, InHand
  <2>c. IsFiniteSet(InHand) /\ Cardinality(InHand) \in Nat
    BY InHandFinite DEF IInv
  <2>d. Cardinality(InHand \cup body) = Cardinality(InHand) + Cardinality(body) - Cardinality({})
    BY <2>1, <2>2, <2>c, FS_Union
  <2>3. Cardinality(InHand') = Cardinality(InHand) + Size
    BY <1>1, <1>8, <2>1, <2>c, <2>d, FS_EmptySet
  <2> QED
    BY <2>3, <1>0, <1>1, <1>2, InHandFinite DEF IInv, Tallied
<1>12. FlushDue'
  BY <1>2, <1>5 DEF IInv, TypeOK, FlushDue
<1> QED
  BY <1>6, <1>7, <1>9, <1>10, <1>11, <1>12 DEF IInv

\* The first lock section.
LEMMA TakeKeeps ==
  ASSUME IInv, NEW c \in Client, Take(c)
  PROVE  IInv'
<1>0. /\ pc[c] = "take" /\ chunk[c] = {} /\ pc \in [Client -> Labels]
      /\ UNCHANGED <<args, documents, batches, cause, sent_since_flush, indexed,
                     flushes, flushed, outcome>>
  BY DEF Take, tallies, engine, IInv, ChunksApart, TypeOK
<1>1. CASE error # NoError /\ Goto(c, "done") /\ UNCHANGED <<gen_vars, error, chunk>>
  <2>1. pc' = [pc EXCEPT ![c] = "done"] /\ UNCHANGED <<taken, gen, error, chunk>>
    BY <1>1 DEF Goto, gen_vars
  <2>2. ChunksApart' /\ IndexedOnce' /\ Tallied'
    BY <2>1, <1>0, SameChunks DEF IInv
  <2>3. TypeOK'
    BY <2>1, <1>0 DEF IInv, TypeOK, Labels
  <2>4. Exhausted' /\ FlushDue'
    BY <2>1, <1>0, <1>1 DEF IInv, Exhausted, FlushDue, Wanted
  <2> QED
    BY <2>2, <2>3, <2>4 DEF IInv
<1>2. CASE /\ error = NoError /\ GenYields
           /\ taken' = taken + Size /\ Goto(c, "send")
           /\ chunk' = [chunk EXCEPT ![c] = taken + 1 .. taken + Size]
           /\ UNCHANGED <<gen, error>>
  BY <1>2, YieldKeeps
<1>3. CASE /\ error = NoError /\ GenEnds
           /\ gen' = "closed" /\ Goto(c, "drain") /\ UNCHANGED <<taken, error, chunk>>
  <2>1. pc' = [pc EXCEPT ![c] = "drain"] /\ UNCHANGED <<taken, error, chunk>>
    BY <1>3 DEF Goto
  <2>2. ChunksApart' /\ IndexedOnce' /\ Tallied'
    BY <2>1, <1>0, SameChunks DEF IInv
  <2>3. TypeOK'
    BY <2>1, <1>0, <1>3 DEF IInv, TypeOK, Labels
  <2>4. Exhausted' /\ FlushDue'
    BY <2>1, <1>0, <1>3 DEF IInv, Exhausted, FlushDue, Wanted, GenEnds
  <2> QED
    BY <2>2, <2>3, <2>4 DEF IInv
<1>4. CASE /\ error = NoError /\ GenRaises
           /\ gen' = "closed" /\ Goto(c, "done")
           /\ error' = "source" /\ UNCHANGED <<taken, chunk>>
  <2>1. pc' = [pc EXCEPT ![c] = "done"] /\ UNCHANGED <<taken, chunk>>
    BY <1>4 DEF Goto
  <2>2. ChunksApart' /\ IndexedOnce' /\ Tallied'
    BY <2>1, <1>0, SameChunks DEF IInv
  <2>3. TypeOK'
    BY <2>1, <1>0, <1>4 DEF IInv, TypeOK, Labels, Errors
  <2>4. outcome = "running"
    BY <1>0 DEF IInv, Exhausted
  <2>5. Exhausted' /\ FlushDue'
    BY <2>1, <2>4, <1>0, <1>4 DEF IInv, Exhausted, FlushDue, NoError
  <2> QED
    BY <2>2, <2>3, <2>5 DEF IInv
<1> QED
  BY <1>1, <1>2, <1>3, <1>4 DEF Take

-----------------------------------------------------------------------------
\* Indexing documents of a chunk that has not been sent.
LEMMA IndexOnce ==
  ASSUME IInv, NEW c \in Client, pc[c] = "send", NEW docs \in SUBSET chunk[c], Index(docs)
  PROVE  /\ indexed' \in [1 .. args.docs -> Nat]
         /\ \A d \in 1 .. args.docs : d \in docs => indexed'[d] = 1
         /\ \A d \in 1 .. args.docs : d \notin docs => indexed'[d] = indexed[d]
<1>1. \A d \in docs : indexed[d] = 0
  BY DEF IInv, IndexedOnce
<1>2. indexed \in [1 .. args.docs -> Nat]
  BY DEF IInv, TypeOK
<1> QED
  BY <1>1, <1>2 DEF Index

\* send_bulk, answered or failed.
LEMMA SendKeeps ==
  ASSUME IInv, NEW c \in Client, Send(c)
  PROVE  IInv'
<1>0. /\ pc[c] = "send" /\ pc \in [Client -> Labels] /\ chunk[c] \subseteq 1 .. taken
      /\ args \in Args /\ taken \in Nat /\ args.docs \in Nat /\ taken <= args.docs
      /\ UNCHANGED <<args, taken, gen, error, batches, documents, chunk,
                     sent_since_flush, flushes, flushed, outcome>>
  BY ArgsFacts DEF Send, gen_vars, tallies, IInv, TypeOK, ChunksApart, IndexedOnce
<1>1. PICK docs \in SUBSET chunk[c], label \in {"tally", "fail"} :
         /\ Index(docs) /\ pc' = [pc EXCEPT ![c] = label]
         /\ label = "tally" => docs = chunk[c] /\ UNCHANGED cause
         /\ label = "fail" => cause' = [cause EXCEPT ![c] = "send"]
  BY DEF Send, Raise, Goto
<1>2. /\ indexed' \in [1 .. args.docs -> Nat]
      /\ \A d \in 1 .. args.docs : d \in docs => indexed'[d] = 1
      /\ \A d \in 1 .. args.docs : d \notin docs => indexed'[d] = indexed[d]
  BY <1>0, <1>1, IndexOnce
<1>3. TypeOK'
  BY <1>0, <1>1, <1>2 DEF IInv, TypeOK, Labels, Errors
<1>4. ChunksApart'
  BY <1>0, <1>1 DEF IInv, ChunksApart
<1>5. InHand' = InHand /\ Wanted' = Wanted
  BY <1>0 DEF InHand, Wanted
<1>6. IndexedOnce'
  <2>1. \A e \in Client : \A d \in chunk[e] : d \in 1 .. args.docs /\ (e # c => d \notin docs)
    BY <1>0, <1>1 DEF IInv, ChunksApart
  <2>2. \A d \in 1 .. args.docs : indexed'[d] <= 1 /\ (d > taken => indexed'[d] = 0)
    BY <1>0, <1>1, <1>2 DEF IInv, IndexedOnce
  <2>3. \A e \in Client : pc'[e] = "send" => \A d \in chunk[e] : indexed'[d] = 0
    BY <1>0, <1>1, <1>2, <2>1 DEF IInv, IndexedOnce
  <2>4. \A e \in Client : pc'[e] = "tally" => \A d \in chunk[e] : indexed'[d] = 1
    BY <1>0, <1>1, <1>2, <2>1 DEF IInv, IndexedOnce
  <2>5. \A d \in 1 .. taken : indexed'[d] = 1 \/ d \in InHand
    BY <1>0, <1>2 DEF IInv, IndexedOnce
  <2> QED
    BY <2>2, <2>3, <2>4, <2>5, <1>0, <1>5 DEF IInv, IndexedOnce
<1>7. Exhausted'
  BY <1>0, <1>1, <1>5 DEF IInv, TypeOK, Exhausted, NoError
<1>8. Tallied' /\ FlushDue'
  BY <1>0, <1>1, <1>5 DEF IInv, Tallied, FlushDue
<1> QED
  BY <1>3, <1>4, <1>6, <1>7, <1>8 DEF IInv

\* An exception is recorded.
LEMMA FailKeeps ==
  ASSUME IInv, NEW c \in Client, Fail(c)
  PROVE  IInv'
<1>1. /\ pc[c] = "fail" /\ pc' = [pc EXCEPT ![c] = "done"] /\ pc \in [Client -> Labels]
      /\ error' = IF error = NoError THEN cause[c] ELSE error
      /\ UNCHANGED <<args, taken, gen, batches, documents, chunk, cause, sent_since_flush,
                     indexed, flushes, flushed, outcome>>
  BY DEF Fail, Goto, gen_vars, tallies, engine, IInv, TypeOK
<1>2. ChunksApart' /\ IndexedOnce' /\ Tallied'
  BY <1>1, SameChunks DEF IInv
<1>3. error' # NoError /\ TypeOK'
  BY <1>1 DEF IInv, TypeOK, Labels, Exhausted
<1>4. outcome = "running"
  BY <1>1 DEF IInv, TypeOK, Exhausted
<1>5. Exhausted' /\ FlushDue'
  BY <1>1, <1>3, <1>4 DEF IInv, Exhausted, FlushDue
<1> QED
  BY <1>2, <1>3, <1>5 DEF IInv

\* The second lock section: the chunk leaves the client's hands.
LEMMA TallyKeeps ==
  ASSUME IInv, NEW c \in Client, Tally(c)
  PROVE  IInv'
<1>0. /\ pc[c] = "tally" /\ pc \in [Client -> Labels] /\ args \in Args
      /\ batches' = batches + 1 /\ documents' = documents + Cardinality(chunk[c])
      /\ chunk' = [chunk EXCEPT ![c] = {}]
      /\ UNCHANGED <<args, taken, gen, error, cause, indexed, flushes, flushed, outcome>>
  BY DEF Tally, gen_vars, engine, IInv, TypeOK
<1>1. PICK label \in {"take", "flush"} : pc' = [pc EXCEPT ![c] = label]
  BY DEF Tally, Goto
<1>2. /\ IsFiniteSet(chunk[c]) /\ Cardinality(chunk[c]) \in Nat /\ documents \in Nat
      /\ args.flush_every \in Nat
  BY InHandFinite, <1>0, ArgsFacts DEF IInv, TypeOK
<1>3. sent_since_flush' \in [Client -> Nat] /\ FlushDue'
  <2>1. CASE args.flush_every = 0
    BY <2>1, <1>0 DEF Tally, Goto, IInv, TypeOK, FlushDue
  <2>2. CASE args.flush_every # 0
    BY <2>2, <1>0, <1>2 DEF Tally, Goto, IInv, TypeOK, FlushDue
  <2> QED
    BY <2>1, <2>2
<1>4. TypeOK'
  <2>1. batches' \in Nat /\ documents' \in Nat
    BY <1>0, <1>2 DEF IInv, TypeOK
  <2>2. chunk' \in [Client -> SUBSET (1 .. args.docs)] /\ pc' \in [Client -> Labels]
    BY <1>0, <1>1 DEF IInv, TypeOK, Labels
  <2> QED
    BY <2>1, <2>2, <1>0, <1>3 DEF IInv, TypeOK
<1>5. ChunksApart'
  BY <1>0, <1>1 DEF IInv, TypeOK, ChunksApart
<1>6. InHand = InHand' \cup chunk[c] /\ InHand' \cap chunk[c] = {} /\ Wanted' = Wanted
  BY <1>0 DEF IInv, TypeOK, ChunksApart, InHand, Wanted
<1>7. IndexedOnce'
  <2>1. \A e \in Client : pc'[e] \in {"send", "tally"} => e # c /\ pc[e] = pc'[e] /\ chunk'[e] = chunk[e]
    BY <1>0, <1>1 DEF IInv, TypeOK
  <2>2. \A d \in chunk[c] : indexed[d] = 1
    BY <1>0 DEF IInv, IndexedOnce
  <2>3. \A d \in 1 .. taken : indexed[d] = 1 \/ d \in InHand'
    BY <1>6, <2>2 DEF IInv, IndexedOnce
  <2> QED
    BY <2>1, <2>3, <1>0, <1>6 DEF IInv, IndexedOnce
<1>8. Exhausted'
  BY <1>0, <1>1, <1>6 DEF IInv, TypeOK, Exhausted
<1>9. Tallied'
  <2>1. InHand' \subseteq InHand
    BY <1>6
  <2>2. IsFiniteSet(InHand') /\ Cardinality(InHand') \in Nat
    BY <2>1, InHandFinite, FS_Subset, FS_CardinalityType DEF IInv
  <2>a. Cardinality(InHand' \cup chunk[c])
          = Cardinality(InHand') + Cardinality(chunk[c]) - Cardinality(InHand' \cap chunk[c])
    BY <1>2, <2>2, FS_Union
  <2>b. Cardinality(InHand' \cup chunk[c]) = Cardinality(InHand)
    BY <1>6
  <2>c. Cardinality(InHand' \cap chunk[c]) = 0
    BY <1>6, FS_EmptySet
  <2>3. Cardinality(InHand) = Cardinality(InHand') + Cardinality(chunk[c])
    BY <1>2, <2>2, <2>a, <2>b, <2>c
  <2> QED
    BY <2>2, <2>3, <1>0, <1>2 DEF IInv, Tallied
<1> QED
  BY <1>3, <1>4, <1>5, <1>7, <1>8, <1>9 DEF IInv

\* A flush within the feed.
LEMMA FlushKeeps ==
  ASSUME IInv, NEW c \in Client, Flush(c)
  PROVE  IInv'
<1>0. /\ pc[c] = "flush" /\ chunk[c] = {} /\ pc \in [Client -> Labels]
      /\ args \in Args /\ args.flush_every \in Nat
      /\ UNCHANGED <<args, taken, gen, error, batches, documents, chunk, indexed, outcome>>
  BY ArgsFacts DEF Flush, gen_vars, tallies, IInv, TypeOK, ChunksApart
<1>1. CASE /\ flushes' = flushes + 1 /\ flushed' = documents /\ Goto(c, "take")
           /\ sent_since_flush' = [sent_since_flush EXCEPT ![c] = @ - args.flush_every]
           /\ UNCHANGED cause
  <2>1. pc' = [pc EXCEPT ![c] = "take"]
    BY <1>1 DEF Goto
  <2>2. ChunksApart' /\ IndexedOnce' /\ Tallied'
    BY <2>1, <1>0, SameChunks DEF IInv
  <2>3. sent_since_flush[c] >= args.flush_every /\ sent_since_flush[c] \in Nat
    BY <1>0 DEF IInv, TypeOK, FlushDue
  <2>4. TypeOK'
    BY <2>1, <2>3, <1>0, <1>1 DEF IInv, TypeOK, Labels
  <2>5. Exhausted' /\ FlushDue'
    BY <2>1, <1>0, <1>1 DEF IInv, TypeOK, Exhausted, FlushDue, Wanted
  <2> QED
    BY <2>2, <2>4, <2>5 DEF IInv
<1>2. CASE Raise(c, "flush") /\ UNCHANGED <<flushes, flushed, sent_since_flush>>
  <2>1. pc' = [pc EXCEPT ![c] = "fail"] /\ cause' = [cause EXCEPT ![c] = "flush"]
    BY <1>2 DEF Raise, Goto
  <2>2. ChunksApart' /\ IndexedOnce' /\ Tallied'
    BY <2>1, <1>0, SameChunks DEF IInv
  <2>3. TypeOK'
    BY <2>1, <1>0, <1>2 DEF IInv, TypeOK, Labels, Errors
  <2>4. Exhausted' /\ FlushDue'
    BY <2>1, <1>0, <1>2 DEF IInv, TypeOK, Exhausted, FlushDue, Wanted, NoError
  <2> QED
    BY <2>2, <2>3, <2>4 DEF IInv
<1> QED
  BY <1>1, <1>2 DEF Flush

\* The last flush.
LEMMA DrainKeeps ==
  ASSUME IInv, NEW c \in Client, Drain(c)
  PROVE  IInv'
<1>0. /\ pc[c] = "drain" /\ chunk[c] = {} /\ pc \in [Client -> Labels]
      /\ UNCHANGED <<args, taken, gen, error, batches, documents, chunk, sent_since_flush,
                     indexed, outcome>>
  BY DEF Drain, gen_vars, tallies, IInv, TypeOK, ChunksApart
<1>1. PICK label \in {"done", "fail"} :
         /\ pc' = [pc EXCEPT ![c] = label]
         /\ label = "done" => UNCHANGED cause
         /\ label = "fail" => cause' = [cause EXCEPT ![c] = "flush"]
  BY DEF Drain, Raise, Goto
<1>2. ChunksApart' /\ IndexedOnce' /\ Tallied'
  BY <1>0, <1>1, SameChunks DEF IInv
<1>3. flushes' \in Nat /\ flushed' \in Nat
  BY DEF Drain, IInv, TypeOK
<1>4. TypeOK'
  BY <1>0, <1>1, <1>3 DEF IInv, TypeOK, Labels, Errors
<1>5. Exhausted' /\ FlushDue'
  BY <1>0, <1>1 DEF IInv, TypeOK, Exhausted, FlushDue, Wanted, NoError
<1> QED
  BY <1>2, <1>4, <1>5 DEF IInv

\* Joining changes only the outcome.
LEMMA JoinKeeps ==
  ASSUME IInv, Join
  PROVE  IInv'
<1>1. /\ \A c \in args.clients : pc[c] = "done"
      /\ outcome' = IF error = NoError THEN "returned" ELSE "raised"
      /\ UNCHANGED <<args, taken, gen, error, batches, documents, pc, chunk, cause,
                     sent_since_flush, indexed, flushes, flushed>>
  BY DEF Join, gen_vars, tallies, engine
<1>2. TypeOK' /\ ChunksApart' /\ FlushDue'
  BY <1>1 DEF IInv, TypeOK, ChunksApart, FlushDue
<1>3. InHand' = InHand /\ Wanted' = Wanted
  BY <1>1 DEF InHand, Wanted
<1>4. IndexedOnce' /\ Tallied' /\ Exhausted'
  BY <1>1, <1>3 DEF IInv, IndexedOnce, Tallied, Exhausted
<1> QED
  BY <1>2, <1>4 DEF IInv

\* Every step keeps the invariant.
LEMMA StepKeeps ==
  ASSUME IInv, [Next]_vars
  PROVE  IInv'
<1>1. CASE UNCHANGED vars
  <2>1. InHand' = InHand /\ Wanted' = Wanted
    BY <1>1 DEF vars, InHand, Wanted
  <2> QED
    BY <1>1, <2>1 DEF vars, IInv, TypeOK, ChunksApart, IndexedOnce, Exhausted, Tallied, FlushDue
<1>2. CASE Join
  BY <1>2, JoinKeeps
<1>3. CASE \E c \in Client : Worker(c)
  BY <1>3, TakeKeeps, SendKeeps, FailKeeps, TallyKeeps, FlushKeeps, DrainKeeps DEF Worker
<1> QED
  BY <1>1, <1>2, <1>3 DEF Next, Finish

\* The invariant holds in every reachable state.
THEOREM Invariance == Spec => []IInv
<1>1. Init => IInv
  BY InitKeeps
<1>2. IInv /\ [Next]_vars => IInv'
  BY StepKeeps
<1> QED
  BY <1>1, <1>2, PTL DEF Spec

\* Types of the shared state and of each client's.
THEOREM BulkFeedTypes == Spec => []TypeOK
<1>1. IInv => TypeOK
  BY DEF IInv
<1> QED
  BY <1>1, Invariance, PTL

\* No document is indexed twice: chunks are handed out once, and a client
\* sends what it holds once, whether or not it is answered.
THEOREM NoDuplicates == Spec => []NeverTwice
<1>1. IInv => NeverTwice
  BY DEF IInv, IndexedOnce, NeverTwice
<1> QED
  BY <1>1, Invariance, PTL

\* When send_chunks returns, the wanted documents are indexed once each, and
\* no others: with every client done and no error nothing is in hand, and
\* the source, which is closed, has given out what was wanted.
THEOREM SuccessIsWhole == Spec => []FeedIsWhole
<1>1. ASSUME IInv, outcome = "returned"
      PROVE  /\ Wanted <= args.docs /\ documents = Wanted
             /\ \A d \in 1 .. args.docs : indexed[d] = IF d <= Wanted THEN 1 ELSE 0
  <2>0. args.clients \in (SUBSET Client) \ {{}}
    BY <1>1, ArgsFacts DEF IInv, TypeOK
  <2>1. error = NoError /\ \A c \in args.clients : pc[c] = "done" /\ chunk[c] = {} /\ gen = "closed"
    BY <1>1, <2>0 DEF IInv, Exhausted
  <2>2. gen = "closed" /\ \A c \in Client : chunk[c] = {}
    <3>1. \E c \in Client : c \in args.clients
      BY <2>0
    <3>2. \A c \in Client : c \notin args.clients => chunk[c] = {}
      BY <1>1 DEF IInv, Exhausted, ChunksApart
    <3> QED
      BY <2>1, <3>1, <3>2
  <2>3. taken = Wanted /\ InHand = {}
    BY <2>1, <2>2, <1>1 DEF IInv, Exhausted, InHand
  <2>4. taken \in Nat /\ args.docs \in Nat /\ documents \in Nat
    BY <1>1, ArgsFacts DEF IInv, TypeOK
  <2>5. \A d \in 1 .. args.docs : indexed[d] = IF d <= Wanted THEN 1 ELSE 0
    BY <1>1, <2>3, <2>4 DEF IInv, IndexedOnce
  <2>6. documents = Wanted
    BY <1>1, <2>3, <2>4, FS_EmptySet DEF IInv, Tallied
  <2> QED
    BY <1>1, <2>3, <2>5, <2>6 DEF IInv, IndexedOnce
<1>2. IInv => FeedIsWhole
  BY <1>1 DEF FeedIsWhole
<1> QED
  BY <1>2, Invariance, PTL

-----------------------------------------------------------------------------
(* A feed that fails.                                                      *)

\* What a client holds lies within one body of the generator.
OneBody ==
  \A c \in Client : \E s \in Nat : chunk[c] \subseteq s + 1 .. s + args.chunk

LEMMA BodyInit == Init => OneBody
BY DEF Init, OneBody

LEMMA BodyStep == IInv /\ OneBody /\ [Next]_vars => OneBody'
<1> SUFFICES ASSUME IInv, OneBody, [Next]_vars PROVE OneBody'
  OBVIOUS
<1>0. /\ chunk \in [Client -> SUBSET (1 .. args.docs)] /\ taken \in Nat /\ Wanted \in Nat
      /\ args.chunk \in Nat \ {0} /\ taken <= Wanted
  BY ArgsFacts DEF IInv, TypeOK, IndexedOnce
<1>1. args' = args
  BY DEF Next, Join, Finish, Worker, Take, Send, Fail, Tally, Flush, Drain, vars
\* A step that empties a client's hands or leaves them alone.
<1>2. ASSUME \A c \in Client : chunk'[c] \in {chunk[c], {}} PROVE OneBody'
  BY <1>1, <1>2 DEF OneBody
<1>3. CASE Join \/ UNCHANGED vars
  BY <1>2, <1>3 DEF Join, vars
<1>4. CASE \E c \in Client : Send(c) \/ Fail(c) \/ Tally(c) \/ Flush(c) \/ Drain(c)
  <2>1. \A c \in Client : chunk'[c] \in {chunk[c], {}}
    BY <1>0, <1>4 DEF Send, Fail, Tally, Flush, Drain
  <2> QED BY <1>2, <2>1
<1>5. CASE \E c \in Client : Take(c)
  <2> PICK c \in Client : Take(c)
    BY <1>5
  <2>1. CASE chunk' = chunk
    BY <1>2, <2>1
  <2>2. CASE chunk' = [chunk EXCEPT ![c] = taken + 1 .. taken + Size]
    <3>1. Size \in Int /\ Size <= args.chunk
      BY <1>0 DEF Size, Minimum
    <3>2. chunk'[c] \subseteq taken + 1 .. taken + args.chunk
      BY <1>0, <2>2, <3>1
    <3>3. \A e \in Client : e # c => chunk'[e] = chunk[e]
      BY <1>0, <2>2
    <3> QED BY <1>0, <1>1, <3>2, <3>3 DEF OneBody
  <2> QED BY <2>1, <2>2 DEF Take
<1> QED
  BY <1>3, <1>4, <1>5 DEF Next, Finish, Worker

\* A document in hand is told by who holds it and by its place in the body, so
\* there are no more of them than such pairs.
LEMMA HandsAreFew ==
  ASSUME IInv, OneBody
  PROVE  Cardinality(InHand) <= Cardinality(args.clients) * args.chunk
<1>0. /\ args.clients \in SUBSET Client /\ args.chunk \in Nat \ {0}
      /\ chunk \in [Client -> SUBSET (1 .. args.docs)]
      /\ IsFiniteSet(InHand) /\ Cardinality(InHand) \in Nat
  BY ArgsFacts, InHandFinite DEF IInv, TypeOK
<1> DEFINE Pairs == args.clients \X (1 .. args.chunk)
           Holder(d) == CHOOSE c \in Client : d \in chunk[c]
           Start(c) == CHOOSE s \in Nat : chunk[c] \subseteq s + 1 .. s + args.chunk
           place == [d \in InHand |-> <<Holder(d), d - Start(Holder(d))>>]
<1>1. IsFiniteSet(args.clients) /\ Cardinality(args.clients) \in Nat
  BY <1>0, ArgsAssumption, FS_Subset, FS_CardinalityType
<1>2. IsFiniteSet(1 .. args.chunk) /\ Cardinality(1 .. args.chunk) = args.chunk
  <2> DEFINE k == args.chunk
  <2>1. 1 \in Int /\ k \in Int /\ ~(1 > k) /\ k - 1 + 1 = k
    BY <1>0
  <2> HIDE DEF k
  <2>2. IsFiniteSet(1 .. k) /\ Cardinality(1 .. k) = k
    BY <2>1, FS_Interval
  <2> QED BY <2>2 DEF k
<1>3. IsFiniteSet(Pairs) /\ Cardinality(Pairs) = Cardinality(args.clients) * args.chunk
  BY <1>1, <1>2, FS_Product
<1>4. Cardinality(Pairs) \in Nat
  BY <1>3, FS_CardinalityType
<1>5. \A d \in InHand : Holder(d) \in args.clients /\ d \in chunk[Holder(d)] /\ d \in Int
  <2> SUFFICES ASSUME NEW d \in InHand
               PROVE  Holder(d) \in args.clients /\ d \in chunk[Holder(d)] /\ d \in Int
    OBVIOUS
  <2>1. \E c \in Client : d \in chunk[c]
    BY DEF InHand
  <2>2. Holder(d) \in Client /\ d \in chunk[Holder(d)]
    BY <2>1
  <2>3. Holder(d) \in args.clients
    BY <2>2 DEF IInv, Exhausted, ChunksApart
  <2>4. d \in Int
    BY <1>0, <2>2
  <2> QED BY <2>2, <2>3, <2>4
<1>6. \A c \in Client : Start(c) \in Nat /\ chunk[c] \subseteq Start(c) + 1 .. Start(c) + args.chunk
  BY DEF OneBody
<1>7. \A d \in InHand : Start(Holder(d)) \in Nat /\ d - Start(Holder(d)) \in 1 .. args.chunk
  <2> SUFFICES ASSUME NEW d \in InHand
               PROVE  Start(Holder(d)) \in Nat /\ d - Start(Holder(d)) \in 1 .. args.chunk
    OBVIOUS
  <2> HIDE DEF Holder, Start
  <2>1. /\ Start(Holder(d)) \in Nat /\ d \in Int
        /\ d \in Start(Holder(d)) + 1 .. Start(Holder(d)) + args.chunk
    BY <1>0, <1>5, <1>6
  <2> QED BY <1>0, <2>1
<1>8. \A d, e \in InHand : place[d] = place[e] => d = e
  <2> SUFFICES ASSUME NEW d \in InHand, NEW e \in InHand, place[d] = place[e] PROVE d = e
    OBVIOUS
  <2> HIDE DEF Holder, Start
  <2>1. Holder(d) = Holder(e) /\ d - Start(Holder(d)) = e - Start(Holder(e))
    OBVIOUS
  <2>2. d \in Int /\ e \in Int /\ Start(Holder(d)) \in Nat
    BY <1>5, <1>7
  <2> QED BY <2>1, <2>2
<1>9. place \in [InHand -> Pairs]
  <2> HIDE DEF Holder, Start
  <2> QED BY <1>5, <1>7
<1> HIDE DEF place, Pairs
<1>10. ~(Cardinality(Pairs) < Cardinality(InHand))
  BY <1>0, <1>3, <1>8, <1>9, FS_PigeonHole
<1> QED
  BY <1>0, <1>3, <1>4, <1>10

\* Whatever fails and wherever the clients are, at most a chunk for each of
\* them is given out and not counted (send_chunks).
THEOREM LossIsBounded == Spec => []LossBounded
<1>1. Spec => [](IInv /\ OneBody)
  BY InitKeeps, StepKeeps, BodyInit, BodyStep, PTL DEF Spec
<1>2. ASSUME IInv, OneBody PROVE LossBounded
  <2>1. taken \in Nat /\ documents \in Nat /\ Cardinality(InHand) \in Nat
    BY <1>2, InHandFinite DEF IInv, TypeOK
  <2>2. taken - documents = Cardinality(InHand)
    BY <1>2, <2>1 DEF IInv, Tallied
  <2> QED
    BY <1>2, <2>2, HandsAreFew DEF LossBounded
<1> QED
  BY <1>1, <1>2, PTL


-----------------------------------------------------------------------------
(* Flushes between chunks.                                                 *)

\* A client that has not finished.
Feeding(c) == pc[c] \in {"take", "send", "tally", "flush", "drain"}

\* The one client of a feed that flushes has sent flush_every documents for each
\* flush and those of its own count, and has flushed all of them when its count
\* is zero; the count is short of a flush, except on the way to one.
FlushInv ==
  args.flush_every > 0 => \A c \in args.clients :
    /\ Feeding(c) => documents = args.flush_every * flushes + sent_since_flush[c]
    /\ Feeding(c) /\ sent_since_flush[c] = 0 => flushed = documents
    /\ args.chunk <= args.flush_every =>
         /\ Feeding(c) /\ pc[c] # "flush" => sent_since_flush[c] < args.flush_every
         /\ pc[c] = "flush" => sent_since_flush[c] < args.flush_every + args.flush_every
    /\ pc[c] = "done" /\ error = NoError => flushed = documents

\* A feed that flushes has one client, and who is not among its clients is idle.
LEMMA OneClient ==
  ASSUME IInv, args.flush_every > 0
  PROVE  /\ \A c, e \in args.clients : c = e
         /\ \A c \in Client : pc[c] # "idle" => c \in args.clients
<1>1. args.clients \in SUBSET Client /\ args \in Args
  BY ArgsFacts DEF IInv, TypeOK
<1>2. IsFiniteSet(args.clients) /\ Cardinality(args.clients) = 1
  BY <1>1, ArgsAssumption, FS_Subset
<1>3. PICK e : args.clients = {e}
  BY <1>2, FS_Singleton
<1> QED
  BY <1>3 DEF IInv, Exhausted

\* What a client holds is no more than a chunk.
LEMMA ChunkFits ==
  ASSUME IInv, OneBody, NEW c \in Client
  PROVE  Cardinality(chunk[c]) \in 0 .. args.chunk
<1>1. args.chunk \in Nat \ {0}
  BY ArgsFacts DEF IInv, TypeOK
<1>2. PICK s \in Nat : chunk[c] \subseteq s + 1 .. s + args.chunk
  BY DEF OneBody
<1> DEFINE lo == s + 1
           hi == s + args.chunk
<1>3. lo \in Int /\ hi \in Int /\ ~(lo > hi) /\ hi - lo + 1 = args.chunk
  BY <1>1
<1>4. chunk[c] \subseteq lo .. hi
  BY <1>2
<1> HIDE DEF lo, hi
<1>5. IsFiniteSet(lo .. hi) /\ Cardinality(lo .. hi) = IF lo > hi THEN 0 ELSE hi - lo + 1
  BY <1>3, FS_Interval
<1>6. Cardinality(chunk[c]) <= Cardinality(lo .. hi)
  BY <1>4, <1>5, FS_Subset
<1>7. Cardinality(chunk[c]) \in Nat
  BY InHandFinite DEF IInv
<1> QED
  BY <1>1, <1>3, <1>5, <1>6, <1>7

LEMMA FlushInit == Init => FlushInv
<1> SUFFICES ASSUME Init, args.flush_every > 0, NEW c \in args.clients
             PROVE  /\ documents = args.flush_every * flushes + sent_since_flush[c]
                    /\ sent_since_flush[c] < args.flush_every
                    /\ pc[c] = "take" /\ flushed = documents
  BY DEF FlushInv, Feeding
<1>1. args \in Args /\ c \in Client /\ args.flush_every \in Nat
  BY ArgsFacts DEF Init
<1> QED BY <1>1 DEF Init

\* A step of the one client: the others have no steps.
LEMMA FlushStep == IInv /\ OneBody /\ FlushInv /\ [Next]_vars => FlushInv'
<1> SUFFICES ASSUME IInv, OneBody, FlushInv, [Next]_vars, args'.flush_every > 0,
                    NEW w \in args'.clients
             PROVE  /\ Feeding(w)' => documents' = args'.flush_every * flushes' + sent_since_flush'[w]
                    /\ Feeding(w)' /\ sent_since_flush'[w] = 0 => flushed' = documents'
                    /\ args'.chunk <= args'.flush_every =>
                         /\ Feeding(w)' /\ pc'[w] # "flush" => sent_since_flush'[w] < args'.flush_every
                         /\ pc'[w] = "flush" => sent_since_flush'[w] < args'.flush_every + args'.flush_every
                    /\ pc'[w] = "done" /\ error' = NoError => flushed' = documents'
  BY DEF FlushInv
<1>1. args' = args
  BY DEF Next, Join, Finish, Worker, Take, Send, Fail, Tally, Flush, Drain, vars
<1>2. /\ args.flush_every \in Nat /\ args.flush_every > 0 /\ args.chunk \in Nat
      /\ w \in Client /\ w \in args.clients
      /\ documents \in Nat /\ flushes \in Nat /\ flushed \in Nat
      /\ sent_since_flush \in [Client -> Nat] /\ sent_since_flush[w] \in Nat
      /\ pc \in [Client -> Labels] /\ chunk \in [Client -> SUBSET (1 .. args.docs)]
  BY <1>1, ArgsFacts DEF IInv, TypeOK
<1>3. \A c \in Client : pc[c] # "idle" => c = w
  BY <1>1, OneClient
<1>4. /\ Feeding(w) => documents = args.flush_every * flushes + sent_since_flush[w]
      /\ Feeding(w) /\ sent_since_flush[w] = 0 => flushed = documents
      /\ args.chunk <= args.flush_every =>
           /\ Feeding(w) /\ pc[w] # "flush" => sent_since_flush[w] < args.flush_every
           /\ pc[w] = "flush" => sent_since_flush[w] < args.flush_every + args.flush_every
      /\ pc[w] = "done" /\ error = NoError => flushed = documents
  BY <1>1, <1>2 DEF FlushInv
<1>5. CASE Join \/ UNCHANGED vars
  <2>1. UNCHANGED <<args, documents, flushes, flushed, sent_since_flush, pc, error>>
    BY <1>5 DEF Join, vars, tallies, engine
  <2> QED BY <2>1, <1>4 DEF Feeding
<1>6. CASE Take(w)
  <2>1. UNCHANGED <<documents, flushes, flushed, sent_since_flush>> /\ Feeding(w)
    BY <1>6 DEF Take, tallies, engine, Feeding
  <2>2. pc'[w] \in {"done", "send", "drain"} /\ (pc'[w] = "done" => error' # NoError)
    BY <1>2, <1>6 DEF Take, Goto, NoError
  <2>3. Feeding(w)' => Feeding(w) /\ pc[w] # "flush"
    BY <1>6 DEF Take, Feeding
  <2> QED BY <1>1, <1>4, <2>1, <2>2, <2>3
<1>7. CASE Send(w)
  <2>1. UNCHANGED <<documents, flushes, flushed, sent_since_flush>> /\ Feeding(w) /\ pc[w] # "flush"
    BY <1>7 DEF Send, tallies, Feeding
  <2>2. pc'[w] \in {"tally", "fail"}
    BY <1>2, <1>7 DEF Send, Goto, Raise
  <2> QED BY <1>1, <1>4, <2>1, <2>2
<1>8. CASE Fail(w)
  <2>1. pc'[w] = "done" /\ error' # NoError
    BY <1>2, <1>8 DEF Fail, Goto, IInv, Exhausted
  <2> QED BY <2>1 DEF Feeding
<1>9. CASE Tally(w)
  <2> DEFINE n == Cardinality(chunk[w])
  <2>1. n \in 0 .. args.chunk
    BY <1>2, ChunkFits
  <2>2. /\ documents' = documents + n /\ sent_since_flush'[w] = sent_since_flush[w] + n
        /\ UNCHANGED <<flushes, flushed>> /\ pc[w] = "tally"
        /\ pc'[w] = IF sent_since_flush'[w] >= args.flush_every THEN "flush" ELSE "take"
    BY <1>2, <1>9 DEF Tally, Goto, engine
  <2>3. Feeding(w) /\ pc[w] # "flush"
    BY <2>2 DEF Feeding
  <2> HIDE DEF n
  <2>4. documents' = args.flush_every * flushes + (sent_since_flush[w] + n)
    BY <1>2, <1>4, <2>1, <2>2, <2>3
  <2>5. sent_since_flush'[w] = 0 => flushed' = documents'
    <3>1. sent_since_flush'[w] = 0 => sent_since_flush[w] = 0 /\ n = 0
      BY <1>2, <2>1, <2>2
    <3>2. sent_since_flush[w] = 0 => flushed = documents
      BY <1>4, <2>3
    <3>3. n = 0 => documents' = documents
      BY <1>2, <2>2
    <3> QED BY <2>2, <3>1, <3>2, <3>3
  <2>6. args.chunk <= args.flush_every =>
           sent_since_flush'[w] < args.flush_every + args.flush_every
    BY <1>2, <1>4, <2>1, <2>2, <2>3
  <2>7. pc'[w] # "flush" => sent_since_flush'[w] < args.flush_every
    BY <1>2, <2>1, <2>2
  <2>8. pc'[w] \in {"flush", "take"}
    BY <2>2
  <2> QED BY <1>1, <2>2, <2>4, <2>5, <2>6, <2>7, <2>8
<1>10. CASE Flush(w)
  <2>1. CASE /\ flushes' = flushes + 1 /\ flushed' = documents /\ Goto(w, "take")
             /\ sent_since_flush' = [sent_since_flush EXCEPT ![w] = @ - args.flush_every]
             /\ UNCHANGED cause
    <3>1. /\ pc[w] = "flush" /\ pc'[w] = "take" /\ UNCHANGED documents
          /\ sent_since_flush'[w] = sent_since_flush[w] - args.flush_every
      BY <1>2, <1>10, <2>1 DEF Flush, Goto, tallies
    <3>2. Feeding(w)
      BY <3>1 DEF Feeding
    <3>3. args.flush_every * (flushes + 1) = args.flush_every * flushes + args.flush_every
      BY <1>2
    <3>4. documents' = args.flush_every * flushes' + sent_since_flush'[w]
      BY <1>2, <1>4, <2>1, <3>1, <3>2, <3>3
    <3>5. args.chunk <= args.flush_every => sent_since_flush'[w] < args.flush_every
      BY <1>2, <1>4, <3>1
    <3> QED BY <1>1, <2>1, <3>1, <3>4, <3>5
  <2>2. CASE Raise(w, "flush") /\ UNCHANGED <<flushes, flushed, sent_since_flush>>
    <3>1. pc'[w] = "fail"
      BY <1>2, <2>2 DEF Raise, Goto
    <3> QED BY <3>1 DEF Feeding
  <2> QED BY <1>10, <2>1, <2>2 DEF Flush
<1>11. CASE Drain(w)
  <2>1. pc'[w] \in {"done", "fail"} /\ pc[w] = "drain" /\ UNCHANGED documents
    BY <1>2, <1>11 DEF Drain, Goto, Raise, tallies
  <2>2. Feeding(w)
    BY <2>1 DEF Feeding
  <2>3. flushed' \in {documents, flushed} /\ (flushed' # documents /\ pc'[w] = "done" => sent_since_flush[w] = 0 /\ flushed' = flushed)
    BY <1>2, <1>11 DEF Drain, Goto, Raise
  <2>4. pc'[w] = "done" => flushed' = documents'
    BY <1>4, <2>1, <2>2, <2>3
  <2> QED BY <2>1, <2>4 DEF Feeding
<1>12. CASE \E c \in Client : Worker(c)
  <2>1. PICK c \in Client : Worker(c)
    BY <1>12
  <2>2. pc[c] # "idle"
    BY <2>1 DEF Worker, Take, Send, Fail, Tally, Flush, Drain
  <2>3. c = w
    BY <1>3, <2>2
  <2> QED BY <2>1, <2>3, <1>6, <1>7, <1>8, <1>9, <1>10, <1>11 DEF Worker
<1> QED
  BY <1>5, <1>12 DEF Next, Finish

\* A number is a multiple and a remainder in one way.
LEMMA Quotient ==
  ASSUME NEW f \in Nat, NEW q \in Nat, NEW r \in Nat, r < f
  PROVE  (f * q + r) \div f = q
<1> DEFINE n == f * q + r
           p == n \div f
<1>1. n \in Nat /\ n >= f * q /\ n < f * q + f
  OBVIOUS
<1>2. p \in Int /\ f * p <= n /\ n < f * p + f
  BY <1>1
<1> HIDE DEF p, n
<1>3. ~(p < q)
  <2> SUFFICES ASSUME p + 1 <= q PROVE FALSE
    BY <1>2
  <2>1. PICK k \in Nat : q = p + 1 + k
    BY <1>2, q = p + 1 + (q - p - 1), q - p - 1 \in Nat
  <2>2. f * q = f * p + f + f * k /\ f * k >= 0
    BY <1>2, <2>1
  <2> QED BY <1>1, <1>2, <2>2
<1>4. ~(p > q)
  <2> SUFFICES ASSUME q + 1 <= p PROVE FALSE
    BY <1>2
  <2>1. PICK k \in Nat : p = q + 1 + k
    BY <1>2, p = q + 1 + (p - q - 1), p - q - 1 \in Nat
  <2>2. f * p = f * q + f + f * k /\ f * k >= 0
    BY <1>2, <2>1
  <2> QED BY <1>1, <1>2, <2>2
<1>5. p = q
  BY <1>2, <1>3, <1>4
<1> QED BY <1>5 DEF p, n

\* A feed with --flush-every has flushed once for each whole range of so many
\* documents, whenever its client is between two chunks that are not larger; and
\* what returned is flushed to the last document, with the remainder that each
\* flush carries over (worker()), for any source, chunk and range.
THEOREM FlushesAreKept == Spec => []FlushesKeepUp
<1>1. Spec => [](IInv /\ OneBody /\ FlushInv)
  BY InitKeeps, StepKeeps, BodyInit, BodyStep, FlushInit, FlushStep, PTL DEF Spec
<1>2. ASSUME IInv, FlushInv, args.flush_every > 0 PROVE FlushesKeepUp
  <2>0. /\ args.flush_every \in Nat /\ args.chunk \in Nat /\ flushes \in Nat
        /\ sent_since_flush \in [Client -> Nat] /\ args.clients \in (SUBSET Client) \ {{}}
    BY <1>2, ArgsFacts DEF IInv, TypeOK
  <2>1. ASSUME NEW c \in Client, pc[c] = "take", args.chunk <= args.flush_every
        PROVE  flushes = documents \div args.flush_every
    <3>1. c \in args.clients /\ Feeding(c)
      BY <1>2, <2>1, OneClient DEF Feeding
    <3>2. /\ documents = args.flush_every * flushes + sent_since_flush[c]
          /\ sent_since_flush[c] < args.flush_every /\ sent_since_flush[c] \in Nat
      BY <1>2, <2>0, <2>1, <3>1 DEF FlushInv
    <3> QED BY <2>0, <3>2, Quotient
  <2>2. ASSUME outcome = "returned" PROVE flushed = documents
    <3>1. PICK c : c \in args.clients
      BY <2>0
    <3>2. pc[c] = "done" /\ error = NoError
      BY <1>2, <2>2, <3>1 DEF IInv, Exhausted
    <3> QED BY <1>2, <3>1, <3>2 DEF FlushInv
  <2> QED BY <2>1, <2>2 DEF FlushesKeepUp
<1>3. IInv /\ FlushInv => FlushesKeepUp
  BY <1>2 DEF FlushesKeepUp
<1> QED
  BY <1>1, <1>3, PTL
=============================================================================
