--------------------------- MODULE CorpusTransform ---------------------------
(***************************************************************************)
(* corpus_transform.py: a stream of source lines becomes a corpus, and the *)
(* report of what is in it, from which the grids take the values they pin. *)
(* A document's category follows from a hash of its id and title: any.     *)
(***************************************************************************)
EXTENDS Integers, Sequences, FiniteSets, FiniteSetsExt

CONSTANTS Nominal,               \* values of the field, 0 .. Nominal - 1
          Longest,               \* bound: lines of the source
          Space, Multiplier, Offset   \* 2^32 and the two constants of sort_i

ASSUME TransformAssumption ==
    /\ Nominal \in Nat /\ Nominal > 0 /\ Longest \in Nat /\ Space \in Nat /\ Space > 0
    /\ Multiplier \in Nat /\ Offset \in Nat

\* The multiplier is odd and the space a power of two, so the one has an inverse
\* modulo the other; and there are fewer lines than keys.
ASSUME SortKeyAssumption ==
    /\ Longest <= Space
    /\ \E inverse \in 0 .. Space - 1 : (Multiplier * inverse) % Space = 1 % Space

VARIABLE xf

Names == 0 .. Nominal - 1

\* ordinal_sort_value
SortKey(ordinal) == (ordinal * Multiplier + Offset) % Space

TransformInit ==
    xf \in [variant : {"full", "facet", "text"}, limit : 0..Longest, docs : {<<>>},
            seen : {[n \in Names |-> 0]}, ended : {FALSE}]

\* The limit is looked at once a document is out; 0 is none.
Emit ==
    /\ ~xf.ended /\ Len(xf.docs) < Longest
    /\ \E n \in Names :
          xf' = [xf EXCEPT
              !.docs = Append(@, [name |-> n, sort |-> SortKey(Len(@))]),
              !.seen[n] = IF xf.variant = "text" THEN @ ELSE @ + 1,
              !.ended = xf.limit # 0 /\ Len(xf.docs) + 1 >= xf.limit]

SourceEnds == ~xf.ended /\ xf' = [xf EXCEPT !.ended = TRUE]

TransformStep == Emit \/ SourceEnds

-----------------------------------------------------------------------------
\* designate_values: the first of the best, whichever way it is sought.
First(S, Worse(_, _)) == Min({i \in S : \A j \in S : ~Worse(i, j)})
Nearest(seen, parts) ==
    LET short(i) == Len(xf.docs) - seen[i] * parts
        off(i) == Max({short(i), -short(i)})
    IN  First(Names, LAMBDA i, j : off(i) > off(j))

\* A slip: a value of no document is the least frequent.
TailValueUnseen(seen) == First(Names, LAMBDA i, j : seen[i] > seen[j])
TailValue(seen) == First({i \in Names : seen[i] > 0}, LAMBDA i, j : seen[i] > seen[j])

Designate(seen) ==
    LET named == {<<"head", First(Names, LAMBDA i, j : seen[i] < seen[j])>>,
                  <<"10pct", Nearest(seen, 10)>>, <<"1pct", Nearest(seen, 100)>>,
                  <<"0.1pct", Nearest(seen, 1000)>>}
                  \cup IF \E i \in Names : seen[i] > 0 THEN {<<"tail", TailValue(seen)>>} ELSE {}
    IN  {d \in named : seen[d[2]] > 0}

\* cardinality_report
Report == [documents |-> Len(xf.docs),
           realized |-> Cardinality({i \in Names : xf.seen[i] > 0}),
           values |-> IF xf.variant = "text" THEN {} ELSE Designate(xf.seen)]

-----------------------------------------------------------------------------
\* What a grid pins is in the corpus as often as the report says: of a corpus
\* with documents, a most frequent value and a least frequent one that occurs
\* are always designated, in no corpus one that does not occur; the sort keys
\* are all different; and no lane is longer than its limit.
DesignatedIsExact ==
    LET often(n) == Cardinality({i \in DOMAIN xf.docs : xf.docs[i].name = n})
    IN  xf.ended =>
          /\ \A d \in Report.values :
                /\ xf.seen[d[2]] = often(d[2]) /\ often(d[2]) > 0
                /\ d[1] = "head" => \A n \in Names : often(n) <= often(d[2])
                /\ d[1] = "tail" => \A n \in Names : often(n) > 0 => often(n) >= often(d[2])
          /\ (xf.docs # <<>> /\ xf.variant # "text") =>
                {"head", "tail"} \subseteq {d[1] : d \in Report.values}
          /\ \A i, j \in DOMAIN xf.docs : i # j => xf.docs[i].sort # xf.docs[j].sort
          /\ xf.limit # 0 => Report.documents <= xf.limit
=============================================================================
