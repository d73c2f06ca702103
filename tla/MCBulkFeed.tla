----------------------------- MODULE MCBulkFeed -----------------------------
(* Arguments of send_chunks for TLC. *)
EXTENDS BulkFeed

CONSTANTS One, Several        \* clients: of a feed that flushes, of one that does not

Sources(n) == [docs : 0 .. n, limit : {NoLimit} \cup 0 .. n, bad : BOOLEAN]

With(who, source, size, every) ==
  [clients |-> who, docs |-> source.docs, limit |-> source.limit, bad |-> source.bad,
   chunk |-> size, flush_every |-> every]

\* Parallel clients never flush; sources are short, exact or too long.
ParallelArgs == {With(Several, s, size, 0) : s \in Sources(5), size \in 1 .. 2}

\* One client flushes at boundaries; the whole corpus is fed.
FlushArgs == {With(One, [docs |-> n, limit |-> NoLimit, bad |-> FALSE], size, every) :
                n \in 0 .. 7, size \in 1 .. 4, every \in 0 .. 5}

MCArgs == ParallelArgs \cup FlushArgs
=============================================================================
