---------------------------- MODULE MCLuxirFeed ----------------------------
(* Corpora for TLC: every set of record ends up to a size. *)
EXTENDS LuxirFeed

Corpora(n) == UNION {[size : {s}, ends : SUBSET (1 .. s)] : s \in 0 .. n}

Job(corpus, streams, commit) ==
  [size |-> corpus.size, ends |-> corpus.ends, streams |-> streams, commit |-> commit]

\* Every corpus of up to five bytes over one to three streams; and of up to
\* three over four streams, committed or not.
MCJobs == {Job(c, n, TRUE) : c \in Corpora(5), n \in 1 .. 3}
            \cup {Job(c, n, b) : c \in Corpora(3), n \in {1, 4}, b \in BOOLEAN}
=============================================================================
