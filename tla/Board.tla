-------------------------------- MODULE Board --------------------------------
(***************************************************************************)
(* report.py: the results of a directory as one board, and what it says of *)
(* them - the warnings that take the place of refusing to tabulate.  A     *)
(* result is a record of what its file recorded; a variant is the set of   *)
(* the keys it declares.  One step of the module renders one board.        *)
(***************************************************************************)
EXTENDS Integers, Sequences, FiniteSets

CONSTANTS Variants,    \* the variants a campaign may have: sets of keys
          Size         \* bound: cells of a board

ASSUME BoardAssumption == Size \in Nat /\ IsFiniteSet(Variants)

VARIABLE board         \* results by (engine, variant), as load_results keys them

Vendors == {"luxir", "rest"}
Knobs == {"concurrency", "duration", "query_cache", "heap"}
ServerKeys == {"query_cache", "heap"}

\* What the cells of one careful campaign record, and one thing that may be
\* otherwise: another value, no topology or an unstable one, another startup.
Standard == [knob |-> [k \in Knobs |-> 0], limit |-> 10, corpus |-> "k1", topology |-> "s1",
             stable |-> TRUE, startup |-> 0, errors |-> FALSE, failure |-> FALSE, found |-> 7]
Results ==
    {Standard, [Standard EXCEPT !.limit = 100], [Standard EXCEPT !.corpus = "k2"],
     [Standard EXCEPT !.corpus = "none"], [Standard EXCEPT !.topology = "s2"],
     [Standard EXCEPT !.topology = "none", !.stable = FALSE],
     [Standard EXCEPT !.stable = FALSE], [Standard EXCEPT !.startup = 1],
     [Standard EXCEPT !.errors = TRUE], [Standard EXCEPT !.found = 8]}
        \cup {[Standard EXCEPT !.knob[k] = 1, !.startup = IF k \in ServerKeys THEN 1 ELSE 0] :
                 k \in Knobs}

\* failure_result.py: a cell that could not be measured, with the corpus and the
\* heap it was to have.
Failed == [Standard EXCEPT !.failure = TRUE, !.topology = "none", !.stable = FALSE,
           !.knob = [Standard.knob EXCEPT !["concurrency"] = 2, !["duration"] = 2,
                                          !["query_cache"] = 2],
           !.limit = 0, !.found = 0, !.startup = 2]

-----------------------------------------------------------------------------
Tabulated == DOMAIN board
Of(engine) == {c \in Tabulated : c[1] = engine}
BoardEngines == {c[1] : c \in Tabulated}
Several(S) == Cardinality(S) > 1

\* corpus_lines: INVALID when two of the recorded corpora differ.
CorpusInvalid == Several({board[c].corpus : c \in Tabulated} \ {"none"})

\* A slip: each cell's own verdict is enough.
TopologyStablePerCell(engine) == \A c \in Of(engine) : board[c].stable
\* index_shape_lines: STABLE, if one snapshot is everything that was seen.
TopologyStable(engine) ==
    LET seen == {board[c].topology : c \in Of(engine)} \ {"none"}
    IN  Cardinality(seen) = 1 /\ \A c \in Of(engine) : board[c].stable
BoardInvalid == \E e \in BoardEngines : ~TopologyStable(e)

\* undeclared_variation: of the cells that do not declare a knob, the values; of
\* the campaign's knobs, every value; heap per engine.
Residual(knob, cells) == {board[c].knob[knob] : c \in {c \in cells : knob \notin c[2]}}
\* The parameters of an engine's cells, less every one that some variant declares.
ParametersDiffer(engine) ==
    /\ \A c \in Of(engine) : "limit" \notin c[2]
    /\ Several({board[c].limit : c \in Of(engine)})
\* A slip: a knob that some cell of the board declares is declared for all.
DriftDeclaredAnywhere ==
    {<<k, "all">> : k \in {k \in {"concurrency", "duration", "query_cache"} :
        (\A c \in Tabulated : k \notin c[2]) /\ Several(Residual(k, Tabulated))}}
      \cup {<<"heap", e>> : e \in {e \in BoardEngines : Several(Residual("heap", Of(e)))}}
      \cup {<<"limit", e>> : e \in {e \in BoardEngines : ParametersDiffer(e)}}
Drift ==
    {<<k, "all">> : k \in {k \in {"concurrency", "duration", "query_cache"} :
                              Several(Residual(k, Tabulated))}}
      \cup {<<"heap", e>> : e \in {e \in BoardEngines : Several(Residual("heap", Of(e)))}}
      \cup {<<"limit", e>> : e \in {e \in BoardEngines : ParametersDiffer(e)}}

\* startup_lines: the postures by what was started, each with what the first
\* result that showed it declares of the server; whichever is first.
StartupUndeclared(engine) ==
    LET shown(s) == {c \in Of(engine) : board[c].startup = s}
        posture == {s \in 0..1 : shown(s) # {}}
        declares(c) == c[2] \cap ServerKeys
    IN  \A first \in [posture -> Of(engine)] :
          (\A s \in posture : first[s] \in shown(s)) =>
              \E s, t \in posture : s # t /\ declares(first[s]) = declares(first[t])

\* agreement: exact counts that differ; none when a cell has no sample.
Mismatch(variant) ==
    LET row == {c \in Tabulated : c[2] = variant}
    IN  /\ Cardinality(row) = Cardinality(BoardEngines) /\ Several(row)
        /\ \A c \in row : ~board[c].failure
        /\ Several({board[c].found : c \in row})

-----------------------------------------------------------------------------
BoardInit == board = <<>>

Render ==
    /\ board = <<>>
    /\ \E cells \in SUBSET (Vendors \X Variants) :
          /\ Cardinality(cells) \in 1..Size
          /\ board' \in [cells -> Results \cup {Failed}]

-----------------------------------------------------------------------------
\* "Configuration differences are never a reason to refuse tabulation: ...
\* undeclared differences are surfaced".  On a board that carries no INVALID, no
\* WARNING and no mismatch, what was measured is one experiment: one corpus, one
\* topology and heap an engine, one value of every knob that neither of the two
\* cells compared declares, one limit of an engine none of whose cells declares
\* the limit, and one startup of an engine none of whose cells declares a posture.
CleanBoardIsControlled ==
    (/\ board # <<>> /\ ~CorpusInvalid /\ ~BoardInvalid /\ Drift = {}
     /\ \A e \in BoardEngines : ~StartupUndeclared(e)
     /\ \A v \in Variants : ~Mismatch(v)) =>
        \A c, d \in Tabulated :
            LET x == board[c]
                y == board[d]
            IN  /\ ~x.failure
                /\ "none" \notin {x.corpus, y.corpus} => x.corpus = y.corpus
                /\ \A k \in Knobs \ (c[2] \cup d[2]) :
                      k # "heap" \/ c[1] = d[1] => x.knob[k] = y.knob[k]
                /\ c[1] = d[1] =>
                      /\ x.topology = y.topology /\ x.topology # "none"
                      /\ (\A b \in Of(c[1]) : "limit" \notin b[2]) => x.limit = y.limit
                      /\ (\A b \in Of(c[1]) : b[2] \cap ServerKeys = {}) =>
                            x.startup = y.startup
                /\ c[2] = d[2] /\ x.found # y.found => \E e \in BoardEngines : <<e, c[2]>> \notin Tabulated
=============================================================================
