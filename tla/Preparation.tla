----------------------------- MODULE Preparation -----------------------------
(***************************************************************************)
(* The programs that prepare what a campaign reads - the corpus and the    *)
(* report of its cardinalities (prepare-corpus.sh), engine snapshots       *)
(* (install_snapshot.py), vector corpora (vector_datasets.py), the pins of *)
(* their sources (pin_vector_sources.py) and the admitted queries          *)
(* (select_queries.py) - and the tests by which their products are         *)
(* believed later.  A program may be killed between any two steps; its     *)
(* files stay.  A file is what it was made of and the time it was written: *)
(* every write is later than those before, and a rename keeps the time.    *)
(***************************************************************************)
EXTENDS Integers, FiniteSets, Functions, Maps

CONSTANTS Tools,       \* the programs that are run
          Attempts,    \* bound: runs of a program
          Changes      \* bound: changes of what it is made from

ASSUME PreparationAssumption == Attempts \in Nat /\ Changes \in Nat

VARIABLES prep,        \* the program
          disk         \* its files

\* An archive as published, cut short, of another commit, or with other bytes of
\* the right commit.
Archives == {"good", "damaged", "other", "altered"}
SameSize(a, b) == (a = "damaged") <=> (b = "damaged")
AdmittedQueries == {"q1", "q2"}
Lanes == {"smoke", "standard"}
Sides == {"luxir", "rest"}

\* A file's name: what it is and, where there is one of each, the version.
File(of, time) == [of |-> of, time |-> time]
Has(names) == names \subseteq DOMAIN disk
\* bash's -nt
Newer(a, b) == Has({a}) /\ (Has({b}) => disk[a].time > disk[b].time)
Running(tool, pc) == prep.tool = tool /\ prep.pc = pc
Go(to) == prep' = [prep EXCEPT !.pc = to, !.now = @ + 1]
Stop == Go("idle")
Written(name, of) == [n \in {name} |-> File(of, prep.now)] ++ disk
Put(name, of) == disk' = Written(name, of)
Without(names) == Restrict(disk, DOMAIN disk \ names)
Renamed(from, to) == [n \in {to} |-> disk[from]] ++ Without({from})

\* The program (its source and manifest, or the newest build there is) is
\* version 1; the source of the pins is there.
PrepInit ==
    \E tool \in Tools, published \in BOOLEAN :
        /\ prep = [tool |-> tool, pc |-> "idle", now |-> 1, runs |-> 0, changes |-> 0,
                   published |-> published, version |-> 0, seen |-> 0, hash |-> "none",
                   results |-> <<>>]
        /\ disk = [n \in {<<"program">>} |-> File(1, 0)] ++
                  IF tool = "pins" THEN [n \in {<<"archive">>} |-> File("good", 0)] ELSE <<>>

PrepBegin ==
    /\ prep.pc = "idle" /\ prep.runs < Attempts
    /\ prep' = [prep EXCEPT !.pc = "begin", !.runs = @ + 1, !.now = @ + 1]
    /\ UNCHANGED disk

PrepKilled == prep.pc # "idle" /\ Stop /\ UNCHANGED disk

\* The program is edited, or a newer build appears.
Edit ==
    /\ prep.changes < Changes
    /\ prep' = [prep EXCEPT !.changes = @ + 1, !.now = @ + 1]
    /\ Put(<<"program">>, disk[<<"program">>].of + 1)

\* A source is replaced between runs; one that is being pinned, at any time.
ReplaceArchive ==
    /\ prep.changes < Changes /\ Has({<<"archive">>}) /\ ("pins" = prep.tool \/ prep.pc = "idle")
    /\ prep' = [prep EXCEPT !.changes = @ + 1, !.now = @ + 1]
    /\ \E of \in {"good", "damaged", "altered"} : Put(<<"archive">>, of)

-----------------------------------------------------------------------------
\* verify_file: the size, and a later stamp with the pinned hash is believed.  A
\* stamp's "looked" is the time its writer last looked at the archive; the file
\* does not hold it.
Stamp(hash, looked) == Put(<<"stamp">>, [hash |-> hash, looked |-> looked])
Trusted(hash) == /\ SameSize(disk[<<"archive">>].of, hash)
                 /\ Newer(<<"stamp">>, <<"archive">>) /\ disk[<<"stamp">>].of.hash = hash

-----------------------------------------------------------------------------
\* prepare-corpus.sh
Parts == {<<"output.part">>, <<"report.part">>, <<"digest.part">>}

Fetch ==
    /\ Running("corpus", "begin")
    /\ \/ Has({<<"archive">>}) /\ Go("verify") /\ UNCHANGED disk
       \/ ~Has({<<"archive">>}) /\ Go("verify") /\ Put(<<"archive">>, "good")
       \/ ~Has({<<"archive">>}) /\ Stop /\ UNCHANGED disk

\* verify_file, in one step: this archive is replaced between runs only.
Verify ==
    /\ Running("corpus", "verify")
    /\ \/ Trusted("good") /\ Go("ready?") /\ UNCHANGED disk
       \/ /\ ~Trusted("good")
          /\ IF disk[<<"archive">>].of = "good" THEN Go("ready?") /\ Stamp("good", prep.now)
             ELSE Stop /\ UNCHANGED disk

Ready == Has({<<"output">>, <<"report">>, <<"digest">>}) /\ Newer(<<"output">>, <<"archive">>)
           /\ Newer(<<"output">>, <<"program">>)

Transform ==
    /\ Running("corpus", "ready?")
    /\ \/ Ready /\ Stop /\ UNCHANGED disk
       \/ /\ ~Ready
          /\ LET made == [program |-> disk[<<"program">>].of, archive |-> disk[<<"archive">>].of]
             IN  \/ /\ Go("digest")
                    /\ disk' = [n \in {<<"output.part">>, <<"report.part">>} |-> File(made, prep.now)]
                                 ++ Without(Parts)
                 \/ Stop /\ disk' = Without(Parts)

WriteDigest ==
    /\ Running("corpus", "digest") /\ Go("output")
    /\ Put(<<"digest.part">>, disk[<<"report.part">>].of)

MoveInto ==
    /\ prep.tool = "corpus" /\ prep.pc \in {"output", "report", "digest it"}
    /\ \/ prep.pc = "output" /\ Go("report") /\ disk' = Renamed(<<"output.part">>, <<"output">>)
       \/ prep.pc = "report" /\ Go("digest it") /\ disk' = Renamed(<<"report.part">>, <<"report">>)
       \/ prep.pc = "digest it" /\ Stop /\ disk' = Renamed(<<"digest.part">>, <<"digest">>)

\* A slip: a checksum beside the corpus is believed whenever it is there.
CorpusSha256Present == IF Has({<<"digest">>}) THEN disk[<<"digest">>].of ELSE disk[<<"output">>].of
\* corpus_sha256
CorpusSha256 == IF Newer(<<"digest">>, <<"output">>) THEN disk[<<"digest">>].of ELSE disk[<<"output">>].of

\* A campaign takes the corpus: a checksum it had to compute is kept beside it.
TakeCorpus ==
    /\ Running("corpus", "idle") /\ Has({<<"output">>}) /\ ~Newer(<<"digest">>, <<"output">>)
    /\ Put(<<"digest">>, CorpusSha256) /\ Stop

\* load_cardinality_report
ReportAccepted == Has({<<"output">>, <<"report">>}) /\ disk[<<"report">>].of = CorpusSha256

-----------------------------------------------------------------------------
\* install_snapshot.install: the newest build's archive, checked against the
\* published hash if the engine has one, is unpacked beside its place, the jar's
\* commit compared, and only then renamed into it.
Home(b) == <<"home", b>>
Tar(b) == <<"tar", b>>

ResolveBuild ==
    /\ Running("snapshot", "begin")
    /\ LET b == disk[<<"program">>].of
       IN  prep' = [prep EXCEPT !.version = b, !.now = @ + 1,
                       !.pc = IF Has({Home(b)}) THEN "link" ELSE "download"]
    /\ UNCHANGED disk

\* An archive of before is taken as it is.
DownloadBuild ==
    /\ Running("snapshot", "download") /\ Go("unpack")
    /\ \/ Has({Tar(prep.version)}) /\ UNCHANGED disk
       \/ ~Has({Tar(prep.version)}) /\ \E of \in Archives : Put(Tar(prep.version), of)

Unpack ==
    /\ Running("snapshot", "unpack")
    /\ LET of == disk[Tar(prep.version)].of
       IN  IF of \in {"damaged", "other"} \/ (prep.published /\ of # "good") THEN Stop /\ UNCHANGED disk
           ELSE Go("link") /\ Put(Home(prep.version), of)

Link ==
    /\ Running("snapshot", "link") /\ Stop
    /\ Put(<<"link">>, prep.version)

-----------------------------------------------------------------------------
\* vector_datasets.prepare: corpus, queries, truth and their checksums are made
\* in a directory beside and renamed together, under a name that is the hash of
\* what made them; then, new or old, compared with the identity and checksums.
Prepared(v) == <<"prepared", v>>

Stage ==
    /\ Running("vectors", "begin")
    /\ LET v == disk[<<"program">>].of
       IN  /\ prep' = [prep EXCEPT !.version = v, !.now = @ + 1, !.pc = "recheck"]
           /\ IF Has({Prepared(v)}) THEN UNCHANGED disk
              ELSE Put(Prepared(v), [identity |-> v, corpus |-> v, truth |-> v, sums |-> <<v, v>>])

Recheck ==
    /\ Running("vectors", "recheck")
    /\ LET p == disk[Prepared(prep.version)].of
       IN  IF p.identity # prep.version \/ p.sums # <<p.corpus, p.truth>>
             THEN Stop /\ UNCHANGED disk
             ELSE Go("accepted") /\ Put(<<"sidecar">>, p.sums[1])

\* A file of a prepared directory is overwritten between two runs.
Overwrite ==
    /\ Running("vectors", "idle") /\ prep.changes < Changes
    /\ Has({Prepared(1)})
    /\ \E file \in {"corpus", "truth"} :
          Put(Prepared(1), [disk[Prepared(1)].of EXCEPT ![file] = 0])
    /\ prep' = [prep EXCEPT !.changes = @ + 1, !.now = @ + 1]

-----------------------------------------------------------------------------
\* pin_vector_sources.main: a file that the manifest does not pin yet is hashed
\* between two looks at its time, then stamped; pinned or not, it is verified, and
\* the manifest is written aside and renamed.
PinStat ==
    /\ Running("pins", "begin")
    /\ prep' = IF Has({<<"manifest">>})
                 THEN [prep EXCEPT !.hash = disk[<<"manifest">>].of, !.now = @ + 1, !.pc = "verify"]
                 ELSE [prep EXCEPT !.seen = disk[<<"archive">>].time, !.now = @ + 1, !.pc = "hash"]
    /\ UNCHANGED disk

PinHash ==
    /\ Running("pins", "hash")
    /\ prep' = [prep EXCEPT !.hash = disk[<<"archive">>].of, !.now = @ + 1, !.pc = "look"]
    /\ UNCHANGED disk

PinLook ==
    /\ Running("pins", "look")
    /\ IF disk[<<"archive">>].time # prep.seen THEN Stop
       ELSE prep' = [prep EXCEPT !.seen = prep.now, !.now = @ + 1, !.pc = "stamp"]
    /\ UNCHANGED disk

\* The stamp of the pin, then verify_file: what it does not believe it hashes, and
\* stamps again.
PinStamp ==
    /\ prep.tool = "pins" /\ Stamp(prep.hash, prep.seen)
    /\ \/ prep.pc = "stamp" /\ Go("verify")
       \/ prep.pc = "stamp again" /\ Go("manifest")

PinVerify ==
    /\ Running("pins", "verify") /\ UNCHANGED disk
    /\ IF Trusted(prep.hash) THEN Go("manifest")
       ELSE IF disk[<<"archive">>].of # prep.hash THEN Stop
       ELSE prep' = [prep EXCEPT !.seen = prep.now, !.now = @ + 1, !.pc = "stamp again"]

WritePins ==
    /\ Running("pins", "manifest") /\ Go("replace")
    /\ Put(<<"manifest.part">>, prep.hash)

ReplacePins ==
    /\ Running("pins", "replace") /\ Stop
    /\ disk' = Renamed(<<"manifest.part">>, <<"manifest">>)

-----------------------------------------------------------------------------
\* select_queries: the results of every engine on every lane.  One result may
\* be of another source, analyzer, corpus or build than the rest.
Selectable == [source |-> "s", posture |-> "p", corpus |-> "c", build |-> "b"]
ResultSets ==
    LET counts == [Lanes \X AdmittedQueries -> {0, 1}]
        odd == DOMAIN Selectable \cup {"none"}
    IN  {[x \in Lanes \X Sides |->
             [about |-> IF x = <<"smoke", "rest">> /\ o # "none"
                          THEN [Selectable EXCEPT ![o] = "other"] ELSE Selectable,
              found |-> [q \in AdmittedQueries |-> IF x[2] = "rest" THEN c[x[1], q] ELSE 0]]] :
            c \in counts, o \in odd}

\* load_result and select: what is refused, and the queries that agree.
Selects(r) ==
    /\ \A x \in DOMAIN r : r[x].about.source = "s" /\ r[x].about.posture = "p"
    /\ \A l \in Lanes : \A e, f \in Sides : r[l, e].about.corpus = r[l, f].about.corpus
    /\ \A e \in Sides : \A l, m \in Lanes : r[l, e].about.build = r[m, e].about.build
Agreeing(r) == {q \in AdmittedQueries : \A l \in Lanes : \A e, f \in Sides :
                   r[l, e].found[q] = r[l, f].found[q]}

Select ==
    /\ Running("selection", "begin")
    /\ \E r \in ResultSets :
          IF Selects(r)
            THEN /\ prep' = [prep EXCEPT !.results = r, !.now = @ + 1, !.pc = "manifest"]
                 /\ Put(<<"queries">>, Agreeing(r))
            ELSE Stop /\ UNCHANGED disk

ReplaceManifest ==
    /\ Running("selection", "manifest") /\ Stop
    /\ Put(<<"selection">>, [results |-> prep.results, sha256 |-> Agreeing(prep.results)])

\* report.corpus_lines quotes the selection for queries of its hash alone.
SelectionQuoted ==
    Has({<<"queries">>, <<"selection">>}) /\ disk[<<"selection">>].of.sha256 = disk[<<"queries">>].of

-----------------------------------------------------------------------------
PrepStep ==
    \/ PrepBegin \/ PrepKilled \/ Edit \/ ReplaceArchive
    \/ Fetch \/ Verify \/ Transform \/ WriteDigest \/ MoveInto \/ TakeCorpus
    \/ ResolveBuild \/ DownloadBuild \/ Unpack \/ Link
    \/ Stage \/ Recheck \/ Overwrite
    \/ PinStat \/ PinHash \/ PinLook \/ PinStamp \/ PinVerify \/ WritePins \/ ReplacePins
    \/ Select \/ ReplaceManifest

\* Whatever was killed where, and edited or replaced since, what passes the test
\* of its reader is what the reader takes it for: a report of cardinalities is of
\* the corpus beside it, and that of a verified archive; the link names a build
\* that is there, of the commit it says and, where a hash is published, as
\* published; accepted vectors and truth are those of the program; a stamp that
\* is believed is of the file, unless that was replaced between the last look at
\* it and the writing of the stamp; queries quoted as agreed are.
BelievedIsWhole ==
    /\ (prep.tool = "corpus" /\ prep.pc = "idle" /\ ReportAccepted) =>
          disk[<<"report">>].of = disk[<<"output">>].of /\ disk[<<"output">>].of.archive = "good"
    /\ Has({<<"link">>}) =>
          /\ Has({Home(disk[<<"link">>].of)})
          /\ disk[Home(disk[<<"link">>].of)].of \in {"good"} \cup IF prep.published THEN {} ELSE {"altered"}
    /\ Running("vectors", "accepted") =>
          LET p == disk[Prepared(prep.version)].of
          IN  p.corpus = prep.version /\ p.truth = prep.version
    /\ (/\ Has({<<"stamp">>, <<"archive">>}) /\ Newer(<<"stamp">>, <<"archive">>)
        /\ disk[<<"archive">>].time < disk[<<"stamp">>].of.looked) =>
          disk[<<"stamp">>].of.hash = disk[<<"archive">>].of
    /\ SelectionQuoted => \A q \in disk[<<"queries">>].of : \A l \in Lanes : \A e, f \in Sides :
          LET r == disk[<<"selection">>].of.results
          IN  r[l, e].found[q] = r[l, f].found[q] /\ r[l, e].about.corpus = r[l, f].about.corpus
=============================================================================
