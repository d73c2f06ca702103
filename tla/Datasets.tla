------------------------------ MODULE Datasets ------------------------------
(***************************************************************************)
(* The life of an engine's fed indexes: scripts/engine-common.sh and the   *)
(* scripts that start, stop, feed and measure an engine.  One command runs *)
(* at a time; between commands only files and servers remain: a data       *)
(* directory per dataset with the identity of the corpus fed into it, a    *)
(* server process that a command may leave running, and its PID file.      *)
(* Two datasets here are two that a served document count and collection   *)
(* do not tell apart, such as one corpus under two numeric postures.       *)
(***************************************************************************)
EXTENDS Naturals, FiniteSets, Sequences, SequencesExt

CONSTANTS
  Dataset,      \* names of datasets: data directories of one engine
  Corpus,       \* what can be fed: a corpus hash and an index layout version
  Server,       \* process ids
  Commands,     \* bound: commands issued
  Kills         \* bound: commands that are killed (SIGKILL, Ctrl-C, a crash)

Kinds == {"baseline", "refeed", "grid", "quick"}

ASSUME ConstantsAssumption ==
  /\ {"none", "part"} \cap Corpus = {} /\ "none" \notin Dataset \cup Server
  /\ Commands \in Nat /\ Kills \in Nat

VARIABLES
  todo,         \* the steps the running command has before it; <<>>: none runs
  cmd,          \* the command: its script, dataset, corpus and cache posture
  dir,          \* what a data directory holds: none, part of a feed, a corpus
  identity,     \* the recorded identity beside it
  srv,          \* the server processes
  pidfile,      \* run/<engine>.pid
  new,          \* the start script's PID
  result,       \* what the command's last measured cell says and what served it
  left          \* what is left of the two bounds; starts given up on whose server lives

vars == <<todo, cmd, dir, identity, srv, pidfile, new, result, left>>

Dead == [st |-> "dead", ds |-> "none", lost |-> "none", cache |-> "off", ingest |-> FALSE]
Alive(p) == p # "none" /\ srv[p].st # "dead"
Up == {p \in Server : srv[p].st = "up"}         \* who answers on the port

\* A server whose directory was archived goes on serving what it had opened.
Served(p) == IF srv[p].lost = "none" THEN dir[srv[p].ds] ELSE srv[p].lost

Start   == <<"fork", "write", "ready">>
Measure == <<"count", "measure">>

\* A slip: the identity is recorded before the feed.
FeedSessionSignedEarly ==
  <<"stop", "archive", "forget">> \o Start \o <<"record", "feed", "verify", "stop">>

\* ensure_dataset, when it does not reuse what is there.
FeedSession ==
  <<"stop", "archive", "forget">> \o Start \o <<"feed", "verify", "record", "stop">>

\* run-baseline.sh (with BASELINE_REFEED=1: refeed), grid.sh, quick.sh.
Program(kind) ==
  CASE kind = "grid"  -> <<"ensure", "running">> \o Measure
    [] kind = "quick" -> <<"running", "count", "identity", "measure">>
    [] OTHER          -> <<"stop", "ensure">> \o Start \o Measure \o <<"stop">>

Doing(step) == todo # <<>> /\ Head(todo) = step
Feeding == "record" \in ToSet(todo)
Proceed == todo' = Tail(todo)
InsteadDo(steps) == todo' = steps \o Tail(todo)

\* A failure ends the command; within a session that owns its server, the
\* server is stopped first.
AfterFailure ==
  IF Head(todo) \in {"feed", "verify", "record"} \/ (Doing("count") /\ cmd.kind \in {"baseline", "refeed"})
  THEN <<"stop">> ELSE <<>>
Fail == todo' = AfterFailure

Init ==
  /\ todo = <<>> /\ cmd = [kind |-> "quick", ds |-> "none", corpus |-> "none", cache |-> "off"]
  /\ dir = [d \in Dataset |-> "none"] /\ identity = [d \in Dataset |-> "none"]
  /\ srv = [p \in Server |-> Dead] /\ pidfile = "none" /\ new = "none"
  /\ result = <<>>
  /\ left = [commands |-> Commands, kills |-> Kills, lingering |-> 0]

-----------------------------------------------------------------------------
(* Commands come and go.                                                   *)

Begin ==
  /\ todo = <<>> /\ left.commands > 0
  /\ cmd' \in [kind : Kinds, ds : Dataset, corpus : Corpus, cache : {"on", "off"}]
  /\ todo' = Program(cmd'.kind) /\ result' = <<>>
  /\ left' = [left EXCEPT !.commands = @ - 1]
  /\ UNCHANGED <<dir, identity, srv, pidfile, new>>

\* Servers are in the background: they outlive the script that started them.
Killed ==
  /\ todo # <<>> /\ left.kills > 0
  /\ todo' = <<>>
  /\ left' = [left EXCEPT !.kills = @ - 1]
  /\ UNCHANGED <<cmd, dir, identity, srv, pidfile, new, result>>

-----------------------------------------------------------------------------
(* Server processes.                                                       *)

\* An engine opens its data directory, creating it, and takes the port.
ServerUp(p) ==
  /\ srv[p].st = "starting" /\ Up = {}
  /\ srv' = [srv EXCEPT ![p].st = "up"]
  /\ dir' = IF srv[p].lost = "none" /\ Served(p) = "none"
            THEN [dir EXCEPT ![srv[p].ds] = "part"] ELSE dir
  /\ UNCHANGED <<todo, cmd, identity, pidfile, new, result, left>>

ServerDies(p) ==
  /\ srv[p].st # "dead"
  /\ srv' = [srv EXCEPT ![p] = Dead]
  /\ UNCHANGED <<todo, cmd, dir, identity, pidfile, new, result, left>>

\* A server's data is replaced by `content`.
Holds(p, content) ==
  IF srv[p].lost = "none"
  THEN dir' = [dir EXCEPT ![srv[p].ds] = content] /\ UNCHANGED srv
  ELSE srv' = [srv EXCEPT ![p].lost = content] /\ UNCHANGED dir

-----------------------------------------------------------------------------
(* start-<engine>.sh and stop-<engine>.sh.                                 *)

Fork ==
  /\ Doing("fork")
  /\ \/ pidfile # "none" /\ Fail /\ UNCHANGED <<srv, new>>
     \/ /\ pidfile = "none" /\ Proceed
        /\ \E p \in Server :
             /\ ~Alive(p) /\ new' = p
             /\ srv' = [srv EXCEPT ![p] =
                  [st |-> "starting", ds |-> cmd.ds, lost |-> "none",
                   cache |-> cmd.cache, ingest |-> Feeding]]
  /\ UNCHANGED <<cmd, dir, identity, pidfile, result, left>>

WritePid ==
  /\ Doing("write") /\ Proceed
  /\ pidfile' = new
  /\ UNCHANGED <<cmd, dir, identity, srv, new, result, left>>

\* wait_ready: the new process is alive and somebody answers on the port; it
\* has died; or START_TIMEOUT is over, and it is sent SIGTERM, which it may
\* take its time to heed.
Ready ==
  /\ Doing("ready")
  /\ \/ Alive(new) /\ Up # {} /\ Proceed /\ UNCHANGED <<srv, pidfile, left>>
     \/ ~Alive(new) /\ Fail /\ pidfile' = "none" /\ UNCHANGED <<srv, left>>
     \/ /\ Alive(new) /\ Up = {} /\ Fail /\ pidfile' = "none"
        /\ \/ srv' = [srv EXCEPT ![new] = Dead] /\ UNCHANGED left
           \/ left' = [left EXCEPT !.lingering = @ + 1] /\ UNCHANGED srv
  /\ UNCHANGED <<cmd, dir, identity, new, result>>

\* stop_pidfile waits until the server has ended.  Under set -e a server that
\* dies between `kill -0` and `kill` fails the script before it archives the file.
Stop ==
  /\ Doing("stop")
  /\ \/ pidfile = "none" /\ Proceed /\ UNCHANGED <<srv, pidfile>>
     \/ pidfile # "none" /\ Proceed /\ srv' = [srv EXCEPT ![pidfile] = Dead] /\ pidfile' = "none"
     \/ /\ Alive(pidfile) /\ Fail
        /\ srv' = [srv EXCEPT ![pidfile] = Dead] /\ UNCHANGED pidfile
  /\ UNCHANGED <<cmd, dir, identity, new, result, left>>

-----------------------------------------------------------------------------
(* ensure_dataset.                                                         *)

\* A slip: any recorded identity will do.
EnsureAnything ==
  /\ Doing("ensure")
  /\ \/ dir[cmd.ds] # "none" /\ identity[cmd.ds] # "none" /\ cmd.kind # "refeed" /\ Proceed
     \/ (dir[cmd.ds] = "none" \/ identity[cmd.ds] = "none" \/ cmd.kind = "refeed")
          /\ InsteadDo(FeedSession)
  /\ UNCHANGED <<cmd, dir, identity, srv, pidfile, new, result, left>>

Reusable == dir[cmd.ds] # "none" /\ identity[cmd.ds] = cmd.corpus /\ cmd.kind # "refeed"

Ensure ==
  /\ Doing("ensure")
  /\ IF Reusable THEN Proceed ELSE InsteadDo(FeedSession)
  /\ UNCHANGED <<cmd, dir, identity, srv, pidfile, new, result, left>>

\* archive_engine_data moves the directory first ...
Archive ==
  /\ Doing("archive") /\ Proceed
  /\ srv' = [p \in Server |->
       IF srv[p].ds = cmd.ds /\ srv[p].lost = "none" /\ dir[cmd.ds] # "none"
       THEN [srv[p] EXCEPT !.lost = dir[cmd.ds]] ELSE srv[p]]
  /\ dir' = [dir EXCEPT ![cmd.ds] = "none"]
  /\ UNCHANGED <<cmd, identity, pidfile, new, result, left>>

\* ... and then its identity.
Forget ==
  /\ Doing("forget") /\ Proceed
  /\ identity' = [identity EXCEPT ![cmd.ds] = "none"]
  /\ UNCHANGED <<cmd, dir, srv, pidfile, new, result, left>>

\* feed_dataset feeds whoever answers on the port, and may fail on the way.
Feed ==
  /\ Doing("feed")
  /\ \/ Up = {} /\ Fail /\ UNCHANGED <<dir, srv>>
     \/ \E p \in Up : Holds(p, cmd.corpus) /\ Proceed
     \/ \E p \in Up : Holds(p, "part") /\ Fail
  /\ UNCHANGED <<cmd, identity, pidfile, new, result, left>>

\* verify_count: whoever answers serves a whole corpus.
Count ==
  /\ Doing("verify") \/ Doing("count")
  /\ IF \E p \in Up : Served(p) \in Corpus THEN Proceed ELSE Fail
  /\ UNCHANGED <<cmd, dir, identity, srv, pidfile, new, result, left>>

Record ==
  /\ Doing("record") /\ Proceed
  /\ identity' = [identity EXCEPT ![cmd.ds] = cmd.corpus]
  /\ UNCHANGED <<cmd, dir, srv, pidfile, new, result, left>>

-----------------------------------------------------------------------------
(* ensure_running, verify_indexed_corpus and the cells.                    *)

\* A server left running is kept when its query cache has the right posture.
Running ==
  /\ Doing("running")
  /\ \/ /\ Alive(pidfile) /\ \E p \in Up : srv[p].cache = cmd.cache
        /\ Proceed /\ UNCHANGED pidfile
     \/ /\ Alive(pidfile) /\ ~\E p \in Up : srv[p].cache = cmd.cache
        /\ InsteadDo(<<"stop">> \o Start) /\ UNCHANGED pidfile
     \/ ~Alive(pidfile) /\ InsteadDo(Start) /\ pidfile' = "none"
  /\ UNCHANGED <<cmd, dir, identity, srv, new, result, left>>

CheckIdentity ==
  /\ Doing("identity")
  /\ IF identity[cmd.ds] = cmd.corpus THEN Proceed ELSE Fail
  /\ UNCHANGED <<cmd, dir, identity, srv, pidfile, new, result, left>>

\* run-driver.sh for the cells: a result needs a server and its process.
Cells ==
  /\ Doing("measure") /\ Proceed
  /\ IF Alive(pidfile) /\ Up # {}
     THEN \E p \in Up : result' = <<[ds |-> srv[p].ds, corpus |-> Served(p),
                                     cache |-> srv[p].cache, ingest |-> srv[p].ingest]>>
     ELSE UNCHANGED result
  /\ UNCHANGED <<cmd, dir, identity, srv, pidfile, new, left>>

\* grid.sh -x, and stop scripts called by hand, between commands.
StopByHand ==
  /\ todo = <<>> /\ pidfile # "none"
  /\ srv' = [srv EXCEPT ![pidfile] = Dead] /\ pidfile' = "none"
  /\ UNCHANGED <<todo, cmd, dir, identity, new, result, left>>

Script ==
  \/ Fork \/ WritePid \/ Ready \/ Stop \/ Ensure \/ Archive \/ Forget \/ Feed
  \/ Count \/ Record \/ Running \/ CheckIdentity \/ Cells

Next ==
  \/ Begin \/ Script \/ Killed \/ StopByHand
  \/ \E p \in Server : ServerUp(p) \/ ServerDies(p)

Spec == Init /\ [][Next]_vars

-----------------------------------------------------------------------------
(* Properties.                                                             *)

Idle == todo = <<>>

\* No command was killed, and no server has outlived a start that gave it up.
Undisturbed == left.kills = Kills /\ left.lingering = 0

\* Between commands, a directory that holds anything and has a recorded
\* identity holds that corpus, whole: what ensure_dataset will reuse untouched
\* (lines 195-212).  Files, feeds, failures and crashes of servers relate.
ReusableIsWhole ==
  Undisturbed /\ Idle =>
    \A d \in Dataset : dir[d] # "none" /\ identity[d] # "none" => dir[d] = identity[d]

\* A result was measured on its command's dataset, corpus and cache posture,
\* whatever was running when the command began.
\* (engine-common.sh 335-350 and 364-371.)
ResultIsSound ==
  \A i \in DOMAIN result :
    result[i].ds = cmd.ds /\ result[i].corpus = cmd.corpus /\ result[i].cache = cmd.cache

\* What does hold of every result: its cache posture was the one asked for;
\* its corpus as well, when the server that was measured was on the dataset;
\* and of run-baseline.sh, which begins with a stop and starts the server it
\* measures (97-132), the dataset too.  And no result comes from a server that
\* still has the posture of ingest (195-198).
MeasuredAsAsked ==
  Undisturbed => \A i \in DOMAIN result :
    /\ result[i].cache = cmd.cache /\ ~result[i].ingest
    /\ result[i].ds = cmd.ds => result[i].corpus = cmd.corpus
    /\ cmd.kind \in {"baseline", "refeed"} => result[i].ds = cmd.ds
=============================================================================
