---------------------------- MODULE DatasetsProofs ----------------------------
(***************************************************************************)
(* Proofs about the datasets' lifecycle, for any datasets, corpora, number *)
(* of servers and number of commands, as long as nothing disturbs it from  *)
(* outside: no command is killed, and no server outlives a start that gave *)
(* it up.                                                                  *)
(*                                                                         *)
(* The argument follows a command along its line of steps.  For every line *)
(* and every place on it the invariant says which server may be alive (the *)
(* PID file's, or the one just forked), in which posture it was started    *)
(* (dataset, cache, ingest), and what the records and the directories say: *)
(* a dataset has an identity only where its directory holds that corpus,   *)
(* but for the one step of a feed session between the two, and the command *)
(* reaches its measurement only where the dataset it names has the         *)
(* corpus it names.                                                        *)
(***************************************************************************)
EXTENDS Datasets, TLAPS

-----------------------------------------------------------------------------
(* The inductive invariant.                                                *)

Steps == {"stop", "ensure", "archive", "forget", "fork", "write", "ready", "feed",
          "verify", "record", "running", "count", "identity", "measure"}

\* The lines of steps a command goes through, once it knows what it has to do:
\* a baseline or a grid whose dataset is reused or fed, and a grid or quick.sh
\* that starts a server of its own; after a failure only a stop is left.
Line == [
  base |-> <<"stop", "ensure", "fork", "write", "ready", "count", "measure", "stop">>,
  fedbase |-> <<"stop", "archive", "forget", "fork", "write", "ready", "feed", "verify",
               "record", "stop", "fork", "write", "ready", "count", "measure", "stop">>,
  grid |-> <<"ensure", "running", "count", "measure">>,
  fedgrid |-> <<"stop", "archive", "forget", "fork", "write", "ready", "feed", "verify",
               "record", "stop", "running", "count", "measure">>,
  owngrid |-> <<"stop", "fork", "write", "ready", "count", "measure">>,
  quick |-> <<"running", "count", "identity", "measure">>,
  ownquick |-> <<"stop", "fork", "write", "ready", "count", "identity", "measure">>,
  last |-> <<"stop">>]

Lines == {"base", "fedbase", "grid", "fedgrid", "owngrid", "quick", "ownquick", "last"}

\* s is what is left of line l after its first k steps.
Spells(s, l, k) ==
  /\ l \in Lines /\ k \in 0 .. Len(Line[l])
  /\ s \in Seq(Steps) /\ Len(s) = Len(Line[l]) - k
  /\ \A i \in 1 .. Len(s) : s[i] = Line[l][k + i]

\* The step the command is at, with k steps of line l behind it.
Next1(l, k) == IF k < Len(Line[l]) THEN Line[l][k + 1] ELSE "end"

\* The command's kind allows the line.
Allowed(l) ==
  /\ l \in {"base", "fedbase"} => cmd.kind \in {"baseline", "refeed"}
  /\ l \in {"grid", "fedgrid", "owngrid"} => cmd.kind = "grid"
  /\ l \in {"quick", "ownquick"} => cmd.kind = "quick"

\* The feed session is on, or over and the dataset known to be fed.
Session(l, k) == l \in {"fedbase", "fedgrid"} /\ k < 9
Ensured(l, k) ==
  \/ l = "base" /\ k >= 2
  \/ l \in {"fedbase", "fedgrid"} /\ k >= 9
  \/ l = "grid" /\ k >= 1
  \/ l = "owngrid"

\* The state is of the shape the proofs need, and no server outlives its stop.
Typed ==
  /\ cmd \in [kind : Kinds, ds : Dataset \cup {"none"}, corpus : Corpus \cup {"none"}, cache : {"on", "off"}]
  /\ dir \in [Dataset -> Corpus \cup {"none", "part"}]
  /\ identity \in [Dataset -> Corpus \cup {"none"}]
  /\ DOMAIN srv = Server
  /\ \A p \in Server : srv[p] = Dead \/ (srv[p].st # "dead" /\ srv[p].ds \in Dataset)
  /\ \A p \in Server : srv[p].lost = "none"
  /\ pidfile \in Server \cup {"none"} /\ new \in Server \cup {"none"}

\* At most one server lives: the PID file's, or the one just forked.
OneServer(step) ==
  /\ step = "write" => pidfile = "none" /\ new \in Server /\ \A p \in Server : Alive(p) => p = new
  /\ step # "write" => \A p \in Server : Alive(p) => p = pidfile
  /\ step = "ready" => new = pidfile

\* Where the steps count on it, the PID file is gone.
Stopped(l, k) ==
  Next1(l, k) \in {"archive", "forget", "fork"} \/ (l = "base" /\ k = 1) => pidfile = "none"

\* A server that lives was started as the command at this step means it to be.
Posture(l, k) ==
  LET step == Next1(l, k) IN
  \A p \in Server : Alive(p) =>
    /\ srv[p].ingest => step = "stop" \/ (Session(l, k) /\ step \in {"write", "ready", "feed", "verify", "record"})
    /\ step \in {"write", "ready", "feed", "verify", "record"} => srv[p].ds = cmd.ds
    /\ step \in {"write", "ready", "count", "identity", "measure"} => srv[p].cache = cmd.cache
    /\ step \in {"count", "measure"} /\ l \in {"base", "fedbase"} => srv[p].ds = cmd.ds

\* What the records promise of the directories, and of the command's dataset.
Recorded(l, k) ==
  LET step == Next1(l, k) IN
  /\ step # "end" => cmd.ds \in Dataset /\ cmd.corpus \in Corpus
  /\ \A d \in Dataset : identity[d] # "none" =>
       dir[d] = identity[d] \/ (step = "forget" /\ d = cmd.ds)
  /\ Session(l, k) /\ step \in {"fork", "write", "ready", "feed", "verify", "record"} =>
       identity[cmd.ds] = "none"
  /\ step \in {"verify", "record"} => dir[cmd.ds] = cmd.corpus
  /\ step # "end" /\ (Ensured(l, k) \/ (l \in {"quick", "ownquick"} /\ step = "measure")) =>
       identity[cmd.ds] = cmd.corpus

\* The results measured so far.
Sound ==
  \A i \in DOMAIN result :
    /\ result[i].cache = cmd.cache /\ ~result[i].ingest
    /\ result[i].ds = cmd.ds => result[i].corpus = cmd.corpus
    /\ cmd.kind \in {"baseline", "refeed"} => result[i].ds = cmd.ds

\* All of it at one place of one line.
Point(l, k) ==
  /\ Spells(todo, l, k) /\ Allowed(l)
  /\ OneServer(Next1(l, k)) /\ Stopped(l, k) /\ Posture(l, k) /\ Recorded(l, k)

Core == Typed /\ Sound /\ \E l \in Lines : \E k \in 0 .. Len(Line[l]) : Point(l, k)

Bounds == left \in [commands : Nat, kills : Nat, lingering : Nat] /\ left.kills <= Kills
IInv == Bounds /\ (Undisturbed => Core)

-----------------------------------------------------------------------------
(* What is left of a line.                                                 *)

\* The length of each line.
LEMMA Lengths ==
  /\ Len(Line["base"]) = 8 /\ Len(Line["fedbase"]) = 16 /\ Len(Line["grid"]) = 4
  /\ Len(Line["fedgrid"]) = 13 /\ Len(Line["owngrid"]) = 6 /\ Len(Line["quick"]) = 4
  /\ Len(Line["ownquick"]) = 7 /\ Len(Line["last"]) = 1
BY DEF Line

\* Where each step stands.
LEMMA Places ==
  ASSUME NEW l \in Lines, NEW k \in Nat, k < Len(Line[l])
  PROVE  /\ Line[l][k + 1] \in Steps
         /\ Line[l][k + 1] = "ensure" => \/ l = "base" /\ k = 1
                                         \/ l = "grid" /\ k = 0
         /\ Line[l][k + 1] = "archive" => l \in {"fedbase", "fedgrid"} /\ k = 1
         /\ Line[l][k + 1] = "forget" => l \in {"fedbase", "fedgrid"} /\ k = 2
         /\ Line[l][k + 1] = "feed" => l \in {"fedbase", "fedgrid"} /\ k = 6
         /\ Line[l][k + 1] = "verify" => l \in {"fedbase", "fedgrid"} /\ k = 7
         /\ Line[l][k + 1] = "record" => l \in {"fedbase", "fedgrid"} /\ k = 8
         /\ Line[l][k + 1] = "running" => \/ l = "grid" /\ k = 1
                                          \/ l = "fedgrid" /\ k = 10
                                          \/ l = "quick" /\ k = 0
         /\ Line[l][k + 1] = "identity" => \/ l = "quick" /\ k = 2
                                           \/ l = "ownquick" /\ k = 5
         /\ Line[l][k + 1] = "fork" => \/ l = "base" /\ k = 2
                                       \/ l \in {"fedbase", "fedgrid"} /\ k = 3
                                       \/ l = "fedbase" /\ k = 10
                                       \/ l \in {"owngrid", "ownquick"} /\ k = 1
         /\ Line[l][k + 1] = "write" => \/ l = "base" /\ k = 3
                                        \/ l \in {"fedbase", "fedgrid"} /\ k = 4
                                        \/ l = "fedbase" /\ k = 11
                                        \/ l \in {"owngrid", "ownquick"} /\ k = 2
         /\ Line[l][k + 1] = "ready" => \/ l = "base" /\ k = 4
                                        \/ l \in {"fedbase", "fedgrid"} /\ k = 5
                                        \/ l = "fedbase" /\ k = 12
                                        \/ l \in {"owngrid", "ownquick"} /\ k = 3
         /\ Line[l][k + 1] = "count" => \/ l = "base" /\ k = 5
                                        \/ l = "fedbase" /\ k = 13
                                        \/ l = "grid" /\ k = 2
                                        \/ l = "fedgrid" /\ k = 11
                                        \/ l = "owngrid" /\ k = 4
                                        \/ l = "quick" /\ k = 1
                                        \/ l = "ownquick" /\ k = 4
         /\ Line[l][k + 1] = "measure" => \/ l = "base" /\ k = 6
                                          \/ l = "fedbase" /\ k = 14
                                          \/ l = "grid" /\ k = 3
                                          \/ l = "fedgrid" /\ k = 12
                                          \/ l = "owngrid" /\ k = 5
                                          \/ l = "quick" /\ k = 3
                                          \/ l = "ownquick" /\ k = 6
         /\ Line[l][k + 1] = "stop" => \/ l = "base" /\ k \in {0, 7}
                                       \/ l = "fedbase" /\ k \in {0, 9, 15}
                                       \/ l = "fedgrid" /\ k \in {0, 9}
                                       \/ l \in {"owngrid", "ownquick", "last"} /\ k = 0
<1>1. CASE l = "base"
  <2>1. k \in 0 .. 7
    BY <1>1, Lengths
  <2> QED BY <1>1, <2>1 DEF Line, Steps
<1>2. CASE l = "fedbase"
  <2>1. k \in 0 .. 15
    BY <1>2, Lengths
  <2> QED BY <1>2, <2>1 DEF Line, Steps
<1>3. CASE l = "grid"
  <2>1. k \in 0 .. 3
    BY <1>3, Lengths
  <2> QED BY <1>3, <2>1 DEF Line, Steps
<1>4. CASE l = "fedgrid"
  <2>1. k \in 0 .. 12
    BY <1>4, Lengths
  <2> QED BY <1>4, <2>1 DEF Line, Steps
<1>5. CASE l = "owngrid"
  <2>1. k \in 0 .. 5
    BY <1>5, Lengths
  <2> QED BY <1>5, <2>1 DEF Line, Steps
<1>6. CASE l = "quick"
  <2>1. k \in 0 .. 3
    BY <1>6, Lengths
  <2> QED BY <1>6, <2>1 DEF Line, Steps
<1>7. CASE l = "ownquick"
  <2>1. k \in 0 .. 6
    BY <1>7, Lengths
  <2> QED BY <1>7, <2>1 DEF Line, Steps
<1>8. CASE l = "last"
  <2>1. k = 0
    BY <1>8, Lengths
  <2> QED BY <1>8, <2>1 DEF Line, Steps
<1> QED BY <1>1, <1>2, <1>3, <1>4, <1>5, <1>6, <1>7, <1>8 DEF Lines

\* Every line has one.
LEMMA LenNat == \A l \in Lines : Len(Line[l]) \in Nat
BY Lengths DEF Lines

\* A step goes: the line is one step further.
LEMMA Further ==
  ASSUME NEW l, NEW k, NEW s, Spells(s, l, k), s # <<>>
  PROVE  /\ k < Len(Line[l]) /\ k \in Nat /\ Head(s) = Next1(l, k) /\ Head(s) = Line[l][k + 1]
         /\ Spells(Tail(s), l, k + 1)
<1> DEFINE n == Len(Line[l])
<1>1. n \in Nat /\ l \in Lines /\ k \in 0 .. n /\ s \in Seq(Steps) /\ Len(s) = n - k
      /\ \A i \in 1 .. Len(s) : s[i] = Line[l][k + i]
  BY LenNat DEF Spells
<1>2. Len(s) > 0 /\ k < n
  BY <1>1
<1>3. Tail(s) \in Seq(Steps) /\ Len(Tail(s)) = Len(s) - 1 /\ \A i \in 1 .. Len(s) - 1 : Tail(s)[i] = s[i + 1]
  BY <1>1, <1>2
<1>4. Head(s) = s[1]
  BY <1>1, <1>2
<1>5. Len(Tail(s)) = n - (k + 1) /\ k + 1 \in 0 .. n
  BY <1>1, <1>2, <1>3
<1>6. \A i \in 1 .. Len(Tail(s)) : Tail(s)[i] = Line[l][(k + 1) + i]
  <2> TAKE i \in 1 .. Len(Tail(s))
  <2>1. i + 1 \in 1 .. Len(s) /\ i \in 1 .. Len(s) - 1 /\ k + (i + 1) = (k + 1) + i
    BY <1>1, <1>3
  <2> QED BY <1>1, <1>3, <2>1
<1> QED BY <1>1, <1>2, <1>3, <1>4, <1>5, <1>6 DEF Spells, Next1

\* Between commands, at the end of a line.
LEMMA AtEnd ==
  ASSUME NEW l, NEW k, Spells(<<>>, l, k)
  PROVE  k = Len(Line[l]) /\ Next1(l, k) = "end"
<1>1. Len(<<>>) = 0
  OBVIOUS
<1> QED BY <1>1, LenNat DEF Spells, Next1

\* What a failure leaves to do.
LEMMA Leftovers ==
  Spells(<<>>, "last", 1) /\ Spells(<<"stop">>, "last", 0)
<1>1. <<"stop">> \in Seq(Steps) /\ <<>> \in Seq(Steps)
  BY DEF Steps
<1> QED BY <1>1, Lengths DEF Spells, Lines, Line

\* Some steps are put before the rest of a line.
LEMMA Before ==
  ASSUME NEW s \in Seq(Steps), NEW u, NEW l, NEW k \in Nat, Spells(u, l, Len(s) + k),
         \A i \in 1 .. Len(s) : s[i] = Line[l][k + i]
  PROVE  Spells(s \o u, l, k)
<1> DEFINE n == Len(Line[l])
           m == Len(s)
<1>1. n \in Nat /\ m \in Nat /\ l \in Lines /\ m + k \in 0 .. n /\ u \in Seq(Steps) /\ Len(u) = n - (m + k)
      /\ \A i \in 1 .. Len(u) : u[i] = Line[l][(m + k) + i]
  BY LenNat DEF Spells
<1>2. s \o u \in Seq(Steps) /\ Len(s \o u) = m + Len(u)
  BY <1>1
<1>3. \A i \in 1 .. Len(s \o u) : (s \o u)[i] = Line[l][k + i]
  <2> TAKE i \in 1 .. Len(s \o u)
  <2>1. CASE i <= m
    <3>1. (s \o u)[i] = s[i] /\ i \in 1 .. m
      BY <1>1, <1>2, <2>1
    <3> QED BY <3>1
  <2>2. CASE ~(i <= m)
    <3>1. (s \o u)[i] = u[i - m] /\ i - m \in 1 .. Len(u)
      BY <1>1, <1>2, <2>2
    <3>2. (m + k) + (i - m) = k + i
      BY <1>1
    <3> QED BY <1>1, <3>1, <3>2
  <2> QED BY <2>1, <2>2
<1>4. k \in 0 .. n /\ m + Len(u) = n - k
  BY <1>1
<1> QED BY <1>1, <1>2, <1>3, <1>4 DEF Spells

\* A rest that two lines share.
LEMMA Shared ==
  ASSUME NEW u, NEW l, NEW k, NEW m \in Lines, NEW j \in Nat, Spells(u, l, k),
         Len(Line[m]) - j = Len(Line[l]) - k, j <= Len(Line[m]),
         \A i \in 1 .. Len(u) : Line[l][k + i] = Line[m][j + i]
  PROVE  Spells(u, m, j)
BY LenNat DEF Spells

\* The i-th step of two runs of steps, one after the other.
LEMMA Joined ==
  ASSUME NEW s \in Seq(Steps), NEW u \in Seq(Steps)
  PROVE  /\ s \o u \in Seq(Steps) /\ Len(s \o u) = Len(s) + Len(u)
         /\ \A i \in 1 .. Len(s) + Len(u) : (s \o u)[i] = IF i <= Len(s) THEN s[i] ELSE u[i - Len(s)]
OBVIOUS

\* The runs of steps that the programs are put together from.
LEMMA Sections ==
  /\ Start \in Seq(Steps) /\ Len(Start) = 3
  /\ Start[1] = "fork" /\ Start[2] = "write" /\ Start[3] = "ready"
  /\ Measure \in Seq(Steps) /\ Len(Measure) = 2
  /\ Measure[1] = "count" /\ Measure[2] = "measure"
  /\ FeedSession \in Seq(Steps) /\ Len(FeedSession) = 10
  /\ \A i \in 1 .. 10 : FeedSession[i] = Line["fedbase"][i] /\ FeedSession[i] = Line["fedgrid"][i]
<1>1. Start \in Seq(Steps) /\ Len(Start) = 3 /\ Start[1] = "fork" /\ Start[2] = "write" /\ Start[3] = "ready"
  BY DEF Start, Steps
<1>2. Measure \in Seq(Steps) /\ Len(Measure) = 2 /\ Measure[1] = "count" /\ Measure[2] = "measure"
  BY DEF Measure, Steps
<1> DEFINE a == <<"stop", "archive", "forget">>
           b == <<"feed", "verify", "record", "stop">>
<1>3. a \in Seq(Steps) /\ Len(a) = 3 /\ a[1] = "stop" /\ a[2] = "archive" /\ a[3] = "forget"
  BY DEF Steps
<1>4. b \in Seq(Steps) /\ Len(b) = 4 /\ b[1] = "feed" /\ b[2] = "verify" /\ b[3] = "record" /\ b[4] = "stop"
  BY DEF Steps
<1>5. FeedSession = (a \o Start) \o b
  BY DEF FeedSession
<1> HIDE DEF a, b
<1>6. a \o Start \in Seq(Steps) /\ Len(a \o Start) = 6
      /\ \A i \in 1 .. 6 : (a \o Start)[i] = IF i <= 3 THEN a[i] ELSE Start[i - 3]
  <2>1. /\ a \o Start \in Seq(Steps) /\ Len(a \o Start) = Len(a) + Len(Start)
        /\ \A i \in 1 .. Len(a) + Len(Start) :
             (a \o Start)[i] = IF i <= Len(a) THEN a[i] ELSE Start[i - Len(a)]
    BY <1>1, <1>3, Joined
  <2>2. Len(a) + Len(Start) = 6 /\ Len(a) = 3
    BY <1>1, <1>3
  <2> QED BY <2>1, <2>2
<1> DEFINE c == a \o Start
<1> HIDE DEF c
<1>7. c \o b \in Seq(Steps) /\ Len(c \o b) = 10
      /\ \A i \in 1 .. 10 : (c \o b)[i] = IF i <= 6 THEN c[i] ELSE b[i - 6]
  <2>1. c \in Seq(Steps) /\ Len(c) = 6
    BY <1>6 DEF c
  <2>2. /\ c \o b \in Seq(Steps) /\ Len(c \o b) = Len(c) + Len(b)
        /\ \A i \in 1 .. Len(c) + Len(b) : (c \o b)[i] = IF i <= Len(c) THEN c[i] ELSE b[i - Len(c)]
    BY <1>4, <2>1, Joined
  <2>3. Len(c) + Len(b) = 10 /\ Len(c) = 6
    BY <1>4, <2>1
  <2> QED BY <2>2, <2>3
<1>8. /\ c[1] = "stop" /\ c[2] = "archive" /\ c[3] = "forget"
      /\ c[4] = "fork" /\ c[5] = "write" /\ c[6] = "ready"
  BY <1>1, <1>3, <1>6 DEF c
<1>9. FeedSession \in Seq(Steps) /\ Len(FeedSession) = 10
      /\ \A i \in 1 .. 10 : FeedSession[i] = IF i <= 6 THEN c[i] ELSE b[i - 6]
  BY <1>5, <1>7 DEF c
<1>10. ASSUME NEW i \in 1 .. 10
       PROVE  FeedSession[i] = Line["fedbase"][i] /\ FeedSession[i] = Line["fedgrid"][i]
  <2>1. CASE i <= 6
    BY <1>8, <1>9, <2>1 DEF Line
  <2>2. CASE ~(i <= 6)
    BY <1>4, <1>9, <2>2 DEF Line
  <2> QED BY <2>1, <2>2
<1> QED BY <1>1, <1>2, <1>9, <1>10

\* Two runs of steps are the same when each step is.
LEMMA SameSteps ==
  ASSUME NEW s \in Seq(Steps), NEW l \in Lines, Len(s) = Len(Line[l]),
         \A i \in 1 .. Len(s) : s[i] = Line[l][i]
  PROVE  Spells(s, l, 0)
BY LenNat DEF Spells

\* A command starts at the head of its kind's line.
LEMMA ProgramLines ==
  ASSUME NEW kind \in Kinds
  PROVE  /\ kind \in {"baseline", "refeed"} => Spells(Program(kind), "base", 0)
         /\ kind = "grid" => Spells(Program(kind), "grid", 0)
         /\ kind = "quick" => Spells(Program(kind), "quick", 0)
<1>1. CASE kind \in {"baseline", "refeed"}
  <2> DEFINE a == <<"stop", "ensure">>
             b == <<"stop">>
  <2>1. Program(kind) = ((a \o Start) \o Measure) \o b
    BY <1>1 DEF Program
  <2>2. a \in Seq(Steps) /\ Len(a) = 2 /\ a[1] = "stop" /\ a[2] = "ensure"
    BY DEF Steps
  <2>3. b \in Seq(Steps) /\ Len(b) = 1 /\ b[1] = "stop"
    BY DEF Steps
  <2> HIDE DEF a, b
  <2> DEFINE c == a \o Start
  <2>4. /\ c \in Seq(Steps) /\ Len(c) = Len(a) + Len(Start)
        /\ \A i \in 1 .. Len(a) + Len(Start) : c[i] = IF i <= Len(a) THEN a[i] ELSE Start[i - Len(a)]
    BY <2>2, Sections, Joined
  <2> HIDE DEF c
  <2>5. Len(c) = 5 /\ \A i \in 1 .. 5 : c[i] = IF i <= 2 THEN a[i] ELSE Start[i - 2]
    <3>1. Len(a) + Len(Start) = 5 /\ Len(a) = 2
      BY <2>2, Sections
    <3> QED BY <3>1, <2>4
  <2> DEFINE d == c \o Measure
  <2>6. /\ d \in Seq(Steps) /\ Len(d) = Len(c) + Len(Measure)
        /\ \A i \in 1 .. Len(c) + Len(Measure) : d[i] = IF i <= Len(c) THEN c[i] ELSE Measure[i - Len(c)]
    BY <2>4, Sections, Joined
  <2> HIDE DEF d
  <2>7. Len(d) = 7 /\ \A i \in 1 .. 7 : d[i] = IF i <= 5 THEN c[i] ELSE Measure[i - 5]
    <3>1. Len(c) + Len(Measure) = 7 /\ Len(c) = 5
      BY <2>5, Sections
    <3> QED BY <3>1, <2>6
  <2> DEFINE e == d \o b
  <2>8. /\ e \in Seq(Steps) /\ Len(e) = Len(d) + Len(b)
        /\ \A i \in 1 .. Len(d) + Len(b) : e[i] = IF i <= Len(d) THEN d[i] ELSE b[i - Len(d)]
    BY <2>3, <2>6, Joined
  <2> HIDE DEF e
  <2>9. Len(e) = 8 /\ \A i \in 1 .. 8 : e[i] = IF i <= 7 THEN d[i] ELSE b[i - 7]
    <3>1. Len(d) + Len(b) = 8 /\ Len(d) = 7
      BY <2>3, <2>7
    <3> QED BY <3>1, <2>8
  <2>10. Program(kind) = e
    BY <2>1 DEF c, d, e
  <2>11. \A i \in 1 .. 8 : e[i] = Line["base"][i]
    <3>1. /\ c[1] = "stop" /\ c[2] = "ensure" /\ c[3] = "fork" /\ c[4] = "write" /\ c[5] = "ready"
      BY <2>2, <2>5, Sections
    <3>2. /\ d[1] = "stop" /\ d[2] = "ensure" /\ d[3] = "fork" /\ d[4] = "write" /\ d[5] = "ready"
          /\ d[6] = "count" /\ d[7] = "measure"
      BY <3>1, <2>7, Sections
    <3>3. /\ e[1] = "stop" /\ e[2] = "ensure" /\ e[3] = "fork" /\ e[4] = "write" /\ e[5] = "ready"
          /\ e[6] = "count" /\ e[7] = "measure" /\ e[8] = "stop"
      BY <3>2, <2>3, <2>9
    <3> QED BY <3>3 DEF Line
  <2>12. Spells(e, "base", 0)
    BY <2>8, <2>9, <2>11, Lengths, SameSteps DEF Lines
  <2> QED BY <1>1, <2>10, <2>12
<1>2. CASE kind = "grid"
  <2> DEFINE a == <<"ensure", "running">>
             c == a \o Measure
  <2>1. Program(kind) = c
    BY <1>2 DEF Program
  <2>2. a \in Seq(Steps) /\ Len(a) = 2 /\ a[1] = "ensure" /\ a[2] = "running"
    BY DEF Steps
  <2> HIDE DEF a
  <2>4. /\ c \in Seq(Steps) /\ Len(c) = Len(a) + Len(Measure)
        /\ \A i \in 1 .. Len(a) + Len(Measure) : c[i] = IF i <= Len(a) THEN a[i] ELSE Measure[i - Len(a)]
    BY <2>2, Sections, Joined
  <2> HIDE DEF c
  <2>5. Len(c) = 4 /\ \A i \in 1 .. 4 : c[i] = IF i <= 2 THEN a[i] ELSE Measure[i - 2]
    <3>1. Len(a) + Len(Measure) = 4 /\ Len(a) = 2
      BY <2>2, Sections
    <3> QED BY <3>1, <2>4
  <2>6. c[1] = "ensure" /\ c[2] = "running" /\ c[3] = "count" /\ c[4] = "measure"
    BY <2>2, <2>5, Sections
  <2>7. \A i \in 1 .. 4 : c[i] = Line["grid"][i]
    BY <2>6 DEF Line
  <2>12. Spells(c, "grid", 0)
    BY <2>4, <2>5, <2>7, Lengths, SameSteps DEF Lines
  <2> QED BY <1>2, <2>1, <2>12
<1>3. CASE kind = "quick"
  <2> DEFINE c == <<"running", "count", "identity", "measure">>
  <2>1. Program(kind) = c
    BY <1>3 DEF Program
  <2>2. c \in Seq(Steps) /\ Len(c) = 4
    BY DEF Steps
  <2>3. \A i \in 1 .. 4 : c[i] = Line["quick"][i]
    BY DEF Line
  <2> HIDE DEF c
  <2>4. Spells(c, "quick", 0)
    BY <2>2, <2>3, Lengths, SameSteps DEF Lines
  <2> QED BY <1>3, <2>1, <2>4
<1> QED BY <1>1, <1>2, <1>3 DEF Kinds

\* A feed session is put before what follows `ensure`.
LEMMA FedFirst ==
  ASSUME NEW u
  PROVE  /\ Spells(u, "base", 2) => Spells(FeedSession \o u, "fedbase", 0)
         /\ Spells(u, "grid", 1) => Spells(FeedSession \o u, "fedgrid", 0)
<1>1. ASSUME Spells(u, "base", 2) PROVE Spells(FeedSession \o u, "fedbase", 0)
  <2>1. Len(u) = 6
    BY <1>1, Lengths DEF Spells
  <2>2. \A i \in 1 .. Len(u) : Line["base"][2 + i] = Line["fedbase"][10 + i]
    <3>1. \A i \in 1 .. 6 : Line["base"][2 + i] = Line["fedbase"][10 + i]
      BY DEF Line
    <3> QED BY <2>1, <3>1
  <2>3. Spells(u, "fedbase", 10)
    <3>1. Len(Line["fedbase"]) - 10 = Len(Line["base"]) - 2 /\ 10 <= Len(Line["fedbase"])
      BY Lengths
    <3>2. "fedbase" \in Lines /\ 10 \in Nat
      BY DEF Lines
    <3> QED BY <1>1, <2>1, <2>2, <3>1, <3>2, Lengths DEF Spells
  <2>4. \A i \in 1 .. Len(FeedSession) : FeedSession[i] = Line["fedbase"][0 + i]
    BY Sections
  <2>5. FeedSession \in Seq(Steps) /\ Len(FeedSession) + 0 = 10
    BY Sections
  <2> QED BY <2>3, <2>4, <2>5, Before
<1>2. ASSUME Spells(u, "grid", 1) PROVE Spells(FeedSession \o u, "fedgrid", 0)
  <2>1. Len(u) = 3
    BY <1>2, Lengths DEF Spells
  <2>2. \A i \in 1 .. Len(u) : Line["grid"][1 + i] = Line["fedgrid"][10 + i]
    <3>1. \A i \in 1 .. 3 : Line["grid"][1 + i] = Line["fedgrid"][10 + i]
      BY DEF Line
    <3> QED BY <2>1, <3>1
  <2>3. Spells(u, "fedgrid", 10)
    <3>1. Len(Line["fedgrid"]) - 10 = Len(Line["grid"]) - 1 /\ 10 <= Len(Line["fedgrid"])
      BY Lengths
    <3>2. "fedgrid" \in Lines /\ 10 \in Nat
      BY DEF Lines
    <3> QED BY <1>2, <2>1, <2>2, <3>1, <3>2, Lengths DEF Spells
  <2>4. \A i \in 1 .. Len(FeedSession) : FeedSession[i] = Line["fedgrid"][0 + i]
    BY Sections
  <2>5. FeedSession \in Seq(Steps) /\ Len(FeedSession) + 0 = 10
    BY Sections
  <2> QED BY <2>3, <2>4, <2>5, Before
<1> QED BY <1>1, <1>2

\* A server of its own is started before what follows `running`.
LEMMA OwnFirst ==
  ASSUME NEW u
  PROVE  /\ Spells(u, "grid", 2) \/ Spells(u, "fedgrid", 11) =>
              /\ Spells(Start \o u, "owngrid", 1)
              /\ Spells((<<"stop">> \o Start) \o u, "owngrid", 0)
         /\ Spells(u, "quick", 1) =>
              /\ Spells(Start \o u, "ownquick", 1)
              /\ Spells((<<"stop">> \o Start) \o u, "ownquick", 0)
<1> DEFINE b == <<"stop">>
           c == b \o Start
<1>1. b \in Seq(Steps) /\ Len(b) = 1 /\ b[1] = "stop"
  BY DEF Steps
<1> HIDE DEF b
<1>2. /\ c \in Seq(Steps) /\ Len(c) = Len(b) + Len(Start)
      /\ \A i \in 1 .. Len(b) + Len(Start) : c[i] = IF i <= Len(b) THEN b[i] ELSE Start[i - Len(b)]
  BY <1>1, Sections, Joined
<1> HIDE DEF c
<1>3. Len(c) = 4 /\ \A i \in 1 .. 4 : c[i] = IF i <= 1 THEN b[i] ELSE Start[i - 1]
  <2>1. Len(b) + Len(Start) = 4 /\ Len(b) = 1
    BY <1>1, Sections
  <2> QED BY <2>1, <1>2
<1>4. c[1] = "stop" /\ c[2] = "fork" /\ c[3] = "write" /\ c[4] = "ready"
  BY <1>1, <1>3, Sections
<1>5. ASSUME NEW l \in Lines, l \in {"owngrid", "ownquick"}, Spells(u, l, 4)
      PROVE  Spells(Start \o u, l, 1) /\ Spells(c \o u, l, 0)
  <2>1. \A i \in 1 .. Len(Start) : Start[i] = Line[l][1 + i]
    BY <1>5, Sections DEF Line
  <2>2. \A i \in 1 .. Len(c) : c[i] = Line[l][0 + i]
    <3>1. Line[l][1] = "stop" /\ Line[l][2] = "fork" /\ Line[l][3] = "write" /\ Line[l][4] = "ready"
      BY <1>5 DEF Line
    <3>2. \A i \in 1 .. 4 : c[i] = Line[l][i]
      BY <1>4, <3>1
    <3> QED BY <1>3, <3>2
  <2>3. Len(Start) + 1 = 4 /\ Start \in Seq(Steps) /\ Len(c) + 0 = 4 /\ c \in Seq(Steps)
    <3>1. Len(Start) + 1 = 4 /\ Start \in Seq(Steps)
      BY Sections
    <3>2. Len(c) + 0 = 4
      BY <1>3
    <3> QED BY <1>2, <3>1, <3>2
  <2>4. Spells(Start \o u, l, 1)
    BY <1>5, <2>1, <2>3, Before
  <2>5. Spells(c \o u, l, 0)
    BY <1>5, <2>2, <2>3, Before
  <2> QED BY <2>4, <2>5
<1>6. ASSUME Spells(u, "grid", 2) PROVE Spells(u, "owngrid", 4)
  <2>1. Len(u) = 2
    BY <1>6, Lengths DEF Spells
  <2>2. \A i \in 1 .. Len(u) : Line["grid"][2 + i] = Line["owngrid"][4 + i]
    <3>1. \A i \in 1 .. 2 : Line["grid"][2 + i] = Line["owngrid"][4 + i]
      BY DEF Line
    <3> QED BY <2>1, <3>1
  <2>3. Len(Line["owngrid"]) - 4 = Len(Line["grid"]) - 2 /\ 4 <= Len(Line["owngrid"]) /\ "owngrid" \in Lines
    BY Lengths DEF Lines
  <2> QED BY <1>6, <2>1, <2>2, <2>3, Lengths DEF Spells
<1>7. ASSUME Spells(u, "fedgrid", 11) PROVE Spells(u, "owngrid", 4)
  <2>1. Len(u) = 2
    BY <1>7, Lengths DEF Spells
  <2>2. \A i \in 1 .. Len(u) : Line["fedgrid"][11 + i] = Line["owngrid"][4 + i]
    <3>1. \A i \in 1 .. 2 : Line["fedgrid"][11 + i] = Line["owngrid"][4 + i]
      BY DEF Line
    <3> QED BY <2>1, <3>1
  <2>3. Len(Line["owngrid"]) - 4 = Len(Line["fedgrid"]) - 11 /\ 4 <= Len(Line["owngrid"]) /\ "owngrid" \in Lines
    BY Lengths DEF Lines
  <2> QED BY <1>7, <2>1, <2>2, <2>3, Lengths DEF Spells
<1>8. ASSUME Spells(u, "quick", 1) PROVE Spells(u, "ownquick", 4)
  <2>1. Len(u) = 3
    BY <1>8, Lengths DEF Spells
  <2>2. \A i \in 1 .. Len(u) : Line["quick"][1 + i] = Line["ownquick"][4 + i]
    <3>1. \A i \in 1 .. 3 : Line["quick"][1 + i] = Line["ownquick"][4 + i]
      BY DEF Line
    <3> QED BY <2>1, <3>1
  <2>3. Len(Line["ownquick"]) - 4 = Len(Line["quick"]) - 1 /\ 4 <= Len(Line["ownquick"]) /\ "ownquick" \in Lines
    BY Lengths DEF Lines
  <2> QED BY <1>8, <2>1, <2>2, <2>3, Lengths DEF Spells
<1>9. (<<"stop">> \o Start) \o u = c \o u
  BY DEF b, c
<1>10. "owngrid" \in Lines /\ "ownquick" \in Lines
  BY DEF Lines
<1> QED BY <1>5, <1>6, <1>7, <1>8, <1>9, <1>10

\* `record` is ahead during the feed session.
LEMMA FeedingIs ==
  ASSUME NEW l, NEW k, Spells(todo, l, k)
  PROVE  Feeding <=> Session(l, k)
<1> DEFINE n == Len(Line[l])
<1>1. n \in Nat /\ l \in Lines /\ k \in 0 .. n /\ todo \in Seq(Steps) /\ Len(todo) = n - k
      /\ \A i \in 1 .. Len(todo) : todo[i] = Line[l][k + i]
  BY LenNat DEF Spells
<1>2. Feeding <=> \E i \in 1 .. Len(todo) : todo[i] = "record"
  BY <1>1 DEF Feeding, ToSet
<1>3. ASSUME Feeding PROVE Session(l, k)
  <2>1. PICK i \in 1 .. Len(todo) : Line[l][k + i] = "record"
    BY <1>1, <1>2, <1>3
  <2>2. (k + i) - 1 \in Nat /\ (k + i) - 1 < n /\ ((k + i) - 1) + 1 = k + i
    BY <1>1
  <2>3. l \in {"fedbase", "fedgrid"} /\ (k + i) - 1 = 8
    <3> DEFINE j == (k + i) - 1
    <3>1. j \in Nat /\ j < n /\ Line[l][j + 1] = "record"
      BY <2>1, <2>2
    <3> HIDE DEF j
    <3>2. l \in {"fedbase", "fedgrid"} /\ j = 8
      BY <1>1, <3>1, Places
    <3> QED BY <3>2 DEF j
  <2> QED BY <1>1, <2>3 DEF Session
<1>4. ASSUME Session(l, k) PROVE Feeding
  <2>1. l \in {"fedbase", "fedgrid"} /\ k < 9 /\ n >= 13
    <3>1. CASE l = "fedbase"
      BY <1>4, <3>1, Lengths DEF Session
    <3>2. CASE l = "fedgrid"
      BY <1>4, <3>2, Lengths DEF Session
    <3> QED BY <1>4, <3>1, <3>2 DEF Session
  <2>2. 9 - k \in 1 .. Len(todo) /\ k + (9 - k) = 9
    BY <1>1, <2>1
  <2>3. Line[l][9] = "record"
    BY <2>1 DEF Line
  <2> QED BY <1>1, <1>2, <2>2, <2>3
<1> QED BY <1>3, <1>4

-----------------------------------------------------------------------------
(* Where a step leads.                                                     *)

\* The step after each one.
LEMMA Nexts ==
  /\ Next1("base", 0) = "stop" /\ Next1("base", 1) = "ensure" /\ Next1("base", 2) = "fork"
  /\ Next1("base", 3) = "write" /\ Next1("base", 4) = "ready" /\ Next1("base", 5) = "count"
  /\ Next1("base", 6) = "measure" /\ Next1("base", 7) = "stop" /\ Next1("base", 8) = "end"
  /\ \A l \in {"fedbase", "fedgrid"} :
       /\ Next1(l, 0) = "stop" /\ Next1(l, 1) = "archive" /\ Next1(l, 2) = "forget"
       /\ Next1(l, 3) = "fork" /\ Next1(l, 4) = "write" /\ Next1(l, 5) = "ready"
       /\ Next1(l, 6) = "feed" /\ Next1(l, 7) = "verify" /\ Next1(l, 8) = "record"
       /\ Next1(l, 9) = "stop"
  /\ Next1("fedbase", 10) = "fork" /\ Next1("fedbase", 11) = "write"
  /\ Next1("fedbase", 12) = "ready" /\ Next1("fedbase", 13) = "count"
  /\ Next1("fedbase", 14) = "measure" /\ Next1("fedbase", 15) = "stop"
  /\ Next1("fedbase", 16) = "end"
  /\ Next1("fedgrid", 10) = "running" /\ Next1("fedgrid", 11) = "count"
  /\ Next1("fedgrid", 12) = "measure" /\ Next1("fedgrid", 13) = "end"
  /\ Next1("grid", 0) = "ensure" /\ Next1("grid", 1) = "running" /\ Next1("grid", 2) = "count"
  /\ Next1("grid", 3) = "measure" /\ Next1("grid", 4) = "end"
  /\ Next1("quick", 0) = "running" /\ Next1("quick", 1) = "count"
  /\ Next1("quick", 2) = "identity" /\ Next1("quick", 3) = "measure" /\ Next1("quick", 4) = "end"
  /\ \A l \in {"owngrid", "ownquick"} :
       /\ Next1(l, 0) = "stop" /\ Next1(l, 1) = "fork" /\ Next1(l, 2) = "write"
       /\ Next1(l, 3) = "ready" /\ Next1(l, 4) = "count"
  /\ Next1("owngrid", 5) = "measure" /\ Next1("owngrid", 6) = "end"
  /\ Next1("ownquick", 5) = "identity" /\ Next1("ownquick", 6) = "measure"
  /\ Next1("ownquick", 7) = "end"
  /\ Next1("last", 0) = "stop" /\ Next1("last", 1) = "end"
<1> USE Lengths DEF Next1
<1>1. \A l \in {"fedbase", "fedgrid"} :
       /\ Next1(l, 0) = "stop" /\ Next1(l, 1) = "archive" /\ Next1(l, 2) = "forget"
       /\ Next1(l, 3) = "fork" /\ Next1(l, 4) = "write" /\ Next1(l, 5) = "ready"
       /\ Next1(l, 6) = "feed" /\ Next1(l, 7) = "verify" /\ Next1(l, 8) = "record"
       /\ Next1(l, 9) = "stop"
  <2> TAKE l \in {"fedbase", "fedgrid"}
  <2>1. CASE l = "fedbase"
    BY <2>1 DEF Line
  <2>2. CASE l = "fedgrid"
    BY <2>2 DEF Line
  <2> QED BY <2>1, <2>2
<1>2. \A l \in {"owngrid", "ownquick"} :
       /\ Next1(l, 0) = "stop" /\ Next1(l, 1) = "fork" /\ Next1(l, 2) = "write"
       /\ Next1(l, 3) = "ready" /\ Next1(l, 4) = "count"
  <2> TAKE l \in {"owngrid", "ownquick"}
  <2>1. CASE l = "owngrid"
    BY <2>1 DEF Line
  <2>2. CASE l = "ownquick"
    BY <2>2 DEF Line
  <2> QED BY <2>1, <2>2
<1> QED BY <1>1, <1>2 DEF Line

\* The running command does a step.
LEMMA Does ==
  ASSUME NEW l, NEW k, Point(l, k), NEW step, Doing(step)
  PROVE  /\ l \in Lines /\ k \in Nat /\ k < Len(Line[l])
         /\ Line[l][k + 1] = step /\ Next1(l, k) = step /\ step \in Steps
         /\ Spells(Tail(todo), l, k + 1)
<1>1. Spells(todo, l, k) /\ todo # <<>> /\ Head(todo) = step
  BY DEF Point, Doing
<1>2. k < Len(Line[l]) /\ k \in Nat /\ step = Next1(l, k) /\ step = Line[l][k + 1]
      /\ Spells(Tail(todo), l, k + 1)
  BY <1>1, Further
<1>3. l \in Lines
  BY <1>1 DEF Spells
<1> QED BY <1>2, <1>3, Places

\* Where nothing runs, no server is in a wrong posture.
LEMMA Dark ==
  ASSUME NEW l, NEW k, \A p \in Server : ~Alive(p)', Next1(l, k) \notin {"write", "ready"}
  PROVE  OneServer(Next1(l, k))' /\ Posture(l, k)'
BY DEF OneServer, Posture

\* After a failure that ends the command, with nothing left to do.
LEMMA GivenUp ==
  ASSUME NEW l, NEW k, Point(l, k), Next1(l, k) # "forget", todo' = <<>>, UNCHANGED <<dir, identity>>,
         \A p \in Server : Alive(p)' => p = pidfile' /\ ~(srv'[p].ingest)
  PROVE  Point("last", 1)'
<1>1. Spells(<<>>, "last", 1) /\ Next1("last", 1) = "end"
  BY Leftovers, Nexts
<1>2. Allowed("last")'
  BY DEF Allowed
<1>3. OneServer("end")' /\ Stopped("last", 1)' /\ Posture("last", 1)'
  BY <1>1 DEF OneServer, Stopped, Posture
<1>4. Recorded("last", 1)'
  BY <1>1 DEF Recorded, Point, Ensured, Session
<1> QED BY <1>1, <1>2, <1>3, <1>4 DEF Point

\* After one that leaves a stop to do.
LEMMA StopLeft ==
  ASSUME NEW l, NEW k, Point(l, k), Next1(l, k) \notin {"forget", "write", "end"}, todo' = <<"stop">>,
         UNCHANGED <<cmd, identity, srv, pidfile>>,
         \A d \in Dataset : identity[d] # "none" => dir'[d] = dir[d]
  PROVE  Point("last", 0)'
<1>1. Spells(<<"stop">>, "last", 0) /\ Next1("last", 0) = "stop"
  BY Leftovers, Nexts
<1>2. Allowed("last")'
  BY DEF Allowed
<1>3. OneServer("stop")' /\ Stopped("last", 0)' /\ Posture("last", 0)'
  BY <1>1 DEF OneServer, Stopped, Posture, Point, Alive
<1>4. Recorded("last", 0)'
  BY <1>1 DEF Recorded, Point, Ensured, Session
<1> QED BY <1>1, <1>2, <1>3, <1>4 DEF Point

\* Stop: wherever it leads, no server lives any more.
LEMMA StopKeeps ==
  ASSUME Typed, NEW l \in Lines, NEW k \in Nat, Point(l, k), Stop
  PROVE  Typed' /\ \E m \in Lines : \E j \in 0 .. Len(Line[m]) : Point(m, j)'
<1> USE ConstantsAssumption
<1>1. /\ k < Len(Line[l]) /\ Line[l][k + 1] = "stop" /\ Next1(l, k) = "stop"
      /\ Spells(Tail(todo), l, k + 1) /\ Doing("stop") /\ k + 1 \in 0 .. Len(Line[l])
  <2>1. Doing("stop")
    BY DEF Stop
  <2>2. Spells(Tail(todo), l, k + 1)
    BY <2>1, Does
  <2> QED BY <2>1, <2>2, Does DEF Spells
<1>2. UNCHANGED <<cmd, dir, identity, new>>
  BY DEF Stop
<1>3. \A p \in Server : ~Alive(p)'
  BY <1>1 DEF Stop, Point, OneServer, Alive, Typed, Dead
<1>4. Typed'
  <2>1. /\ srv' = srv \/ srv' = [srv EXCEPT ![pidfile] = Dead]
        /\ pidfile' \in {pidfile, "none"}
    BY DEF Stop
  <2>2. DOMAIN srv' = Server /\ \A p \in Server : srv'[p] = srv[p] \/ srv'[p] = Dead
    BY <2>1 DEF Typed
  <2>3. \A p \in Server : srv'[p] = Dead => srv'[p].lost = "none"
    BY DEF Dead
  <2> QED BY <1>2, <2>1, <2>2, <2>3 DEF Typed
<1>5. CASE Proceed /\ pidfile' = "none"
  <2>1. Spells(todo, l, k + 1)' /\ Allowed(l)'
    <3>1. Spells(todo', l, k + 1)
      BY <1>1, <1>5 DEF Proceed
    <3> QED BY <3>1, <1>2 DEF Allowed, Point, Spells
  <2>2. \/ l = "base" /\ k = 0 /\ Next1(l, k + 1) = "ensure"
        \/ Next1(l, k + 1) = "end"
        \/ l \in {"fedbase", "fedgrid"} /\ k = 0 /\ Next1(l, k + 1) = "archive"
        \/ l = "fedbase" /\ k = 9 /\ Next1(l, k + 1) = "fork"
        \/ l = "fedgrid" /\ k = 9 /\ Next1(l, k + 1) = "running"
        \/ l \in {"owngrid", "ownquick"} /\ k = 0 /\ Next1(l, k + 1) = "fork"
    <3>1. \/ l = "base" /\ k \in {0, 7}
          \/ l = "fedbase" /\ k \in {0, 9, 15}
          \/ l = "fedgrid" /\ k \in {0, 9}
          \/ l \in {"owngrid", "ownquick", "last"} /\ k = 0
      BY <1>1, Places
    <3>2. CASE l = "base"
      BY <3>1, <3>2, Nexts
    <3>3. CASE l = "fedbase"
      BY <3>1, <3>3, Nexts
    <3>4. CASE l = "fedgrid"
      BY <3>1, <3>4, Nexts
    <3>5. CASE l \in {"owngrid", "ownquick", "last"}
      BY <3>1, <3>5, Nexts
    <3> QED BY <3>1, <3>2, <3>3, <3>4, <3>5
  <2>3. OneServer(Next1(l, k + 1))' /\ Posture(l, k + 1)'
    BY <1>3, <2>2, Dark
  <2>4. Stopped(l, k + 1)'
    BY <1>5 DEF Stopped
  <2>5. Recorded(l, k + 1)'
    BY <1>1, <1>2, <2>2 DEF Recorded, Point, Session, Ensured
  <2> QED BY <1>1, <1>4, <2>1, <2>3, <2>4, <2>5 DEF Point
<1>6. CASE Fail
  <2>1. todo' = <<>>
    BY <1>1, <1>6 DEF Fail, AfterFailure, Doing
  <2>2. Point("last", 1)'
    BY <1>1, <1>2, <1>3, <2>1, GivenUp
  <2>3. "last" \in Lines /\ 1 \in 0 .. Len(Line["last"])
    BY Lengths DEF Lines
  <2> QED BY <1>4, <2>2, <2>3
<1> QED BY <1>5, <1>6 DEF Stop

\* A step goes well: the command is at the next one.
LEMMA Goes ==
  ASSUME NEW l, NEW k, Point(l, k), NEW step, Doing(step), Proceed, UNCHANGED cmd
  PROVE  Spells(todo, l, k + 1)' /\ Allowed(l)' /\ k + 1 \in 0 .. Len(Line[l])
<1>1. Spells(Tail(todo), l, k + 1)
  BY Does
<1>2. Spells(todo', l, k + 1)
  BY <1>1 DEF Proceed
<1> QED BY <1>1, <1>2 DEF Allowed, Point, Spells

\* The two places of what a failure leaves.
LEMMA LastPoints == "last" \in Lines /\ 0 \in 0 .. Len(Line["last"]) /\ 1 \in 0 .. Len(Line["last"])
BY Lengths DEF Lines

Somewhere == \E m \in Lines : \E j \in 0 .. Len(Line[m]) : Point(m, j)

\* One lemma per step: where it starts at a place of a line, it ends at one.
LEMMA ForkKeeps ==
  ASSUME Typed, NEW l \in Lines, NEW k \in Nat, Point(l, k), Fork
  PROVE  Typed' /\ Somewhere'
<1> USE ConstantsAssumption
<1>1. Doing("fork") /\ Next1(l, k) = "fork" /\ Line[l][k + 1] = "fork" /\ k < Len(Line[l])
  BY Does DEF Fork
<1>2. pidfile = "none" /\ \A p \in Server : ~Alive(p)
  BY <1>1 DEF Point, Stopped, OneServer, Alive
<1>3. PICK p \in Server :
        /\ new' = p
        /\ srv' = [srv EXCEPT ![p] =
             [st |-> "starting", ds |-> cmd.ds, lost |-> "none", cache |-> cmd.cache, ingest |-> Feeding]]
  BY <1>2 DEF Fork
<1>4. Proceed /\ UNCHANGED <<cmd, dir, identity, pidfile, result, left>>
  BY <1>2 DEF Fork
<1>5. Spells(todo, l, k + 1)' /\ Allowed(l)' /\ k + 1 \in 0 .. Len(Line[l])
  BY <1>1, <1>4, Goes
<1>6. cmd.ds \in Dataset /\ cmd.corpus \in Corpus
  BY <1>1 DEF Point, Recorded
<1>7. \/ l = "base" /\ k = 2
      \/ l \in {"fedbase", "fedgrid"} /\ k = 3
      \/ l = "fedbase" /\ k = 10
      \/ l \in {"owngrid", "ownquick"} /\ k = 1
  BY <1>1, Places
<1>8. Next1(l, k + 1) = "write"
  BY <1>7, Nexts
<1>9. Session(l, k) <=> Session(l, k + 1)
  BY <1>7 DEF Session
<1>10. Ensured(l, k) <=> Ensured(l, k + 1)
  BY <1>7 DEF Ensured
<1>11. /\ \A q \in Server : q # p => srv'[q] = srv[q]
       /\ srv'[p].st = "starting" /\ srv'[p].ds = cmd.ds /\ srv'[p].lost = "none"
       /\ srv'[p].cache = cmd.cache
       /\ srv'[p].ingest = Feeding
  BY <1>3 DEF Typed
<1>12. Typed'
  BY <1>3, <1>4, <1>6, <1>11 DEF Typed
<1>13. \A q \in Server : Alive(q)' => q = p
  BY <1>2, <1>11 DEF Alive
<1>14. OneServer("write")'
  BY <1>2, <1>3, <1>4, <1>13 DEF OneServer
<1>15. Stopped(l, k + 1)'
  BY <1>2, <1>4 DEF Stopped
<1>16. Posture(l, k + 1)'
  <2>1. srv'[p].ingest => Session(l, k + 1)
    BY <1>9, <1>11, FeedingIs DEF Point
  <2> QED BY <1>4, <1>8, <1>11, <1>13, <2>1 DEF Posture
<1>17. Recorded(l, k + 1)'
  BY <1>1, <1>4, <1>8, <1>9, <1>10 DEF Recorded, Point
<1>18. Point(l, k + 1)'
  BY <1>5, <1>8, <1>14, <1>15, <1>16, <1>17 DEF Point
<1> QED BY <1>5, <1>12, <1>18 DEF Somewhere

LEMMA WritePidKeeps ==
  ASSUME Typed, NEW l \in Lines, NEW k \in Nat, Point(l, k), WritePid
  PROVE  Typed' /\ Somewhere'
<1> USE ConstantsAssumption
<1>1. Doing("write") /\ Next1(l, k) = "write" /\ Line[l][k + 1] = "write" /\ k < Len(Line[l])
  BY Does DEF WritePid
<1>2. Proceed /\ pidfile' = new /\ UNCHANGED <<cmd, dir, identity, srv, new, result, left>>
  BY DEF WritePid
<1>3. Spells(todo, l, k + 1)' /\ Allowed(l)' /\ k + 1 \in 0 .. Len(Line[l])
  BY <1>1, <1>2, Goes
<1>4. \/ l = "base" /\ k = 3
      \/ l \in {"fedbase", "fedgrid"} /\ k = 4
      \/ l = "fedbase" /\ k = 11
      \/ l \in {"owngrid", "ownquick"} /\ k = 2
  BY <1>1, Places
<1>5. Next1(l, k + 1) = "ready"
  BY <1>4, Nexts
<1>6. Session(l, k) <=> Session(l, k + 1)
  BY <1>4 DEF Session
<1>7. Ensured(l, k) <=> Ensured(l, k + 1)
  BY <1>4 DEF Ensured
<1>8. Typed'
  BY <1>2 DEF Typed
<1>9. OneServer("ready")' /\ Stopped(l, k + 1)'
  BY <1>1, <1>2, <1>4, <1>5 DEF OneServer, Stopped, Point, Alive
<1>10. Posture(l, k + 1)'
  BY <1>1, <1>2, <1>5, <1>6 DEF Posture, Point, Alive
<1>11. Recorded(l, k + 1)'
  BY <1>1, <1>2, <1>5, <1>6, <1>7 DEF Recorded, Point
<1>12. Point(l, k + 1)'
  BY <1>3, <1>5, <1>9, <1>10, <1>11 DEF Point
<1> QED BY <1>3, <1>8, <1>12 DEF Somewhere

LEMMA ReadyKeeps ==
  ASSUME Typed, NEW l \in Lines, NEW k \in Nat, Point(l, k), Ready, left.lingering = 0, left'.lingering = 0,
         left \in [commands : Nat, kills : Nat, lingering : Nat]
  PROVE  Typed' /\ Somewhere'
<1> USE ConstantsAssumption
<1>1. Doing("ready") /\ Next1(l, k) = "ready" /\ Line[l][k + 1] = "ready" /\ k < Len(Line[l])
  BY Does DEF Ready
<1>2. UNCHANGED <<cmd, dir, identity, new, result>>
  BY DEF Ready
<1>3. new = pidfile /\ \A p \in Server : Alive(p) => p = pidfile
  BY <1>1 DEF Point, OneServer
<1>4. CASE Proceed /\ UNCHANGED <<srv, pidfile>>
  <2>1. Spells(todo, l, k + 1)' /\ Allowed(l)' /\ k + 1 \in 0 .. Len(Line[l])
    BY <1>1, <1>2, <1>4, Goes
  <2>2. \/ l = "base" /\ k = 4
        \/ l \in {"fedbase", "fedgrid"} /\ k = 5
        \/ l = "fedbase" /\ k = 12
        \/ l \in {"owngrid", "ownquick"} /\ k = 3
    BY <1>1, Places
  <2>3. \/ l \in {"fedbase", "fedgrid"} /\ k = 5 /\ Next1(l, k + 1) = "feed"
        \/ l \in {"base", "fedbase", "owngrid", "ownquick"} /\ Next1(l, k + 1) = "count" /\ ~Session(l, k)
    <3>1. CASE l \in {"fedbase", "fedgrid"} /\ k = 5
      BY <3>1, Nexts
    <3>2. CASE ~(l \in {"fedbase", "fedgrid"} /\ k = 5)
      BY <2>2, <3>2, Nexts DEF Session
    <3> QED BY <3>1, <3>2
  <2>4. Session(l, k) <=> Session(l, k + 1)
    BY <2>2 DEF Session
  <2>5. Ensured(l, k) <=> Ensured(l, k + 1)
    BY <2>2 DEF Ensured
  <2>6. Typed'
    BY <1>2, <1>4 DEF Typed
  <2>7. OneServer(Next1(l, k + 1))' /\ Stopped(l, k + 1)'
    BY <1>2, <1>3, <1>4, <2>2, <2>3 DEF OneServer, Stopped, Alive
  <2>8. Posture(l, k + 1)'
    BY <1>1, <1>2, <1>4, <2>3, <2>4 DEF Posture, Point, Alive
  <2>9. Recorded(l, k + 1)'
    BY <1>1, <1>2, <2>3, <2>4, <2>5 DEF Recorded, Point
  <2>10. Point(l, k + 1)'
    BY <2>1, <2>7, <2>8, <2>9 DEF Point
  <2> QED BY <2>1, <2>6, <2>10 DEF Somewhere
<1>5. CASE Fail /\ pidfile' = "none" /\ srv' = [srv EXCEPT ![new] = Dead]
  <2>1. todo' = <<>>
    BY <1>1, <1>5 DEF Fail, AfterFailure, Doing
  <2>2. \A p \in Server : ~Alive(p)'
    BY <1>3, <1>5 DEF Alive, Typed, Dead
  <2>3. Point("last", 1)'
    BY <1>1, <1>2, <2>1, <2>2, GivenUp
  <2>4. Typed'
    BY <1>2, <1>5 DEF Typed, Dead
  <2> QED BY <2>3, <2>4, LastPoints DEF Somewhere
<1>6. CASE ~Alive(new) /\ Fail /\ pidfile' = "none" /\ UNCHANGED <<srv, left>>
  <2>1. todo' = <<>>
    BY <1>1, <1>6 DEF Fail, AfterFailure, Doing
  <2>2. \A p \in Server : ~Alive(p)'
    BY <1>3, <1>6 DEF Alive
  <2>3. Point("last", 1)'
    BY <1>1, <1>2, <2>1, <2>2, GivenUp
  <2>4. Typed'
    BY <1>2, <1>6 DEF Typed
  <2> QED BY <2>3, <2>4, LastPoints DEF Somewhere
<1>7. left' # [left EXCEPT !.lingering = @ + 1]
  OBVIOUS
<1> QED BY <1>4, <1>5, <1>6, <1>7 DEF Ready

LEMMA EnsureKeeps ==
  ASSUME Typed, NEW l \in Lines, NEW k \in Nat, Point(l, k), Ensure
  PROVE  Typed' /\ Somewhere'
<1> USE ConstantsAssumption
<1>1. Doing("ensure") /\ Next1(l, k) = "ensure" /\ Line[l][k + 1] = "ensure" /\ k < Len(Line[l])
      /\ Spells(Tail(todo), l, k + 1)
  BY Does DEF Ensure
<1>2. UNCHANGED <<cmd, dir, identity, srv, pidfile, new, result, left>>
  BY DEF Ensure
<1>3. \/ l = "base" /\ k = 1
      \/ l = "grid" /\ k = 0
  BY <1>1, Places
<1>4. Typed'
  BY <1>2 DEF Typed
<1>5. CASE Reusable /\ Proceed
  <2>1. Spells(todo, l, k + 1)' /\ Allowed(l)' /\ k + 1 \in 0 .. Len(Line[l])
    BY <1>1, <1>2, <1>5, Goes
  <2>2. \/ l = "base" /\ k = 1 /\ Next1(l, k + 1) = "fork"
        \/ l = "grid" /\ k = 0 /\ Next1(l, k + 1) = "running"
    BY <1>3, Nexts
  <2>3. OneServer(Next1(l, k + 1))' /\ Stopped(l, k + 1)' /\ Posture(l, k + 1)'
    BY <1>1, <1>2, <2>2 DEF OneServer, Stopped, Posture, Point, Alive
  <2>4. Recorded(l, k + 1)'
    BY <1>1, <1>2, <1>5, <2>2 DEF Recorded, Point, Session, Reusable
  <2>5. Point(l, k + 1)'
    BY <2>1, <2>3, <2>4 DEF Point
  <2> QED BY <2>1, <1>4, <2>5 DEF Somewhere
<1>6. ASSUME NEW m \in {"fedbase", "fedgrid"}, InsteadDo(FeedSession), Spells(todo', m, 0), Allowed(m)
      PROVE  Somewhere'
  <2>1. Next1(m, 0) = "stop" /\ m \in Lines /\ 0 \in 0 .. Len(Line[m])
    <3>1. m \in Lines
      BY DEF Lines
    <3> QED BY <3>1, Nexts, LenNat
  <2>2. Spells(todo, m, 0)' /\ Allowed(m)'
    BY <1>2, <1>6 DEF Spells, Allowed
  <2>3. OneServer("stop")' /\ Stopped(m, 0)' /\ Posture(m, 0)'
    BY <1>1, <1>2, <2>1 DEF OneServer, Stopped, Posture, Point, Alive
  <2>4. Recorded(m, 0)'
    BY <1>1, <1>2, <1>6, <2>1 DEF Recorded, Point, Ensured
  <2>5. Point(m, 0)'
    BY <2>1, <2>2, <2>3, <2>4 DEF Point
  <2> QED BY <2>1, <2>5 DEF Somewhere
<1>7. CASE InsteadDo(FeedSession)
  <2>1. todo' = FeedSession \o Tail(todo)
    BY <1>7 DEF InsteadDo
  <2>2. CASE l = "base" /\ k = 1
    <3>1. Spells(todo', "fedbase", 0)
      BY <1>1, <2>1, <2>2, FedFirst
    <3>2. Allowed("fedbase")
      BY <2>2 DEF Point, Allowed
    <3> QED BY <1>4, <1>6, <1>7, <3>1, <3>2
  <2>3. CASE l = "grid" /\ k = 0
    <3>1. Spells(todo', "fedgrid", 0)
      BY <1>1, <2>1, <2>3, FedFirst
    <3>2. Allowed("fedgrid")
      BY <2>3 DEF Point, Allowed
    <3> QED BY <1>4, <1>6, <1>7, <3>1, <3>2
  <2> QED BY <1>3, <2>2, <2>3
<1> QED BY <1>4, <1>5, <1>7 DEF Ensure

LEMMA ArchiveKeeps ==
  ASSUME Typed, NEW l \in Lines, NEW k \in Nat, Point(l, k), Archive
  PROVE  Typed' /\ Somewhere'
<1> USE ConstantsAssumption
<1>1. Doing("archive") /\ Next1(l, k) = "archive" /\ Line[l][k + 1] = "archive" /\ k < Len(Line[l])
  BY Does DEF Archive
<1>2. Proceed /\ dir' = [dir EXCEPT ![cmd.ds] = "none"] /\ UNCHANGED <<cmd, identity, pidfile, new, result, left>>
  BY DEF Archive
<1>3. l \in {"fedbase", "fedgrid"} /\ k = 1 /\ Next1(l, k + 1) = "forget"
  BY <1>1, Places, Nexts
<1>4. pidfile = "none" /\ \A p \in Server : srv[p].st = "dead"
  BY <1>1 DEF Point, Stopped, OneServer, Alive
<1>5. cmd.ds \in Dataset
  BY <1>1 DEF Point, Recorded
<1>6. \A p \in Server : srv'[p] = srv[p]
  BY <1>4, <1>5 DEF Archive, Typed, Dead
<1>7. Typed'
  <2>1. DOMAIN srv' = Server
    BY DEF Archive
  <2>2. dir' \in [Dataset -> Corpus \cup {"none", "part"}]
    BY <1>2, <1>5 DEF Typed
  <2> QED BY <1>2, <1>6, <2>1, <2>2 DEF Typed
<1>8. Spells(todo, l, k + 1)' /\ Allowed(l)' /\ k + 1 \in 0 .. Len(Line[l])
  BY <1>1, <1>2, Goes
<1>9. \A p \in Server : ~Alive(p)'
  BY <1>4, <1>6 DEF Alive
<1>10. OneServer("forget")' /\ Stopped(l, k + 1)' /\ Posture(l, k + 1)'
  BY <1>2, <1>3, <1>4, <1>9 DEF OneServer, Stopped, Posture
<1>11. Recorded(l, k + 1)'
  BY <1>1, <1>2, <1>3, <1>5 DEF Recorded, Point, Session, Ensured, Typed
<1>12. Point(l, k + 1)'
  BY <1>3, <1>8, <1>10, <1>11 DEF Point
<1> QED BY <1>7, <1>8, <1>12 DEF Somewhere

LEMMA ForgetKeeps ==
  ASSUME Typed, NEW l \in Lines, NEW k \in Nat, Point(l, k), Forget
  PROVE  Typed' /\ Somewhere'
<1> USE ConstantsAssumption
<1>1. Doing("forget") /\ Next1(l, k) = "forget" /\ Line[l][k + 1] = "forget" /\ k < Len(Line[l])
  BY Does DEF Forget
<1>2. Proceed /\ identity' = [identity EXCEPT ![cmd.ds] = "none"] /\ UNCHANGED <<cmd, dir, srv, pidfile, new, result, left>>
  BY DEF Forget
<1>3. l \in {"fedbase", "fedgrid"} /\ k = 2 /\ Next1(l, k + 1) = "fork"
  BY <1>1, Places, Nexts
<1>4. cmd.ds \in Dataset
  BY <1>1 DEF Point, Recorded
<1>5. Typed'
  BY <1>2, <1>4 DEF Typed
<1>6. Spells(todo, l, k + 1)' /\ Allowed(l)' /\ k + 1 \in 0 .. Len(Line[l])
  BY <1>1, <1>2, Goes
<1>7. OneServer("fork")' /\ Stopped(l, k + 1)' /\ Posture(l, k + 1)'
  BY <1>1, <1>2, <1>3 DEF OneServer, Stopped, Posture, Point, Alive
<1>8. Recorded(l, k + 1)'
  BY <1>1, <1>2, <1>3, <1>4 DEF Recorded, Point, Session, Ensured, Typed
<1>9. Point(l, k + 1)'
  BY <1>3, <1>6, <1>7, <1>8 DEF Point
<1> QED BY <1>5, <1>6, <1>9 DEF Somewhere

\* Who answers on the port is the session's server, on the session's dataset.
LEMMA FeedKeeps ==
  ASSUME Typed, NEW l \in Lines, NEW k \in Nat, Point(l, k), Feed
  PROVE  Typed' /\ Somewhere'
<1> USE ConstantsAssumption
<1>1. Doing("feed") /\ Next1(l, k) = "feed" /\ Line[l][k + 1] = "feed" /\ k < Len(Line[l])
  BY Does DEF Feed
<1>2. UNCHANGED <<cmd, identity, pidfile, new, result, left>>
  BY DEF Feed
<1>3. l \in {"fedbase", "fedgrid"} /\ k = 6 /\ Next1(l, k + 1) = "verify" /\ Session(l, k)
  BY <1>1, Places, Nexts DEF Session
<1>4. cmd.ds \in Dataset /\ cmd.corpus \in Corpus /\ identity[cmd.ds] = "none"
  BY <1>1, <1>3 DEF Point, Recorded
<1>5. \A p \in Up : p \in Server /\ srv[p].ds = cmd.ds /\ srv[p].lost = "none"
  BY <1>1 DEF Up, Point, Posture, Alive, Typed
<1>6. ASSUME Fail PROVE todo' = <<"stop">>
  BY <1>1, <1>6 DEF Fail, AfterFailure, Doing
<1>7. CASE Up = {} /\ Fail /\ UNCHANGED <<dir, srv>>
  <2>1. Point("last", 0)'
    BY <1>1, <1>2, <1>6, <1>7, StopLeft
  <2>2. Typed'
    BY <1>2, <1>7 DEF Typed
  <2> QED BY <2>1, <2>2, LastPoints DEF Somewhere
<1>8. ASSUME NEW p \in Up, NEW content \in {cmd.corpus, "part"}, Holds(p, content)
      PROVE  dir' = [dir EXCEPT ![cmd.ds] = content] /\ UNCHANGED srv /\ Typed'
  <2>1. dir' = [dir EXCEPT ![cmd.ds] = content] /\ UNCHANGED srv
    BY <1>5, <1>8 DEF Holds
  <2> QED BY <1>2, <1>4, <2>1 DEF Typed
<1>9. CASE \E p \in Up : Holds(p, "part") /\ Fail
  <2>1. dir' = [dir EXCEPT ![cmd.ds] = "part"] /\ UNCHANGED srv /\ Typed' /\ todo' = <<"stop">>
    BY <1>6, <1>8, <1>9
  <2>2. \A d \in Dataset : identity[d] # "none" => dir'[d] = dir[d]
    BY <1>4, <2>1 DEF Typed
  <2>3. Point("last", 0)'
    BY <1>1, <1>2, <2>1, <2>2, StopLeft
  <2> QED BY <2>1, <2>3, LastPoints DEF Somewhere
<1>10. CASE \E p \in Up : Holds(p, cmd.corpus) /\ Proceed
  <2>1. dir' = [dir EXCEPT ![cmd.ds] = cmd.corpus] /\ UNCHANGED srv /\ Typed' /\ Proceed
    BY <1>8, <1>10
  <2>2. Spells(todo, l, k + 1)' /\ Allowed(l)' /\ k + 1 \in 0 .. Len(Line[l])
    BY <1>1, <1>2, <2>1, Goes
  <2>3. OneServer("verify")' /\ Stopped(l, k + 1)' /\ Posture(l, k + 1)'
    BY <1>1, <1>2, <1>3, <2>1 DEF OneServer, Stopped, Posture, Point, Alive, Session
  <2>4. Recorded(l, k + 1)'
    BY <1>1, <1>2, <1>3, <1>4, <2>1 DEF Recorded, Point, Session, Ensured, Typed
  <2>5. Point(l, k + 1)'
    BY <1>3, <2>2, <2>3, <2>4 DEF Point
  <2> QED BY <2>1, <2>2, <2>5 DEF Somewhere
<1> QED BY <1>7, <1>9, <1>10 DEF Feed

LEMMA RecordKeeps ==
  ASSUME Typed, NEW l \in Lines, NEW k \in Nat, Point(l, k), Record
  PROVE  Typed' /\ Somewhere'
<1> USE ConstantsAssumption
<1>1. Doing("record") /\ Next1(l, k) = "record" /\ Line[l][k + 1] = "record" /\ k < Len(Line[l])
  BY Does DEF Record
<1>2. Proceed /\ identity' = [identity EXCEPT ![cmd.ds] = cmd.corpus]
      /\ UNCHANGED <<cmd, dir, srv, pidfile, new, result, left>>
  BY DEF Record
<1>3. l \in {"fedbase", "fedgrid"} /\ k = 8 /\ Next1(l, k + 1) = "stop"
  BY <1>1, Places, Nexts
<1>4. cmd.ds \in Dataset /\ cmd.corpus \in Corpus
  BY <1>1 DEF Point, Recorded
<1>5. Typed'
  BY <1>2, <1>4 DEF Typed
<1>6. Spells(todo, l, k + 1)' /\ Allowed(l)' /\ k + 1 \in 0 .. Len(Line[l])
  BY <1>1, <1>2, Goes
<1>7. OneServer("stop")' /\ Stopped(l, k + 1)' /\ Posture(l, k + 1)'
  BY <1>1, <1>2, <1>3 DEF OneServer, Stopped, Posture, Point, Alive
<1>8. Recorded(l, k + 1)'
  BY <1>1, <1>2, <1>3, <1>4 DEF Recorded, Point, Session, Ensured, Typed
<1>9. Point(l, k + 1)'
  BY <1>3, <1>6, <1>7, <1>8 DEF Point
<1> QED BY <1>5, <1>6, <1>9 DEF Somewhere

LEMMA CountKeeps ==
  ASSUME Typed, NEW l \in Lines, NEW k \in Nat, Point(l, k), Count
  PROVE  Typed' /\ Somewhere'
<1> USE ConstantsAssumption
<1>1. UNCHANGED <<cmd, dir, identity, srv, pidfile, new, result, left>>
  BY DEF Count
<1>2. Typed'
  BY <1>1 DEF Typed
<1>3. PICK step \in {"verify", "count"} : Doing(step)
  BY DEF Count
<1>4. Next1(l, k) = step /\ Line[l][k + 1] = step /\ k < Len(Line[l])
  BY <1>3, Does
<1>5. CASE Proceed
  <2>1. Spells(todo, l, k + 1)' /\ Allowed(l)' /\ k + 1 \in 0 .. Len(Line[l])
    BY <1>1, <1>3, <1>5, Goes
  <2>2. \/ step = "verify" /\ l \in {"fedbase", "fedgrid"} /\ k = 7 /\ Next1(l, k + 1) = "record"
        \/ step = "count" /\ l \in {"quick", "ownquick"} /\ Next1(l, k + 1) = "identity"
        \/ /\ step = "count" /\ l \in {"base", "fedbase", "grid", "fedgrid", "owngrid"}
           /\ Next1(l, k + 1) = "measure"
    <3>1. CASE step = "verify"
      BY <3>1, <1>4, Places, Nexts
    <3>2. CASE step = "count"
      <4>1. \/ l = "base" /\ k = 5
            \/ l = "fedbase" /\ k = 13
            \/ l = "grid" /\ k = 2
            \/ l = "fedgrid" /\ k = 11
            \/ l = "owngrid" /\ k = 4
            \/ l = "quick" /\ k = 1
            \/ l = "ownquick" /\ k = 4
        BY <3>2, <1>4, Places
      <4> QED BY <4>1, <3>2, Nexts
    <3> QED BY <3>1, <3>2
  <2>3. Ensured(l, k) <=> Ensured(l, k + 1)
    <3>1. CASE step = "verify"
      BY <2>2, <3>1 DEF Ensured
    <3>2. CASE step = "count"
      <4>1. \/ l = "base" /\ k = 5
            \/ l = "fedbase" /\ k = 13
            \/ l = "grid" /\ k = 2
            \/ l = "fedgrid" /\ k = 11
            \/ l = "owngrid" /\ k = 4
            \/ l = "quick" /\ k = 1
            \/ l = "ownquick" /\ k = 4
        BY <3>2, <1>4, Places
      <4> QED BY <4>1 DEF Ensured
    <3> QED BY <3>1, <3>2
  <2>4. step = "count" => ~Session(l, k) /\ ~Session(l, k + 1)
    <3> SUFFICES ASSUME step = "count" PROVE ~Session(l, k) /\ ~Session(l, k + 1)
      OBVIOUS
    <3>1. \/ l \notin {"fedbase", "fedgrid"}
          \/ k \in {11, 13}
      BY <1>4, Places
    <3> QED BY <3>1 DEF Session
  <2>5. OneServer(Next1(l, k + 1))' /\ Stopped(l, k + 1)'
    <3>1. ~(l = "base" /\ k + 1 = 1)
      BY <1>4, Places
    <3> QED BY <1>1, <1>4, <2>2, <3>1 DEF OneServer, Stopped, Point, Alive
  <2>6. Posture(l, k + 1)'
    <3>1. CASE step = "verify"
      BY <1>1, <1>4, <2>2, <3>1 DEF Posture, Point, Alive, Session
    <3>2. CASE step = "count"
      BY <1>1, <1>4, <2>2, <2>4, <3>2 DEF Posture, Point, Alive
    <3> QED BY <3>1, <3>2
  <2>7. Recorded(l, k + 1)'
    <3>1. CASE step = "verify"
      BY <1>1, <1>4, <2>2, <2>3, <3>1 DEF Recorded, Point, Session
    <3>2. CASE step = "count"
      BY <1>1, <1>4, <2>2, <2>3, <2>4, <3>2 DEF Recorded, Point
    <3> QED BY <3>1, <3>2
  <2>8. Point(l, k + 1)'
    BY <2>1, <2>5, <2>6, <2>7 DEF Point
  <2> QED BY <1>2, <2>1, <2>8 DEF Somewhere
<1>6. CASE Fail
  <2>1. todo' = <<"stop">> \/ todo' = <<>>
    BY <1>6 DEF Fail, AfterFailure
  <2>2. CASE todo' = <<"stop">>
    <3>1. Point("last", 0)'
      BY <1>1, <1>4, <2>2, StopLeft
    <3> QED BY <1>2, <3>1, LastPoints DEF Somewhere
  <2>3. CASE todo' = <<>>
    <3>1. step = "count"
      BY <1>3, <1>6, <2>3 DEF Fail, AfterFailure, Doing
    <3>2. \A p \in Server : Alive(p)' => p = pidfile' /\ ~(srv'[p].ingest)
      BY <1>1, <1>4, <3>1 DEF Point, OneServer, Posture, Alive
    <3>3. Point("last", 1)'
      BY <1>1, <1>4, <2>3, <3>2, GivenUp
    <3> QED BY <1>2, <3>3, LastPoints DEF Somewhere
  <2> QED BY <2>1, <2>2, <2>3
<1> QED BY <1>5, <1>6 DEF Count

LEMMA CheckIdentityKeeps ==
  ASSUME Typed, NEW l \in Lines, NEW k \in Nat, Point(l, k), CheckIdentity
  PROVE  Typed' /\ Somewhere'
<1> USE ConstantsAssumption
<1>1. Doing("identity") /\ Next1(l, k) = "identity" /\ Line[l][k + 1] = "identity" /\ k < Len(Line[l])
  BY Does DEF CheckIdentity
<1>2. UNCHANGED <<cmd, dir, identity, srv, pidfile, new, result, left>>
  BY DEF CheckIdentity
<1>3. Typed'
  BY <1>2 DEF Typed
<1>4. CASE identity[cmd.ds] = cmd.corpus /\ Proceed
  <2>1. Spells(todo, l, k + 1)' /\ Allowed(l)' /\ k + 1 \in 0 .. Len(Line[l])
    BY <1>1, <1>2, <1>4, Goes
  <2>2. l \in {"quick", "ownquick"} /\ Next1(l, k + 1) = "measure"
    <3>1. (l = "quick" /\ k = 2) \/ (l = "ownquick" /\ k = 5)
      BY <1>1, Places
    <3>2. CASE l = "quick" /\ k = 2
      BY <3>2, Nexts
    <3>3. CASE l = "ownquick" /\ k = 5
      BY <3>3, Nexts
    <3> QED BY <3>1, <3>2, <3>3
  <2>3. OneServer("measure")' /\ Stopped(l, k + 1)' /\ Posture(l, k + 1)'
    BY <1>1, <1>2, <2>2 DEF OneServer, Stopped, Posture, Point, Alive
  <2>4. Recorded(l, k + 1)'
    BY <1>1, <1>2, <1>4, <2>2 DEF Recorded, Point, Session
  <2>5. Point(l, k + 1)'
    BY <2>1, <2>2, <2>3, <2>4 DEF Point
  <2> QED BY <1>3, <2>1, <2>5 DEF Somewhere
<1>5. CASE Fail
  <2>1. todo' = <<>>
    BY <1>1, <1>5 DEF Fail, AfterFailure, Doing
  <2>2. \A p \in Server : Alive(p)' => p = pidfile' /\ ~(srv'[p].ingest)
    BY <1>1, <1>2 DEF Point, OneServer, Posture, Alive
  <2>3. Point("last", 1)'
    BY <1>1, <1>2, <2>1, <2>2, GivenUp
  <2> QED BY <1>3, <2>3, LastPoints DEF Somewhere
<1> QED BY <1>4, <1>5 DEF CheckIdentity

LEMMA CellsKeep ==
  ASSUME Typed, Sound, NEW l \in Lines, NEW k \in Nat, Point(l, k), Cells
  PROVE  Typed' /\ Sound' /\ Somewhere'
<1> USE ConstantsAssumption
<1>1. Doing("measure") /\ Next1(l, k) = "measure" /\ Line[l][k + 1] = "measure" /\ k < Len(Line[l])
  BY Does DEF Cells
<1>2. Proceed /\ UNCHANGED <<cmd, dir, identity, srv, pidfile, new, left>>
  BY DEF Cells
<1>3. Typed'
  BY <1>2 DEF Typed
<1>4. \/ l = "base" /\ k = 6
      \/ l = "fedbase" /\ k = 14
      \/ l = "grid" /\ k = 3
      \/ l = "fedgrid" /\ k = 12
      \/ l = "owngrid" /\ k = 5
      \/ l = "quick" /\ k = 3
      \/ l = "ownquick" /\ k = 6
  BY <1>1, Places
<1>5. Next1(l, k + 1) \in {"stop", "end"} /\ ~Session(l, k) /\ ~Session(l, k + 1) /\ k + 1 > 1
  BY <1>4, Nexts DEF Session
<1>6. Ensured(l, k) <=> Ensured(l, k + 1)
  BY <1>4 DEF Ensured
<1>7. Spells(todo, l, k + 1)' /\ Allowed(l)' /\ k + 1 \in 0 .. Len(Line[l])
  BY <1>1, <1>2, Goes
<1>8. OneServer(Next1(l, k + 1))' /\ Stopped(l, k + 1)'
  BY <1>1, <1>2, <1>5 DEF OneServer, Stopped, Point, Alive
<1>9. Posture(l, k + 1)'
  BY <1>1, <1>2, <1>5 DEF Posture, Point, Alive
<1>10. Recorded(l, k + 1)'
  <2>1. l \in {"quick", "ownquick"} => Next1(l, k + 1) # "measure"
    BY <1>5
  <2> QED BY <1>1, <1>2, <1>5, <1>6, <2>1 DEF Recorded, Point
<1>11. Somewhere'
  <2>1. Point(l, k + 1)'
    BY <1>7, <1>8, <1>9, <1>10 DEF Point
  <2> QED BY <1>7, <2>1 DEF Somewhere
<1>12. cmd.ds \in Dataset /\ cmd.corpus \in Corpus /\ dir[cmd.ds] = cmd.corpus
  <2>1. cmd.ds \in Dataset /\ cmd.corpus \in Corpus
    BY <1>1 DEF Point, Recorded
  <2>2. identity[cmd.ds] = cmd.corpus
    <3>1. Ensured(l, k) \/ l \in {"quick", "ownquick"}
      BY <1>4 DEF Ensured
    <3> QED BY <1>1, <3>1 DEF Point, Recorded
  <2> QED BY <1>1, <2>1, <2>2 DEF Point, Recorded
<1>13. cmd.kind \in {"baseline", "refeed"} => l \in {"base", "fedbase"}
  BY <1>4 DEF Point, Allowed
<1>14. CASE UNCHANGED result
  BY <1>2, <1>3, <1>11, <1>14 DEF Sound
<1>15. CASE \E p \in Up : result' = <<[ds |-> srv[p].ds, corpus |-> Served(p),
                                       cache |-> srv[p].cache, ingest |-> srv[p].ingest]>>
  <2>1. PICK p \in Up : result' = <<[ds |-> srv[p].ds, corpus |-> Served(p),
                                     cache |-> srv[p].cache, ingest |-> srv[p].ingest]>>
    BY <1>15
  <2>2. p \in Server /\ Alive(p)
    BY DEF Up, Alive
  <2>3. srv[p].cache = cmd.cache /\ ~srv[p].ingest
    BY <1>1, <1>5, <2>2 DEF Point, Posture
  <2>4. l \in {"base", "fedbase"} => srv[p].ds = cmd.ds
    BY <1>1, <2>2 DEF Point, Posture
  <2>5. srv[p].ds = cmd.ds => Served(p) = cmd.corpus
    BY <1>12, <2>2 DEF Served, Typed
  <2>6. DOMAIN result' = {1} /\ result'[1] = [ds |-> srv[p].ds, corpus |-> Served(p),
                                     cache |-> srv[p].cache, ingest |-> srv[p].ingest]
    BY <2>1
  <2>7. /\ result'[1].cache = cmd.cache /\ ~(result'[1].ingest)
        /\ result'[1].ds = cmd.ds => result'[1].corpus = cmd.corpus
        /\ cmd.kind \in {"baseline", "refeed"} => result'[1].ds = cmd.ds
    BY <1>13, <2>3, <2>4, <2>5, <2>6
  <2>8. Sound'
    BY <1>2, <2>6, <2>7 DEF Sound
  <2> QED BY <1>3, <1>11, <2>8
<1> QED BY <1>14, <1>15 DEF Cells

LEMMA RunningKeeps ==
  ASSUME Typed, NEW l \in Lines, NEW k \in Nat, Point(l, k), Running
  PROVE  Typed' /\ Somewhere'
<1> USE ConstantsAssumption
<1>1. Doing("running") /\ Next1(l, k) = "running" /\ Line[l][k + 1] = "running" /\ k < Len(Line[l])
      /\ Spells(Tail(todo), l, k + 1)
  BY Does DEF Running
<1>2. UNCHANGED <<cmd, dir, identity, srv, new, result, left>>
  BY DEF Running
<1>3. \/ l = "grid" /\ k = 1
      \/ l = "fedgrid" /\ k = 10
      \/ l = "quick" /\ k = 0
  BY <1>1, Places
<1>4. ~Session(l, k) /\ (l \in {"grid", "fedgrid"} => Ensured(l, k) /\ cmd.kind = "grid")
      /\ (l = "quick" => cmd.kind = "quick")
  BY <1>3 DEF Session, Ensured, Point, Allowed
<1>5. cmd.ds \in Dataset /\ cmd.corpus \in Corpus
      /\ (l \in {"grid", "fedgrid"} => identity[cmd.ds] = cmd.corpus)
      /\ \A d \in Dataset : identity[d] # "none" => dir[d] = identity[d]
  BY <1>1, <1>4 DEF Point, Recorded
<1>6. \A p \in Server : Alive(p) => p = pidfile /\ ~srv[p].ingest
  BY <1>1 DEF Point, OneServer, Posture
<1>7. CASE /\ Alive(pidfile) /\ \E p \in Up : srv[p].cache = cmd.cache
           /\ Proceed /\ UNCHANGED pidfile
  <2>1. Spells(todo, l, k + 1)' /\ Allowed(l)' /\ k + 1 \in 0 .. Len(Line[l])
    BY <1>1, <1>2, <1>7, Goes
  <2>2. Next1(l, k + 1) = "count" /\ l \notin {"base", "fedbase"}
    BY <1>3, Nexts
  <2>3. Typed'
    BY <1>2, <1>7 DEF Typed
  <2>4. srv[pidfile].cache = cmd.cache
    BY <1>6, <1>7 DEF Up, Alive
  <2>5. OneServer("count")' /\ Stopped(l, k + 1)'
    BY <1>2, <1>6, <1>7, <2>2 DEF OneServer, Stopped, Alive
  <2>6. Posture(l, k + 1)'
    BY <1>2, <1>6, <1>7, <2>2, <2>4 DEF Posture, Alive
  <2>7. Recorded(l, k + 1)'
    <3>1. Ensured(l, k + 1) => l \in {"grid", "fedgrid"}
      BY <1>3 DEF Ensured
    <3> QED BY <1>2, <1>5, <2>2, <3>1 DEF Recorded
  <2>8. Point(l, k + 1)'
    BY <2>1, <2>2, <2>5, <2>6, <2>7 DEF Point
  <2> QED BY <2>1, <2>3, <2>8 DEF Somewhere
<1>8. ASSUME NEW m \in {"owngrid", "ownquick"}, NEW j \in {0, 1}, Spells(todo', m, j),
             m = "owngrid" => l \in {"grid", "fedgrid"},
             m = "ownquick" => l = "quick",
             j = 0 => pidfile' = pidfile,
             j = 1 => pidfile' = "none" /\ ~Alive(pidfile)
      PROVE  Typed' /\ Somewhere'
  <2>1. m \in Lines /\ j \in 0 .. Len(Line[m])
    BY <1>8 DEF Spells
  <2>2. Next1(m, j) = (IF j = 0 THEN "stop" ELSE "fork")
    <3>1. CASE j = 0
      BY <3>1, Nexts
    <3>2. CASE j = 1
      BY <3>2, Nexts
    <3> QED BY <3>1, <3>2
  <2>3. Spells(todo, m, j)' /\ Allowed(m)'
    <3>1. Allowed(m)
      BY <1>4, <1>8 DEF Allowed
    <3> QED BY <1>2, <1>8, <3>1 DEF Spells, Allowed
  <2>4. OneServer(Next1(m, j))' /\ Stopped(m, j)'
    BY <1>2, <1>6, <1>8, <2>2 DEF OneServer, Stopped, Alive
  <2>5. Posture(m, j)'
    BY <1>2, <1>6, <1>8, <2>2 DEF Posture, Alive
  <2>6. Recorded(m, j)'
    BY <1>2, <1>5, <1>8, <2>2 DEF Recorded, Session, Ensured
  <2>7. Point(m, j)'
    BY <2>2, <2>3, <2>4, <2>5, <2>6 DEF Point
  <2>8. Typed'
    BY <1>2, <1>8 DEF Typed
  <2> QED BY <2>1, <2>7, <2>8 DEF Somewhere
<1>9. \/ Spells(Tail(todo), "grid", 2) /\ l = "grid"
      \/ Spells(Tail(todo), "fedgrid", 11) /\ l = "fedgrid"
      \/ Spells(Tail(todo), "quick", 1) /\ l = "quick"
  BY <1>1, <1>3
<1>10. PICK m \in {"owngrid", "ownquick"} :
         /\ m = "owngrid" => l \in {"grid", "fedgrid"}
         /\ m = "ownquick" => l = "quick"
         /\ Spells(Start \o Tail(todo), m, 1)
         /\ Spells((<<"stop">> \o Start) \o Tail(todo), m, 0)
  BY <1>9, OwnFirst
<1>11. CASE InsteadDo(<<"stop">> \o Start) /\ UNCHANGED pidfile
  <2>1. todo' = (<<"stop">> \o Start) \o Tail(todo)
    BY <1>11 DEF InsteadDo
  <2>2. Spells(todo', m, 0)
    BY <1>10, <2>1
  <2> QED BY <1>8, <1>10, <1>11, <2>2
<1>12. CASE ~Alive(pidfile) /\ InsteadDo(Start) /\ pidfile' = "none"
  <2>1. todo' = Start \o Tail(todo)
    BY <1>12 DEF InsteadDo
  <2>2. Spells(todo', m, 1)
    BY <1>10, <2>1
  <2> QED BY <1>8, <1>10, <1>12, <2>2
<1> QED BY <1>7, <1>11, <1>12 DEF Running

LEMMA StopByHandKeeps ==
  ASSUME Typed, NEW l \in Lines, NEW k \in Nat, Point(l, k), StopByHand
  PROVE  Typed' /\ Somewhere'
<1> USE ConstantsAssumption
<1>1. todo = <<>> /\ pidfile # "none" /\ srv' = [srv EXCEPT ![pidfile] = Dead] /\ pidfile' = "none"
      /\ UNCHANGED <<todo, cmd, dir, identity, new, result, left>>
  BY DEF StopByHand
<1>2. Next1(l, k) = "end"
  BY <1>1, AtEnd DEF Point
<1>3. DOMAIN srv' = Server /\ \A p \in Server : srv'[p] = srv[p] \/ srv'[p] = Dead
  BY <1>1 DEF Typed
<1>4. Typed'
  <2>1. Dead.lost = "none"
    BY DEF Dead
  <2> QED BY <1>1, <1>3, <2>1 DEF Typed
<1>5. \A p \in Server : ~Alive(p)'
  BY <1>1, <1>2 DEF Point, OneServer, Alive, Typed, Dead
<1>6. Point("last", 1)'
  BY <1>1, <1>2, <1>5, GivenUp
<1> QED BY <1>4, <1>6, LastPoints DEF Somewhere

LEMMA BeginKeeps ==
  ASSUME Typed, NEW l \in Lines, NEW k \in Nat, Point(l, k), Begin
  PROVE  Typed' /\ Sound' /\ Somewhere'
<1> USE ConstantsAssumption
<1>1. /\ todo = <<>> /\ cmd' \in [kind : Kinds, ds : Dataset, corpus : Corpus, cache : {"on", "off"}]
      /\ todo' = Program(cmd'.kind) /\ result' = <<>>
      /\ UNCHANGED <<dir, identity, srv, pidfile, new>>
  BY DEF Begin
<1>2. Next1(l, k) = "end"
  BY <1>1, AtEnd DEF Point
<1>3. Typed'
  BY <1>1 DEF Typed
<1>4. Sound'
  BY <1>1 DEF Sound
<1>5. \A p \in Server : Alive(p) => p = pidfile /\ ~srv[p].ingest
  BY <1>2 DEF Point, OneServer, Posture
<1>6. \A d \in Dataset : identity[d] # "none" => dir[d] = identity[d]
  BY <1>2 DEF Point, Recorded
<1>7. cmd'.kind \in Kinds /\ cmd'.ds \in Dataset /\ cmd'.corpus \in Corpus
  BY <1>1
<1>8. PICK m \in {"base", "grid", "quick"} :
        /\ Spells(todo', m, 0)
        /\ m = "base" => cmd'.kind \in {"baseline", "refeed"}
        /\ m = "grid" => cmd'.kind = "grid"
        /\ m = "quick" => cmd'.kind = "quick"
  BY <1>1, <1>7, ProgramLines DEF Kinds
<1>9. m \in Lines /\ 0 \in 0 .. Len(Line[m])
  BY <1>8 DEF Spells
<1>10. Spells(todo, m, 0)' /\ Allowed(m)'
  BY <1>8 DEF Spells, Allowed
<1>11. Next1(m, 0) \in {"stop", "ensure", "running"}
  BY Nexts
<1>12. OneServer(Next1(m, 0))' /\ Stopped(m, 0)'
  BY <1>1, <1>5, <1>11 DEF OneServer, Stopped, Alive
<1>13. Posture(m, 0)'
  BY <1>1, <1>5, <1>11 DEF Posture, Alive
<1>14. Recorded(m, 0)'
  BY <1>1, <1>6, <1>7, <1>8, <1>11 DEF Recorded, Session, Ensured
<1>15. Point(m, 0)'
  BY <1>10, <1>12, <1>13, <1>14 DEF Point
<1> QED BY <1>3, <1>4, <1>9, <1>15 DEF Somewhere

LEMMA ServerUpKeeps ==
  ASSUME Typed, NEW l \in Lines, NEW k \in Nat, Point(l, k), NEW q \in Server, ServerUp(q)
  PROVE  Typed' /\ Point(l, k)'
<1> USE ConstantsAssumption
<1>1. srv[q].st = "starting" /\ srv' = [srv EXCEPT ![q].st = "up"]
      /\ UNCHANGED <<todo, cmd, identity, pidfile, new, result, left>>
  BY DEF ServerUp
<1>2. srv[q].lost = "none" /\ Alive(q) /\ srv[q].ds \in Dataset /\ srv[q] # Dead
  BY <1>1 DEF Typed, Alive, Dead
<1>3. dir' = dir \/ (dir[srv[q].ds] = "none" /\ dir' = [dir EXCEPT ![srv[q].ds] = "part"])
  BY <1>2 DEF ServerUp, Served
<1>4. /\ DOMAIN srv' = Server
      /\ \A p \in Server : p # q => srv'[p] = srv[p]
      /\ srv'[q] = [srv[q] EXCEPT !.st = "up"]
  BY <1>1 DEF Typed
<1>5. srv'[q].st = "up" /\ srv'[q].ds = srv[q].ds /\ srv'[q].lost = "none"
      /\ srv'[q].cache = srv[q].cache /\ (srv'[q].ingest <=> srv[q].ingest)
  BY <1>2, <1>4
<1>6. Typed'
  BY <1>1, <1>2, <1>3, <1>4, <1>5 DEF Typed
<1>7. \A p \in Server : Alive(p)' <=> Alive(p)
  BY <1>2, <1>4, <1>5 DEF Alive
<1>8. OneServer(Next1(l, k))' /\ Stopped(l, k)'
  BY <1>1, <1>7 DEF Point, OneServer, Stopped
<1>9. Posture(l, k)'
  BY <1>1, <1>4, <1>5, <1>7 DEF Point, Posture
<1>10. Recorded(l, k)'
  <2>1. \A d \in Dataset : identity[d] # "none" => dir'[d] = dir[d] \/ (Next1(l, k) = "forget" /\ d = cmd.ds)
    BY <1>2, <1>3 DEF Point, Recorded, Typed
  <2>2. Next1(l, k) \in {"verify", "record"} => dir'[cmd.ds] = cmd.corpus
    BY <1>2, <1>3 DEF Point, Recorded, Typed
  <2> QED BY <1>1, <2>1, <2>2 DEF Point, Recorded
<1>11. Spells(todo, l, k)' /\ Allowed(l)'
  BY <1>1 DEF Point, Spells, Allowed
<1> QED BY <1>6, <1>8, <1>9, <1>10, <1>11 DEF Point

LEMMA ServerDiesKeeps ==
  ASSUME Typed, NEW l \in Lines, NEW k \in Nat, Point(l, k), NEW q \in Server, ServerDies(q)
  PROVE  Typed' /\ Point(l, k)'
<1> USE ConstantsAssumption
<1>1. srv' = [srv EXCEPT ![q] = Dead] /\ UNCHANGED <<todo, cmd, dir, identity, pidfile, new, result, left>>
  BY DEF ServerDies
<1>2. DOMAIN srv' = Server /\ srv'[q] = Dead /\ \A p \in Server : p # q => srv'[p] = srv[p]
  BY <1>1 DEF Typed
<1>3. Dead.lost = "none" /\ Dead.st = "dead"
  BY DEF Dead
<1>4. Typed'
  BY <1>1, <1>2, <1>3 DEF Typed
<1>5. \A p \in Server : Alive(p)' => Alive(p) /\ srv'[p] = srv[p]
  BY <1>2, <1>3 DEF Alive
<1>6. OneServer(Next1(l, k))' /\ Stopped(l, k)'
  BY <1>1, <1>5 DEF Point, OneServer, Stopped
<1>7. Posture(l, k)'
  BY <1>1, <1>5 DEF Point, Posture
<1>8. Recorded(l, k)' /\ Spells(todo, l, k)' /\ Allowed(l)'
  BY <1>1 DEF Point, Recorded, Spells, Allowed
<1> QED BY <1>4, <1>6, <1>7, <1>8 DEF Point

\* Every state the runner starts in satisfies the invariant.
LEMMA CoreHolds == Init => Bounds /\ Core
<1> SUFFICES ASSUME Init PROVE Bounds /\ Core
  OBVIOUS
<1> USE ConstantsAssumption DEF Init
<1>1. Bounds /\ Sound
  BY DEF Bounds, Sound
<1>2. Typed
  BY DEF Typed, Dead, Kinds
<1>3. \A p \in Server : ~Alive(p)
  BY DEF Alive, Dead
<1>4. Spells(todo, "last", 1) /\ Next1("last", 1) = "end"
  BY Leftovers, Nexts
<1>5. Allowed("last") /\ OneServer("end") /\ Stopped("last", 1) /\ Posture("last", 1)
  BY <1>3, <1>4 DEF Allowed, OneServer, Stopped, Posture
<1>6. Recorded("last", 1)
  BY <1>4 DEF Recorded, Session
<1>7. Point("last", 1)
  BY <1>4, <1>5, <1>6 DEF Point
<1> QED BY <1>1, <1>2, <1>7, LastPoints DEF Core

\* No step of an undisturbed engine leads out of the invariant.
LEMMA CoreKept == Bounds /\ Core /\ Undisturbed /\ Undisturbed' /\ [Next]_vars => Core'
<1> SUFFICES ASSUME Bounds, Core, Undisturbed, Undisturbed', [Next]_vars PROVE Core'
  OBVIOUS
<1> USE ConstantsAssumption
<1>1. PICK l \in Lines : \E j \in 0 .. Len(Line[l]) : Point(l, j)
  BY DEF Core
<1>2. PICK k \in 0 .. Len(Line[l]) : Point(l, k)
  BY <1>1
<1>3. k \in Nat /\ Typed /\ Sound
  BY LenNat DEF Core
<1>4. ASSUME Typed' /\ Somewhere', UNCHANGED <<cmd, result>> PROVE Core'
  BY <1>3, <1>4 DEF Core, Somewhere, Sound
<1>5. ASSUME Typed' /\ Point(l, k)', UNCHANGED <<cmd, result>> PROVE Core'
  BY <1>3, <1>5 DEF Core, Sound
<1>6. CASE Fork
  BY <1>2, <1>3, <1>4, <1>6, ForkKeeps DEF Fork
<1>7. CASE WritePid
  BY <1>2, <1>3, <1>4, <1>7, WritePidKeeps DEF WritePid
<1>8. CASE Ready
  <2>1. left.lingering = 0 /\ left'.lingering = 0 /\ left \in [commands : Nat, kills : Nat, lingering : Nat]
    BY DEF Undisturbed, Bounds
  <2> QED BY <1>2, <1>3, <1>4, <1>8, <2>1, ReadyKeeps DEF Ready
<1>9. CASE Stop
  BY <1>2, <1>3, <1>4, <1>9, StopKeeps DEF Stop, Somewhere
<1>10. CASE Ensure
  BY <1>2, <1>3, <1>4, <1>10, EnsureKeeps DEF Ensure
<1>11. CASE Archive
  BY <1>2, <1>3, <1>4, <1>11, ArchiveKeeps DEF Archive
<1>12. CASE Forget
  BY <1>2, <1>3, <1>4, <1>12, ForgetKeeps DEF Forget
<1>13. CASE Feed
  BY <1>2, <1>3, <1>4, <1>13, FeedKeeps DEF Feed
<1>14. CASE Count
  BY <1>2, <1>3, <1>4, <1>14, CountKeeps DEF Count
<1>15. CASE Record
  BY <1>2, <1>3, <1>4, <1>15, RecordKeeps DEF Record
<1>16. CASE Running
  BY <1>2, <1>3, <1>4, <1>16, RunningKeeps DEF Running
<1>17. CASE CheckIdentity
  BY <1>2, <1>3, <1>4, <1>17, CheckIdentityKeeps DEF CheckIdentity
<1>18. CASE Cells
  BY <1>2, <1>3, <1>18, CellsKeep DEF Core, Somewhere
<1>19. CASE Begin
  BY <1>2, <1>3, <1>19, BeginKeeps DEF Core, Somewhere
<1>20. CASE StopByHand
  BY <1>2, <1>3, <1>4, <1>20, StopByHandKeeps DEF StopByHand
<1>21. CASE \E q \in Server : ServerUp(q)
  BY <1>2, <1>3, <1>5, <1>21, ServerUpKeeps DEF ServerUp
<1>22. CASE \E q \in Server : ServerDies(q)
  BY <1>2, <1>3, <1>5, <1>22, ServerDiesKeeps DEF ServerDies
<1>23. ~Killed
  BY DEF Killed, Undisturbed, Bounds
<1>24. CASE UNCHANGED vars
  <2>1. Typed' /\ Point(l, k)'
    BY <1>2, <1>3, <1>24 DEF vars, Typed, Point, Spells, Allowed, OneServer, Stopped, Posture, Recorded, Alive
  <2> QED BY <1>5, <1>24, <2>1 DEF vars
<1> QED BY <1>6, <1>7, <1>8, <1>9, <1>10, <1>11, <1>12, <1>13, <1>14, <1>15, <1>16, <1>17, <1>18,
           <1>19, <1>20, <1>21, <1>22, <1>23, <1>24 DEF Next, Script

\* Once the engine was disturbed it stays so.
LEMMA BoundsKept == Bounds /\ [Next]_vars => Bounds' /\ (Undisturbed' => Undisturbed)
<1> SUFFICES ASSUME Bounds, [Next]_vars PROVE Bounds' /\ (Undisturbed' => Undisturbed)
  OBVIOUS
<1> USE ConstantsAssumption
<1>1. \/ left' = left
      \/ left.commands > 0 /\ left' = [left EXCEPT !.commands = @ - 1]
      \/ left.kills > 0 /\ left' = [left EXCEPT !.kills = @ - 1]
      \/ left' = [left EXCEPT !.lingering = @ + 1]
  BY DEF Next, Script, vars, Begin, Killed, StopByHand, ServerUp, ServerDies, Fork, WritePid, Ready, Stop,
         Ensure, Archive, Forget, Feed, Count, Record, Running, CheckIdentity, Cells
<1> QED BY <1>1 DEF Bounds, Undisturbed

\* Every state that commands, failures and signals reach satisfies the inductive
\* invariant, for every set of datasets, corpora and servers.
THEOREM Invariance == Spec => []IInv
<1>1. Init => IInv
  BY CoreHolds DEF IInv
<1>2. IInv /\ [Next]_vars => IInv'
  BY CoreKept, BoundsKept DEF IInv
<1> QED BY <1>1, <1>2, PTL DEF Spec

\* Between commands, a dataset with an identity beside it holds that corpus to
\* the last document: baseline and grid may reuse what the identity names.  The
\* hazard is a feed that fails half way with the identity still there.
THEOREM ReusedIsWhole == Spec => []ReusableIsWhole
<1>1. IInv => ReusableIsWhole
  <2> SUFFICES ASSUME IInv, Undisturbed, Idle, NEW d \in Dataset, identity[d] # "none"
               PROVE  dir[d] = identity[d]
    BY DEF ReusableIsWhole
  <2>1. PICK l \in Lines : \E j \in 0 .. Len(Line[l]) : Point(l, j)
    BY DEF IInv, Core
  <2>2. PICK k \in 0 .. Len(Line[l]) : Point(l, k)
    BY <2>1
  <2>3. Next1(l, k) = "end"
    BY <2>2, AtEnd DEF Point, Idle
  <2> QED BY <2>2, <2>3 DEF Point, Recorded
<1> QED BY <1>1, Invariance, PTL

\* What baseline, grid and quick.sh measure is what the command asked for: its
\* cache setting, a server that does not ingest, and the corpus it names in the
\* dataset it names.
THEOREM MeasuredIsAsked == Spec => []MeasuredAsAsked
<1>1. IInv => MeasuredAsAsked
  BY DEF IInv, Core, Sound, MeasuredAsAsked
<1> QED BY <1>1, Invariance, PTL
=============================================================================
