---------------------------- MODULE ProgramsProofs ----------------------------
(***************************************************************************)
(* Proofs about the programs that run one at a time.                       *)
(*                                                                         *)
(* A grid's legs, for any cells, settings, builds and corpora and any      *)
(* number of legs, killed anywhere: no file names a context that is not    *)
(* there, no result of an earlier leg shows in a later one, and a leg that *)
(* exits 0 left a whole grid that its control is valid for.                *)
(*                                                                         *)
(* The vector campaign, for any number of documents, cells, campaigns and  *)
(* changes by other clients: what may be reused was fed to the last row,   *)
(* and what is published was measured on one version of the index.  The    *)
(* argument is that a version only grows while a campaign runs, so that    *)
(* the version before and after a cell bound everything in between.        *)
(*                                                                         *)
(* The board, for any engines' results and variants: one that is drawn     *)
(* without a complaint compares what is comparable.                        *)
(*                                                                         *)
(* The requests, for any overrides: both engines are held alike, and the   *)
(* identity a result is filed under is that of its request.                *)
(* The grids' cells: a grid differs from the one it is read against in one *)
(* thing, because what a cell's parameters hold under each key is known    *)
(* from the override, the preset and the defaults.                         *)
(*                                                                         *)
(* The preparations, for any number of runs and changes, killed anywhere:  *)
(* what a reader believes is whole.  The argument is that every file is    *)
(* older than the clock, so that what is newer than its source was made of *)
(* it, and that a checksum left from before is older than the corpus that  *)
(* is moved in beside it.                                                  *)
(*                                                                         *)
(* The transformed corpus, of any length, with any space of sort keys: the *)
(* values that are designated occur as often as the report says.           *)
(***************************************************************************)
EXTENDS Programs, FiniteSetTheorems, WellFoundedInduction, TLAPS

-----------------------------------------------------------------------------
(* A grid's legs.                                                          *)

LegPlaces == {"idle", "archive", "warm", "cell", "context", "replace", "open", "write",
           "check", "control"}
Verdicts == SUBSET {"replay", "topology"}
Leg == [pc : LegPlaces, engine : {"luxir", "rest"}, count : Nat, params : Params,
        session : Nat, todo : SUBSET Cells, cell : Cells, errors : Verdicts,
        rc : {0, 1}, failures : Nat,
        status : {"none", "refused", "passed", "failed", "killed"}]
ContextSet == [build : Builds, corpus : Corpora, session : Nat, dir : {"grid", "controls"}]
Whole == [state : {"whole"}, at : Nat, params : Params, errors : Verdicts,
          context : ContextSet]
ResultFile == {None} \cup {Torn(n) : n \in Nat} \cup {Failure(n) : n \in Nat} \cup Whole

LegTyped ==
    /\ world \in World /\ leg \in Leg
    /\ files \in [Cells \X Params -> ResultFile] /\ prev \in [Cells \X Params -> ResultFile]
    /\ control \in ResultFile

\* A file is whole only if its context was there before it; a driver that is
\* about to write has its context in place.
Named(f) == f.state = "whole" => f.context \in contexts
AllNamed ==
    /\ \A k \in Cells \X Params : Named(files[k]) /\ Named(prev[k])
    /\ Named(control)
    /\ leg.pc \in {"open", "write"} => Context \in contexts

\* A file under a name has the parameters of the name.
Own == \A k \in Cells \X Params : files[k].state = "whole" => files[k].params = k[2]

\* What a leg finds under its own names once they were archived is its own.
Fresh ==
    /\ (leg.pc \notin {"idle", "archive"} \/ leg.status \in {"passed", "failed"}) =>
          \A c \in Cells : files[Key(c)].state # "none" => files[Key(c)].at = leg.count
    /\ leg.pc = "archive" => \A c \in Cells \ leg.todo : files[Key(c)].state = "none"
    /\ leg.pc # "idle" => leg.status = "none"

\* A cell that counts as done, and what a leg knows of its cells while it has
\* counted no failure.
Good(f) == f.state = "whole" /\ f.errors = {} /\ f.at = leg.count
             /\ f.context.session = leg.session
Counted ==
    /\ leg.pc \in {"context", "replace", "open", "write", "check"} => leg.cell \in leg.todo
    /\ leg.pc \in {"warm"} => leg.todo = Cells
    /\ leg.pc \in {"idle", "archive", "warm"} => leg.failures = 0
    /\ leg.pc = "control" => leg.todo = {}
    /\ (leg.pc \notin {"idle", "archive", "warm"} /\ leg.failures = 0) =>
          \A c \in Cells \ leg.todo : Good(files[Key(c)])
    /\ (leg.pc = "check" /\ leg.rc = 0) => Good(files[Key(leg.cell)])
    /\ leg.status = "passed" =>
          /\ \A c \in Cells : Good(files[Key(c)])
          /\ leg.engine = "luxir" => Good(control)

CInv == LegTyped /\ AllNamed /\ Own /\ Fresh /\ Counted

-----------------------------------------------------------------------------
LEMMA LegFields ==
  ASSUME LegTyped
  PROVE  /\ leg.pc \in LegPlaces /\ leg.params \in Params /\ leg.todo \subseteq Cells
         /\ leg.cell \in Cells /\ leg.errors \in Verdicts /\ leg.rc \in {0, 1}
         /\ leg.count \in Nat /\ leg.session \in Nat /\ leg.failures \in Nat
         /\ leg.engine \in {"luxir", "rest"}
BY DEF LegTyped, Leg

LEMMA FileKeys ==
  ASSUME LegTyped, NEW c \in Cells
  PROVE  /\ Key(c) \in Cells \X Params /\ Key(c)[2] = leg.params
         /\ \A d \in Cells : Key(c) = Key(d) => c = d
BY LegFields DEF Key

\* The kinds of files there are.
LEMMA FileFields ==
  /\ None \in ResultFile /\ None.state # "whole" /\ None.state = "none"
  /\ \A n \in Nat : /\ Torn(n) \in ResultFile /\ Torn(n).state = "torn" /\ Torn(n).at = n
                    /\ Failure(n) \in ResultFile /\ Failure(n).state = "failure"
BY DEF ResultFile, None, Torn, Failure

\* The context of a leg, and the result that a driver writes.
LEMMA ResultFields ==
  ASSUME LegTyped
  PROVE  /\ Context \in ContextSet /\ Context.session = leg.session
         /\ Result \in ResultFile /\ Result.state = "whole" /\ Result.context = Context
         /\ Result.params = leg.params /\ Result.errors = leg.errors
         /\ Result.at = leg.count
<1>1. /\ Context \in ContextSet /\ Context.session = leg.session
  BY LegFields DEF Context, ContextSet, LegTyped, World
<1>2. Result \in Whole
  BY <1>1, LegFields DEF Result, Whole
<1> QED
  BY <1>1, <1>2 DEF Result, ResultFile

\* What a step of a leg keeps of it.
Same ==
    /\ leg' \in Leg /\ leg'.engine = leg.engine /\ leg'.count = leg.count
    /\ leg'.params = leg.params /\ leg'.session = leg.session

LEMMA SameKeys ==
  ASSUME LegTyped, Same
  PROVE  /\ \A c \in Cells : Key(c)' = Key(c)
         /\ \A f : Good(f)' = Good(f')
BY DEF Same, Key, Good

\* The parts of the invariant that a step leaves alone if no file changes.
LEMMA NoFileChanges ==
  ASSUME CInv, Same, UNCHANGED <<world, files, prev, control>>,
         contexts \subseteq contexts',
         leg'.pc \in {"open", "write"} => Context' \in contexts'
  PROVE  LegTyped' /\ AllNamed' /\ Own'
BY DEF CInv, LegTyped, AllNamed, Named, Own, Same

\* The same for a step that changes one file of the leg and leaves it as f.
LEMMA OneFileChanges ==
  ASSUME CInv, Same, NEW c \in Cells, NEW f \in ResultFile,
         files' = [files EXCEPT ![Key(c)] = f],
         f.state = "whole" => f.params = leg.params /\ f.context \in contexts,
         prev' = prev \/ prev' = [prev EXCEPT ![Key(c)] = files[Key(c)]],
         UNCHANGED <<world, contexts, control>>,
         leg'.pc \in {"open", "write"} => leg.pc \in {"open", "write"}
  PROVE  /\ LegTyped' /\ AllNamed' /\ Own'
         /\ files'[Key(c)] = f /\ \A d \in Cells : d # c => files'[Key(d)] = files[Key(d)]
<1>1. Key(c) \in Cells \X Params /\ Key(c)[2] = leg.params
  BY FileKeys DEF CInv
<1>2. /\ files'[Key(c)] = f
      /\ \A k \in Cells \X Params : k # Key(c) => files'[k] = files[k]
      /\ files' \in [Cells \X Params -> ResultFile]
  BY <1>1 DEF CInv, LegTyped
<1>3. /\ prev' \in [Cells \X Params -> ResultFile]
      /\ \A k \in Cells \X Params : prev'[k] \in {prev[k], files[k]}
  BY <1>1 DEF CInv, LegTyped
<1>4. Context' = Context
  BY DEF Context, Same
<1>5. LegTyped'
  BY <1>2, <1>3 DEF CInv, LegTyped, Same
<1>6. AllNamed'
  BY <1>2, <1>3, <1>4 DEF CInv, AllNamed, Named
<1>7. Own'
  BY <1>1, <1>2 DEF CInv, Own
<1> QED
  BY <1>2, <1>5, <1>6, <1>7, FileKeys DEF CInv

-----------------------------------------------------------------------------
LEMMA CInit == CampaignInit => CInv
<1> SUFFICES ASSUME CampaignInit PROVE CInv
  OBVIOUS
<1>1. /\ files \in [Cells \X Params -> ResultFile] /\ prev \in [Cells \X Params -> ResultFile]
      /\ control \in ResultFile
      /\ \A k \in Cells \X Params : files[k].state = "none" /\ prev[k].state = "none"
      /\ control.state = "none"
  BY FileFields DEF CampaignInit
<1>2. /\ leg \in Leg /\ leg.pc = "idle" /\ leg.status = "none" /\ leg.failures = 0
  BY DEF CampaignInit, Leg, LegPlaces, Verdicts
<1>3. world \in World
  BY DEF CampaignInit
<1> QED
  BY <1>1, <1>2, <1>3 DEF CInv, LegTyped, AllNamed, Named, Own, Fresh, Counted

LEMMA CBetween == CInv /\ (Rebuild \/ Retransform) => CInv'
<1> SUFFICES ASSUME CInv, Rebuild \/ Retransform PROVE CInv'
  OBVIOUS
<1>1. leg.pc = "idle" /\ UNCHANGED <<files, prev, contexts, torn, control, leg>>
  BY DEF Rebuild, Retransform
<1>2. world' \in World
  BY DEF Rebuild, Retransform, CInv, LegTyped, World
<1>3. /\ \A c \in Cells : Key(c)' = Key(c)
      /\ \A f : Good(f)' = Good(f')
  BY <1>1 DEF Key, Good
<1> QED
  BY <1>1, <1>2, <1>3 DEF CInv, LegTyped, AllNamed, Named, Own, Fresh, Counted

LEMMA CBegin == ASSUME CInv, NEW p \in Params, Begin(p) PROVE CInv'
<1>1. PICK s \in Nat, n \in Nat :
        leg' = IF world.report # world.corpus
                 THEN [leg EXCEPT !.count = n, !.status = "refused"]
                 ELSE [leg EXCEPT !.pc = "archive", !.count = n, !.params = p,
                          !.session = s, !.todo = Cells, !.failures = 0, !.status = "none"]
  <2>1. PICK s \in {leg.session, leg.count + 1} :
          leg' = IF world.report # world.corpus
                   THEN [leg EXCEPT !.count = @ + 1, !.status = "refused"]
                   ELSE [leg EXCEPT !.pc = "archive", !.count = @ + 1, !.params = p,
                            !.session = s, !.todo = Cells, !.failures = 0,
                            !.status = "none"]
    BY DEF Begin
  <2>2. s \in Nat /\ leg.count + 1 \in Nat
    BY LegFields DEF CInv
  <2> QED
    BY <2>1, <2>2 DEF CInv, LegTyped, Leg
<1>2. leg.pc = "idle" /\ UNCHANGED <<world, files, prev, contexts, control>>
  BY DEF Begin
<1>3. CASE world.report # world.corpus
  <2>1. /\ leg' \in Leg /\ leg'.pc = "idle" /\ leg'.status = "refused"
        /\ leg'.failures = leg.failures
    BY <1>1, <1>2, <1>3 DEF CInv, LegTyped, Leg
  <2> QED
    BY <1>2, <2>1 DEF CInv, LegTyped, AllNamed, Named, Own, Fresh, Counted
<1>4. CASE world.report = world.corpus
  <2>1. /\ leg' \in Leg /\ leg'.pc = "archive" /\ leg'.status = "none"
        /\ leg'.failures = 0 /\ leg'.todo = Cells
    BY <1>1, <1>4 DEF CInv, LegTyped, Leg, LegPlaces
  <2> QED
    BY <1>2, <2>1 DEF CInv, LegTyped, AllNamed, Named, Own, Fresh, Counted
<1> QED
  BY <1>3, <1>4

LEMMA CArchive == CInv /\ Archive => CInv'
<1> SUFFICES ASSUME CInv, Archive PROVE CInv'
  OBVIOUS
<1>1. PICK c \in leg.todo :
        /\ IF files[Key(c)].state # "none"
             THEN /\ prev' = [prev EXCEPT ![Key(c)] = files[Key(c)]]
                  /\ files' = [files EXCEPT ![Key(c)] = None]
             ELSE UNCHANGED <<files, prev>>
        /\ leg' = [leg EXCEPT !.todo = @ \ {c}]
  BY DEF Archive
<1>2. c \in Cells /\ leg.pc = "archive" /\ UNCHANGED <<world, contexts, control>>
  BY LegFields DEF Archive, CInv
<1>3. /\ Same /\ leg'.pc = "archive" /\ leg'.todo = leg.todo \ {c}
      /\ leg'.status = leg.status /\ leg'.failures = leg.failures
  BY <1>1, <1>2 DEF CInv, LegTyped, Leg, Same
<1>4. /\ LegTyped' /\ AllNamed' /\ Own'
      /\ files'[Key(c)].state = "none"
      /\ \A d \in Cells : d # c => files'[Key(d)] = files[Key(d)]
  <2>1. CASE files[Key(c)].state # "none"
    BY <1>1, <1>2, <1>3, <2>1, OneFileChanges, FileFields
  <2>2. CASE files[Key(c)].state = "none"
    BY <1>1, <1>2, <1>3, <2>2, NoFileChanges
  <2> QED
    BY <2>1, <2>2
<1>5. \A d \in Cells : Key(d)' = Key(d)
  BY <1>3, SameKeys DEF CInv
<1>6. Fresh'
  BY <1>2, <1>3, <1>4, <1>5 DEF CInv, Fresh
<1>7. Counted'
  BY <1>2, <1>3 DEF CInv, Fresh, Counted
<1> QED
  BY <1>4, <1>6, <1>7 DEF CInv

LEMMA CWarm == CInv /\ (Probe \/ Warm) => CInv'
<1> SUFFICES ASSUME CInv, Probe \/ Warm PROVE CInv'
  OBVIOUS
<1>0. UNCHANGED <<world, files, prev, contexts, control>>
  BY DEF Probe, Warm
<1>1. PICK to \in {"warm", "idle", "cell"} :
        /\ Same /\ leg'.pc = to
        /\ to = "warm" => leg.pc = "archive" /\ leg'.status = leg.status
        /\ to = "idle" => leg.pc = "archive" /\ leg'.status = "failed"
        /\ to = "cell" => leg.pc = "warm" /\ leg'.status = leg.status
        /\ leg.pc = "archive" => leg.todo = {}
        /\ leg'.failures = leg.failures /\ leg'.todo = IF to = "warm" THEN Cells ELSE leg.todo
  <2> DEFINE Goes(to) ==
        /\ Same /\ leg'.pc = to
        /\ to = "warm" => leg.pc = "archive" /\ leg'.status = leg.status
        /\ to = "idle" => leg.pc = "archive" /\ leg'.status = "failed"
        /\ to = "cell" => leg.pc = "warm" /\ leg'.status = leg.status
        /\ leg.pc = "archive" => leg.todo = {}
        /\ leg'.failures = leg.failures
        /\ leg'.todo = IF to = "warm" THEN Cells ELSE leg.todo
  <2>1. CASE leg' = [leg EXCEPT !.pc = "warm", !.todo = Cells] /\ Probe
    <3>1. Goes("warm")
      BY <2>1 DEF Probe, CInv, LegTyped, Leg, LegPlaces, Same
    <3> QED
      BY <3>1
  <2>2. CASE leg' = [leg EXCEPT !.pc = "idle", !.status = "failed"] /\ Probe
    <3>1. Goes("idle")
      BY <2>2 DEF Probe, CInv, LegTyped, Leg, LegPlaces, Same
    <3> QED
      BY <3>1
  <2>3. CASE Warm
    <3>1. Goes("cell")
      BY <2>3 DEF Warm, Proceed, CInv, LegTyped, Leg, LegPlaces, Same
    <3> QED
      BY <3>1
  <2>4. Probe => \/ leg' = [leg EXCEPT !.pc = "warm", !.todo = Cells]
                 \/ leg' = [leg EXCEPT !.pc = "idle", !.status = "failed"]
    BY DEF Probe
  <2> QED
    BY <2>1, <2>2, <2>3, <2>4
<1>2. LegTyped' /\ AllNamed' /\ Own'
  BY <1>0, <1>1, NoFileChanges
<1>3. \A d \in Cells : Key(d)' = Key(d)
  BY <1>1, SameKeys DEF CInv
<1>4. Fresh'
  BY <1>0, <1>1, <1>3 DEF CInv, Fresh, Same
<1>5. Counted'
  BY <1>0, <1>1 DEF CInv, Counted, Fresh
<1> QED
  BY <1>2, <1>4, <1>5 DEF CInv

\* The driver's steps before a result is written: no file changes.
LEMMA CDriver == CInv /\ (Measure \/ WriteContext \/ DriverDies) => CInv'
<1> SUFFICES ASSUME CInv, Measure \/ WriteContext \/ DriverDies PROVE CInv'
  OBVIOUS
<1>0. /\ UNCHANGED <<world, files, prev, control>> /\ contexts \subseteq contexts'
  BY DEF Measure, WriteContext, DriverDies
<1>1. /\ Same /\ leg.pc \in {"cell", "context", "replace", "open", "write"}
      /\ leg'.pc \in {"context", "replace", "open", "check"}
      /\ leg'.todo = leg.todo /\ leg'.failures = leg.failures /\ leg'.status = leg.status
      /\ leg'.cell \in leg.todo
      /\ leg'.pc = "check" => leg'.rc = 1
  <2>1. CASE Measure
    <3>1. PICK c \in leg.todo, e \in Verdicts :
            \/ leg' = [leg EXCEPT !.pc = "context", !.cell = c, !.errors = e]
            \/ leg' = [leg EXCEPT !.pc = "check", !.cell = c, !.rc = 1]
      BY <2>1 DEF Measure, Verdicts
    <3>2. c \in Cells /\ leg.pc = "cell"
      BY <2>1, LegFields DEF Measure, CInv
    <3> QED
      BY <3>1, <3>2 DEF CInv, LegTyped, Leg, LegPlaces, Same
  <2>2. CASE WriteContext
    <3>1. PICK to \in {"open", "replace"} : leg' = [leg EXCEPT !.pc = to]
      BY <2>2 DEF WriteContext, Proceed
    <3>2. leg.pc \in {"context", "replace"}
      BY <2>2 DEF WriteContext
    <3> QED
      BY <3>1, <3>2 DEF CInv, LegTyped, Leg, LegPlaces, Same, Counted
  <2>3. CASE DriverDies
    <3>1. /\ leg' = [leg EXCEPT !.pc = "check", !.rc = 1]
          /\ leg.pc \in {"context", "replace", "open", "write"}
      BY <2>3 DEF DriverDies
    <3> QED
      BY <3>1 DEF CInv, LegTyped, Leg, LegPlaces, Same, Counted
  <2> QED
    BY <2>1, <2>2, <2>3
<1>2. leg'.pc = "open" => Context' \in contexts'
  <2>1. Context' = Context
    BY <1>0, <1>1 DEF Context, Same
  <2>2. leg'.pc = "open" => WriteContext
    <3>1. Measure => leg'.pc # "open"
      BY DEF Measure, CInv, LegTyped, Leg
    <3>2. DriverDies => leg'.pc # "open"
      BY DEF DriverDies, CInv, LegTyped, Leg
    <3> QED
      BY <3>1, <3>2
  <2>3. WriteContext /\ leg'.pc = "open" => Context \in contexts'
    BY DEF WriteContext, Proceed, CInv, LegTyped, Leg
  <2> QED
    BY <2>1, <2>2, <2>3
<1>3. LegTyped' /\ AllNamed' /\ Own'
  BY <1>0, <1>1, <1>2, NoFileChanges
<1>4. /\ \A d \in Cells : Key(d)' = Key(d)
      /\ \A f : Good(f)' = Good(f')
  BY <1>1, SameKeys DEF CInv
<1>5. Fresh'
  BY <1>0, <1>1, <1>4 DEF CInv, Fresh, Same
<1>6. Counted'
  BY <1>0, <1>1, <1>4 DEF CInv, Counted, Fresh
<1> QED
  BY <1>3, <1>5, <1>6 DEF CInv
\* A result is opened and written under the name of the leg's own cell.
LEMMA COpen == CInv /\ OpenResult => CInv'
<1> SUFFICES ASSUME CInv, OpenResult PROVE CInv'
  OBVIOUS
<1>1. /\ leg.pc = "open" /\ leg.cell \in leg.todo /\ leg.cell \in Cells
      /\ files' = [files EXCEPT ![Key(leg.cell)] = Torn(leg.count)]
      /\ UNCHANGED <<world, prev, contexts, control>>
  BY LegFields DEF OpenResult, CInv, Counted
<1>2. /\ Same /\ leg'.pc = "write" /\ leg'.todo = leg.todo
      /\ leg'.status = leg.status /\ leg'.failures = leg.failures /\ leg'.cell = leg.cell
  BY DEF OpenResult, Proceed, CInv, LegTyped, Leg, LegPlaces, Same
<1>3. Torn(leg.count) \in ResultFile /\ Torn(leg.count).state # "whole" /\ Torn(leg.count).at = leg.count
  BY FileFields, LegFields DEF CInv
<1>4. /\ LegTyped' /\ AllNamed' /\ Own' /\ files'[Key(leg.cell)] = Torn(leg.count)
      /\ \A d \in Cells : d # leg.cell => files'[Key(d)] = files[Key(d)]
  BY <1>1, <1>2, <1>3, OneFileChanges
<1>5. /\ \A d \in Cells : Key(d)' = Key(d)
      /\ \A f : Good(f)' = Good(f')
  BY <1>2, SameKeys DEF CInv
<1>6. Fresh'
  BY <1>1, <1>2, <1>3, <1>4, <1>5 DEF CInv, Fresh, Same
<1>7. Counted'
  BY <1>1, <1>2, <1>4, <1>5 DEF CInv, Fresh, Counted
<1> QED
  BY <1>4, <1>6, <1>7 DEF CInv

LEMMA CWrite == CInv /\ WriteResult => CInv'
<1> SUFFICES ASSUME CInv, WriteResult PROVE CInv'
  OBVIOUS
<1>1. /\ leg.pc = "write" /\ leg.cell \in leg.todo /\ leg.cell \in Cells
      /\ files' = [files EXCEPT ![Key(leg.cell)] = Result]
      /\ UNCHANGED <<world, prev, contexts, control>>
  BY LegFields DEF WriteResult, CInv, Counted
<1>2. PICK code \in {0, 1} :
        /\ leg' = [leg EXCEPT !.pc = "check", !.rc = code]
        /\ code = 0 => leg.errors = {}
  <2>1. leg.errors = {} => leg' = [leg EXCEPT !.pc = "check", !.rc = 0]
    BY DEF WriteResult
  <2>2. leg.errors # {} => leg' = [leg EXCEPT !.pc = "check", !.rc = 1]
    BY DEF WriteResult
  <2> QED
    BY <2>1, <2>2
<1>3. /\ Same /\ leg'.pc = "check" /\ leg'.todo = leg.todo /\ leg'.cell = leg.cell
      /\ leg'.status = leg.status /\ leg'.failures = leg.failures
      /\ leg'.rc = 0 => leg.errors = {}
  BY <1>2 DEF CInv, LegTyped, Leg, LegPlaces, Same
<1>4. /\ Result \in ResultFile /\ Result.params = leg.params /\ Result.context \in contexts
      /\ Result.at = leg.count /\ Result.state = "whole" /\ Result.errors = leg.errors
      /\ Result.context.session = leg.session
  BY <1>1, ResultFields DEF CInv, AllNamed
<1>5. /\ LegTyped' /\ AllNamed' /\ Own' /\ files'[Key(leg.cell)] = Result
      /\ \A d \in Cells : d # leg.cell => files'[Key(d)] = files[Key(d)]
  BY <1>1, <1>3, <1>4, OneFileChanges
<1>6. /\ \A d \in Cells : Key(d)' = Key(d)
      /\ \A f : Good(f)' = Good(f')
  BY <1>3, SameKeys DEF CInv
<1>7. Fresh'
  BY <1>1, <1>3, <1>4, <1>5, <1>6 DEF CInv, Fresh, Same
<1>8. leg'.rc = 0 => Good(files[Key(leg.cell)])'
  <2>1. leg'.rc = 0 => Good(Result)
    BY <1>3, <1>4 DEF Good
  <2>2. Key(leg.cell)' = Key(leg.cell)
    BY <1>3 DEF Key, Same
  <2>3. (files[Key(leg.cell)])' = Result
    BY <1>5, <2>2
  <2> QED
    BY <1>3, <2>1, <2>3 DEF Good, Same
<1>9. Counted'
  <2>1. \A d \in Cells \ leg.todo : files'[Key(d)'] = files[Key(d)]
    BY <1>1, <1>5, <1>6
  <2>2. \A f : (f.state = "whole" /\ f.errors = {} /\ f.at = leg'.count
                  /\ f.context.session = leg'.session) <=> Good(f)
    BY <1>3 DEF Good, Same
  <2>3. leg'.failures = 0 => \A d \in Cells \ leg'.todo : Good(files[Key(d)])'
    BY <1>1, <1>3, <2>1, <2>2 DEF Good, CInv, Counted
  <2>4. leg'.status # "passed"
    BY <1>1, <1>3 DEF CInv, Fresh
  <2> QED
    BY <1>1, <1>3, <1>8, <2>3, <2>4 DEF Counted
<1> QED
  BY <1>5, <1>7, <1>9 DEF CInv
\* The cell is struck off; it counts as no failure only if it is a good result.
LEMMA CCheck == CInv /\ Check => CInv'
<1> SUFFICES ASSUME CInv, Check PROVE CInv'
  OBVIOUS
<1>1. /\ leg.pc = "check" /\ leg.cell \in leg.todo
      /\ UNCHANGED <<world, files, prev, contexts, control>>
  BY DEF Check, CInv, Counted
<1>2. PICK n \in Nat :
        /\ leg' = [leg EXCEPT !.pc = "cell", !.todo = @ \ {leg.cell}, !.rc = 0,
                      !.failures = n]
        /\ n = 0 => leg.failures = 0 /\ leg.rc = 0
  <2>1. PICK bad \in {0, 1} :
          leg' = [leg EXCEPT !.pc = "cell", !.todo = @ \ {leg.cell}, !.rc = 0,
                     !.failures = @ + leg.rc + bad]
    <3> DEFINE f == files[Key(leg.cell)]
               slip == f.state = "none" \/ ~Readable(f) \/ f.params # leg.params
    <3> HIDE DEF slip
    <3>1. leg' = [leg EXCEPT !.pc = "cell", !.todo = @ \ {leg.cell}, !.rc = 0,
                     !.failures = @ + leg.rc + IF slip THEN 1 ELSE 0]
      BY DEF Check, slip
    <3>2. CASE slip
      BY <3>1, <3>2
    <3>3. CASE ~slip
      BY <3>1, <3>3
    <3> QED
      BY <3>2, <3>3
  <2>2. PICK n \in Nat : n = leg.failures + leg.rc + bad
    BY LegFields DEF CInv
  <2>3. n = 0 => leg.failures = 0 /\ leg.rc = 0
    BY <2>2, LegFields DEF CInv
  <2>4. leg' = [leg EXCEPT !.pc = "cell", !.todo = @ \ {leg.cell}, !.rc = 0,
                   !.failures = n]
    BY <2>1, <2>2
  <2> QED
    BY <2>3, <2>4
<1>3. /\ Same /\ leg'.pc = "cell" /\ leg'.todo = leg.todo \ {leg.cell}
      /\ leg'.status = leg.status /\ leg'.failures = n
  BY <1>2 DEF CInv, LegTyped, Leg, LegPlaces, Same
<1>4. LegTyped' /\ AllNamed' /\ Own'
  BY <1>1, <1>3, NoFileChanges
<1>5. /\ \A d \in Cells : Key(d)' = Key(d)
      /\ \A f : Good(f)' = Good(f')
  BY <1>3, SameKeys DEF CInv
<1>6. Fresh'
  BY <1>1, <1>3, <1>5 DEF CInv, Fresh, Same
<1>7. n = 0 => \A d \in Cells \ leg'.todo : Good(files[Key(d)])
  BY <1>1, <1>2, <1>3 DEF CInv, Counted
<1>8. leg'.status # "passed"
  BY <1>1, <1>3 DEF CInv, Fresh
<1>9. \A d \in Cells : Good(files[Key(d)])' = Good(files[Key(d)])
  <2>1. TAKE d \in Cells
  <2>2. (files[Key(d)])' = files[Key(d)]
    BY <1>1, <1>5
  <2> QED
    BY <1>3, <2>2 DEF Good, Same
<1>10. Counted'
  BY <1>3, <1>7, <1>8, <1>9 DEF Counted
<1> QED
  BY <1>4, <1>6, <1>10 DEF CInv

LEMMA CArchiveControl == CInv /\ ArchiveControl => CInv'
<1> SUFFICES ASSUME CInv, ArchiveControl PROVE CInv'
  OBVIOUS
<1>1. /\ leg.pc = "cell" /\ leg.todo = {} /\ control' = None
      /\ UNCHANGED <<world, files, prev, contexts>>
  BY DEF ArchiveControl
<1>2. /\ Same /\ leg'.pc = "control" /\ leg'.todo = leg.todo
      /\ leg'.status = leg.status /\ leg'.failures = leg.failures
  BY DEF ArchiveControl, Proceed, CInv, LegTyped, Leg, LegPlaces, Same
<1>3. LegTyped' /\ AllNamed' /\ Own'
  BY <1>1, <1>2, FileFields DEF CInv, LegTyped, AllNamed, Named, Own, Same
<1>4. /\ \A d \in Cells : Key(d)' = Key(d)
      /\ \A f : Good(f)' = Good(f')
  BY <1>2, SameKeys DEF CInv
<1>5. leg'.status # "passed"
  BY <1>1, <1>2 DEF CInv, Fresh
<1>6. Fresh'
  BY <1>1, <1>2, <1>4 DEF CInv, Fresh, Same
<1>7. Counted'
  BY <1>1, <1>2, <1>4, <1>5 DEF CInv, Counted
<1> QED
  BY <1>3, <1>6, <1>7 DEF CInv

\* How a leg ends: it passes only if no failure was counted.
Ends(state) ==
    leg' = [leg EXCEPT !.pc = "idle", !.failures = 0, !.rc = 0, !.status = state]

LEMMA CEnds ==
  ASSUME CInv, NEW state \in {"passed", "failed", "killed"}, leg.pc # "idle",
         \/ Ends(state)
         \/ leg' = [leg EXCEPT !.pc = "idle", !.failures = 0, !.status = state],
         UNCHANGED <<world, files, prev>>, contexts \subseteq contexts',
         control' \in ResultFile, control'.state = "whole" => control'.context \in contexts',
         state \in {"passed", "failed"} => leg.pc \notin {"idle", "archive"},
         state = "passed" =>
            /\ leg.failures = 0 /\ leg.todo = {} /\ leg.pc \in {"cell", "control"}
            /\ leg.engine = "luxir" => Good(control')
  PROVE  CInv'
<1>1. /\ Same /\ leg'.pc = "idle" /\ leg'.failures = 0 /\ leg'.status = state
  <2>1. CASE Ends(state)
    BY <2>1 DEF Ends, CInv, LegTyped, Leg, LegPlaces, Same
  <2>2. CASE leg' = [leg EXCEPT !.pc = "idle", !.failures = 0, !.status = state]
    BY <2>2 DEF CInv, LegTyped, Leg, LegPlaces, Same
  <2> QED
    BY <2>1, <2>2
<1>2. LegTyped' /\ AllNamed' /\ Own'
  BY <1>1 DEF CInv, LegTyped, AllNamed, Named, Own, Same
<1>3. /\ \A d \in Cells : Key(d)' = Key(d)
      /\ \A f : Good(f)' = Good(f')
  BY <1>1, SameKeys DEF CInv
<1>4. Fresh'
  BY <1>1, <1>3 DEF CInv, Fresh, Same
<1>5. state = "passed" => \A d \in Cells : Good(files[Key(d)])
  BY DEF CInv, Counted
<1>6. /\ \A d \in Cells : Good(files[Key(d)])' = Good(files[Key(d)])
      /\ Good(control)' = Good(control')
  <2>1. \A d \in Cells : (files[Key(d)])' = files[Key(d)]
    BY <1>3
  <2> QED
    BY <1>1, <2>1 DEF Good, Same
<1>7. Counted'
  BY <1>1, <1>5, <1>6 DEF Counted, Same
<1> QED
  BY <1>2, <1>4, <1>7 DEF CInv

LEMMA CControl == CInv /\ Control => CInv'
<1> SUFFICES ASSUME CInv, Control PROVE CInv'
  OBVIOUS
<1> DEFINE beside == [Context EXCEPT !.dir = "controls"]
           named(c) == c.state = "whole" => c.context \in contexts'
           made(e) == [Result EXCEPT !.errors = e, !.context = beside]
           end(c, n) == /\ control' = c
                        /\ leg' = [leg EXCEPT !.pc = "idle", !.failures = 0, !.rc = 0,
                              !.status = IF leg.failures + n = 0 THEN "passed" ELSE "failed"]
<1>1. /\ leg.pc = "control" /\ UNCHANGED <<world, files, prev>> /\ leg.todo = {}
      /\ contexts \subseteq contexts'
  BY DEF Control, CInv, Counted
<1>2. \/ \E e \in {{}, {"replay"}} : /\ contexts' = contexts \cup {beside}
                                     /\ end(made(e), IF e = {} THEN 0 ELSE 1)
      \/ end(Failure(leg.count), 1) \/ end(Torn(leg.count), 1)
  BY DEF Control
<1>3. \A e \in {{}, {"replay"}} :
        /\ made(e) \in ResultFile /\ made(e).context = beside /\ made(e).errors = e
        /\ e = {} => Good(made(e))
  <2>1. beside \in ContextSet /\ beside.session = leg.session
    BY ResultFields DEF CInv, ContextSet
  <2> HIDE DEF beside
  <2>2. TAKE e \in {{}, {"replay"}}
  <2>3. Result \in Whole
    BY ResultFields DEF CInv, ResultFile, None, Torn, Failure
  <2>4. made(e) \in Whole /\ made(e).context = beside /\ made(e).errors = e
    BY <2>1, <2>3 DEF Whole, Verdicts
  <2>5. made(e).at = leg.count /\ made(e).state = "whole"
    BY <2>3, ResultFields DEF Whole, CInv
  <2> HIDE DEF made
  <2> QED
    BY <2>1, <2>4, <2>5 DEF ResultFile, Good
<1>4. \A n \in {0, 1} : leg.failures + n = 0 => n = 0 /\ leg.failures = 0
  BY LegFields DEF CInv
<1> HIDE DEF beside, made
<1>5. PICK n \in {0, 1}, c \in ResultFile :
        /\ end(c, n) /\ named(c)
        /\ n = 0 => Good(c)
  <2>1. ASSUME NEW e \in {{}, {"replay"}}, contexts' = contexts \cup {beside},
               end(made(e), IF e = {} THEN 0 ELSE 1)
        PROVE  \E n \in {0, 1}, c \in ResultFile : end(c, n) /\ named(c) /\ (n = 0 => Good(c))
    <3>1. named(made(e))
      BY <1>3, <2>1
    <3> HIDE DEF end, named
    <3>2. CASE e = {}
      BY <1>3, <2>1, <3>1, <3>2
    <3>3. CASE e # {}
      BY <1>3, <2>1, <3>1, <3>3
    <3> QED
      BY <3>2, <3>3
  <2>2. /\ Failure(leg.count) \in ResultFile /\ named(Failure(leg.count))
        /\ Torn(leg.count) \in ResultFile /\ named(Torn(leg.count))
    BY FileFields, LegFields DEF CInv, Failure, Torn
  <2> HIDE DEF end, named
  <2> QED
    BY <1>2, <2>1, <2>2
<1>6. PICK state \in {"passed", "failed"} :
        Ends(state) /\ (state = "passed" => n = 0 /\ leg.failures = 0)
  <2>1. CASE leg.failures + n = 0
    BY <1>4, <1>5, <2>1 DEF Ends
  <2>2. CASE leg.failures + n # 0
    BY <1>5, <2>2 DEF Ends
  <2> QED
    BY <2>1, <2>2
<1> QED
  BY <1>1, <1>5, <1>6, CEnds

LEMMA CLast == CInv /\ (NoControl \/ Killed) => CInv'
<1> SUFFICES ASSUME CInv, NoControl \/ Killed PROVE CInv'
  OBVIOUS
<1>1. /\ UNCHANGED <<world, files, prev, contexts, control>> /\ control' \in ResultFile
      /\ control'.state = "whole" => control'.context \in contexts'
      /\ leg.pc # "idle"
  BY DEF NoControl, Killed, CInv, LegTyped, AllNamed, Named
<1>2. CASE NoControl
  <2>1. leg.pc = "cell" /\ leg.todo = {} /\ leg.engine = "rest"
    BY <1>2 DEF NoControl
  <2>2. CASE leg.failures = 0
    <3>1. leg' = [leg EXCEPT !.pc = "idle", !.failures = 0, !.status = "passed"]
      BY <1>2, <2>2 DEF NoControl
    <3> QED
      BY <1>1, <2>1, <2>2, <3>1, CEnds
  <2>3. CASE leg.failures # 0
    <3>1. leg' = [leg EXCEPT !.pc = "idle", !.failures = 0, !.status = "failed"]
      BY <1>2, <2>3 DEF NoControl
    <3> QED
      BY <1>1, <2>1, <3>1, CEnds
  <2> QED
    BY <2>2, <2>3
<1>3. CASE Killed
  <2>1. Ends("killed")
    BY <1>3 DEF Killed, Ends
  <2> QED
    BY <1>1, <2>1, CEnds
<1> QED
  BY <1>2, <1>3

-----------------------------------------------------------------------------
LEMMA CStep == CInv /\ [CampaignStep]_campaignVars => CInv'
<1> SUFFICES ASSUME CInv, [CampaignStep]_campaignVars PROVE CInv'
  OBVIOUS
<1>1. CASE UNCHANGED campaignVars
  <2>1. UNCHANGED <<world, files, prev, contexts, torn, control, leg>>
    BY <1>1 DEF campaignVars
  <2>2. /\ Same /\ \A c \in Cells : Key(c)' = Key(c)
        /\ \A f : Good(f)' = Good(f')
    BY <2>1 DEF Same, Key, Good, CInv, LegTyped
  <2>3. LegTyped' /\ AllNamed' /\ Own'
    BY <2>1 DEF CInv, LegTyped, AllNamed, Named, Own, Context
  <2>4. Fresh'
    BY <2>1, <2>2 DEF CInv, Fresh
  <2>5. /\ \A d \in Cells : Good(files[Key(d)])' = Good(files[Key(d)])
        /\ (Good(files[Key(leg.cell)]))' = Good(files[Key(leg.cell)])
        /\ Good(control)' = Good(control)
    BY <2>1 DEF Good, Key
  <2>6. Counted'
    BY <2>1, <2>5 DEF CInv, Counted
  <2> QED
    BY <2>3, <2>4, <2>6 DEF CInv
<1>2. CASE CampaignStep
  BY <1>2, CBetween, CBegin, CArchive, CWarm, CDriver, COpen, CWrite, CCheck,
     CArchiveControl, CControl, CLast DEF CampaignStep
<1> QED
  BY <1>1, <1>2

\* The inductive invariant: types, no file without its context, results under
\* their own names, nothing of an earlier leg, and what a count of no failures
\* says of the cells.
THEOREM CampaignTypes == CampaignSpec => []CInv
  BY CInit, CStep, PTL DEF CampaignSpec

\* Whatever is killed where, a whole result's context is there
\* (results_io.py:41-66).
THEOREM ContextsAreThere == CampaignSpec => []ContextsServe
<1>1. CInv => ContextsServe
  BY DEF CInv, LegTyped, AllNamed, Named, ContextsServe
<1> QED
  BY <1>1, CampaignTypes, PTL

\* Once a leg has archived, none of its own files is of an earlier leg
\* (grid.py:439-447).
THEOREM NothingStale == CampaignSpec => []StaleHidden
<1>1. CInv => StaleHidden
  BY DEF CInv, Fresh, StaleHidden
<1> QED
  BY <1>1, CampaignTypes, PTL

-----------------------------------------------------------------------------
(* The generation before is older, and what is shown was asked for.        *)

\* Nothing is of a leg to come, and under each name the generation before is
\* older than the result; what a leg finds, and moves, is of earlier legs.
LegOrdered ==
    /\ \A k \in Cells \X Params :
          /\ files[k].state = "whole" => files[k].at <= leg.count
          /\ prev[k].state = "whole" => prev[k].at <= leg.count
          /\ files[k].state = "whole" /\ prev[k].state = "whole" => prev[k].at < files[k].at
    /\ leg.pc # "idle" => \A c \in Cells :
          prev[Key(c)].state = "whole" => prev[Key(c)].at < leg.count
    /\ leg.pc = "archive" => \A c \in Cells :
          files[Key(c)].state = "whole" => files[Key(c)].at < leg.count

LEMMA Times ==
  ASSUME LegTyped
  PROVE  /\ leg.count \in Nat
         /\ \A k \in Cells \X Params :
               /\ files[k].state = "whole" => files[k].at \in Nat /\ files[k].params \in Params
               /\ prev[k].state = "whole" => prev[k].at \in Nat
<1>1. \A f \in ResultFile : f.state = "whole" => f.at \in Nat /\ f.params \in Params
  BY DEF ResultFile, None, Torn, Failure, Whole
<1> QED
  BY <1>1, LegFields DEF LegTyped

LEMMA OInit == CampaignInit => LegOrdered
BY DEF CampaignInit, LegOrdered, None

\* Steps of a leg that change no file.
LEMMA OStill ==
  ASSUME LegOrdered, UNCHANGED <<files, prev>>, leg'.count = leg.count,
         leg'.params = leg.params, leg'.pc # "idle" => leg.pc # "idle",
         leg'.pc = "archive" => leg.pc = "archive"
  PROVE  LegOrdered'
BY DEF LegOrdered, Key

LEMMA OBegin == ASSUME CInv, LegOrdered, NEW p \in Params, Begin(p) PROVE LegOrdered'
<1>1. UNCHANGED <<files, prev>> /\ leg'.count = leg.count + 1
  BY DEF Begin, CInv, LegTyped, Leg
<1>2. leg'.params \in Params
  BY DEF Begin, CInv, LegTyped, Leg
<1>3. \A c \in Cells : Key(c)' \in Cells \X Params
  BY <1>2 DEF Key
<1> QED
  BY <1>1, <1>3, Times DEF CInv, LegOrdered

LEMMA OArchive == CInv /\ LegOrdered /\ Archive => LegOrdered'
<1> SUFFICES ASSUME CInv, LegOrdered, Archive PROVE LegOrdered'
  OBVIOUS
<1> PICK c \in leg.todo :
      /\ IF files[Key(c)].state # "none"
           THEN /\ prev' = [prev EXCEPT ![Key(c)] = files[Key(c)]]
                /\ files' = [files EXCEPT ![Key(c)] = None]
           ELSE UNCHANGED <<files, prev>>
      /\ leg' = [leg EXCEPT !.todo = @ \ {c}]
  BY DEF Archive
<1>1. c \in Cells /\ Key(c) \in Cells \X Params /\ leg.pc = "archive"
  BY LegFields, FileKeys DEF CInv, Archive
<1>2. /\ leg'.count = leg.count /\ leg'.params = leg.params /\ leg'.pc = leg.pc
      /\ \A d : Key(d)' = Key(d)
  BY DEF CInv, LegTyped, Leg, Key
<1>3. CASE files[Key(c)].state # "none"
  <2>1. /\ files'[Key(c)].state = "none" /\ prev'[Key(c)] = files[Key(c)]
        /\ \A k \in Cells \X Params :
              k # Key(c) => files'[k] = files[k] /\ prev'[k] = prev[k]
    BY <1>1, <1>3 DEF CInv, LegTyped, None
  <2>2. files[Key(c)].state = "whole" => files[Key(c)].at < leg.count
    BY <1>1 DEF LegOrdered
  <2>3. \A d \in Cells : Key(d) \in Cells \X Params
    BY FileKeys DEF CInv
  <2> QED
    BY <1>1, <1>2, <2>1, <2>2, <2>3, Times DEF CInv, LegOrdered
<1>4. CASE files[Key(c)].state = "none"
  BY <1>2, <1>4, OStill
<1> QED
  BY <1>3, <1>4

LEMMA OOpen == CInv /\ LegOrdered /\ OpenResult => LegOrdered'
<1> SUFFICES ASSUME CInv, LegOrdered, OpenResult PROVE LegOrdered'
  OBVIOUS
<1>1. Key(leg.cell) \in Cells \X Params /\ \A d \in Cells : Key(d) \in Cells \X Params
  BY LegFields, FileKeys DEF CInv
<1>2. /\ files'[Key(leg.cell)].state = "torn" /\ prev' = prev
      /\ \A k \in Cells \X Params : k # Key(leg.cell) => files'[k] = files[k]
  BY <1>1 DEF OpenResult, CInv, LegTyped, Torn
<1>3. /\ leg.pc = "open" /\ leg'.pc = "write" /\ leg'.count = leg.count
      /\ leg'.params = leg.params /\ \A d : Key(d)' = Key(d)
  BY DEF OpenResult, Proceed, CInv, LegTyped, Leg, Key
<1> QED
  BY <1>1, <1>2, <1>3 DEF LegOrdered

LEMMA OWrite == CInv /\ LegOrdered /\ WriteResult => LegOrdered'
<1> SUFFICES ASSUME CInv, LegOrdered, WriteResult PROVE LegOrdered'
  OBVIOUS
<1>1. /\ leg.cell \in Cells /\ Key(leg.cell) \in Cells \X Params
      /\ \A d \in Cells : Key(d) \in Cells \X Params
  BY LegFields, FileKeys DEF CInv
<1>2. /\ files'[Key(leg.cell)].at = leg.count /\ prev' = prev
      /\ \A k \in Cells \X Params : k # Key(leg.cell) => files'[k] = files[k]
  BY <1>1, ResultFields DEF WriteResult, CInv, LegTyped
<1>3. /\ leg.pc = "write" /\ leg'.pc = "check" /\ leg'.count = leg.count
      /\ leg'.params = leg.params /\ \A d : Key(d)' = Key(d)
  BY DEF WriteResult, CInv, LegTyped, Leg, Key
<1>4. prev[Key(leg.cell)].state = "whole" => prev[Key(leg.cell)].at < leg.count
  BY <1>1, <1>3 DEF LegOrdered
<1> QED
  BY <1>1, <1>2, <1>3, <1>4, Times DEF CInv, LegOrdered

LEMMA OStep == CInv /\ LegOrdered /\ [CampaignStep]_campaignVars => LegOrdered'
<1> SUFFICES ASSUME CInv, LegOrdered, [CampaignStep]_campaignVars PROVE LegOrdered'
  OBVIOUS
<1>t. leg \in Leg
  BY DEF CInv, LegTyped
<1>1. CASE Rebuild \/ Retransform \/ UNCHANGED campaignVars
  BY <1>1, OStill DEF Rebuild, Retransform, campaignVars
<1>2. CASE Probe \/ Warm \/ Measure
  BY <1>2, <1>t, OStill DEF Probe, Warm, Measure, Proceed, Leg
<1>3. CASE WriteContext \/ DriverDies \/ Check
  <2>1. /\ leg'.count = leg.count /\ leg'.params = leg.params
        /\ leg.pc # "idle" /\ leg'.pc # "archive" /\ UNCHANGED <<files, prev>>
    BY <1>3, <1>t DEF WriteContext, DriverDies, Check, Proceed, Leg
  <2> QED BY <2>1, OStill
<1>4. CASE ArchiveControl \/ NoControl \/ Killed
  BY <1>4, <1>t, OStill DEF ArchiveControl, NoControl, Killed, Proceed, Leg
<1>5. CASE Control
  <2>1. /\ leg'.count = leg.count /\ leg'.params = leg.params
        /\ leg'.pc = "idle" /\ UNCHANGED <<files, prev>>
    BY <1>5, <1>t DEF Control, Leg
  <2> QED BY <2>1, OStill
<1> QED
  BY <1>1, <1>2, <1>3, <1>4, <1>5, OBegin, OArchive, OOpen, OWrite DEF CampaignStep

-----------------------------------------------------------------------------
(* A leg's results and its control are of one build.                       *)

Mine(f) == f.state = "whole" /\ f.at = leg.count
OneBuild ==
    /\ control.state = "whole" => control.at \in Nat /\ control.at <= leg.count
    /\ \E b \in Builds :
          /\ \A k \in Cells \X Params : Mine(files[k]) => files[k].context.build = b
          /\ Mine(control) => control.context.build = b
          /\ leg.pc # "idle" => b = world.build

LEMMA BInit == CampaignInit => OneBuild
BY DEF CampaignInit, OneBuild, Mine, None, World

\* Between legs nothing of a leg changes.
LEMMA BIdle ==
  ASSUME OneBuild, leg.pc = "idle", UNCHANGED <<files, control, leg>>
  PROVE  OneBuild'
BY DEF OneBuild, Mine

LEMMA BBegin == ASSUME CInv, LegOrdered, OneBuild, NEW p \in Params, Begin(p) PROVE OneBuild'
<1>1. UNCHANGED <<world, files, control>> /\ leg'.count = leg.count + 1
  BY DEF Begin, CInv, LegTyped, Leg
<1>2. leg.count \in Nat /\ world.build \in Builds
  BY LegFields DEF CInv, LegTyped, World
<1>3. \A n \in Nat : n <= leg.count => n # leg.count + 1 /\ n <= leg.count + 1
  BY <1>2
<1>4. \A k \in Cells \X Params : ~Mine(files[k])'
  BY <1>1, <1>3, Times DEF CInv, LegOrdered, Mine
<1>5. ~Mine(control)' /\ (control'.state = "whole" => control'.at \in Nat /\ control'.at <= leg'.count)
  BY <1>1, <1>3 DEF OneBuild, Mine
<1> QED
  BY <1>1, <1>2, <1>4, <1>5 DEF OneBuild

\* A step of a leg writes results of the build in use, or none.
LEMMA BWrites ==
  ASSUME CInv, OneBuild, leg.pc # "idle", UNCHANGED world, leg'.count = leg.count,
         \A k \in Cells \X Params :
            \/ files'[k] = files[k] \/ files'[k].state # "whole"
            \/ files'[k].context.build = world.build,
         \/ control' = control \/ control'.state # "whole"
         \/ control'.at = leg.count /\ control'.context.build = world.build
  PROVE  OneBuild'
<1>1. world.build \in Builds /\ leg.count \in Nat /\ leg.count <= leg.count
  BY LegFields DEF CInv, LegTyped, World
<1>2. /\ \A k \in Cells \X Params : Mine(files[k]) => files[k].context.build = world.build
      /\ Mine(control) => control.context.build = world.build
  BY DEF OneBuild
<1>3. \A k \in Cells \X Params : Mine(files[k])' => files'[k].context.build = world.build
  BY <1>2 DEF Mine
<1>4. Mine(control)' => control'.context.build = world.build
  BY <1>2 DEF Mine
<1>5. control'.state = "whole" => control'.at \in Nat /\ control'.at <= leg'.count
  BY <1>1 DEF OneBuild
<1> QED
  BY <1>1, <1>3, <1>4, <1>5 DEF OneBuild

LEMMA BStep == CInv /\ LegOrdered /\ OneBuild /\ [CampaignStep]_campaignVars => OneBuild'
<1> SUFFICES ASSUME CInv, LegOrdered, OneBuild, [CampaignStep]_campaignVars PROVE OneBuild'
  OBVIOUS
<1>t. leg \in Leg
  BY DEF CInv, LegTyped
<1>1. CASE Rebuild \/ Retransform
  BY <1>1, BIdle DEF Rebuild, Retransform
<1>2. CASE UNCHANGED campaignVars
  BY <1>2 DEF campaignVars, OneBuild, Mine
<1>3. CASE Probe \/ Warm \/ Measure \/ WriteContext \/ DriverDies \/ Check \/ NoControl \/ Killed
  <2>1. leg.pc # "idle" /\ UNCHANGED <<world, files, control>> /\ leg'.count = leg.count
    BY <1>3, <1>t DEF Probe, Warm, Measure, WriteContext, DriverDies, Check, NoControl, Killed,
                      Proceed, Leg
  <2> QED BY <2>1, BWrites
<1>4. CASE Archive
  <2>1. leg.pc # "idle" /\ UNCHANGED <<world, control>> /\ leg'.count = leg.count
    BY <1>4, <1>t DEF Archive, Leg
  <2>2. \A k \in Cells \X Params : files'[k] = files[k] \/ files'[k].state # "whole"
    BY <1>4, LegFields, FileKeys, FileFields DEF Archive, CInv, LegTyped
  <2> QED BY <2>1, <2>2, BWrites
<1>5. CASE OpenResult
  <2>1. leg.pc # "idle" /\ UNCHANGED <<world, control>> /\ leg'.count = leg.count
    BY <1>5, <1>t DEF OpenResult, Proceed, Leg
  <2>2. \A k \in Cells \X Params : files'[k] = files[k] \/ files'[k].state # "whole"
    BY <1>5, LegFields, FileKeys DEF OpenResult, CInv, LegTyped, Torn
  <2> QED BY <2>1, <2>2, BWrites
<1>6. CASE WriteResult
  <2>1. leg.pc # "idle" /\ UNCHANGED <<world, control>> /\ leg'.count = leg.count
    BY <1>6, <1>t DEF WriteResult, Leg
  <2>2. Result.context.build = world.build
    BY DEF Result, Context
  <2>3. \A k \in Cells \X Params : files'[k] = files[k] \/ files'[k].context.build = world.build
    <3> HIDE DEF Result
    <3> QED BY <1>6, <2>2, LegFields, FileKeys DEF WriteResult, CInv, LegTyped
  <2> QED BY <2>1, <2>3, BWrites
<1>7. CASE ArchiveControl
  <2>1. leg.pc # "idle" /\ UNCHANGED <<world, files>> /\ leg'.count = leg.count
        /\ control'.state # "whole"
    BY <1>7, <1>t, FileFields DEF ArchiveControl, Proceed, Leg
  <2> QED BY <2>1, BWrites
<1>8. CASE Control
  <2>1. leg.pc # "idle" /\ UNCHANGED <<world, files>>
    BY <1>8 DEF Control
  <2>2. leg'.count = leg.count
    BY <1>8, <1>t DEF Control, Leg
  <2>3. \/ control'.state # "whole"
        \/ control'.at = leg.count /\ control'.context.build = world.build
    <3> DEFINE beside == [Context EXCEPT !.dir = "controls"]
    <3>1. beside.build = world.build
      BY DEF Context
    <3> DEFINE made(e) == [Result EXCEPT !.errors = e, !.context = beside]
    <3>2. ASSUME NEW e PROVE made(e).at = leg.count /\ made(e).context = beside
      BY DEF Result
    <3>3. \/ \E e \in {{}, {"replay"}} : control' = made(e)
          \/ control' = Failure(leg.count) \/ control' = Torn(leg.count)
      BY <1>8 DEF Control
    <3> HIDE DEF beside, made
    <3>4. CASE \E e \in {{}, {"replay"}} : control' = made(e)
      BY <3>1, <3>2, <3>4
    <3>5. CASE control' = Failure(leg.count) \/ control' = Torn(leg.count)
      BY <3>5 DEF Failure, Torn
    <3> QED BY <3>3, <3>4, <3>5
  <2> QED BY <2>1, <2>2, <2>3, BWrites
<1> QED
  BY <1>1, <1>2, <1>3, <1>4, <1>5, <1>6, <1>7, <1>8, BBegin DEF CampaignStep

\* An exit code of 0 means a whole grid with a control that a report accepts
\* (grid.py:534-554, controls.py:56-85).
THEOREM SuccessIsWhole == CampaignSpec => []SuccessMeansWhole
<1>0. CampaignSpec => [](CInv /\ LegOrdered /\ OneBuild)
  BY CInit, CStep, OInit, OStep, BInit, BStep, PTL DEF CampaignSpec
<1>1. CInv /\ OneBuild => SuccessMeansWhole
  <2> SUFFICES ASSUME CInv, OneBuild, leg.status = "passed" PROVE SuccessMeansWhole
    BY DEF SuccessMeansWhole
  <2>1. /\ \A c \in Cells : Good(files[Key(c)])
        /\ leg.engine = "luxir" => Good(control)
    BY DEF CInv, Counted
  <2>2. \A c \in Cells : LET f == files[Key(c)] IN
          /\ f.state = "whole" /\ f.context \in contexts
          /\ f.errors = {} /\ f.at = leg.count
    BY <2>1, FileKeys DEF CInv, Good, AllNamed, Named
  <2>3. ASSUME leg.engine = "luxir", \A c \in Cells : Gated(files[Key(c)])
        PROVE  ValidControl(leg.params)
    <3>1. Good(control) /\ Readable(control)
      BY <2>1, <2>3 DEF Good, Readable, CInv, AllNamed, Named
    <3>2. ASSUME NEW c \in Cells, NEW f \in Shown(c, leg.params)
          PROVE  f = files[Key(c)]
      <4> DEFINE usable == {g \in {files[<<c, q>>] : q \in Params} : Gated(g)}
                 exact == {g \in usable : Unmarked(g, leg.params)}
      <4>1. files[Key(c)] \in exact
        BY <2>3, LegFields, FileKeys DEF Key, CInv, Own, Unmarked, Gated
      <4>2. f \in exact
        <5> HIDE DEF exact
        <5>1. exact # {}
          BY <4>1
        <5> QED
          BY <3>2, <5>1 DEF Shown, exact
      <4>3. PICK q \in Params : f = files[<<c, q>>] /\ Gated(f) /\ Unmarked(f, leg.params)
        BY <4>2
      <4>4. f.params = q
        BY <4>3 DEF Gated, CInv, Own
      <4>5. q.effective = leg.params.effective /\ q.parallel = leg.params.parallel
        BY <2>3, <4>3, <4>4 DEF Unmarked, Asked
      <4>6. q = leg.params
        BY <4>5, LegFields DEF CInv, Params
      <4> QED
        BY <4>3, <4>6 DEF Key
    <3>3. \A c \in Cells : \A f \in Shown(c, leg.params) :
            f.context.session = control.context.session /\ f.at <= control.at
      BY <2>1, <3>1, <3>2, LegFields DEF Good, CInv
    <3>4. \A c \in Cells : \A f \in Shown(c, leg.params) :
            f.context.build = control.context.build
      BY <2>1, <3>1, <3>2, FileKeys DEF Good, Mine, OneBuild, CInv
    <3> QED
      BY <3>1, <3>3, <3>4 DEF Good, ValidControl
  <2> QED
    BY <2>2, <2>3 DEF SuccessMeansWhole
<1> QED
  BY <1>0, <1>1, PTL

\* What is shown is of the corpus of now and, of a REST engine, of the build that is
\* selected now; without a warning it is of the request asked for, a newer inexact
\* one never hides it, and what Luxir's cell is compared with was measured before it
\* (grid.py:577-672).
THEOREM ShownAsAsked == CampaignSpec => []ShownIsThisRequest
<1>1. CampaignSpec => [](CInv /\ LegOrdered)
  BY CInit, CStep, OInit, OStep, PTL DEF CampaignSpec
<1>2. ASSUME CInv, LegOrdered PROVE ShownIsThisRequest
  <2> SUFFICES ASSUME NEW c \in Cells, NEW p \in Params, NEW f \in Shown(c, p)
               PROVE  /\ f.context.corpus = world.report
                      /\ leg.engine = "rest" => f.context.build = world.build
                      /\ (leg.engine = "luxir" /\ Unmarked(f, p)) =>
                            \A g \in ShownBefore(c, p) : g.at < f.at
                      /\ \/ Asked(f.params) = Asked(p)
                         \/ ~Unmarked(f, p) /\ \A q \in Params :
                               LET g == files[<<c, q>>]
                               IN  Gated(g) => Asked(g.params) # Asked(p)
    BY DEF ShownIsThisRequest
  <2> DEFINE usable == {g \in {files[<<c, q>>] : q \in Params} : Gated(g)}
             exact == {g \in usable : Unmarked(g, p)}
  <2>1. f \in usable /\ (exact # {} => f \in exact)
    BY DEF Shown
  <2>2. Gated(f) /\ \E q \in Params : f = files[<<c, q>>]
    BY <2>1
  <2>3. ASSUME leg.engine = "luxir", Unmarked(f, p), NEW g \in ShownBefore(c, p)
        PROVE  g.at < f.at
    <3>1. PICK q \in Params : f = files[<<c, q>>] /\ f.state = "whole"
      BY <2>2 DEF Gated
    <3>2. f.params = q
      BY <1>2, <3>1 DEF CInv, Own
    <3>3. q.effective = p.effective /\ q.parallel = p.parallel
      BY <2>3, <3>2 DEF Unmarked, Asked
    <3>4. q = p
      BY <3>3 DEF Params
    <3>5. g = prev[<<c, p>>] /\ g.state = "whole"
      BY DEF ShownBefore, Gated
    <3> QED
      BY <1>2, <3>1, <3>4, <3>5 DEF LegOrdered
  <2>4. Asked(f.params) = Asked(p) \/ ~Unmarked(f, p)
    BY DEF Unmarked
  <2>5. ~Unmarked(f, p) => \A q \in Params :
          Gated(files[<<c, q>>]) => Asked(files[<<c, q>>].params) # Asked(p)
    <3> SUFFICES ASSUME ~Unmarked(f, p), NEW q \in Params, Gated(files[<<c, q>>])
                 PROVE  Asked(files[<<c, q>>].params) # Asked(p)
      OBVIOUS
    <3>1. exact = {} /\ files[<<c, q>>] \in usable
      BY <2>1
    <3>2. ~Unmarked(files[<<c, q>>], p)
      BY <3>1
    <3> QED BY <3>2 DEF Unmarked
  <2> QED
    BY <2>2, <2>3, <2>4, <2>5 DEF Gated
<1> QED
  BY <1>1, <1>2, PTL

-----------------------------------------------------------------------------
(* The vector campaign.                                                    *)

RunPlaces == {"idle", "start", "feed", "mark", "merge", "layout", "cell", "recall",
           "replay", "after", "finish"}
Run == [pc : RunPlaces, kind : Kinds, refeed : BOOLEAN, reuse : BOOLEAN, layout : Nat,
        recall : Nat, ran : Nat, cells : Nat, count : Nat, intrusions : Nat,
        status : {"none", "refused", "passed", "failed", "killed"}]
Directory == [there : BOOLEAN, marker : BOOLEAN, docs : Nat, version : Nat, one : BOOLEAN]
Saved == [layout : Nat, recall : Nat, ran : Nat]

RunTyped ==
    /\ run \in Run /\ data \in [Kinds -> Directory]
    /\ serving \in Kinds \cup {Nobody} /\ published \subseteq Saved

\* A marker means the last row is in, and is written only when it is.
Fed ==
    /\ \A k \in Kinds : data[k].marker => data[k].docs >= Documents
    /\ run.pc = "mark" => Index.docs >= Documents

\* What was seen of the index, in the order it was seen.
VersionsOrdered ==
    /\ run.pc \in {"cell", "recall", "replay", "after"} => run.layout <= Index.version
    /\ run.pc \in {"replay", "after"} =>
          run.layout <= run.recall /\ run.recall <= Index.version
    /\ run.pc = "after" => run.recall <= run.ran /\ run.ran <= Index.version

OneVersion == \A c \in published : c.recall = c.layout /\ c.ran = c.layout

VInv == RunTyped /\ Fed /\ VersionsOrdered /\ OneVersion

-----------------------------------------------------------------------------
\* The fields that the argument is about.
LEMMA RunFields ==
  ASSUME RunTyped
  PROVE  /\ run.kind \in Kinds /\ run.layout \in Nat /\ run.recall \in Nat /\ run.ran \in Nat
         /\ \A k \in Kinds : /\ data[k] \in Directory
                             /\ data[k].docs \in Nat /\ data[k].version \in Nat
BY DEF RunTyped, Run, Directory

\* A step to place p that keeps what the campaign saw.
Moves(p) ==
    /\ run' \in Run /\ run'.pc = p /\ run'.kind = run.kind
    /\ run'.layout = run.layout /\ run'.recall = run.recall /\ run'.ran = run.ran

LEMMA ToMoves == ASSUME RunTyped, NEW p \in RunPlaces, To(p) PROVE Moves(p)
BY DEF RunTyped, To, Moves, Run

\* Directories whose documents and versions only grow.
Grows(d) ==
    /\ data' \in [Kinds -> Directory]
    /\ \A k \in Kinds : /\ data[k].docs <= data'[k].docs
                        /\ data[k].version <= data'[k].version
                        /\ data'[k].marker => data[k].marker \/ d >= Documents

\* The two kinds of steps that need no look at the order of what was seen: the
\* index grows under a campaign that stays where it is, and a campaign moves to
\* where nothing was seen yet, or from a cell to its recall.
LEMMA GrowsInPlace ==
  ASSUME VInv, Grows(Documents - 1), Moves(run.pc), serving' \in Kinds \cup {Nobody},
         UNCHANGED published
  PROVE  VInv'
<1>1. RunTyped'
  BY DEF VInv, RunTyped, Grows, Moves
<1>2. /\ \A k \in Kinds : /\ data[k].docs \in Nat /\ data[k].version \in Nat
                          /\ data'[k].docs \in Nat /\ data'[k].version \in Nat
      /\ run.kind \in Kinds /\ run.layout \in Nat /\ run.recall \in Nat /\ run.ran \in Nat
  BY <1>1, RunFields DEF VInv, RunTyped, Grows, Directory
<1>3. Fed'
  BY <1>2, VectorAssumption DEF VInv, Fed, Grows, Moves, Index
<1>4. VersionsOrdered'
  BY <1>2 DEF VInv, VersionsOrdered, Grows, Moves, Index
<1> QED
  BY <1>1, <1>3, <1>4 DEF VInv, OneVersion

LEMMA MovesOn ==
  ASSUME VInv, NEW p \in RunPlaces, Moves(p), UNCHANGED <<data, published>>,
         serving' \in Kinds \cup {Nobody},
         p \in {"cell", "recall"} => run.pc \in {"cell", "recall"},
         p \notin {"replay", "after"},
         p = "mark" => Index.docs >= Documents
  PROVE  VInv'
BY DEF VInv, RunTyped, Fed, VersionsOrdered, OneVersion, Moves, Index

-----------------------------------------------------------------------------
LEMMA VInit == VectorInit => VInv
<1> SUFFICES ASSUME VectorInit PROVE VInv
  OBVIOUS
<1>1. NoData \in Directory
  BY DEF NoData, Directory
<1>2. RunTyped
  BY <1>1 DEF VectorInit, RunTyped, Run, RunPlaces, Kinds
<1>3. Fed /\ VersionsOrdered /\ OneVersion
  BY DEF VectorInit, Fed, VersionsOrdered, OneVersion, NoData
<1> QED
  BY <1>2, <1>3 DEF VInv

\* A campaign begins: its directory is taken as it is, or a new one.
LEMMA VLaunch == VInv /\ Launch => VInv'
<1> SUFFICES ASSUME VInv, Launch PROVE VInv'
  OBVIOUS
<1>1. PICK kind \in Kinds, refeed \in BOOLEAN, refused \in BOOLEAN, reuse \in BOOLEAN :
        /\ run' = [run EXCEPT !.pc = IF refused THEN "idle" ELSE "start",
                       !.kind = kind, !.refeed = refeed, !.reuse = reuse,
                       !.count = @ + 1, !.cells = 0,
                       !.status = IF refused THEN "refused" ELSE "none"]
        /\ data' = IF refused \/ reuse THEN data ELSE [data EXCEPT ![kind] = NoData]
  <2>1. PICK kind \in Kinds, refeed \in BOOLEAN :
          LET old == data[kind]
              refused == serving # Nobody \/ (kind = "smoke" /\ old.there)
              reuse == old.marker /\ ~refeed
          IN  /\ run' = [run EXCEPT !.pc = IF refused THEN "idle" ELSE "start",
                            !.kind = kind, !.refeed = refeed, !.reuse = reuse,
                            !.count = @ + 1, !.cells = 0,
                            !.status = IF refused THEN "refused" ELSE "none"]
              /\ data' = IF refused \/ reuse THEN data ELSE [data EXCEPT ![kind] = NoData]
    BY DEF Launch
  <2>2. data[kind].marker \in BOOLEAN
    BY RunFields DEF VInv, Directory
  <2>3. /\ (serving # Nobody \/ (kind = "smoke" /\ data[kind].there)) \in BOOLEAN
        /\ (data[kind].marker /\ ~refeed) \in BOOLEAN
    BY <2>2
  <2> QED
    BY <2>1, <2>3
<1>2. PICK count \in Nat : count = run.count + 1
  BY DEF VInv, RunTyped, Run
<1>3. run' \in Run /\ run'.pc \in {"idle", "start"}
  <2>1. run' = [run EXCEPT !.pc = IF refused THEN "idle" ELSE "start",
                    !.kind = kind, !.refeed = refeed, !.reuse = reuse,
                    !.count = count, !.cells = 0,
                    !.status = IF refused THEN "refused" ELSE "none"]
    BY <1>1, <1>2 DEF VInv, RunTyped, Run
  <2> QED
    BY <2>1 DEF VInv, RunTyped, Run, RunPlaces
<1>4. NoData \in Directory /\ ~NoData.marker
  BY DEF NoData, Directory
<1>5. data' \in [Kinds -> Directory] /\ \A k \in Kinds : data'[k] \in {data[k], NoData}
  BY <1>1, <1>4 DEF VInv, RunTyped
<1>6. UNCHANGED <<serving, published>>
  BY DEF Launch
<1> QED
  BY <1>3, <1>4, <1>5, <1>6 DEF VInv, RunTyped, Fed, VersionsOrdered, OneVersion

LEMMA VStart == VInv /\ StartServer => VInv'
<1> SUFFICES ASSUME VInv, StartServer PROVE VInv'
  OBVIOUS
<1>1. PICK p \in {"merge", "feed", "finish"} : To(p)
  BY DEF StartServer
<1>2. Moves(p)
  BY <1>1, ToMoves DEF VInv, RunPlaces
<1>3. /\ data' \in [Kinds -> Directory]
      /\ \A k \in Kinds : data'[k].docs = data[k].docs /\ data'[k].marker = data[k].marker
  BY DEF StartServer, VInv, RunTyped, Directory
<1>4. serving' \in Kinds \cup {Nobody} /\ published' = published
  BY RunFields DEF StartServer, VInv, RunTyped
<1> QED
  BY <1>2, <1>3, <1>4 DEF VInv, RunTyped, Fed, VersionsOrdered, OneVersion, Moves

LEMMA VFeed == VInv /\ (FeedRow \/ FeedCounted \/ Mark \/ ForceMerge) => VInv'
<1> SUFFICES ASSUME VInv, FeedRow \/ FeedCounted \/ Mark \/ ForceMerge PROVE VInv'
  OBVIOUS
<1> USE RunFields DEF VInv
<1>0. run \in Run /\ serving \in Kinds \cup {Nobody} /\ run.kind \in Kinds
  BY DEF RunTyped
<1>1. CASE FeedRow
  <2>1. Moves(run.pc)
    BY <1>0, <1>1 DEF FeedRow, Moves
  <2>2. PICK docs \in Nat, version \in Nat :
          /\ docs = data[run.kind].docs + 1 /\ version = data[run.kind].version + 1
          /\ data' = [data EXCEPT ![run.kind].docs = docs, ![run.kind].version = version]
    <3>1. data' = [data EXCEPT ![run.kind].docs = data[run.kind].docs + 1,
                               ![run.kind].version = data[run.kind].version + 1]
      BY <1>0, <1>1 DEF FeedRow, RunTyped, Directory
    <3>2. data[run.kind].docs + 1 \in Nat /\ data[run.kind].version + 1 \in Nat
      BY <1>0
    <3> QED
      BY <3>1, <3>2
  <2>3. data' = [data EXCEPT ![run.kind] = [data[run.kind] EXCEPT !.docs = docs, !.version = version]]
    BY <1>0, <2>2 DEF RunTyped
  <2>4. Grows(Documents - 1)
    BY <1>0, <2>2, <2>3 DEF RunTyped, Grows, Directory
  <2> QED
    BY <1>0, <1>1, <2>1, <2>4, GrowsInPlace DEF FeedRow
<1>2. CASE FeedCounted
  <2>1. PICK p \in {"mark", "finish"} : To(p) /\ (p = "mark" => Index.docs = Documents)
    BY <1>2 DEF FeedCounted
  <2>2. Moves(p) /\ p \in RunPlaces
    BY <2>1, ToMoves DEF RunPlaces
  <2> QED
    BY <1>0, <1>2, <2>1, <2>2, MovesOn, VectorAssumption DEF FeedCounted
<1>3. CASE Mark
  <2>1. Moves("merge")
    BY <1>3, ToMoves DEF Mark, RunPlaces
  <2>2. /\ data' \in [Kinds -> Directory]
        /\ \A k \in Kinds : data'[k].docs = data[k].docs
        /\ \A k \in Kinds : data'[k].marker => data[k].marker \/ k = run.kind
    BY <1>0, <1>3 DEF Mark, RunTyped, Directory
  <2>3. Fed'
    BY <1>3, <2>1, <2>2 DEF Fed, Moves, Mark, Index
  <2> QED
    BY <1>0, <1>3, <2>1, <2>2, <2>3 DEF Mark, RunTyped, VersionsOrdered, OneVersion, Moves
<1>4. CASE ForceMerge
  <2>1. Moves("layout")
    BY <1>4, ToMoves DEF ForceMerge, RunPlaces
  <2>2. /\ data' \in [Kinds -> Directory]
        /\ \A k \in Kinds : data'[k].docs = data[k].docs /\ data'[k].marker = data[k].marker
    <3>1. PICK version \in Nat :
            data' = [data EXCEPT ![run.kind].one = TRUE, ![run.kind].version = version]
      <4>1. data[run.kind].version \in Nat /\ data[run.kind].version + 1 \in Nat
        BY <1>0
      <4>2. data' = [data EXCEPT ![run.kind].one = TRUE,
                       ![run.kind].version = IF Index.one THEN data[run.kind].version
                                             ELSE data[run.kind].version + 1]
        BY <1>0, <1>4 DEF ForceMerge, RunTyped, Directory
      <4> QED
        BY <4>1, <4>2
    <3> QED
      BY <1>0, <3>1 DEF RunTyped, Directory
  <2> QED
    BY <1>0, <1>4, <2>1, <2>2 DEF ForceMerge, RunTyped, Fed, VersionsOrdered, OneVersion, Moves
<1> QED
  BY <1>1, <1>2, <1>3, <1>4

LEMMA VCell == VInv /\ (Layout \/ CellPosture \/ Recall \/ Replay) => VInv'
<1> SUFFICES ASSUME VInv, Layout \/ CellPosture \/ Recall \/ Replay PROVE VInv'
  OBVIOUS
<1> USE RunFields DEF VInv
<1>0. /\ run \in Run /\ serving \in Kinds \cup {Nobody} /\ run.kind \in Kinds
      /\ Index.version \in Nat
  BY DEF RunTyped, Index
<1> DEFINE version == Index.version
<1>1. CASE Layout /\ Posture
  <2>1. run' = [run EXCEPT !.pc = "cell", !.layout = version]
    BY <1>1 DEF Layout
  <2>2. run' \in Run /\ run'.pc = "cell" /\ run'.kind = run.kind /\ run'.layout = version
    BY <1>0, <2>1 DEF Run, RunPlaces
  <2> QED
    BY <1>0, <1>1, <2>2 DEF Layout, RunTyped, Fed, VersionsOrdered, OneVersion, Index
<1>2. CASE (Layout /\ ~Posture) \/ CellPosture
  <2>1. PICK p \in {"recall", "finish"} : To(p) /\ (p = "recall" => run.pc = "cell")
    BY <1>2 DEF Layout, CellPosture
  <2>2. Moves(p) /\ p \in RunPlaces
    BY <2>1, ToMoves DEF RunPlaces
  <2> QED
    BY <1>0, <1>2, <2>1, <2>2, MovesOn DEF Layout, CellPosture
<1>3. CASE Recall
  <2>1. run' = [run EXCEPT !.pc = "replay", !.recall = version]
    BY <1>3 DEF Recall
  <2>2. run' \in Run /\ run'.pc = "replay" /\ run'.kind = run.kind
        /\ run'.layout = run.layout /\ run'.recall = version
    BY <1>0, <2>1 DEF Run, RunPlaces
  <2> QED
    BY <1>0, <1>3, <2>2 DEF Recall, RunTyped, Fed, VersionsOrdered, OneVersion, Index
<1>4. CASE Replay
  <2>1. run' = [run EXCEPT !.pc = "after", !.ran = version]
    BY <1>4 DEF Replay
  <2>2. run' \in Run /\ run'.pc = "after" /\ run'.kind = run.kind
        /\ run'.layout = run.layout /\ run'.recall = run.recall /\ run'.ran = version
    BY <1>0, <2>1 DEF Run, RunPlaces
  <2> QED
    BY <1>0, <1>4, <2>2 DEF Replay, RunTyped, Fed, VersionsOrdered, OneVersion, Index
<1> QED
  BY <1>1, <1>2, <1>3, <1>4

\* The step that publishes: version = layout closes the chain of VersionsOrdered.
LEMMA VAfter == VInv /\ After => VInv'
<1> SUFFICES ASSUME VInv, After PROVE VInv'
  OBVIOUS
<1> USE RunFields DEF VInv
<1>0. run \in Run /\ serving \in Kinds \cup {Nobody} /\ Index.version \in Nat
  BY DEF RunTyped, Index
<1>1. CASE Posture /\ Index.version = run.layout
  <2> DEFINE saved == [layout |-> run.layout, recall |-> run.recall, ran |-> run.ran]
  <2>1. run.recall = run.layout /\ run.ran = run.layout
    BY <1>0, <1>1 DEF After, VersionsOrdered
  <2>2. published' = published \cup {saved} /\ saved \in Saved
    BY <1>1 DEF After, Saved
  <2>3. OneVersion' /\ published' \subseteq Saved
    BY <2>1, <2>2 DEF OneVersion, RunTyped
  <2>4. PICK cells \in Nat : cells = run.cells + 1
    BY <1>0 DEF Run
  <2>5. run' = [run EXCEPT !.pc = "cell", !.cells = cells]
    BY <1>1, <2>4 DEF After
  <2>6. run' \in Run /\ run'.pc = "cell" /\ run'.kind = run.kind /\ run'.layout = run.layout
    BY <1>0, <2>5 DEF Run, RunPlaces
  <2>7. UNCHANGED <<data, serving>>
    BY DEF After
  <2>8. Fed' /\ VersionsOrdered'
    BY <2>6, <2>7 DEF Fed, VersionsOrdered, After, Index
  <2> QED
    BY <2>3, <2>6, <2>7, <2>8 DEF RunTyped
<1>2. CASE ~(Posture /\ Index.version = run.layout)
  <2>1. Moves("finish")
    BY <1>2, ToMoves DEF After, RunPlaces
  <2> QED
    BY <1>0, <1>2, <2>1, MovesOn DEF After, RunPlaces
<1> QED
  BY <1>1, <1>2

LEMMA VEnds ==
  VInv /\ (Conclude \/ VectorRaises \/ Finish \/ CampaignKilled \/ StopServer) => VInv'
<1> SUFFICES ASSUME VInv, Conclude \/ VectorRaises \/ Finish \/ CampaignKilled \/ StopServer
             PROVE  VInv'
  OBVIOUS
<1> USE RunFields DEF VInv
<1>0. run \in Run /\ serving \in Kinds \cup {Nobody} /\ {"finish", "idle"} \subseteq RunPlaces
  BY DEF RunTyped, RunPlaces
<1>1. CASE Conclude
  <2>1. Moves("finish")
    BY <1>0, <1>1 DEF Conclude, Moves, Run
  <2> QED
    BY <1>0, <1>1, <2>1, MovesOn DEF Conclude
<1>2. CASE VectorRaises
  <2>1. Moves("finish")
    BY <1>0, <1>2, ToMoves DEF VectorRaises
  <2> QED
    BY <1>0, <1>2, <2>1, MovesOn DEF VectorRaises
<1>3. CASE Finish
  <2>1. Moves("idle")
    BY <1>0, <1>3 DEF Finish, Moves, Run
  <2>2. NoData \in Directory /\ ~NoData.marker
    BY DEF NoData, Directory
  <2>3. data' \in [Kinds -> Directory] /\ \A k \in Kinds : data'[k] \in {data[k], NoData}
    BY <1>3, <2>2 DEF Finish, RunTyped
  <2>4. serving' = Nobody /\ published' = published
    BY <1>3 DEF Finish
  <2> QED
    BY <2>1, <2>2, <2>3, <2>4 DEF RunTyped, Fed, VersionsOrdered, OneVersion, Moves
<1>4. CASE CampaignKilled
  <2>1. Moves("idle")
    BY <1>0, <1>4 DEF CampaignKilled, Moves, Run
  <2> QED
    BY <1>0, <1>4, <2>1, MovesOn DEF CampaignKilled
<1>5. CASE StopServer
  <2>1. Moves(run.pc) /\ run.pc \in RunPlaces /\ run.pc = "idle"
    BY <1>0, <1>5 DEF StopServer, Moves, RunPlaces
  <2> QED
    BY <1>5, <2>1, MovesOn DEF StopServer
<1> QED
  BY <1>1, <1>2, <1>3, <1>4, <1>5

\* Another client may add documents and may merge or split what is there; it
\* cannot take back a version.
LEMMA VIntrude == VInv /\ Intrude => VInv'
<1> SUFFICES ASSUME VInv, Intrude PROVE VInv'
  OBVIOUS
<1>0. run \in Run /\ serving \in Kinds
  BY DEF VInv, RunTyped, Intrude
<1>1. PICK n \in Nat : n = run.intrusions + 1
  BY <1>0 DEF Run
<1>2. run' = [run EXCEPT !.intrusions = n]
  BY <1>1 DEF Intrude
<1>3. Moves(run.pc)
  BY <1>0, <1>2 DEF Moves, Run
<1>4. PICK docs \in Nat, version \in Nat, one \in BOOLEAN :
        /\ docs >= data[serving].docs /\ version = data[serving].version + 1
        /\ data' = [data EXCEPT ![serving].version = version, ![serving].docs = docs,
                                ![serving].one = one]
  <2>1. PICK more \in 0..1, one \in BOOLEAN :
          data' = [data EXCEPT ![serving].version = @ + 1, ![serving].docs = @ + more,
                               ![serving].one = one]
    BY DEF Intrude
  <2>2. /\ data[serving].docs + more \in Nat /\ data[serving].version + 1 \in Nat
        /\ data[serving].docs + more >= data[serving].docs
    BY <1>0, RunFields DEF VInv
  <2> QED
    BY <1>0, <2>1, <2>2 DEF VInv, RunTyped
<1>5. data' = [data EXCEPT ![serving] =
                 [data[serving] EXCEPT !.version = version, !.docs = docs, !.one = one]]
  BY <1>0, <1>4 DEF VInv, RunTyped
<1>6. Grows(Documents - 1)
  BY <1>0, <1>4, <1>5, RunFields DEF VInv, RunTyped, Grows, Directory
<1> QED
  BY <1>0, <1>3, <1>6, GrowsInPlace DEF Intrude

LEMMA VStep == VInv /\ [VectorStep]_vectorVars => VInv'
<1> SUFFICES ASSUME VInv, [VectorStep]_vectorVars PROVE VInv'
  OBVIOUS
<1>1. CASE UNCHANGED vectorVars
  BY <1>1 DEF vectorVars, VInv, RunTyped, Fed, VersionsOrdered, OneVersion, Index
<1>2. CASE VectorStep
  BY <1>2, VLaunch, VStart, VFeed, VCell, VAfter, VEnds, VIntrude DEF VectorStep
<1> QED
  BY <1>1, <1>2

\* Types, and that versions are seen in order.
THEOREM VectorTypes == VectorSpec => []VInv
BY VInit, VStep, PTL DEF VectorSpec

\* What may be reused was fed to the last row, and a cell's recall and its
\* throughput are of the index whose layout was recorded, whoever else reached
\* it and wherever a campaign was killed (vector_benchmark.py).
THEOREM OneIndexMeasured == VectorSpec => []VectorFedIsAsked
<1>1. VInv => VectorFedIsAsked
  BY DEF VInv, Fed, OneVersion, VectorFedIsAsked
<1> QED
  BY <1>1, VectorTypes, PTL

-----------------------------------------------------------------------------
(* The query board.                                                        *)

\* A board is one of finitely many cells, each with what a result records.
Boards ==
    \A c \in DOMAIN board :
        /\ c \in Vendors \X Variants
        /\ board[c] \in Results \cup {Failed}

LEMMA BoardStep == Boards /\ [Next]_vars => Boards'
<1> SUFFICES ASSUME Boards, [Next]_vars PROVE Boards'
  OBVIOUS
<1>1. CASE Render
  BY <1>1 DEF Render, Boards
<1>2. CASE UNCHANGED board
  BY <1>2 DEF Boards
<1> QED BY <1>1, <1>2 DEF Next, vars, Requesting, Measuring, Reporting, Preparing, Transforming, Benchmarking

LEMMA BoardStart == Init => Boards
BY DEF Init, BoardInit, Boards

\* Two of a set that does not have several are one.
LEMMA NotSeveral ==
  ASSUME NEW S, IsFiniteSet(S), ~Several(S), NEW x \in S, NEW y \in S
  PROVE  x = y
<1> SUFFICES ASSUME x # y PROVE FALSE
  OBVIOUS
<1>1. IsFiniteSet({x, y}) /\ Cardinality({x, y}) = 2
  <2>1. IsFiniteSet({x}) /\ Cardinality({x}) = 1
    BY FS_Singleton
  <2>2. IsFiniteSet({x} \cup {y}) /\ Cardinality({x} \cup {y}) = 2
    <3>1. y \notin {x}
      OBVIOUS
    <3>2. /\ IsFiniteSet({x} \cup {y})
          /\ Cardinality({x} \cup {y}) = IF y \in {x} THEN Cardinality({x}) ELSE Cardinality({x}) + 1
      BY <2>1, FS_AddElement
    <3> QED BY <2>1, <3>1, <3>2
  <2>3. {x} \cup {y} = {x, y}
    OBVIOUS
  <2> QED BY <2>2, <2>3
<1>2. Cardinality({x, y}) <= Cardinality(S) /\ Cardinality(S) \in Nat
  BY FS_Subset, FS_CardinalityType, {x, y} \subseteq S
<1> QED BY <1>1, <1>2 DEF Several

LEMMA TwoVendors == IsFiniteSet(Vendors)
<1>1. IsFiniteSet({"luxir"})
  BY FS_Singleton
<1>2. IsFiniteSet({"luxir"} \cup {"rest"})
  BY <1>1, FS_AddElement
<1> QED BY <1>2 DEF Vendors

LEMMA BoardFinite == Boards => IsFiniteSet(Tabulated)
<1>1. IsFiniteSet(Vendors) /\ IsFiniteSet(Variants)
  BY BoardAssumption, TwoVendors
<1>2. IsFiniteSet(Vendors \X Variants)
  BY <1>1, FS_Product
<1> QED BY <1>2, FS_Subset DEF Boards, Tabulated

\* What finitely many cells show of something is finite, and one value of it if
\* not several.
LEMMA ShownFinite ==
  ASSUME NEW C, IsFiniteSet(C), NEW f, DOMAIN f = C
  PROVE  IsFiniteSet({f[c] : c \in C})
<1> DEFINE T == {f[c] : c \in C}
           g == [c \in C |-> f[c]]
<1>1. g \in Surjection(C, T)
  BY DEF Surjection
<1> HIDE DEF T, g
<1>2. IsFiniteSet(T)
  BY <1>1, FS_Surjection
<1> QED BY <1>2 DEF T

LEMMA OneShown ==
  ASSUME NEW C, IsFiniteSet(C), NEW f, DOMAIN f = C, NEW x \in C, NEW y \in C,
         NEW V, V \subseteq {f[c] : c \in C}, f[x] \in V, f[y] \in V, ~Several(V)
  PROVE  f[x] = f[y]
<1>1. IsFiniteSet(V)
  <2>1. IsFiniteSet({f[c] : c \in C})
    BY ShownFinite
  <2> QED BY <2>1, FS_Subset
<1> QED BY <1>1, NotSeveral

\* A result that is no failure, and whose topology is stable, records one.
LEMMA ResultsRecorded ==
  ASSUME NEW r \in Results
  PROVE  ~r.failure /\ (r.stable => r.topology # "none") /\ r.startup \in 0 .. 1
<1>1. ASSUME NEW k \in Knobs,
             r = [Standard EXCEPT !.knob[k] = 1, !.startup = IF k \in ServerKeys THEN 1 ELSE 0]
      PROVE  ~r.failure /\ (r.stable => r.topology # "none") /\ r.startup \in 0 .. 1
  <2>1. r.failure = FALSE /\ r.topology = "s1" /\ r.startup = IF k \in ServerKeys THEN 1 ELSE 0
    BY <1>1 DEF Standard
  <2> QED BY <2>1
<1>2. CASE \E k \in Knobs :
             r = [Standard EXCEPT !.knob[k] = 1, !.startup = IF k \in ServerKeys THEN 1 ELSE 0]
  BY <1>1, <1>2
<1>3. ASSUME r = Standard \/ r = [Standard EXCEPT !.limit = 100] \/ r = [Standard EXCEPT !.corpus = "k2"]
        \/ r = [Standard EXCEPT !.corpus = "none"] \/ r = [Standard EXCEPT !.topology = "s2"]
        \/ r = [Standard EXCEPT !.stable = FALSE] \/ r = [Standard EXCEPT !.startup = 1]
        \/ r = [Standard EXCEPT !.errors = TRUE] \/ r = [Standard EXCEPT !.found = 8]
      PROVE  r.failure = FALSE /\ r.topology \in {"s1", "s2"} /\ r.startup \in {0, 1}
  <2>1. /\ Standard.failure = FALSE /\ Standard.topology = "s1" /\ Standard.startup = 0
        /\ {"failure", "topology", "startup", "limit", "corpus", "stable", "errors", "found"} \subseteq DOMAIN Standard
    BY DEF Standard
  <2>2. r.failure = Standard.failure
    BY <1>3, <2>1
  <2>3. r.topology \in {Standard.topology, "s2"}
    BY <1>3, <2>1
  <2>4. r.startup \in {Standard.startup, 1}
    BY <1>3, <2>1
  <2> QED BY <2>1, <2>2, <2>3, <2>4
<1>4. CASE r = [Standard EXCEPT !.topology = "none", !.stable = FALSE]
  <2>1. r.failure = FALSE /\ r.stable = FALSE /\ r.startup \in 0 .. 1
    BY <1>4 DEF Standard
  <2> QED BY <2>1, Zenon
<1>5. CASE /\ r \in {Standard, [Standard EXCEPT !.limit = 100], [Standard EXCEPT !.corpus = "k2"],
                    [Standard EXCEPT !.corpus = "none"], [Standard EXCEPT !.topology = "s2"],
                    [Standard EXCEPT !.topology = "none", !.stable = FALSE],
                    [Standard EXCEPT !.stable = FALSE], [Standard EXCEPT !.startup = 1],
                    [Standard EXCEPT !.errors = TRUE], [Standard EXCEPT !.found = 8]}
           /\ r # [Standard EXCEPT !.topology = "none", !.stable = FALSE]
  <2>1. r.failure = FALSE /\ r.topology \in {"s1", "s2"} /\ r.startup \in {0, 1}
    BY <1>3, <1>5, Zenon
  <2> QED BY <2>1
<1> QED BY <1>2, <1>4, <1>5 DEF Results

\* A stable topology: no failure among the cells, and one snapshot.
LEMMA StableOnes ==
  ASSUME Boards, NEW e, TopologyStable(e), NEW c \in Of(e), NEW d \in Of(e)
  PROVE  /\ ~board[c].failure /\ board[c].topology # "none" /\ board[c].startup \in 0 .. 1
         /\ board[c].topology = board[d].topology
<1>1. Of(e) \subseteq Tabulated /\ c \in Tabulated /\ d \in Tabulated
  BY DEF Of
<1>2. \A b \in Of(e) : board[b].stable
  BY DEF TopologyStable
<1>3. \A b \in Of(e) : board[b] \in Results /\ ~board[b].failure /\ board[b].topology # "none"
                       /\ board[b].startup \in 0 .. 1
  <2> TAKE b \in Of(e)
  <2>1. board[b] \in Results \cup {Failed} /\ board[b].stable
    BY <1>1, <1>2 DEF Boards, Tabulated
  <2>2. board[b] # Failed
    BY <2>1 DEF Failed, Standard
  <2>3. board[b] \in Results
    BY <2>1, <2>2
  <2> QED BY <2>1, <2>3, ResultsRecorded
<1> DEFINE f == [b \in Of(e) |-> board[b].topology]
           S == {board[b].topology : b \in Of(e)} \ {"none"}
<1>4. Cardinality(S) = 1
  BY DEF TopologyStable
<1>5. IsFiniteSet(Of(e))
  BY <1>1, BoardFinite, FS_Subset
<1>6. S \subseteq {f[b] : b \in Of(e)}
  OBVIOUS
<1>7. DOMAIN f = Of(e) /\ f[c] = board[c].topology /\ f[d] = board[d].topology
  OBVIOUS
<1>8. board[c].topology \in S /\ board[d].topology \in S
  BY <1>3
<1>9. ~Several(S)
  BY <1>4 DEF Several
<1> HIDE DEF f, S
<1>10. f[c] = f[d]
  BY <1>5, <1>6, <1>7, <1>8, <1>9, OneShown
<1> QED BY <1>3, <1>7, <1>10

\* What the cells that do not declare a knob show of it, if no drift.
LEMMA NoDrift ==
  ASSUME Boards, NEW C, C \subseteq Tabulated, NEW k \in Knobs, ~Several(Residual(k, C)),
         NEW c \in C, NEW d \in C, k \notin c[2], k \notin d[2]
  PROVE  board[c].knob[k] = board[d].knob[k]
<1> DEFINE f == [b \in C |-> board[b].knob[k]]
<1>1. IsFiniteSet(C)
  BY BoardFinite, FS_Subset
<1>2. Residual(k, C) \subseteq {f[b] : b \in C} /\ f[c] \in Residual(k, C) /\ f[d] \in Residual(k, C)
  BY DEF Residual
<1>3. DOMAIN f = C /\ f[c] = board[c].knob[k] /\ f[d] = board[d].knob[k]
  OBVIOUS
<1> HIDE DEF f
<1> QED BY <1>1, <1>2, <1>3, OneShown

\* Cells that start with nothing declared of the server start in one posture.
LEMMA OneStartup ==
  ASSUME Boards, NEW e, ~StartupUndeclared(e), \A b \in Of(e) : b[2] \cap ServerKeys = {},
         NEW c \in Of(e), NEW d \in Of(e), board[c].startup \in 0 .. 1, board[d].startup \in 0 .. 1
  PROVE  board[c].startup = board[d].startup
<1> DEFINE shown(s) == {b \in Of(e) : board[b].startup = s}
           posture == {s \in 0 .. 1 : shown(s) # {}}
           declares(b) == b[2] \cap ServerKeys
<1>1. PICK first \in [posture -> Of(e)] :
        /\ \A s \in posture : first[s] \in shown(s)
        /\ ~\E s, t \in posture : s # t /\ declares(first[s]) = declares(first[t])
  BY DEF StartupUndeclared
<1>2. \A s \in posture : declares(first[s]) = {}
  BY <1>1
<1>3. board[c].startup \in posture /\ board[d].startup \in posture
  OBVIOUS
<1> QED BY <1>1, <1>2, <1>3

\* An engine compared at a variant: if every engine has the cell, counts agree.
LEMMA OneCount ==
  ASSUME Boards, NEW v, ~Mismatch(v), \A e \in BoardEngines : ~(<<e, v>> \notin Tabulated),
         NEW c \in Tabulated, NEW d \in Tabulated, c[2] = v, d[2] = v,
         \A b \in Tabulated : ~board[b].failure
  PROVE  board[c].found = board[d].found
<1> DEFINE row == {b \in Tabulated : b[2] = v}
           f == [b \in row |-> board[b].found]
           g == [e \in BoardEngines |-> <<e, v>>]
<1>1. IsFiniteSet(row)
  BY BoardFinite, FS_Subset
<1>2. \A b \in Tabulated : b = <<b[1], b[2]>> /\ b[1] \in BoardEngines
  BY DEF Boards, Tabulated, BoardEngines
<1>3. g \in Injection(BoardEngines, row) /\ g \in Surjection(BoardEngines, row)
  <2>1. g \in [BoardEngines -> row]
    OBVIOUS
  <2>2. \A b \in row : g[b[1]] = b
    BY <1>2
  <2> QED BY <1>2, <2>1, <2>2 DEF Injection, Surjection, IsInjective
<1>4. Cardinality(row) = Cardinality(BoardEngines)
  <2> HIDE DEF g, row
  <2> QED BY <1>1, <1>3, FS_Injection
<1>5. DOMAIN f = row /\ f[c] = board[c].found /\ f[d] = board[d].found /\ c \in row /\ d \in row
      /\ f[c] \in {board[b].found : b \in row} /\ f[d] \in {board[b].found : b \in row}
      /\ {board[b].found : b \in row} \subseteq {f[b] : b \in row}
  OBVIOUS
<1>6. CASE Several(row)
  <2>1. ~Several({board[b].found : b \in row})
    BY <1>4, <1>6 DEF Mismatch
  <2> HIDE DEF f, row
  <2> QED BY <1>1, <1>5, <2>1, OneShown
<1>7. CASE ~Several(row)
  <2>1. c = d
    <3> HIDE DEF f, row
    <3> QED BY <1>1, <1>5, <1>7, NotSeveral
  <2> QED BY <2>1
<1> QED BY <1>6, <1>7

LEMMA BoardControlled == Boards => CleanBoardIsControlled
<1> DEFINE Clean == /\ ~CorpusInvalid /\ ~BoardInvalid /\ Drift = {}
                    /\ \A e \in BoardEngines : ~StartupUndeclared(e)
                    /\ \A v \in Variants : ~Mismatch(v)
<1> SUFFICES ASSUME Boards, Clean PROVE CleanBoardIsControlled
  <2>1. ~Clean => CleanBoardIsControlled
    BY Zenon DEF CleanBoardIsControlled
  <2> QED BY <2>1
<1> SUFFICES ASSUME NEW c \in Tabulated, NEW d \in Tabulated
             PROVE  /\ ~board[c].failure
                    /\ "none" \notin {board[c].corpus, board[d].corpus} => board[c].corpus = board[d].corpus
                    /\ \A k \in Knobs \ (c[2] \cup d[2]) :
                          k # "heap" \/ c[1] = d[1] => board[c].knob[k] = board[d].knob[k]
                    /\ c[1] = d[1] =>
                          /\ board[c].topology = board[d].topology /\ board[c].topology # "none"
                          /\ (\A b \in Of(c[1]) : "limit" \notin b[2]) => board[c].limit = board[d].limit
                          /\ (\A b \in Of(c[1]) : b[2] \cap ServerKeys = {}) =>
                                board[c].startup = board[d].startup
                    /\ c[2] = d[2] /\ board[c].found # board[d].found =>
                          \E e \in BoardEngines : <<e, c[2]>> \notin Tabulated
  BY Zenon DEF CleanBoardIsControlled
<1> DEFINE x == board[c]
           y == board[d]
<1>1. \A b \in Tabulated : b[1] \in BoardEngines /\ b[2] \in Variants /\ b \in Of(b[1])
  BY DEF Boards, Tabulated, BoardEngines, Of
<1>2. \A e \in BoardEngines : TopologyStable(e)
  BY DEF BoardInvalid
<1>3. \A b \in Tabulated : ~board[b].failure /\ board[b].topology # "none" /\ board[b].startup \in 0 .. 1
  BY <1>1, <1>2, StableOnes
<1>4. IsFiniteSet(Tabulated)
  BY BoardFinite
<1>5. ASSUME "none" \notin {x.corpus, y.corpus} PROVE x.corpus = y.corpus
  <2> DEFINE f == [b \in Tabulated |-> board[b].corpus]
             V == {board[b].corpus : b \in Tabulated} \ {"none"}
  <2>1. V \subseteq {f[b] : b \in Tabulated} /\ f[c] = x.corpus /\ f[d] = y.corpus
        /\ f[c] \in V /\ f[d] \in V /\ DOMAIN f = Tabulated
    BY <1>5
  <2>2. ~Several(V)
    BY DEF CorpusInvalid
  <2> HIDE DEF f, V, x, y
  <2> QED BY <1>4, <2>1, <2>2, OneShown
<1>6. ASSUME NEW k \in Knobs \ (c[2] \cup d[2]), k # "heap" \/ c[1] = d[1]
      PROVE  x.knob[k] = y.knob[k]
  <2>1. CASE k = "heap"
    <3>1. c[1] = d[1] /\ c[1] \in BoardEngines /\ c \in Of(c[1]) /\ d \in Of(c[1])
      BY <1>1, <1>6, <2>1
    <3>2. <<"heap", c[1]>> \notin Drift
      OBVIOUS
    <3>3. ~Several(Residual("heap", Of(c[1])))
      BY <3>1, <3>2 DEF Drift
    <3>4. Of(c[1]) \subseteq Tabulated
      BY DEF Of
    <3> QED BY <1>6, <2>1, <3>1, <3>3, <3>4, NoDrift
  <2>2. CASE k # "heap"
    <3>1. k \in {"concurrency", "duration", "query_cache"}
      BY <2>2 DEF Knobs
    <3>2. <<k, "all">> \notin Drift
      OBVIOUS
    <3>3. ~Several(Residual(k, Tabulated))
      BY <3>1, <3>2 DEF Drift
    <3> QED BY <1>6, <3>3, NoDrift
  <2> QED BY <2>1, <2>2
<1>7. ASSUME c[1] = d[1]
      PROVE  /\ x.topology = y.topology /\ x.topology # "none"
             /\ (\A b \in Of(c[1]) : "limit" \notin b[2]) => x.limit = y.limit
             /\ (\A b \in Of(c[1]) : b[2] \cap ServerKeys = {}) => x.startup = y.startup
  <2>1. c[1] \in BoardEngines /\ c \in Of(c[1]) /\ d \in Of(c[1])
    BY <1>1, <1>7
  <2>2. x.topology = y.topology
    BY <1>2, <2>1, StableOnes
  <2>3. ASSUME \A b \in Of(c[1]) : "limit" \notin b[2] PROVE x.limit = y.limit
    <3> DEFINE f == [b \in Of(c[1]) |-> board[b].limit]
               V == {board[b].limit : b \in Of(c[1])}
    <3>1. <<"limit", c[1]>> \notin Drift
      OBVIOUS
    <3>2. ~ParametersDiffer(c[1])
      BY <2>1, <3>1 DEF Drift
    <3>3. ~Several(V)
      BY <2>3, <3>2 DEF ParametersDiffer
    <3>4. V \subseteq {f[b] : b \in Of(c[1])} /\ f[c] = x.limit /\ f[d] = y.limit
          /\ f[c] \in V /\ f[d] \in V /\ DOMAIN f = Of(c[1])
      BY <2>1
    <3>5. IsFiniteSet(Of(c[1]))
      BY <1>4, FS_Subset DEF Of
    <3> HIDE DEF f, V, x, y
    <3> QED BY <2>1, <3>3, <3>4, <3>5, OneShown
  <2>4. ASSUME \A b \in Of(c[1]) : b[2] \cap ServerKeys = {} PROVE x.startup = y.startup
    BY <1>3, <2>1, <2>4, OneStartup
  <2> QED BY <1>3, <2>2, <2>3, <2>4
<1>8. ASSUME c[2] = d[2], x.found # y.found
      PROVE  \E e \in BoardEngines : <<e, c[2]>> \notin Tabulated
  <2> SUFFICES ASSUME \A e \in BoardEngines : ~(<<e, c[2]>> \notin Tabulated) PROVE FALSE
    OBVIOUS
  <2>1. ~Mismatch(c[2])
    BY <1>1
  <2>2. x.found = y.found
    BY <1>3, <1>8, <2>1, OneCount
  <2> QED BY <1>8, <2>2
<1> QED BY <1>3, <1>5, <1>6, <1>7, <1>8

\* A board that is drawn without a complaint compares what is comparable, for
\* any engines, variants and results: every cell is of one corpus, and what an
\* engine was measured with is what its startup declared.
THEOREM CleanBoards == Spec => []CleanBoardIsControlled
BY BoardStart, BoardStep, BoardControlled, PTL DEF Spec

-----------------------------------------------------------------------------
(* Requests and answers.                                                   *)

\* A parameter set that resolve returns.
ResolvedFrom(p, task, mode, over) == p = Resolve(task, mode, over) /\ p # Refused

\* A request and an answer are to parameters that were resolved.
Cases ==
  /\ case.kind = "request" => /\ case.engine \in Engines
                              /\ \E task \in Tasks, mode \in CountModes, over \in Overrides :
                                   ResolvedFrom(case.params, task, mode, over)
  /\ case.kind = "answer" => /\ case.answer \in Answers(case.params)
                             /\ \E task \in Tasks, mode \in CountModes, over \in Overrides :
                                   ResolvedFrom(case.params, task, mode, over)

LEMMA CaseStart == Init => Cases
BY DEF Init, CaseInit, Cases

LEMMA CaseGoes == Cases /\ [Next]_vars => Cases'
<1> SUFFICES ASSUME Cases, [Next]_vars PROVE Cases'
  OBVIOUS
<1>1. CASE UNCHANGED case
  BY <1>1 DEF Cases
<1>2. CASE CaseStep
  <2>1. CASE Ask
    <3>1. PICK engine \in Engines, task \in Tasks, mode \in CountModes, over \in Overrides :
            /\ Resolve(task, mode, over) # Refused
            /\ case' = [kind |-> "request", engine |-> engine,
                        params |-> Resolve(task, mode, over)]
      BY <2>1 DEF Ask
    <3>2. ResolvedFrom(case'.params, task, mode, over)
      BY <3>1 DEF ResolvedFrom
    <3>3. case'.kind = "request" /\ case'.engine = engine
      BY <3>1
    <3> QED BY <3>2, <3>3 DEF Cases
  <2>2. CASE Sweep
    <3>1. case'.kind = "cell"
      BY <2>2 DEF Sweep
    <3> QED BY <3>1 DEF Cases
  <2>3. CASE Answer
    <3>1. PICK task \in Tasks \ {"MIX", "GET_10"}, mode \in CountModes, over \in Overrides :
            /\ Resolve(task, mode, over) # Refused
            /\ \E a \in Answers(Resolve(task, mode, over)) :
                 case' = [kind |-> "answer", params |-> Resolve(task, mode, over), answer |-> a]
      BY <2>3 DEF Answer
    <3>2. PICK a \in Answers(Resolve(task, mode, over)) :
            case' = [kind |-> "answer", params |-> Resolve(task, mode, over), answer |-> a]
      BY <3>1
    <3>3. case'.kind = "answer" /\ case'.params = Resolve(task, mode, over) /\ case'.answer = a
      BY <3>2
    <3>4. ResolvedFrom(case'.params, task, mode, over)
      BY <3>1, <3>3 DEF ResolvedFrom
    <3>5. case'.answer \in Answers(case'.params)
      BY <3>2, <3>3
    <3> QED BY <3>3, <3>4, <3>5 DEF Cases
  <2> QED BY <1>2, <2>1, <2>2, <2>3 DEF CaseStep
<1> QED
  BY <1>1, <1>2 DEF Next, vars, Requesting, Measuring, Reporting, Preparing, Transforming,
     Benchmarking

\* What the defaults and the selectivity tier do not set is as it was asked for.
Defaulted == {"request_cache", "get_impl", "filter_sel", "filter_field", "filter_value"}
AskedWith(task, mode, over) == over ++ Presets[task] ++ [count_mode |-> mode]

LEMMA ResolvedKeys ==
  ASSUME NEW p, NEW task \in Tasks, NEW mode, NEW over, ResolvedFrom(p, task, mode, over)
  PROVE  \A k : k \notin Defaulted =>
           LET set == AskedWith(task, mode, over)
           IN  /\ k \in DOMAIN p <=> k \in DOMAIN set
               /\ k \in DOMAIN p => p[k] = set[k]
<1> DEFINE set == AskedWith(task, mode, over)
           made == set ++ Given(set.shape # "mix", [request_cache |-> FALSE])
                    ++ Given(set.shape = "get", [get_impl |-> "boolean"])
           tier == Get(made, "filter_sel", "none")
           extra == Given(tier # "none", [filter_field |-> tier, filter_value |-> "t"])
           rest == Restrict(made, DOMAIN made \ {"filter_sel"})
<1>1. p = rest ++ extra
  BY DEF ResolvedFrom, Resolve, AskedWith
<1>2. \A c, r : DOMAIN Given(c, r) \subseteq DOMAIN r
  BY DEF Given, Nothing
<1>3. DOMAIN [request_cache |-> FALSE] = {"request_cache"} /\ DOMAIN [get_impl |-> "boolean"] = {"get_impl"}
  OBVIOUS
<1>4. DOMAIN extra \subseteq {"filter_field", "filter_value"}
  BY <1>2
<1>5. \A f, g : /\ DOMAIN (f ++ g) = DOMAIN f \cup DOMAIN g
                /\ \A k \in DOMAIN f : (f ++ g)[k] = f[k]
  BY DEF ++
<1>6. ASSUME NEW k, k \notin Defaulted
      PROVE  (k \in DOMAIN made <=> k \in DOMAIN set) /\ (k \in DOMAIN set => made[k] = set[k])
  <2> DEFINE one == Given(set.shape # "mix", [request_cache |-> FALSE])
             two == Given(set.shape = "get", [get_impl |-> "boolean"])
  <2>1. k \notin DOMAIN one /\ k \notin DOMAIN two
    BY <1>2, <1>3, <1>6 DEF Defaulted
  <2> HIDE DEF set, one, two
  <2>a. DOMAIN (set ++ one) = DOMAIN set \cup DOMAIN one
    BY <1>5
  <2>b. DOMAIN ((set ++ one) ++ two) = DOMAIN (set ++ one) \cup DOMAIN two
    BY <1>5
  <2>2. k \in DOMAIN (set ++ one) <=> k \in DOMAIN set
    BY <2>a, <2>1
  <2>3. k \in DOMAIN set => (set ++ one)[k] = set[k]
    BY <1>5
  <2>4. k \in DOMAIN ((set ++ one) ++ two) <=> k \in DOMAIN set
    BY <2>b, <2>1, <2>2
  <2>5. k \in DOMAIN set => ((set ++ one) ++ two)[k] = set[k]
    BY <1>5, <2>2, <2>3
  <2> QED BY <2>4, <2>5 DEF one, two
<1> HIDE DEF made, extra, set
<1>7. ASSUME NEW k, k \notin Defaulted
      PROVE  (k \in DOMAIN rest <=> k \in DOMAIN made) /\ (k \in DOMAIN made => rest[k] = made[k])
  BY <1>7 DEF Restrict, Defaulted
<1> HIDE DEF rest
<1>8. ASSUME NEW k, k \notin Defaulted
      PROVE  (k \in DOMAIN p <=> k \in DOMAIN rest) /\ (k \in DOMAIN rest => p[k] = rest[k])
  BY <1>1, <1>4, <1>5, <1>8 DEF Defaulted
<1>9. ASSUME NEW k, k \notin Defaulted
      PROVE  (k \in DOMAIN p <=> k \in DOMAIN set) /\ (k \in DOMAIN p => p[k] = set[k])
  BY <1>6, <1>7, <1>8, <1>9
<1> QED BY <1>9 DEF set

\* What resolve refuses.
LEMMA ResolvedFacts ==
  ASSUME NEW p, NEW task \in Tasks, NEW mode, NEW over, ResolvedFrom(p, task, mode, over)
  PROVE  /\ Get(p, "facet_selected", {}) # {} => p.shape = "facet"
         /\ "facet_sort" \in DOMAIN p => Get(p, "metrics", {}) # {}
<1> DEFINE set == AskedWith(task, mode, over)
<1>1. /\ set.shape # "facet" => Get(set, "facet_selected", {}) = {}
      /\ "facet_sort" \in DOMAIN set => set.facet_sort \in Get(set, "metrics", {})
  BY DEF ResolvedFrom, Resolve, AskedWith
<1>2. \A k \in {"shape", "facet_selected", "facet_sort", "metrics"} :
        /\ k \in DOMAIN p <=> k \in DOMAIN set
        /\ k \in DOMAIN p => p[k] = set[k]
  BY ResolvedKeys DEF Defaulted
<1> HIDE DEF set
<1>3. Get(p, "facet_selected", {}) = Get(set, "facet_selected", {})
      /\ Get(p, "metrics", {}) = Get(set, "metrics", {})
  BY <1>2 DEF Get
<1>4. "shape" \in DOMAIN set
  <2>1. DOMAIN Presets[task] \subseteq DOMAIN set
    BY DEF set, AskedWith, ++
  <2>2. "shape" \in DOMAIN Presets[task]
    BY DEF Presets, Tasks
  <2> QED BY <2>1, <2>2
<1> QED BY <1>1, <1>2, <1>3, <1>4

\* What falls from each place to the next falls from the first to the last.
LEMMA Falling ==
  ASSUME NEW n \in Nat, NEW m, \A k \in 1..n : m[k] \in Int,
         \A k \in 1..(n - 1) : m[k] >= m[k + 1]
  PROVE  \A i, j \in 1..n : i < j => m[i] >= m[j]
<1> SUFFICES ASSUME NEW i \in 1..n, \E j \in 1..n : i < j /\ m[i] < m[j] PROVE FALSE
  OBVIOUS
<1> DEFINE Above == {j \in 1..n : i < j /\ m[i] < m[j]}
<1>1. Above \subseteq Nat /\ Above # {}
  OBVIOUS
<1>2. PICK j \in Above : \A k \in Above : ~(<<k, j>> \in OpToRel(<, Nat))
  <2> HIDE DEF Above
  <2> QED BY <1>1, WFMin, NatLessThanWellFounded
<1>3. j \in 1..n /\ i < j /\ m[i] < m[j]
  BY <1>2
<1>4. j - 1 \in 1..(n - 1) /\ j - 1 \in 1..n /\ m[j - 1] >= m[(j - 1) + 1] /\ (j - 1) + 1 = j
  BY <1>3
<1>5. j - 1 \notin Above
  <2>1. j - 1 \in Nat /\ j \in Nat /\ j - 1 < j
    BY <1>4
  <2>2. <<j - 1, j>> \in OpToRel(<, Nat)
    BY <2>1 DEF OpToRel
  <2> QED BY <1>2, <2>2
<1>6. j - 1 = i \/ m[i] >= m[j - 1]
  BY <1>3, <1>4, <1>5
<1> QED BY <1>3, <1>4, <1>6

\* Buckets are a sequence of at most so many.
LEMMA BucketsAre ==
  ASSUME NEW p, NEW a \in Answers(p)
  PROVE  \E n \in Nat : /\ DOMAIN a.buckets = 1..n /\ Len(a.buckets) = n
                        /\ \A k \in 1..n : a.buckets[k].metric \in Int
<1>1. a.buckets \in IF p.shape \in Faceted THEN UNION {[1..n -> Bucket(p)] : n \in 0..Buckets}
                    ELSE {<<>>}
  BY DEF Answers
<1>2. CASE a.buckets = <<>>
  BY <1>2
<1>3. CASE a.buckets \in UNION {[1..n -> Bucket(p)] : n \in 0..Buckets}
  <2>1. PICK n \in 0..Buckets : a.buckets \in [1..n -> Bucket(p)]
    BY <1>3
  <2>2. n \in Nat
    BY BucketsAssumption
  <2>3. a.buckets \in Seq(Bucket(p)) /\ Len(a.buckets) = n
    BY <2>1, <2>2
  <2>4. \A b \in Bucket(p) : b.metric \in {Absent, -1, 1, 2}
    BY DEF Bucket
  <2>5. {Absent, -1, 1, 2} \subseteq Int
    BY DEF Absent
  <2>6. \A k \in 1..n : a.buckets[k].metric \in Int
    BY <2>1, <2>4, <2>5
  <2> QED BY <2>1, <2>2, <2>3, <2>6
<1> QED BY <1>1, <1>2, <1>3

LEMMA AlikeHeld == Cases => HeldAlike
<1> SUFFICES ASSUME Cases, case.kind = "answer"
             PROVE  LET p == case.params
                        a == case.answer
                    IN  /\ (Request("rest", p) # Refused /\ a.total # -1) =>
                              (LuxirAccepts(p, a) <=> RestAccepts(p, a))
                        /\ ((LuxirAccepts(p, a) \/ RestAccepts(p, a)) /\ "facet_sort" \in DOMAIN p) =>
                              \A i, j \in DOMAIN a.buckets : i < j =>
                                  IF Get(p, "facet_sort_dir", "desc") = "desc"
                                    THEN a.buckets[i].metric >= a.buckets[j].metric
                                    ELSE a.buckets[i].metric <= a.buckets[j].metric
  BY DEF HeldAlike
<1> DEFINE p == case.params
           a == case.answer
<1>1. PICK task \in Tasks, mode \in CountModes, over \in Overrides :
        ResolvedFrom(p, task, mode, over)
  BY DEF Cases
<1>2. a \in Answers(p)
  BY DEF Cases
<1>3. /\ Get(p, "facet_selected", {}) # {} => p.shape = "facet"
      /\ "facet_sort" \in DOMAIN p => Get(p, "metrics", {}) # {}
  BY <1>1, ResolvedFacts
<1> HIDE DEF p, a
<1>4. ASSUME Request("rest", p) # Refused, a.total # -1
      PROVE  LuxirAccepts(p, a) <=> RestAccepts(p, a)
  <2>1. Get(p, "facet_selected", {}) = {}
    BY <1>3, <1>4 DEF Request, RestRequest
  <2> QED BY <1>4, <2>1 DEF LuxirAccepts, RestAccepts
<1>5. ASSUME LuxirAccepts(p, a) \/ RestAccepts(p, a), "facet_sort" \in DOMAIN p,
             NEW i \in DOMAIN a.buckets, NEW j \in DOMAIN a.buckets, i < j
      PROVE  IF Get(p, "facet_sort_dir", "desc") = "desc"
               THEN a.buckets[i].metric >= a.buckets[j].metric
               ELSE a.buckets[i].metric <= a.buckets[j].metric
  <2>1. PICK n \in Nat : /\ DOMAIN a.buckets = 1..n /\ Len(a.buckets) = n
                         /\ \A k \in 1..n : a.buckets[k].metric \in Int
    BY <1>2, BucketsAre
  <2>2. \A k \in 1..(n - 1) :
          IF Get(p, "facet_sort_dir", "desc") = "desc"
            THEN a.buckets[k].metric >= a.buckets[k + 1].metric
            ELSE a.buckets[k].metric <= a.buckets[k + 1].metric
    BY <1>3, <1>5, <2>1 DEF LuxirAccepts, RestAccepts, MetricsPass
  <2>3. CASE Get(p, "facet_sort_dir", "desc") = "desc"
    <3> DEFINE m == [k \in 1..n |-> a.buckets[k].metric]
    <3>1. \A k \in 1..n : m[k] \in Int
      BY <2>1
    <3>2. \A k \in 1..(n - 1) : m[k] >= m[k + 1]
      BY <2>1, <2>2, <2>3
    <3> HIDE DEF m
    <3>3. i \in 1..n /\ j \in 1..n /\ m[i] >= m[j]
      BY <1>5, <2>1, <3>1, <3>2, Falling
    <3> QED BY <2>3, <3>3 DEF m
  <2>4. CASE Get(p, "facet_sort_dir", "desc") # "desc"
    <3> DEFINE m == [k \in 1..n |-> 0 - a.buckets[k].metric]
    <3>1. \A k \in 1..n : m[k] \in Int
      BY <2>1
    <3>2. \A k \in 1..(n - 1) : m[k] >= m[k + 1]
      BY <2>1, <2>2, <2>4
    <3> HIDE DEF m
    <3>3. i \in 1..n /\ j \in 1..n /\ m[i] >= m[j]
      BY <1>5, <2>1, <3>1, <3>2, Falling
    <3>4. a.buckets[i].metric \in Int /\ a.buckets[j].metric \in Int
      BY <2>1, <3>3
    <3> QED BY <2>4, <3>3, <3>4 DEF m
  <2> QED BY <2>3, <2>4
<1> QED BY <1>4, <1>5 DEF p, a

\* An answer passes the one adapter exactly if it passes the other, and one
\* that passes has its buckets in the order asked for from the first to the last
\* (adapters.py: validate of both, check_bucket_metrics), for any overrides and any
\* number of buckets.
THEOREM AdaptersAgree == Spec => []HeldAlike
BY CaseStart, CaseGoes, AlikeHeld, PTL DEF Spec

\* What its shape needs is in a resolved parameter set.
LEMMA ResolvedNeeds ==
  ASSUME NEW p, NEW task \in Tasks, NEW mode, NEW over \in Overrides,
         ResolvedFrom(p, task, mode, over)
  PROVE  /\ p.shape \in DOMAIN Needed /\ Needed[p.shape] \subseteq DOMAIN p
         /\ "count_mode" \in DOMAIN p /\ "shape" \in DOMAIN p
         /\ p.shape = "get" => "get_impl" \in DOMAIN p
<1> DEFINE set == AskedWith(task, mode, over)
           asked == over ++ Presets[task]
<1>1. /\ DOMAIN set = DOMAIN asked \cup {"count_mode"}
      /\ \A k \in DOMAIN asked : set[k] = asked[k]
  BY DEF AskedWith, ++
<1>2. "shape" \in DOMAIN asked
  <2>1. "shape" \in DOMAIN Presets[task]
    BY DEF Presets, Tasks
  <2> QED BY <2>1 DEF ++
<1>3. asked.shape \in DOMAIN Needed /\ Needed[asked.shape] \subseteq DOMAIN asked
  BY OverridesAssumption
<1>4. \A k : k \notin Defaulted => (k \in DOMAIN p <=> k \in DOMAIN set) /\ (k \in DOMAIN p => p[k] = set[k])
  BY ResolvedKeys
<1> HIDE DEF set, asked
<1>5. "shape" \notin Defaulted /\ "count_mode" \notin Defaulted
  BY DEF Defaulted
<1>6. "shape" \in DOMAIN p /\ "count_mode" \in DOMAIN p /\ p.shape = asked.shape /\ p.shape = set.shape
  BY <1>1, <1>2, <1>4, <1>5
<1>7. \A s \in DOMAIN Needed : Needed[s] \cap Defaulted = {}
  BY DEF Needed, Defaulted
<1>8. Needed[p.shape] \subseteq DOMAIN p
  BY <1>1, <1>3, <1>4, <1>6, <1>7
<1>9. ASSUME p.shape = "get" PROVE "get_impl" \in DOMAIN p
  <2> DEFINE one == set ++ Given(set.shape # "mix", [request_cache |-> FALSE])
             made == one ++ Given(set.shape = "get", [get_impl |-> "boolean"])
             tier == Get(made, "filter_sel", "none")
             extra == Given(tier # "none", [filter_field |-> tier, filter_value |-> "t"])
             rest == Restrict(made, DOMAIN made \ {"filter_sel"})
  <2>1. p = rest ++ extra
    BY DEF ResolvedFrom, Resolve, AskedWith, set
  <2>2. Given(set.shape = "get", [get_impl |-> "boolean"]) = [get_impl |-> "boolean"]
    BY <1>6, <1>9 DEF Given
  <2>3. "get_impl" \in DOMAIN (one ++ [get_impl |-> "boolean"])
    BY DEF ++
  <2>4. "get_impl" \in DOMAIN made
    BY <2>2, <2>3
  <2> HIDE DEF made, extra
  <2>5. "get_impl" \in DOMAIN rest
    BY <2>4 DEF Restrict
  <2> HIDE DEF rest
  <2>6. DOMAIN (rest ++ extra) = DOMAIN rest \cup DOMAIN extra
    BY DEF ++
  <2> QED BY <2>1, <2>5, <2>6
<1> QED BY <1>3, <1>6, <1>8, <1>9

\* The two parameters that one of the engines never reads.
Tuning == {"request_cache", "max_parallel"}
AlikeBut(p, q) ==
  \A k : k \notin Tuning =>
    (k \in DOMAIN p <=> k \in DOMAIN q) /\ (k \in DOMAIN p => q[k] = p[k])

\* Nothing else follows from them.
LEMMA AlikeParts ==
  ASSUME NEW p, NEW q, AlikeBut(p, q), "shape" \in DOMAIN p, "count_mode" \in DOMAIN p,
         p.shape \in DOMAIN Needed, Needed[p.shape] \subseteq DOMAIN p
  PROVE  /\ q.shape = p.shape /\ q.count_mode = p.count_mode
         /\ \A k \in Needed[p.shape] : q[k] = p[k]
         /\ \A k, d : k \notin Tuning => Get(q, k, d) = Get(p, k, d)
         /\ Filters(q) = Filters(p) /\ WantsTotal(q) = WantsTotal(p)
         /\ \A e : Narrowed(e, q) = Narrowed(e, p)
         /\ Aggregations(q) = Aggregations(p)
<1>1. q.shape = p.shape /\ q.count_mode = p.count_mode
  BY DEF AlikeBut, Tuning
<1>2. \A k, d : k \notin Tuning => Get(q, k, d) = Get(p, k, d)
  BY DEF AlikeBut, Get
<1>3. \A k \in Needed[p.shape] : q[k] = p[k]
  <2>1. \A s \in DOMAIN Needed : Needed[s] \cap Tuning = {}
    BY DEF Needed, Tuning
  <2> QED BY <2>1 DEF AlikeBut
<1>4. Filters(q) = Filters(p)
  <2>1. Get(q, "filters", <<>>) = Get(p, "filters", <<>>)
    BY <1>2 DEF Tuning
  <2>2. Get(p, "filters", <<>>) # <<>> => "filters" \in DOMAIN p
    BY DEF Get
  <2>3. "filters" \in DOMAIN p => q.filters = p.filters
    BY DEF AlikeBut, Tuning
  <2>4. ("filter_field" \in DOMAIN q <=> "filter_field" \in DOMAIN p)
        /\ ("filter_field" \in DOMAIN p => q.filter_field = p.filter_field)
    BY DEF AlikeBut, Tuning
  <2> QED BY <2>1, <2>2, <2>3, <2>4 DEF Filters
<1>5. WantsTotal(q) = WantsTotal(p)
  BY <1>2 DEF WantsTotal, Tuning
<1>6. ASSUME NEW e PROVE Narrowed(e, q) = Narrowed(e, p)
  <2>1. /\ Get(q, "match_all", FALSE) = Get(p, "match_all", FALSE)
        /\ Get(q, "filter_mode", "top_docs") = Get(p, "filter_mode", "top_docs")
    BY <1>2 DEF Tuning
  <2> QED BY <1>4, <2>1, Zenon DEF Narrowed
<1>7. Aggregations(q) = Aggregations(p)
  <2>1. /\ Get(q, "metrics", {}) = Get(p, "metrics", {})
        /\ Get(q, "facet_sort_dir", "desc") = Get(p, "facet_sort_dir", "desc")
        /\ Get(q, "facet_selected", {}) = Get(p, "facet_selected", {})
    BY <1>2 DEF Tuning
  <2>2. ("facet_sort" \in DOMAIN q <=> "facet_sort" \in DOMAIN p)
        /\ ("facet_sort" \in DOMAIN p => q.facet_sort = p.facet_sort)
    BY DEF AlikeBut, Tuning
  <2>3. CASE p.shape = "facet"
    <3>1. q.facet_field = p.facet_field /\ q.facet_limit = p.facet_limit
      BY <1>3, <2>3 DEF Needed
    <3> QED BY <1>1, <2>1, <2>2, <2>3, <3>1 DEF Aggregations
  <2>4. CASE p.shape = "nested_facet"
    <3>1. /\ q.facet_field = p.facet_field /\ q.facet_limit = p.facet_limit
          /\ q.subfacet_field = p.subfacet_field /\ q.subfacet_limit = p.subfacet_limit
      BY <1>3, <2>4 DEF Needed
    <3> QED BY <1>1, <2>4, <3>1 DEF Aggregations
  <2>5. CASE p.shape = "date_facet"
    <3>1. q.date_field = p.date_field /\ q.date_gap = p.date_gap
      BY <1>3, <2>5 DEF Needed
    <3> QED BY <1>1, <2>5, <3>1 DEF Aggregations
  <2>6. CASE p.shape = "multi"
    <3>1. q.facets = p.facets /\ q.stats = p.stats
      BY <1>3, <2>6 DEF Needed
    <3> QED BY <1>1, <2>6, <3>1 DEF Aggregations
  <2>7. CASE p.shape \notin {"facet", "nested_facet", "date_facet", "multi"}
    BY <1>1, <2>7 DEF Aggregations
  <2> QED BY <2>3, <2>4, <2>5, <2>6, <2>7
<1> QED BY <1>1, <1>2, <1>3, <1>4, <1>5, <1>6, <1>7

\* An engine's request follows from the parameters that comparable_hash keeps.
LEMMA LuxirIgnores ==
  ASSUME NEW p, NEW q, AlikeBut(p, q), "shape" \in DOMAIN p, "count_mode" \in DOMAIN p,
         p.shape \in DOMAIN Needed, Needed[p.shape] \subseteq DOMAIN p,
         p.shape = "get" => "get_impl" \in DOMAIN p,
         Get(q, "max_parallel", 0) = Get(p, "max_parallel", 0)
  PROVE  LuxirRequest(q) = LuxirRequest(p)
<1>1. /\ q.shape = p.shape /\ q.count_mode = p.count_mode
      /\ \A k \in Needed[p.shape] : q[k] = p[k]
      /\ \A k, d : k \notin Tuning => Get(q, k, d) = Get(p, k, d)
      /\ WantsTotal(q) = WantsTotal(p)
      /\ \A e : Narrowed(e, q) = Narrowed(e, p)
      /\ Aggregations(q) = Aggregations(p)
  BY AlikeParts
<1>2. CASE p.shape = "get"
  <2>1. q.get_impl = p.get_impl
    BY <1>2 DEF AlikeBut, Tuning
  <2>2. q.batch_size = p.batch_size /\ q.fields = p.fields
    BY <1>1, <1>2 DEF Needed
  <2> QED BY <1>1, <1>2, <2>1, <2>2 DEF LuxirRequest
<1>3. CASE p.shape = "mix"
  BY <1>1, <1>3 DEF LuxirRequest
<1>4. CASE p.shape \notin {"get", "mix"}
  <2>1. q.limit = p.limit /\ q.fields = p.fields
    <3>1. {"limit", "fields"} \subseteq Needed[p.shape]
      BY <1>4 DEF Needed
    <3> QED BY <1>1, <3>1
  <2>2. /\ Get(q, "sort_field", "") = Get(p, "sort_field", "")
        /\ Get(q, "sort_dir", "asc") = Get(p, "sort_dir", "asc")
    BY <1>1 DEF Tuning
  <2>3. "sort_field" \in DOMAIN q <=> "sort_field" \in DOMAIN p
    BY DEF AlikeBut, Tuning
  <2> DEFINE limit(r) == [limit |-> r.limit]
             fields(r) == Given(r.fields # {}, [fields |-> r.fields])
             count(r) == Given(WantsTotal(r) /\ r.count_mode = "exact", [count_limit |-> -1])
             sort(r) == Given("sort_field" \in DOMAIN r,
                              [sort |-> <<Get(r, "sort_field", ""), Get(r, "sort_dir", "asc")>>])
             lanes(r) == Given(Get(r, "max_parallel", 0) # 0,
                               [max_parallel |-> Get(r, "max_parallel", 0)])
  <2>4. limit(q) = limit(p) /\ fields(q) = fields(p)
    BY <2>1
  <2>5. count(q) = count(p)
    BY <1>1 DEF Given
  <2>6. sort(q) = sort(p)
    BY <2>2, <2>3 DEF Given
  <2>7. lanes(q) = lanes(p)
    OBVIOUS
  <2>8. \A r : r.shape \notin {"get", "mix"} =>
          LuxirRequest(r) = IF Narrowed("luxir", r) = Refused THEN Refused
                            ELSE limit(r) ++ Narrowed("luxir", r) ++ fields(r) ++ count(r)
                                   ++ sort(r) ++ Aggregations(r) ++ lanes(r)
    BY DEF LuxirRequest
  <2> HIDE DEF limit, fields, count, sort, lanes
  <2>9. Narrowed("luxir", q) = Narrowed("luxir", p)
    BY <1>1
  <2> QED BY <1>1, <1>4, <2>4, <2>5, <2>6, <2>7, <2>8, <2>9
<1> QED BY <1>2, <1>3, <1>4

LEMMA RestIgnores ==
  ASSUME NEW p, NEW q, AlikeBut(p, q), "shape" \in DOMAIN p, "count_mode" \in DOMAIN p,
         p.shape \in DOMAIN Needed, Needed[p.shape] \subseteq DOMAIN p,
         q.request_cache = p.request_cache
  PROVE  RestRequest(q) = RestRequest(p) \/ p.shape = "mix"
<1> SUFFICES ASSUME p.shape # "mix" PROVE RestRequest(q) = RestRequest(p)
  OBVIOUS
<1>1. /\ q.shape = p.shape /\ q.count_mode = p.count_mode
      /\ \A k \in Needed[p.shape] : q[k] = p[k]
      /\ \A k, d : k \notin Tuning => Get(q, k, d) = Get(p, k, d)
      /\ WantsTotal(q) = WantsTotal(p)
      /\ \A e : Narrowed(e, q) = Narrowed(e, p)
      /\ Aggregations(q) = Aggregations(p)
  BY AlikeParts
<1>2. CASE p.shape = "get"
  <2>1. q.batch_size = p.batch_size /\ q.fields = p.fields
    BY <1>1, <1>2 DEF Needed
  <2> QED BY <1>1, <1>2, <2>1 DEF RestRequest
<1>3. CASE p.shape # "get"
  <2>1. q.limit = p.limit /\ q.fields = p.fields
    <3>1. {"limit", "fields"} \subseteq Needed[p.shape]
      BY <1>3 DEF Needed
    <3> QED BY <1>1, <3>1
  <2>2. /\ Get(q, "sort_field", "") = Get(p, "sort_field", "")
        /\ Get(q, "sort_dir", "asc") = Get(p, "sort_dir", "asc")
        /\ Get(q, "facet_selected", {}) = Get(p, "facet_selected", {})
    BY <1>1 DEF Tuning
  <2>3. "sort_field" \in DOMAIN q <=> "sort_field" \in DOMAIN p
    BY DEF AlikeBut, Tuning
  <2> DEFINE texts(r) == r.fields \cap {"body", "title"}
             asked(r) == [size |-> r.limit, source |-> texts(r), docvalues |-> r.fields \ texts(r)]
             cached(r) == [request_cache |-> r.request_cache]
             untold(r) == Given(~WantsTotal(r), [track_total_hits |-> FALSE])
             told(r) == Given(WantsTotal(r) /\ r.count_mode = "exact", [track_total_hits |-> TRUE])
             stored(r) == Given(r.limit # 0 /\ texts(r) = {}, [stored_fields |-> "_none_"])
             sort(r) == Given("sort_field" \in DOMAIN r,
                              [sort |-> <<Get(r, "sort_field", ""), Get(r, "sort_dir", "asc")>>])
  <2>4. asked(q) = asked(p) /\ cached(q) = cached(p)
    BY <2>1
  <2>5. untold(q) = untold(p) /\ told(q) = told(p)
    BY <1>1 DEF Given
  <2>6. sort(q) = sort(p) /\ stored(q) = stored(p)
    BY <2>1, <2>2, <2>3 DEF Given
  <2>7. \A r : r.shape # "get" =>
          RestRequest(r) = IF Narrowed("rest", r) = Refused \/ Get(r, "facet_selected", {}) # {}
                             THEN Refused
                             ELSE asked(r) ++ Narrowed("rest", r) ++ cached(r) ++ untold(r)
                                    ++ told(r) ++ stored(r) ++ sort(r) ++ Aggregations(r)
    BY DEF RestRequest
  <2> HIDE DEF asked, cached, untold, told, stored, sort
  <2>8. Narrowed("rest", q) = Narrowed("rest", p)
    BY <1>1
  <2> QED BY <1>1, <1>3, <2>2, <2>4, <2>5, <2>6, <2>7, <2>8
<1> QED BY <1>2, <1>3

LEMMA OneRequest == Cases => SameIdentitySameRequest
<1> SUFFICES ASSUME Cases, case.kind = "request",
                    NEW over \in [request_cache : BOOLEAN, max_parallel : {-1, 0, 1}]
             PROVE  LET p == case.params
                        q == IF p.shape = "mix" THEN p ELSE over ++ p
                    IN  Comparable(case.engine, p) = Comparable(case.engine, q) =>
                          Request(case.engine, p) = Request(case.engine, q)
  BY DEF SameIdentitySameRequest
<1> DEFINE p == case.params
           q == over ++ p
<1>1. PICK task \in Tasks, mode \in CountModes, set \in Overrides :
        ResolvedFrom(p, task, mode, set)
  BY DEF Cases
<1>2. /\ p.shape \in DOMAIN Needed /\ Needed[p.shape] \subseteq DOMAIN p
      /\ "count_mode" \in DOMAIN p /\ "shape" \in DOMAIN p
      /\ p.shape = "get" => "get_impl" \in DOMAIN p
  BY <1>1, ResolvedNeeds
<1>3. CASE p.shape = "mix"
  BY <1>3
<1>4. ASSUME p.shape # "mix", Comparable(case.engine, p) = Comparable(case.engine, q)
      PROVE  Request(case.engine, p) = Request(case.engine, q)
  <2>1. DOMAIN over = Tuning
    BY DEF Tuning
  <2>2. AlikeBut(p, q) /\ Tuning \subseteq DOMAIN q
    BY <2>1 DEF AlikeBut, ++
  <2> HIDE DEF p, q
  <2>3. q.shape = p.shape
    BY <1>2, <2>2 DEF AlikeBut, Tuning
  <2>4. CASE case.engine = "luxir"
    <3>1. DOMAIN Comparable("luxir", p) = DOMAIN p \ {"request_cache"}
          /\ DOMAIN Comparable("luxir", q) = DOMAIN q \ {"request_cache"}
      BY DEF Comparable, Inert, Restrict
    <3>2. "max_parallel" \in DOMAIN p /\ "max_parallel" \in DOMAIN q
      BY <1>4, <2>2, <2>4, <3>1 DEF Tuning
    <3>3. Comparable("luxir", p)["max_parallel"] = p.max_parallel
          /\ Comparable("luxir", q)["max_parallel"] = q.max_parallel
      BY <3>2 DEF Comparable, Inert, Restrict
    <3>4. Get(q, "max_parallel", 0) = Get(p, "max_parallel", 0)
      BY <1>4, <2>4, <3>2, <3>3 DEF Get
    <3>5. LuxirRequest(q) = LuxirRequest(p)
      BY <1>2, <2>2, <3>4, LuxirIgnores
    <3> QED BY <1>4, <2>3, <2>4, <3>5 DEF Request
  <2>5. CASE case.engine = "rest"
    <3>1. DOMAIN Comparable("rest", p) = DOMAIN p \ {"max_parallel"}
          /\ DOMAIN Comparable("rest", q) = DOMAIN q \ {"max_parallel"}
      BY DEF Comparable, Inert, Restrict
    <3>2. "request_cache" \in DOMAIN p /\ "request_cache" \in DOMAIN q
      BY <1>4, <2>2, <2>5, <3>1 DEF Tuning
    <3>3. Comparable("rest", p)["request_cache"] = p.request_cache
          /\ Comparable("rest", q)["request_cache"] = q.request_cache
      BY <3>2 DEF Comparable, Inert, Restrict
    <3>4. q.request_cache = p.request_cache
      BY <1>4, <2>5, <3>3
    <3>5. RestRequest(q) = RestRequest(p)
      BY <1>2, <1>4, <2>2, <3>4, RestIgnores
    <3> QED BY <1>4, <2>3, <2>5, <3>5 DEF Request
  <2>6. case.engine \in {"luxir", "rest"}
    BY DEF Cases, Engines
  <2> QED BY <2>4, <2>5, <2>6
<1> QED BY <1>3, <1>4

\* Parameter sets that comparable_hash identifies make an engine's one request,
\* whatever was overridden and whatever the parameters are that the other engine
\* alone reads (presets.py: comparable_hash; adapters.py: build).
THEOREM IdentityIsRequest == Spec => []SameIdentitySameRequest
BY CaseStart, CaseGoes, OneRequest, PTL DEF Spec

-----------------------------------------------------------------------------
(* The cells of the grids.  The parameters of a cell follow entry by entry  *)
(* from the override, which wins, the preset and the defaults (CellIs);     *)
(* the request follows from them part by part (LuxirCell, RestCell), and    *)
(* two requests are compared entry by entry (CellsApart, OneDelta).         *)

\* What a map has under a key: its value, or nothing.
Entry(f, k) == IF k \in DOMAIN f THEN <<f[k]>> ELSE <<>>

LEMMA Entries ==
  /\ \A f, g, k : Entry(f ++ g, k) = IF Entry(f, k) # <<>> THEN Entry(f, k) ELSE Entry(g, k)
  /\ \A c, f, k : Entry(Given(c, f), k) = IF c THEN Entry(f, k) ELSE <<>>
  /\ \A f, k : k \in DOMAIN f <=> Entry(f, k) # <<>>
  /\ \A f, k, v : Entry(f, k) = <<v>> => k \in DOMAIN f /\ f[k] = v
  /\ \A f, k, d : Get(f, k, d) = IF Entry(f, k) = <<>> THEN d ELSE f[k]
<1>0. \A v : <<v>> # <<>>
  OBVIOUS
<1>1. ASSUME NEW f, NEW g, NEW k
      PROVE  Entry(f ++ g, k) = IF Entry(f, k) # <<>> THEN Entry(f, k) ELSE Entry(g, k)
  <2> DEFINE h == f ++ g
  <2>1. /\ DOMAIN h = DOMAIN f \cup DOMAIN g
        /\ k \in DOMAIN f => h[k] = f[k]
        /\ k \notin DOMAIN f /\ k \in DOMAIN g => h[k] = g[k]
    BY DEF ++
  <2> HIDE DEF h
  <2>2. Entry(h, k) = IF Entry(f, k) # <<>> THEN Entry(f, k) ELSE Entry(g, k)
    BY <2>1 DEF Entry
  <2> QED BY <2>2 DEF h
<1>2. ASSUME NEW c, NEW f, NEW k PROVE Entry(Given(c, f), k) = IF c THEN Entry(f, k) ELSE <<>>
  BY DEF Entry, Given, Nothing
<1>3. \A f, k : k \in DOMAIN f <=> Entry(f, k) # <<>>
  BY DEF Entry
<1>4. \A f, k, v : Entry(f, k) = <<v>> => k \in DOMAIN f /\ f[k] = v
  BY DEF Entry
<1>5. \A f, k, d : Get(f, k, d) = IF Entry(f, k) = <<>> THEN d ELSE f[k]
  BY DEF Entry, Get
<1> QED BY <1>1, <1>2, <1>3, <1>4, <1>5

\* The pins a report of the model designates.
Pinned == [c \in Columns |-> [head |-> "head", tail |-> "tail"]]

\* What a grid asks for: its overrides, the preset's rest.
CellOver(spec, row, column, parallel) ==
  LET swept == IF spec.task = "SORT" THEN [sort_field |-> column]
               ELSE [facet_field |-> column, facet_limit |-> 10]
  IN  [limit |-> spec.limit] ++ swept
        ++ [match_all |-> TRUE, max_parallel |-> parallel,
            request_cache |-> FALSE, total_hits |-> FALSE]
        ++ Given(spec.selected, [facet_selected |-> {"head", "tail"}])
        ++ Given(row # "100", [filter_sel |-> row])

\* Its entries.
OverIs(over, spec, row, column, parallel) ==
  /\ Entry(over, "limit") = <<spec.limit>>
  /\ Entry(over, "sort_field") = IF spec.task = "SORT" THEN <<column>> ELSE <<>>
  /\ Entry(over, "facet_field") = IF spec.task = "SORT" THEN <<>> ELSE <<column>>
  /\ Entry(over, "facet_limit") = IF spec.task = "SORT" THEN <<>> ELSE <<10>>
  /\ Entry(over, "match_all") = <<TRUE>> /\ Entry(over, "max_parallel") = <<parallel>>
  /\ Entry(over, "request_cache") = <<FALSE>> /\ Entry(over, "total_hits") = <<FALSE>>
  /\ Entry(over, "facet_selected") = IF spec.selected THEN <<{"head", "tail"}>> ELSE <<>>
  /\ Entry(over, "filter_sel") = IF row # "100" THEN <<row>> ELSE <<>>
  /\ \A k : k \notin {"limit", "sort_field", "facet_field", "facet_limit", "match_all",
                      "max_parallel", "request_cache", "total_hits", "facet_selected",
                      "filter_sel"} => Entry(over, k) = <<>>

LEMMA OverEntries ==
  ASSUME NEW spec, NEW row, NEW column, NEW parallel, NEW over,
         over = CellOver(spec, row, column, parallel)
  PROVE  OverIs(over, spec, row, column, parallel)
<1> DEFINE one == [limit |-> spec.limit]
           swept == IF spec.task = "SORT" THEN [sort_field |-> column]
                    ELSE [facet_field |-> column, facet_limit |-> 10]
           fixed == [match_all |-> TRUE, max_parallel |-> parallel,
                     request_cache |-> FALSE, total_hits |-> FALSE]
           sel == [facet_selected |-> {"head", "tail"}]
           tier == [filter_sel |-> row]
<1>1. over = (((one ++ swept) ++ fixed) ++ Given(spec.selected, sel)) ++ Given(row # "100", tier)
  BY DEF CellOver
<1>2. \A k : Entry(one, k) = IF k = "limit" THEN <<spec.limit>> ELSE <<>>
  BY DEF Entry
<1>3. \A k : Entry(swept, k) =
        IF spec.task = "SORT" THEN IF k = "sort_field" THEN <<column>> ELSE <<>>
        ELSE IF k = "facet_field" THEN <<column>> ELSE IF k = "facet_limit" THEN <<10>> ELSE <<>>
  BY DEF Entry
<1>4. \A k : Entry(fixed, k) =
        IF k = "match_all" THEN <<TRUE>> ELSE IF k = "max_parallel" THEN <<parallel>>
        ELSE IF k = "request_cache" \/ k = "total_hits" THEN <<FALSE>> ELSE <<>>
  <2>1. /\ DOMAIN fixed = {"match_all", "max_parallel", "request_cache", "total_hits"}
        /\ fixed["max_parallel"] = parallel
    OBVIOUS
  <2>2. fixed["match_all"] = TRUE /\ fixed["request_cache"] = FALSE /\ fixed["total_hits"] = FALSE
    OBVIOUS
  <2> HIDE DEF fixed
  <2>3. \A k : k \in DOMAIN fixed => Entry(fixed, k) = <<fixed[k]>>
    BY DEF Entry
  <2>4. \A k : k \notin DOMAIN fixed => Entry(fixed, k) = <<>>
    BY DEF Entry
  <2>5. Entry(fixed, "match_all") = <<TRUE>>
    BY <2>1, <2>2, <2>3, Zenon
  <2>6. Entry(fixed, "request_cache") = <<FALSE>> /\ Entry(fixed, "total_hits") = <<FALSE>>
    BY <2>1, <2>2, <2>3, Zenon
  <2>7. Entry(fixed, "max_parallel") = <<parallel>>
    BY <2>1, <2>3
  <2> QED BY <2>1, <2>4, <2>5, <2>6, <2>7
<1>5. \A k : Entry(sel, k) = IF k = "facet_selected" THEN <<{"head", "tail"}>> ELSE <<>>
  <2>1. DOMAIN sel = {"facet_selected"} /\ sel["facet_selected"] = {"head", "tail"}
    OBVIOUS
  <2> HIDE DEF sel
  <2> QED BY <2>1 DEF Entry
<1>6. \A k : Entry(tier, k) = IF k = "filter_sel" THEN <<row>> ELSE <<>>
  BY DEF Entry
<1> HIDE DEF one, swept, fixed, sel, tier
<1>7. \A k : Entry(over, k) =
        IF Entry(one, k) # <<>> THEN Entry(one, k)
        ELSE IF Entry(swept, k) # <<>> THEN Entry(swept, k)
        ELSE IF Entry(fixed, k) # <<>> THEN Entry(fixed, k)
        ELSE IF spec.selected /\ Entry(sel, k) # <<>> THEN Entry(sel, k)
        ELSE IF row # "100" THEN Entry(tier, k) ELSE <<>>
  <2> DEFINE a == one ++ swept
             b == a ++ fixed
             more == Given(spec.selected, sel)
             c == b ++ more
             last == Given(row # "100", tier)
  <2> TAKE k
  <2>1. Entry(a, k) = IF Entry(one, k) # <<>> THEN Entry(one, k) ELSE Entry(swept, k)
    BY Entries
  <2>2. Entry(more, k) = IF spec.selected THEN Entry(sel, k) ELSE <<>>
    BY Entries
  <2>3. Entry(last, k) = IF row # "100" THEN Entry(tier, k) ELSE <<>>
    BY DEF Entry, Given, Nothing
  <2> HIDE DEF a, more, last
  <2>4. Entry(b, k) = IF Entry(a, k) # <<>> THEN Entry(a, k) ELSE Entry(fixed, k)
    BY Entries
  <2> HIDE DEF b
  <2>5. Entry(c, k) = IF Entry(b, k) # <<>> THEN Entry(b, k) ELSE Entry(more, k)
    BY Entries
  <2>6. over = c ++ last
    BY <1>1 DEF a, b, c, more, last
  <2> HIDE DEF c
  <2>7. Entry(over, k) = IF Entry(c, k) # <<>> THEN Entry(c, k) ELSE Entry(last, k)
    BY <2>6, Entries
  <2> QED BY <2>1, <2>2, <2>3, <2>4, <2>5, <2>7
<1>8. \A v : <<v>> # <<>>
  OBVIOUS
<1>9. Entry(over, "limit") = <<spec.limit>>
  BY <1>2, <1>7, <1>8
<1>10. Entry(over, "sort_field") = Entry(swept, "sort_field")
       /\ Entry(over, "facet_field") = Entry(swept, "facet_field")
       /\ Entry(over, "facet_limit") = Entry(swept, "facet_limit")
  <2>1. ASSUME NEW k \in {"sort_field", "facet_field", "facet_limit"}
        PROVE  Entry(over, k) = Entry(swept, k)
    <3>1. /\ Entry(one, k) = <<>> /\ Entry(fixed, k) = <<>> /\ Entry(sel, k) = <<>>
          /\ Entry(tier, k) = <<>>
      BY <1>2, <1>4, <1>5, <1>6
    <3> QED BY <1>7, <3>1
  <2> QED BY <2>1
<1>11. /\ Entry(over, "sort_field") = IF spec.task = "SORT" THEN <<column>> ELSE <<>>
       /\ Entry(over, "facet_field") = IF spec.task = "SORT" THEN <<>> ELSE <<column>>
       /\ Entry(over, "facet_limit") = IF spec.task = "SORT" THEN <<>> ELSE <<10>>
  <2>1. CASE spec.task = "SORT"
    <3>1. /\ Entry(swept, "sort_field") = <<column>> /\ Entry(swept, "facet_field") = <<>>
          /\ Entry(swept, "facet_limit") = <<>>
      BY <1>3, <2>1
    <3> QED BY <1>10, <2>1, <3>1
  <2>2. CASE spec.task # "SORT"
    <3>1. /\ Entry(swept, "sort_field") = <<>> /\ Entry(swept, "facet_field") = <<column>>
          /\ Entry(swept, "facet_limit") = <<10>>
      BY <1>3, <2>2
    <3> QED BY <1>10, <2>2, <3>1
  <2> QED BY <2>1, <2>2
<1>13. \A k \in {"match_all", "max_parallel", "request_cache", "total_hits"} :
         Entry(over, k) = Entry(fixed, k)
  BY <1>2, <1>3, <1>4, <1>7, <1>8
<1>14. Entry(over, "facet_selected") = IF spec.selected THEN <<{"head", "tail"}>> ELSE <<>>
  BY <1>2, <1>3, <1>4, <1>5, <1>6, <1>7, <1>8
<1>15. Entry(over, "filter_sel") = IF row # "100" THEN <<row>> ELSE <<>>
  BY <1>2, <1>3, <1>4, <1>5, <1>6, <1>7, <1>8
<1>16. ASSUME NEW k, k \notin {"limit", "sort_field", "facet_field", "facet_limit", "match_all",
                              "max_parallel", "request_cache", "total_hits", "facet_selected",
                              "filter_sel"}
       PROVE  Entry(over, k) = <<>>
  BY <1>2, <1>3, <1>4, <1>5, <1>6, <1>7, <1>8, <1>16
<1>17. /\ Entry(over, "match_all") = <<TRUE>> /\ Entry(over, "max_parallel") = <<parallel>>
       /\ Entry(over, "request_cache") = <<FALSE>> /\ Entry(over, "total_hits") = <<FALSE>>
  BY <1>4, <1>13
<1> QED
  BY <1>9, <1>11, <1>14, <1>15, <1>16, <1>17, Zenon DEF OverIs

\* The presets that grids are made of.
GridTasks == {"FACET_1M", "FACET_METRIC", "FACET_METRIC_SORT", "SORT"}

LEMMA PresetEntries ==
  ASSUME NEW task \in GridTasks
  PROVE  /\ task \in Tasks
         /\ Entry(Presets[task], "shape") = IF task = "SORT" THEN <<"top_docs">> ELSE <<"facet">>
         /\ Entry(Presets[task], "fields") = <<{"id"}>>
         /\ Entry(Presets[task], "metrics") = IF task \in {"FACET_METRIC", "FACET_METRIC_SORT"}
                                              THEN <<{"price_avg"}>> ELSE <<>>
         /\ Entry(Presets[task], "facet_sort") = IF task = "FACET_METRIC_SORT"
                                                 THEN <<"price_avg">> ELSE <<>>
         /\ Entry(Presets[task], "facet_sort_dir") = IF task = "FACET_METRIC_SORT"
                                                     THEN <<"desc">> ELSE <<>>
         /\ task # "SORT" => Entry(Presets[task], "sort_field") = <<>>
         /\ \A k \in {"filters", "filter_mode", "filter_field", "filter_value", "filter_sel",
                      "facet_selected", "get_impl", "request_cache"} :
              Entry(Presets[task], k) = <<>>
<1>1. CASE task = "FACET_1M"
  <2>1. Presets["FACET_1M"] = [shape |-> "facet", limit |-> 10, fields |-> {"id"},
                               facet_field |-> "cat1m_s", facet_limit |-> 10]
    BY DEF Presets
  <2> QED BY <1>1, <2>1 DEF Entry, Tasks, Presets
<1>2. CASE task = "FACET_METRIC"
  <2>1. Presets["FACET_METRIC"] = [shape |-> "facet", limit |-> 10, fields |-> {"id"},
                                   facet_field |-> "cat1m_s", facet_limit |-> 10,
                                   metrics |-> {"price_avg"}]
    BY DEF Presets
  <2> QED BY <1>2, <2>1 DEF Entry, Tasks, Presets
<1>3. CASE task = "FACET_METRIC_SORT"
  <2>1. Presets["FACET_METRIC_SORT"] =
          [shape |-> "facet", limit |-> 10, fields |-> {"id"},
           facet_field |-> "cat1m_s", facet_limit |-> 10, metrics |-> {"price_avg"},
           facet_sort |-> "price_avg", facet_sort_dir |-> "desc"]
    BY DEF Presets
  <2> QED BY <1>3, <2>1 DEF Entry, Tasks, Presets
<1>4. CASE task = "SORT"
  <2>1. Presets["SORT"] = [shape |-> "top_docs", limit |-> 10, fields |-> {"id"},
                           sort_field |-> "price_i", sort_dir |-> "asc", total_hits |-> FALSE]
    BY DEF Presets
  <2> QED BY <1>4, <2>1 DEF Entry, Tasks, Presets
<1> QED BY <1>1, <1>2, <1>3, <1>4 DEF GridTasks

\* A payload grid is read against one of the bare facet: it has another payload and
\* the same limit, or retrieves documents and has the same payload.
LEMMA GridSpecs ==
  ASSUME NEW grid \in DOMAIN Grids
  PROVE  /\ Grids[grid].task \in GridTasks
         /\ Grids[grid].selected => Grids[grid].task = "FACET_1M"
         /\ Grids[grid].base # "none" =>
              /\ Grids[grid].base \in DOMAIN Grids
              /\ Grids[Grids[grid].base].task = "FACET_1M"
              /\ ~Grids[Grids[grid].base].selected
              /\ Grids[grid].task # "SORT"
              /\ \/ /\ Grids[grid].limit = Grids[Grids[grid].base].limit
                    /\ Grids[grid].selected \/ Grids[grid].task # "FACET_1M"
                 \/ /\ Grids[grid].limit = 10 /\ Grids[Grids[grid].base].limit = 0
                    /\ ~Grids[grid].selected /\ Grids[grid].task = "FACET_1M"
<1>1. DOMAIN Grids = {"facet", "facet_metric", "facet_metric_sort", "facet_selected", "facet_top10",
                     "facet_selected_top10", "sort10", "sort10k"}
  BY DEF Grids
<1>2. /\ Grids["facet"].task = "FACET_1M" /\ Grids["facet"].limit = 0
      /\ Grids["facet"].base = "none"
      /\ Grids["facet_metric"].task = "FACET_METRIC" /\ Grids["facet_metric"].limit = 0
      /\ Grids["facet_metric"].base = "facet"
      /\ Grids["facet_metric_sort"].task = "FACET_METRIC_SORT" /\ Grids["facet_metric_sort"].limit = 0
      /\ Grids["facet_metric_sort"].base = "facet"
      /\ Grids["facet_selected"].task = "FACET_1M" /\ Grids["facet_selected"].limit = 0
      /\ Grids["facet_selected"].base = "facet"
      /\ Grids["facet_top10"].task = "FACET_1M" /\ Grids["facet_top10"].limit = 10
      /\ Grids["facet_top10"].base = "facet"
      /\ Grids["facet_selected_top10"].task = "FACET_1M" /\ Grids["facet_selected_top10"].limit = 10
      /\ Grids["facet_selected_top10"].base = "facet_top10"
      /\ Grids["sort10"].task = "SORT" /\ Grids["sort10"].limit = 10
      /\ Grids["sort10"].base = "none"
      /\ Grids["sort10k"].task = "SORT" /\ Grids["sort10k"].limit = 10000
      /\ Grids["sort10k"].base = "none"
  BY DEF Grids
<1>3. /\ Grids["facet_selected"].selected /\ Grids["facet_selected_top10"].selected
      /\ ~Grids["facet"].selected
      /\ ~Grids["facet_metric"].selected
      /\ ~Grids["facet_metric_sort"].selected
      /\ ~Grids["facet_top10"].selected
      /\ ~Grids["sort10"].selected
      /\ ~Grids["sort10k"].selected
  BY DEF Grids
<1>4. CASE grid = "facet" BY <1>1, <1>2, <1>3, <1>4 DEF GridTasks
<1>5. CASE grid = "facet_metric" BY <1>1, <1>2, <1>3, <1>5 DEF GridTasks
<1>6. CASE grid = "facet_metric_sort" BY <1>1, <1>2, <1>3, <1>6 DEF GridTasks
<1>7. CASE grid = "facet_selected" BY <1>1, <1>2, <1>3, <1>7 DEF GridTasks
<1>8. CASE grid = "facet_top10" BY <1>1, <1>2, <1>3, <1>8 DEF GridTasks
<1>9. CASE grid = "facet_selected_top10" BY <1>1, <1>2, <1>3, <1>9 DEF GridTasks
<1>10. CASE grid = "sort10" BY <1>1, <1>2, <1>3, <1>10 DEF GridTasks
<1>11. CASE grid = "sort10k" BY <1>1, <1>2, <1>3, <1>11 DEF GridTasks
<1> QED BY <1>1, <1>4, <1>5, <1>6, <1>7, <1>8, <1>9, <1>10, <1>11

\* The parameters of a cell.
CellParams(p, spec, row, column, parallel) ==
  /\ Entry(p, "shape") = IF spec.task = "SORT" THEN <<"top_docs">> ELSE <<"facet">>
  /\ Entry(p, "limit") = <<spec.limit>>
  /\ Entry(p, "fields") = <<{"id"}>>
  /\ Entry(p, "match_all") = <<TRUE>>
  /\ Entry(p, "filters") = <<>>
  /\ Entry(p, "filter_mode") = <<>>
  /\ Entry(p, "filter_field") = IF row = "100" THEN <<>> ELSE <<row>>
  /\ Entry(p, "total_hits") = <<FALSE>>
  /\ Entry(p, "request_cache") = <<FALSE>>
  /\ Entry(p, "max_parallel") = <<parallel>>
  /\ Entry(p, "sort_field") = IF spec.task = "SORT" THEN <<column>> ELSE <<>>
  /\ spec.task # "SORT" => Entry(p, "facet_field") = <<column>> /\ Entry(p, "facet_limit") = <<10>>
  /\ Entry(p, "metrics") = IF spec.task \in {"FACET_METRIC", "FACET_METRIC_SORT"}
                           THEN <<{"price_avg"}>> ELSE <<>>
  /\ Entry(p, "facet_sort") = IF spec.task = "FACET_METRIC_SORT" THEN <<"price_avg">> ELSE <<>>
  /\ Entry(p, "facet_selected") = IF spec.selected THEN <<{"head", "tail"}>> ELSE <<>>

\* resolve_grid_cell makes them, for every grid, row and column.
LEMMA CellIs ==
  ASSUME NEW grid \in DOMAIN Grids, NEW row \in Rows, NEW column \in Columns, NEW parallel
  PROVE  CellParams(GridCell(grid, row, column, parallel, Pinned), Grids[grid],
                    row, column, parallel)
<1> DEFINE spec == Grids[grid]
           p == GridCell(grid, row, column, parallel, Pinned)
           over == CellOver(spec, row, column, parallel)
           preset == Presets[spec.task]
           set == over ++ preset ++ [count_mode |-> "exact"]
           one == Given(set.shape # "mix", [request_cache |-> FALSE])
           two == Given(set.shape = "get", [get_impl |-> "boolean"])
           made == set ++ one ++ two
           tier == Get(made, "filter_sel", "none")
           extra == Given(tier # "none", [filter_field |-> tier, filter_value |-> "t"])
           rest == Restrict(made, DOMAIN made \ {"filter_sel"})
<1>1. spec.task \in GridTasks /\ (spec.selected => spec.task = "FACET_1M")
  BY GridSpecs
<1>2. Designated(Pinned, column) = {"head", "tail"}
  BY DEF Designated, Pinned
<1>3. p = Resolve(spec.task, "exact", over)
  BY <1>2, Zenon DEF GridCell, CellOver
<1>4. \A v : <<v>> # <<>>
  OBVIOUS
<1> HIDE DEF spec, over
<1>5. /\ spec.task \in Tasks
      /\ Entry(preset, "shape") = IF spec.task = "SORT" THEN <<"top_docs">> ELSE <<"facet">>
      /\ Entry(preset, "fields") = <<{"id"}>>
      /\ Entry(preset, "metrics") = IF spec.task \in {"FACET_METRIC", "FACET_METRIC_SORT"}
                                    THEN <<{"price_avg"}>> ELSE <<>>
      /\ Entry(preset, "facet_sort") = IF spec.task = "FACET_METRIC_SORT" THEN <<"price_avg">> ELSE <<>>
      /\ Entry(preset, "facet_sort_dir") = IF spec.task = "FACET_METRIC_SORT" THEN <<"desc">> ELSE <<>>
      /\ spec.task # "SORT" => Entry(preset, "sort_field") = <<>>
      /\ \A k \in {"filters", "filter_mode", "filter_field", "filter_value", "filter_sel",
                   "facet_selected", "get_impl", "request_cache"} : Entry(preset, k) = <<>>
  BY <1>1, PresetEntries
<1> HIDE DEF preset
<1>6. ASSUME NEW k, k # "count_mode"
      PROVE  Entry(set, k) = IF Entry(over, k) # <<>> THEN Entry(over, k) ELSE Entry(preset, k)
  <2> DEFINE mode == [count_mode |-> "exact"]
             asked == over ++ preset
  <2>1. Entry(mode, k) = <<>>
    BY <1>6 DEF Entry
  <2>2. Entry(asked, k) = IF Entry(over, k) # <<>> THEN Entry(over, k) ELSE Entry(preset, k)
    BY Entries
  <2> HIDE DEF mode, asked
  <2>3. Entry(asked ++ mode, k) = IF Entry(asked, k) # <<>> THEN Entry(asked, k) ELSE Entry(mode, k)
    BY Entries
  <2> QED BY <2>1, <2>2, <2>3 DEF mode, asked
<1> HIDE DEF set
<1>7. /\ Entry(set, "shape") = IF spec.task = "SORT" THEN <<"top_docs">> ELSE <<"facet">>
      /\ Entry(set, "limit") = <<spec.limit>>
      /\ Entry(set, "fields") = <<{"id"}>>
      /\ Entry(set, "match_all") = <<TRUE>> /\ Entry(set, "max_parallel") = <<parallel>>
      /\ Entry(set, "request_cache") = <<FALSE>> /\ Entry(set, "total_hits") = <<FALSE>>
      /\ Entry(set, "filters") = <<>> /\ Entry(set, "filter_mode") = <<>>
      /\ Entry(set, "filter_field") = <<>> /\ Entry(set, "get_impl") = <<>>
      /\ Entry(set, "filter_sel") = IF row # "100" THEN <<row>> ELSE <<>>
      /\ Entry(set, "facet_selected") = IF spec.selected THEN <<{"head", "tail"}>> ELSE <<>>
      /\ Entry(set, "metrics") = IF spec.task \in {"FACET_METRIC", "FACET_METRIC_SORT"}
                                 THEN <<{"price_avg"}>> ELSE <<>>
      /\ Entry(set, "facet_sort") = IF spec.task = "FACET_METRIC_SORT" THEN <<"price_avg">> ELSE <<>>
      /\ Entry(set, "facet_sort_dir") = IF spec.task = "FACET_METRIC_SORT" THEN <<"desc">> ELSE <<>>
  <2>0. /\ Entry(over, "limit") = <<spec.limit>>
        /\ Entry(over, "match_all") = <<TRUE>> /\ Entry(over, "max_parallel") = <<parallel>>
        /\ Entry(over, "request_cache") = <<FALSE>> /\ Entry(over, "total_hits") = <<FALSE>>
        /\ Entry(over, "facet_selected") = IF spec.selected THEN <<{"head", "tail"}>> ELSE <<>>
        /\ Entry(over, "filter_sel") = IF row # "100" THEN <<row>> ELSE <<>>
        /\ \A k : k \notin {"limit", "sort_field", "facet_field", "facet_limit", "match_all",
                             "max_parallel", "request_cache", "total_hits", "facet_selected",
                             "filter_sel"} => Entry(over, k) = <<>>
    <3> HIDE DEF over
    <3>1. over = CellOver(spec, row, column, parallel)
      BY DEF over
    <3>2. OverIs(over, spec, row, column, parallel)
      BY <3>1, OverEntries
    <3> QED BY <3>2, Zenon DEF OverIs
  <2>1. /\ Entry(over, "limit") = <<spec.limit>>
        /\ Entry(over, "match_all") = <<TRUE>> /\ Entry(over, "max_parallel") = <<parallel>>
        /\ Entry(over, "request_cache") = <<FALSE>> /\ Entry(over, "total_hits") = <<FALSE>>
        /\ Entry(over, "facet_selected") = IF spec.selected THEN <<{"head", "tail"}>> ELSE <<>>
        /\ Entry(over, "filter_sel") = IF row # "100" THEN <<row>> ELSE <<>>
        /\ \A k \in {"shape", "fields", "filters", "filter_mode", "filter_field", "get_impl", "metrics",
                     "facet_sort", "facet_sort_dir"} : Entry(over, k) = <<>>
    <3> HIDE DEF over
    <3>1. \A k \in {"shape", "fields", "filters", "filter_mode", "filter_field", "get_impl", "metrics",
                    "facet_sort", "facet_sort_dir"} : Entry(over, k) = <<>>
      BY <2>0
    <3> QED BY <2>0, <3>1, Zenon
  <2>2. /\ Entry(set, "limit") = Entry(over, "limit") /\ Entry(set, "match_all") = Entry(over, "match_all")
        /\ Entry(set, "max_parallel") = Entry(over, "max_parallel")
        /\ Entry(set, "request_cache") = Entry(over, "request_cache")
        /\ Entry(set, "total_hits") = Entry(over, "total_hits")
    BY <1>4, <1>6, <2>1
  <2>3. \A k \in {"shape", "fields", "filters", "filter_mode", "filter_field", "get_impl", "metrics",
                  "facet_sort", "facet_sort_dir"} : Entry(set, k) = Entry(preset, k)
    BY <1>6, <2>1
  <2>4. Entry(set, "filter_sel") = Entry(over, "filter_sel")
        /\ Entry(set, "facet_selected") = Entry(over, "facet_selected")
    BY <1>5, <1>6
  <2> HIDE DEF over, set, preset
  <2>5. /\ Entry(set, "shape") = Entry(preset, "shape") /\ Entry(set, "fields") = Entry(preset, "fields")
        /\ Entry(set, "filters") = Entry(preset, "filters")
        /\ Entry(set, "filter_mode") = Entry(preset, "filter_mode")
        /\ Entry(set, "filter_field") = Entry(preset, "filter_field")
        /\ Entry(set, "get_impl") = Entry(preset, "get_impl")
        /\ Entry(set, "metrics") = Entry(preset, "metrics")
        /\ Entry(set, "facet_sort") = Entry(preset, "facet_sort")
        /\ Entry(set, "facet_sort_dir") = Entry(preset, "facet_sort_dir")
    BY <2>3
  <2>6. /\ Entry(preset, "filters") = <<>> /\ Entry(preset, "filter_mode") = <<>>
        /\ Entry(preset, "filter_field") = <<>> /\ Entry(preset, "get_impl") = <<>>
    BY <1>5
  <2> QED BY <1>5, <2>1, <2>2, <2>4, <2>5, <2>6, Zenon
<1>8. ASSUME NEW k, k \notin {"request_cache", "get_impl"} PROVE Entry(made, k) = Entry(set, k)
  <2>1. Entry([request_cache |-> FALSE], k) = <<>> /\ Entry([get_impl |-> "boolean"], k) = <<>>
    BY <1>8 DEF Entry
  <2>2. Entry(one, k) = <<>> /\ Entry(two, k) = <<>>
    <3>1. DOMAIN one \subseteq {"request_cache"} /\ DOMAIN two \subseteq {"get_impl"}
      BY DEF Given, Nothing
    <3> HIDE DEF one, two
    <3> QED BY <1>8, <3>1 DEF Entry
  <2> HIDE DEF one, two
  <2> DEFINE half == set ++ one
  <2>3. Entry(half, k) = IF Entry(set, k) # <<>> THEN Entry(set, k) ELSE Entry(one, k)
    BY Entries
  <2> HIDE DEF half
  <2>4. Entry(half ++ two, k) = IF Entry(half, k) # <<>> THEN Entry(half, k) ELSE Entry(two, k)
    BY Entries
  <2> QED BY <2>2, <2>3, <2>4 DEF half
<1>9. Entry(made, "request_cache") = <<FALSE>>
  <2> HIDE DEF one, two
  <2> DEFINE half == set ++ one
  <2>1. Entry(half, "request_cache") = IF Entry(set, "request_cache") # <<>>
                                       THEN Entry(set, "request_cache") ELSE Entry(one, "request_cache")
    BY Entries
  <2>2. Entry(set, "request_cache") # <<>>
    BY <1>4, <1>7
  <2> HIDE DEF half
  <2>3. Entry(half ++ two, "request_cache") =
          IF Entry(half, "request_cache") # <<>> THEN Entry(half, "request_cache")
          ELSE Entry(two, "request_cache")
    BY Entries
  <2>4. Entry(set, "request_cache") = <<FALSE>>
    BY <1>7, Zenon
  <2>5. Entry(half ++ two, "request_cache") = Entry(set, "request_cache")
    BY <2>1, <2>2, <2>3
  <2> QED BY <2>4, <2>5, Zenon DEF half
<1> HIDE DEF made
<1>10. tier = IF row # "100" THEN row ELSE "none"
  <2>1. Entry(made, "filter_sel") = IF row # "100" THEN <<row>> ELSE <<>>
    <3>1. Entry(set, "filter_sel") = IF row # "100" THEN <<row>> ELSE <<>>
      BY <1>7, Zenon
    <3> QED BY <1>8, <3>1
  <2>2. CASE row = "100"
    BY <2>1, <2>2, Entries
  <2>3. CASE row # "100"
    BY <1>4, <2>1, <2>3, Entries
  <2> QED BY <2>2, <2>3
<1> HIDE DEF tier
<1>11. row \in {"90", "1", "100"}
  BY DEF Rows, Tiers
<1>12. Entry(extra, "filter_field") = IF row = "100" THEN <<>> ELSE <<row>>
  <2>1. CASE row = "100"
    BY <1>10, <2>1 DEF Given, Nothing, Entry
  <2>2. CASE row # "100"
    BY <1>10, <1>11, <2>2 DEF Given, Entry
  <2> QED BY <2>1, <2>2
<1>13. ASSUME NEW k, k \notin {"filter_field", "filter_value"} PROVE Entry(extra, k) = <<>>
  <2>1. DOMAIN extra \subseteq {"filter_field", "filter_value"}
    BY DEF Given, Nothing
  <2> HIDE DEF extra
  <2> QED BY <1>13, <2>1 DEF Entry
<1> HIDE DEF extra
<1>14. ASSUME NEW k, k # "filter_sel" PROVE Entry(rest, k) = Entry(made, k)
  BY <1>14 DEF Restrict, Entry
<1> HIDE DEF rest
<1>15. p = rest ++ extra
  <2>1. set.shape \in {"facet", "top_docs"} /\ (set.shape # "facet" => spec.task = "SORT")
    <3>1. Entry(set, "shape") = IF spec.task = "SORT" THEN <<"top_docs">> ELSE <<"facet">>
      BY <1>7, Zenon
    <3>2. CASE spec.task = "SORT" BY <3>1, <3>2, Entries
    <3>3. CASE spec.task # "SORT" BY <3>1, <3>3, Entries
    <3> QED BY <3>2, <3>3
  <2>2. tier \in Tiers \cup {"none"}
    BY <1>10, <1>11 DEF Tiers
  <2>3. ASSUME set.shape # "facet"
        PROVE  Get(set, "metrics", {}) = {} /\ Get(set, "facet_selected", {}) = {}
    <3>1. spec.task = "SORT" /\ ~spec.selected
      BY <1>1, <2>1, <2>3
    <3>2. /\ Entry(set, "metrics") = IF spec.task \in {"FACET_METRIC", "FACET_METRIC_SORT"}
                                     THEN <<{"price_avg"}>> ELSE <<>>
          /\ Entry(set, "facet_selected") = IF spec.selected THEN <<{"head", "tail"}>> ELSE <<>>
      BY <1>7, Zenon
    <3>3. Entry(set, "metrics") = <<>> /\ Entry(set, "facet_selected") = <<>>
      BY <3>1, <3>2
    <3> QED BY <3>3, Entries
  <2>4. ASSUME "facet_sort" \in DOMAIN set
        PROVE  set.facet_sort \in Get(set, "metrics", {}) /\ Get(set, "facet_sort_dir", "desc") = "desc"
    <3>0. Entry(set, "facet_sort") # <<>>
      BY <2>4, Entries
    <3>1. /\ Entry(set, "facet_sort") = IF spec.task = "FACET_METRIC_SORT" THEN <<"price_avg">> ELSE <<>>
          /\ Entry(set, "facet_sort_dir") = IF spec.task = "FACET_METRIC_SORT" THEN <<"desc">> ELSE <<>>
          /\ Entry(set, "metrics") = IF spec.task \in {"FACET_METRIC", "FACET_METRIC_SORT"}
                                     THEN <<{"price_avg"}>> ELSE <<>>
      BY <1>7, Zenon
    <3>2. spec.task = "FACET_METRIC_SORT"
      BY <3>0, <3>1
    <3>3. /\ Entry(set, "facet_sort") = <<"price_avg">> /\ Entry(set, "facet_sort_dir") = <<"desc">>
          /\ Entry(set, "metrics") = <<{"price_avg"}>>
      BY <3>1, <3>2
    <3>4. set.facet_sort = "price_avg" /\ set.facet_sort_dir = "desc" /\ set.metrics = {"price_avg"}
      BY <3>3, Entries
    <3>5. Get(set, "metrics", {}) = {"price_avg"} /\ Get(set, "facet_sort_dir", "desc") = "desc"
      BY <1>4, <3>3, <3>4, Entries
    <3> QED BY <3>4, <3>5
  <2>5. set.shape # "mix"
    BY <2>1
  <2> DEFINE asked == over ++ preset ++ [count_mode |-> "exact"]
             parts == asked ++ Given(asked.shape # "mix", [request_cache |-> FALSE])
                            ++ Given(asked.shape = "get", [get_impl |-> "boolean"])
             level == Get(parts, "filter_sel", "none")
  <2>6. asked = set /\ parts = made /\ level = tier
    BY DEF set, made, tier
  <2>7. ~(\/ asked.shape = "mix" /\ DOMAIN over # {}
          \/ level \notin Tiers \cup {"none"}
          \/ /\ asked.shape # "facet"
             /\ Get(asked, "metrics", {}) # {} \/ Get(asked, "facet_selected", {}) # {}
          \/ /\ "facet_sort" \in DOMAIN asked
             /\ \/ asked.facet_sort \notin Get(asked, "metrics", {})
                \/ Get(asked, "facet_sort_dir", "desc") \notin {"asc", "desc"})
    <3> HIDE DEF asked, parts, level
    <3> QED BY <2>2, <2>3, <2>4, <2>5, <2>6
  <2>8. rest ++ extra = Restrict(parts, DOMAIN parts \ {"filter_sel"})
                          ++ Given(level # "none", [filter_field |-> level, filter_value |-> "t"])
    BY <2>6 DEF rest, extra
  <2> QED BY <1>3, <2>7, <2>8, Zenon DEF Resolve, preset
<1> HIDE DEF p
<1>16. ASSUME NEW k, k \notin {"request_cache", "get_impl", "filter_sel", "filter_field", "filter_value"}
       PROVE  Entry(p, k) = Entry(set, k)
  BY <1>8, <1>13, <1>14, <1>15, <1>16, Entries
<1>17. Entry(p, "request_cache") = <<FALSE>>
  <2>1. Entry(p, "request_cache") = Entry(made, "request_cache")
    <3>1. Entry(rest, "request_cache") = Entry(made, "request_cache")
      BY <1>14
    <3>2. Entry(made, "request_cache") # <<>>
      BY <1>4, <1>9, Zenon
    <3>3. Entry(rest ++ extra, "request_cache") =
            IF Entry(rest, "request_cache") # <<>> THEN Entry(rest, "request_cache")
            ELSE Entry(extra, "request_cache")
      BY Entries
    <3> QED BY <1>15, <3>1, <3>2, <3>3
  <2> QED BY <1>9, <2>1, Zenon
<1>18. Entry(p, "filter_field") = IF row = "100" THEN <<>> ELSE <<row>>
  <2>1. Entry(rest, "filter_field") = <<>>
    <3>1. Entry(set, "filter_field") = <<>>
      BY <1>7, Zenon
    <3> QED BY <1>8, <1>14, <3>1
  <2>2. Entry(rest ++ extra, "filter_field") =
          IF Entry(rest, "filter_field") # <<>> THEN Entry(rest, "filter_field")
          ELSE Entry(extra, "filter_field")
    BY Entries
  <2> QED BY <1>12, <1>15, <2>1, <2>2
<1>19. /\ Entry(set, "sort_field") = IF spec.task = "SORT" THEN <<column>> ELSE <<>>
       /\ spec.task # "SORT" => Entry(set, "facet_field") = <<column>> /\ Entry(set, "facet_limit") = <<10>>
  <2>0. OverIs(over, spec, row, column, parallel)
    BY OverEntries DEF over
  <2>1. /\ Entry(over, "sort_field") = IF spec.task = "SORT" THEN <<column>> ELSE <<>>
        /\ Entry(over, "facet_field") = IF spec.task = "SORT" THEN <<>> ELSE <<column>>
        /\ Entry(over, "facet_limit") = IF spec.task = "SORT" THEN <<>> ELSE <<10>>
    BY <2>0, Zenon DEF OverIs
  <2>2. CASE spec.task = "SORT"
    <3>1. Entry(over, "sort_field") = <<column>>
      BY <2>1, <2>2
    <3> QED BY <1>4, <1>6, <2>2, <3>1
  <2>3. CASE spec.task # "SORT"
    <3>1. /\ Entry(over, "sort_field") = <<>> /\ Entry(over, "facet_field") = <<column>>
          /\ Entry(over, "facet_limit") = <<10>>
      BY <2>1, <2>3
    <3>2. Entry(preset, "sort_field") = <<>>
      BY <1>5, <2>3, Zenon
    <3> QED BY <1>4, <1>6, <2>3, <3>1, <3>2
  <2> QED BY <2>2, <2>3
<1>20. \A k \in {"shape", "limit", "fields", "match_all", "filters", "filter_mode", "total_hits",
               "max_parallel", "sort_field", "facet_field", "facet_limit", "metrics",
               "facet_sort", "facet_selected"} : Entry(p, k) = Entry(set, k)
  BY <1>16
<1>21. /\ Entry(p, "shape") = Entry(set, "shape") /\ Entry(p, "limit") = Entry(set, "limit")
       /\ Entry(p, "fields") = Entry(set, "fields")
       /\ Entry(p, "match_all") = Entry(set, "match_all")
       /\ Entry(p, "filters") = Entry(set, "filters")
       /\ Entry(p, "filter_mode") = Entry(set, "filter_mode")
       /\ Entry(p, "total_hits") = Entry(set, "total_hits")
       /\ Entry(p, "max_parallel") = Entry(set, "max_parallel")
       /\ Entry(p, "sort_field") = Entry(set, "sort_field")
       /\ Entry(p, "facet_field") = Entry(set, "facet_field")
       /\ Entry(p, "facet_limit") = Entry(set, "facet_limit")
       /\ Entry(p, "metrics") = Entry(set, "metrics")
       /\ Entry(p, "facet_sort") = Entry(set, "facet_sort")
       /\ Entry(p, "facet_selected") = Entry(set, "facet_selected")
  BY <1>20
<1>22. CellParams(p, spec, row, column, parallel)
  BY <1>7, <1>17, <1>18, <1>19, <1>21, Zenon DEF CellParams
<1> QED BY <1>22 DEF p, spec

\* A cell's filter, and what its facet is asked for.
CellFilters(row) == IF row = "100" THEN <<>> ELSE <<row>>
Metered(spec) == IF spec.task \in {"FACET_METRIC", "FACET_METRIC_SORT"} THEN {"price_avg"} ELSE {}
Picked(spec) == IF spec.selected THEN {"head", "tail"} ELSE {}

\* What the adapters read of a cell's parameters.
CellReads(p, spec, row, column, parallel) ==
  /\ p.shape = IF spec.task = "SORT" THEN "top_docs" ELSE "facet"
  /\ p.limit = spec.limit /\ p.fields = {"id"}
  /\ Get(p, "match_all", FALSE) = TRUE /\ WantsTotal(p) = FALSE
  /\ p.request_cache = FALSE
  /\ Filters(p) = CellFilters(row)
  /\ Get(p, "filter_mode", "top_docs") = "top_docs"
  /\ Get(p, "max_parallel", 0) = parallel
  /\ "sort_field" \in DOMAIN p <=> spec.task = "SORT"
  /\ spec.task = "SORT" => Get(p, "sort_field", "") = column
  /\ spec.task # "SORT" => p.facet_field = column /\ p.facet_limit = 10
  /\ Get(p, "metrics", {}) = Metered(spec)
  /\ Get(p, "facet_selected", {}) = Picked(spec)
  /\ spec.task # "FACET_METRIC_SORT" => "facet_sort" \notin DOMAIN p

LEMMA CellFields ==
  ASSUME NEW p, NEW spec, NEW row \in Rows, NEW column, NEW parallel,
         CellParams(p, spec, row, column, parallel)
  PROVE  CellReads(p, spec, row, column, parallel)
<1>1. /\ Entry(p, "shape") = IF spec.task = "SORT" THEN <<"top_docs">> ELSE <<"facet">>
      /\ Entry(p, "limit") = <<spec.limit>> /\ Entry(p, "fields") = <<{"id"}>>
      /\ Entry(p, "match_all") = <<TRUE>> /\ Entry(p, "total_hits") = <<FALSE>>
      /\ Entry(p, "request_cache") = <<FALSE>>
  BY Zenon DEF CellParams
<1>2. /\ Entry(p, "filters") = <<>> /\ Entry(p, "filter_mode") = <<>>
      /\ Entry(p, "filter_field") = IF row = "100" THEN <<>> ELSE <<row>>
      /\ Entry(p, "max_parallel") = <<parallel>>
      /\ Entry(p, "sort_field") = IF spec.task = "SORT" THEN <<column>> ELSE <<>>
      /\ spec.task # "SORT" => Entry(p, "facet_field") = <<column>> /\ Entry(p, "facet_limit") = <<10>>
  BY Zenon DEF CellParams
<1>3. /\ Entry(p, "metrics") = IF spec.task \in {"FACET_METRIC", "FACET_METRIC_SORT"}
                               THEN <<{"price_avg"}>> ELSE <<>>
      /\ Entry(p, "facet_sort") = IF spec.task = "FACET_METRIC_SORT" THEN <<"price_avg">> ELSE <<>>
      /\ Entry(p, "facet_selected") = IF spec.selected THEN <<{"head", "tail"}>> ELSE <<>>
  BY Zenon DEF CellParams
<1>4. \A v : <<v>> # <<>>
  OBVIOUS
<1>5. p.shape = IF spec.task = "SORT" THEN "top_docs" ELSE "facet"
  <2>1. CASE spec.task = "SORT"
    BY <1>1, <2>1, Entries
  <2>2. CASE spec.task # "SORT"
    BY <1>1, <2>2, Entries
  <2> QED BY <2>1, <2>2
<1>6. p.limit = spec.limit /\ p.fields = {"id"}
  BY <1>1, Entries
<1>e. \A f, k, v : Entry(f, k) = <<v>> => k \in DOMAIN f /\ f[k] = v
  BY Entries
<1>7. "match_all" \in DOMAIN p /\ p["match_all"] = TRUE
  BY <1>1, <1>e, Zenon
<1>8. Get(p, "match_all", FALSE) = TRUE
  BY <1>7, Zenon DEF Get
<1>9. "total_hits" \in DOMAIN p /\ p["total_hits"] = FALSE
  BY <1>1, <1>e, Zenon
<1>10. WantsTotal(p) = FALSE
  BY <1>9, Zenon DEF WantsTotal, Get
<1>11. p.request_cache = FALSE
  BY <1>1, <1>e, Zenon
<1>12. Get(p, "filters", <<>>) = <<>> /\ Get(p, "filter_mode", "top_docs") = "top_docs"
  BY <1>2, Entries
<1>13. Filters(p) = CellFilters(row)
  <2>1. CASE row = "100"
    <3>1. "filter_field" \notin DOMAIN p
      BY <1>2, <2>1, Entries
    <3> QED BY <1>12, <2>1, <3>1 DEF Filters, CellFilters
  <2>2. CASE row # "100"
    <3>1. "filter_field" \in DOMAIN p /\ p.filter_field = row
      BY <1>2, <2>2, Entries
    <3> QED BY <1>12, <2>2, <3>1 DEF Filters, CellFilters
  <2> QED BY <2>1, <2>2
<1>14. Get(p, "max_parallel", 0) = parallel
  BY <1>2, <1>4, Entries
<1>15. "sort_field" \in DOMAIN p <=> spec.task = "SORT"
  BY <1>2, <1>4, Entries
<1>16. spec.task = "SORT" => Get(p, "sort_field", "") = column
  BY <1>2, <1>e DEF Get
<1>17. spec.task # "SORT" => p.facet_field = column /\ p.facet_limit = 10
  BY <1>2, Entries
<1>18. Get(p, "metrics", {}) = Metered(spec)
  BY <1>3, <1>4, Entries DEF Metered
<1>19. Get(p, "facet_selected", {}) = Picked(spec)
  <2>1. CASE spec.selected
    <3>1. Entry(p, "facet_selected") = <<{"head", "tail"}>>
      BY <1>3, <2>1
    <3> QED BY <1>4, <2>1, <3>1, Entries DEF Picked
  <2>2. CASE ~spec.selected
    <3>1. Entry(p, "facet_selected") = <<>>
      BY <1>3, <2>2
    <3> QED BY <2>2, <3>1, Entries DEF Picked
  <2> QED BY <2>1, <2>2
<1>20. spec.task # "FACET_METRIC_SORT" => "facet_sort" \notin DOMAIN p
  BY <1>3, Entries
<1> QED
  BY <1>5, <1>6, <1>8, <1>10, <1>11, <1>12, <1>13, <1>14, <1>15, <1>16, <1>17, <1>18, <1>19,
     <1>20, Zenon DEF CellReads

\* How a cell's query is narrowed.
Way(engine, row) == IF row = "100" THEN "plain" ELSE IF engine = "rest" THEN "bool" ELSE "top_docs"
CellQuery(engine, row) == [main |-> "all", filters |-> CellFilters(row), as |-> Way(engine, row)]

LEMMA CellNarrowed ==
  ASSUME NEW p, NEW spec, NEW row \in Rows, NEW column, NEW parallel, NEW engine,
         CellParams(p, spec, row, column, parallel)
  PROVE  /\ Narrowed(engine, p) = [query |-> CellQuery(engine, row)]
         /\ Narrowed(engine, p) # Refused
<1>0. CellReads(p, spec, row, column, parallel)
  BY CellFields
<1>1. /\ Get(p, "match_all", FALSE) = TRUE /\ Filters(p) = CellFilters(row)
      /\ Get(p, "filter_mode", "top_docs") = "top_docs"
  BY <1>0, Zenon DEF CellReads
<1>2. (IF Get(p, "match_all", FALSE) THEN "all" ELSE "text") = "all"
  BY <1>1, Zenon
<1>3. Filters(p) = <<>> <=> row = "100"
  BY <1>1 DEF CellFilters
<1>4. Narrowed(engine, p) = [query |-> CellQuery(engine, row)]
  <2>1. CASE row = "100"
    BY <1>1, <1>2, <1>3, <2>1, Zenon DEF Narrowed, CellQuery, Way
  <2>2. CASE row # "100"
    <3>1. (IF engine = "rest" THEN "bool" ELSE Get(p, "filter_mode", "top_docs")) = Way(engine, row)
      BY <1>1, <2>2 DEF Way
    <3>2. Get(p, "filter_mode", "top_docs") # "query"
      BY <1>1
    <3>3. Narrowed(engine, p) =
            [query |-> [main |-> "all", filters |-> Filters(p),
                        as |-> IF engine = "rest" THEN "bool"
                               ELSE Get(p, "filter_mode", "top_docs")]]
      BY <1>1, <1>2, <1>3, <2>2, <3>2, Zenon DEF Narrowed
    <3> QED BY <1>1, <3>1, <3>3, Zenon DEF CellQuery
  <2> QED BY <2>1, <2>2
<1>5. \A v : [query |-> v] # [refused |-> TRUE]
  <2>1. \A v : DOMAIN [query |-> v] = {"query"}
    OBVIOUS
  <2>2. DOMAIN [refused |-> TRUE] = {"refused"}
    OBVIOUS
  <2> QED BY <2>1, <2>2
<1> QED BY <1>4, <1>5, Zenon DEF Refused

\* The facet that a cell asks for.
CellOps(spec, column, order) ==
  [field |-> column, limit |-> 10, metrics |-> Metered(spec), order |-> order,
   selected |-> Picked(spec)]

LEMMA CellAggregations ==
  ASSUME NEW p, NEW spec, NEW row \in Rows, NEW column, NEW parallel,
         CellParams(p, spec, row, column, parallel)
  PROVE  /\ spec.task = "SORT" => Aggregations(p) = Nothing
         /\ spec.task # "SORT" =>
              \E order : /\ Aggregations(p) = [ops |-> CellOps(spec, column, order)]
                         /\ spec.task # "FACET_METRIC_SORT" => order = <<>>
<1>0. CellReads(p, spec, row, column, parallel)
  BY CellFields
<1>1. /\ p.shape = IF spec.task = "SORT" THEN "top_docs" ELSE "facet"
      /\ spec.task # "SORT" => p.facet_field = column /\ p.facet_limit = 10
      /\ Get(p, "metrics", {}) = Metered(spec)
      /\ Get(p, "facet_selected", {}) = Picked(spec)
      /\ spec.task # "FACET_METRIC_SORT" => "facet_sort" \notin DOMAIN p
  BY <1>0, Zenon DEF CellReads
<1>2. CASE spec.task = "SORT"
  <2>1. p.shape = "top_docs"
    BY <1>1, <1>2
  <2> QED BY <1>2, <2>1 DEF Aggregations
<1>3. CASE spec.task # "SORT"
  <2> DEFINE order == IF "facet_sort" \in DOMAIN p
                        THEN <<p.facet_sort, Get(p, "facet_sort_dir", "desc")>> ELSE <<>>
  <2>1. p.shape = "facet"
    BY <1>1, <1>3
  <2>2. Aggregations(p) = [ops |-> [field |-> p.facet_field, limit |-> p.facet_limit,
                                    metrics |-> Get(p, "metrics", {}), order |-> order,
                                    selected |-> Get(p, "facet_selected", {})]]
    BY <2>1 DEF Aggregations
  <2>3. spec.task # "FACET_METRIC_SORT" => order = <<>>
    BY <1>1
  <2> HIDE DEF order
  <2>4. Aggregations(p) = [ops |-> CellOps(spec, column, order)]
    BY <1>1, <1>3, <2>2, Zenon DEF CellOps
  <2> QED BY <1>3, <2>3, <2>4
<1> QED BY <1>2, <1>3

\* The entry of a part, or that of the parts after it.
Foremost(f, rest) == IF f # <<>> THEN f ELSE rest

\* An entry of a request is that of the first part which has it.
LEMMA FromSeven ==
  ASSUME NEW a, NEW b, NEW c, NEW d, NEW e, NEW f, NEW g, NEW k
  PROVE  Entry(a ++ b ++ c ++ d ++ e ++ f ++ g, k) =
           Foremost(Entry(a, k), Foremost(Entry(b, k), Foremost(Entry(c, k), Foremost(Entry(d, k),
           Foremost(Entry(e, k), Foremost(Entry(f, k), Entry(g, k)))))))
<1>1. \A u, v : Entry(u ++ v, k) = Foremost(Entry(u, k), Entry(v, k))
  BY Entries DEF Foremost
<1>2. \A x, y, z : Foremost(Foremost(x, y), z) = Foremost(x, Foremost(y, z))
  BY DEF Foremost
<1> DEFINE u2 == a ++ b
           u3 == u2 ++ c
           u4 == u3 ++ d
           u5 == u4 ++ e
           u6 == u5 ++ f
           u7 == u6 ++ g
<1> HIDE DEF u2, u3, u4, u5, u6, u7
<1>3. /\ Entry(u2, k) = Foremost(Entry(a, k), Entry(b, k))
      /\ Entry(u3, k) = Foremost(Entry(u2, k), Entry(c, k))
      /\ Entry(u4, k) = Foremost(Entry(u3, k), Entry(d, k))
  BY <1>1 DEF u2, u3, u4
<1>4. /\ Entry(u5, k) = Foremost(Entry(u4, k), Entry(e, k))
      /\ Entry(u6, k) = Foremost(Entry(u5, k), Entry(f, k))
      /\ Entry(u7, k) = Foremost(Entry(u6, k), Entry(g, k))
  BY <1>1 DEF u5, u6, u7
<1>5. Entry(u7, k) =
        Foremost(Entry(a, k), Foremost(Entry(b, k), Foremost(Entry(c, k), Foremost(Entry(d, k),
        Foremost(Entry(e, k), Foremost(Entry(f, k), Entry(g, k)))))))
  BY <1>2, <1>3, <1>4
<1> QED BY <1>5 DEF u2, u3, u4, u5, u6, u7

LEMMA FromEight ==
  ASSUME NEW a, NEW b, NEW c, NEW d, NEW e, NEW f, NEW g, NEW h, NEW k
  PROVE  Entry(a ++ b ++ c ++ d ++ e ++ f ++ g ++ h, k) =
           Foremost(Entry(a, k), Foremost(Entry(b, k), Foremost(Entry(c, k), Foremost(Entry(d, k),
           Foremost(Entry(e, k), Foremost(Entry(f, k), Foremost(Entry(g, k), Entry(h, k))))))))
<1> DEFINE u7 == a ++ b ++ c ++ d ++ e ++ f ++ g
<1>1. Entry(u7, k) =
        Foremost(Entry(a, k), Foremost(Entry(b, k), Foremost(Entry(c, k), Foremost(Entry(d, k),
        Foremost(Entry(e, k), Foremost(Entry(f, k), Entry(g, k)))))))
  BY FromSeven
<1> HIDE DEF u7
<1>2. Entry(u7 ++ h, k) = Foremost(Entry(u7, k), Entry(h, k))
  BY Entries DEF Foremost
<1>3. \A x, y, z : Foremost(Foremost(x, y), z) = Foremost(x, Foremost(y, z))
  BY DEF Foremost
<1>4. Entry(u7 ++ h, k) =
        Foremost(Entry(a, k), Foremost(Entry(b, k), Foremost(Entry(c, k), Foremost(Entry(d, k),
        Foremost(Entry(e, k), Foremost(Entry(f, k), Foremost(Entry(g, k), Entry(h, k))))))))
  BY <1>1, <1>2, <1>3
<1> QED BY <1>4 DEF u7

\* What a cell's request carries, entry by entry.
Variable == {"query", "sort", "ops", "limit", "size", "stored_fields"}
Wired(engine, spec, row, column, parallel, x, order) ==
  /\ Entry(x, "query") = <<CellQuery(engine, row)>>
  /\ Entry(x, "limit") = IF engine = "luxir" THEN <<spec.limit>> ELSE <<>>
  /\ Entry(x, "size") = IF engine = "luxir" THEN <<>> ELSE <<spec.limit>>
  /\ Entry(x, "stored_fields") = IF engine # "luxir" /\ spec.limit # 0 THEN <<"_none_">> ELSE <<>>
  /\ Entry(x, "ops") = IF spec.task = "SORT" THEN <<>> ELSE <<CellOps(spec, column, order)>>
  /\ Entry(x, "sort") = IF spec.task = "SORT" THEN <<<<column, order>>>> ELSE <<>>
\* The entries that are alike in all cells.
Fixture(engine, parallel, k) ==
  IF engine = "luxir"
    THEN Foremost(Entry([fields |-> {"id"}], k),
               Entry(Given(parallel # 0, [max_parallel |-> parallel]), k))
    ELSE Foremost(Entry([source |-> {}, docvalues |-> {"id"}], k),
         Foremost(Entry([request_cache |-> FALSE], k), Entry([track_total_hits |-> FALSE], k)))

\* A request that asks for a cell; order is the sort's direction or the facet's order.
CellSent(engine, spec, row, column, parallel, x, order) ==
  /\ Wired(engine, spec, row, column, parallel, x, order)
  /\ spec.task \notin {"SORT", "FACET_METRIC_SORT"} => order = <<>>
  /\ \A k : k \notin Variable => Entry(x, k) = Fixture(engine, parallel, k)

LEMMA LuxirCell ==
  ASSUME NEW p, NEW spec, NEW row \in Rows, NEW column, NEW parallel,
         CellParams(p, spec, row, column, parallel)
  PROVE  \E order : CellSent("luxir", spec, row, column, parallel, LuxirRequest(p), order)
<1> DEFINE a == [limit |-> p.limit]
           b == Narrowed("luxir", p)
           c == Given(p.fields # {}, [fields |-> p.fields])
           d == Given(WantsTotal(p) /\ p.count_mode = "exact", [count_limit |-> -1])
           e == Given("sort_field" \in DOMAIN p,
                      [sort |-> <<Get(p, "sort_field", ""), Get(p, "sort_dir", "asc")>>])
           f == Aggregations(p)
           g == Given(Get(p, "max_parallel", 0) # 0, [max_parallel |-> Get(p, "max_parallel", 0)])
           x == a ++ b ++ c ++ d ++ e ++ f ++ g
           direction == Get(p, "sort_dir", "asc")
<1>0. CellReads(p, spec, row, column, parallel)
  BY CellFields
<1>1. /\ p.shape = IF spec.task = "SORT" THEN "top_docs" ELSE "facet"
      /\ p.limit = spec.limit /\ p.fields = {"id"} /\ WantsTotal(p) = FALSE
      /\ Get(p, "max_parallel", 0) = parallel
      /\ "sort_field" \in DOMAIN p <=> spec.task = "SORT"
      /\ spec.task = "SORT" => Get(p, "sort_field", "") = column
  BY <1>0, Zenon DEF CellReads
<1>w. WantsTotal(p) = FALSE
  BY <1>1, Zenon
<1>2. b = [query |-> CellQuery("luxir", row)] /\ b # Refused
  BY CellNarrowed
<1>3. p.shape # "get" /\ p.shape # "mix"
  BY <1>1
<1>4. LuxirRequest(p) = x
  BY <1>2, <1>3, Zenon DEF LuxirRequest
<1>5. PICK order :
        /\ f = IF spec.task = "SORT" THEN Nothing ELSE [ops |-> CellOps(spec, column, order)]
        /\ spec.task = "SORT" => order = direction
        /\ spec.task \notin {"SORT", "FACET_METRIC_SORT"} => order = <<>>
  <2>1. CASE spec.task = "SORT"
    BY <2>1, CellAggregations
  <2>2. CASE spec.task # "SORT"
    <3>1. PICK facet : /\ Aggregations(p) = [ops |-> CellOps(spec, column, facet)]
                       /\ spec.task # "FACET_METRIC_SORT" => facet = <<>>
      BY <2>2, CellAggregations
    <3>2. f = [ops |-> CellOps(spec, column, facet)]
      BY <3>1
    <3> HIDE DEF f, direction
    <3> QED BY <2>2, <3>1, <3>2
  <2> QED BY <2>1, <2>2
<1>6. e = IF spec.task = "SORT" THEN [sort |-> <<column, order>>] ELSE <<>>
  <2>1. CASE spec.task = "SORT"
    BY <1>1, <1>5, <2>1, Zenon DEF Given
  <2>2. CASE spec.task # "SORT"
    BY <1>1, <2>2, Zenon DEF Given, Nothing
  <2> QED BY <2>1, <2>2
<1>7. d = <<>>
  BY <1>w, Zenon DEF Given, Nothing
<1>8. c = [fields |-> {"id"}]
  BY <1>1 DEF Given
<1>9. g = Given(parallel # 0, [max_parallel |-> parallel])
  BY <1>1, Zenon
<1>10. a = [limit |-> spec.limit]
  BY <1>1
<1> HIDE DEF a, b, c, d, e, f, g
<1>11. ASSUME NEW k
       PROVE  Entry(x, k) =
         Foremost(Entry(a, k), Foremost(Entry(b, k), Foremost(Entry(c, k), Foremost(Entry(d, k),
         Foremost(Entry(e, k), Foremost(Entry(f, k), Entry(g, k)))))))
  BY FromSeven
<1> HIDE DEF x
<1>12. \A v : <<v>> # <<>>
  OBVIOUS
<1>13. /\ Entry(a, "limit") = <<spec.limit>>
       /\ \A k : k # "limit" => Entry(a, k) = <<>>
  BY <1>10 DEF Entry
<1>14. /\ Entry(b, "query") = <<CellQuery("luxir", row)>>
       /\ \A k : k # "query" => Entry(b, k) = <<>>
  BY <1>2 DEF Entry
<1>15. /\ Entry(c, "fields") = <<{"id"}>>
       /\ \A k : k # "fields" => Entry(c, k) = <<>>
  BY <1>8 DEF Entry
<1>16. \A k : Entry(d, k) = <<>>
  BY <1>7 DEF Entry
<1>17. /\ Entry(e, "sort") = IF spec.task = "SORT" THEN <<<<column, order>>>> ELSE <<>>
       /\ \A k : k # "sort" => Entry(e, k) = <<>>
  <2>1. CASE spec.task = "SORT"
    <3>1. e = [sort |-> <<column, order>>]
      BY <1>6, <2>1
    <3> QED BY <2>1, <3>1 DEF Entry
  <2>2. CASE spec.task # "SORT"
    <3>1. e = <<>>
      BY <1>6, <2>2
    <3> QED BY <2>2, <3>1 DEF Entry
  <2> QED BY <2>1, <2>2
<1>18. /\ Entry(f, "ops") = IF spec.task = "SORT" THEN <<>> ELSE <<CellOps(spec, column, order)>>
       /\ \A k : k # "ops" => Entry(f, k) = <<>>
  <2>1. CASE spec.task = "SORT"
    <3>1. f = <<>>
      BY <1>5, <2>1 DEF Nothing
    <3> QED BY <2>1, <3>1 DEF Entry
  <2>2. CASE spec.task # "SORT"
    <3>1. f = [ops |-> CellOps(spec, column, order)]
      BY <1>5, <2>2
    <3> QED BY <2>2, <3>1 DEF Entry
  <2> QED BY <2>1, <2>2
<1>19. \A k : k # "max_parallel" => Entry(g, k) = <<>>
  BY <1>9 DEF Entry, Given, Nothing
<1>20. /\ Entry(x, "query") = <<CellQuery("luxir", row)>>
       /\ Entry(x, "limit") = <<spec.limit>>
       /\ Entry(x, "size") = <<>> /\ Entry(x, "stored_fields") = <<>>
       /\ Entry(x, "ops") = Entry(f, "ops") /\ Entry(x, "sort") = Entry(e, "sort")
  BY <1>11, <1>12, <1>13, <1>14, <1>15, <1>16, <1>17, <1>18, <1>19 DEF Foremost
<1>21. Wired("luxir", spec, row, column, parallel, x, order)
  BY <1>17, <1>18, <1>20, Zenon DEF Wired
<1>22. ASSUME NEW k, k \notin Variable PROVE Entry(x, k) = Fixture("luxir", parallel, k)
  <2>1. /\ Entry(a, k) = <<>> /\ Entry(b, k) = <<>> /\ Entry(d, k) = <<>> /\ Entry(e, k) = <<>>
        /\ Entry(f, k) = <<>>
    BY <1>13, <1>14, <1>16, <1>17, <1>18, <1>22 DEF Variable
  <2>2. Entry(x, k) = Foremost(Entry(c, k), Entry(g, k))
    BY <1>11, <2>1 DEF Foremost
  <2> QED BY <1>8, <1>9, <2>2 DEF Fixture
<1> QED BY <1>4, <1>5, <1>21, <1>22 DEF CellSent

LEMMA RestCell ==
  ASSUME NEW p, NEW spec, NEW row \in Rows, NEW column, NEW parallel,
         CellParams(p, spec, row, column, parallel), RestRequest(p) # Refused \/ ~spec.selected
  PROVE  \E order : CellSent("rest", spec, row, column, parallel, RestRequest(p), order)
<1> DEFINE texts == p.fields \cap {"body", "title"}
           a == [size |-> p.limit, source |-> texts, docvalues |-> p.fields \ texts]
           b == Narrowed("rest", p)
           c == [request_cache |-> p.request_cache]
           d == Given(~WantsTotal(p), [track_total_hits |-> FALSE])
           e == Given(WantsTotal(p) /\ p.count_mode = "exact", [track_total_hits |-> TRUE])
           f == Given(p.limit # 0 /\ texts = {}, [stored_fields |-> "_none_"])
           g == Given("sort_field" \in DOMAIN p,
                      [sort |-> <<Get(p, "sort_field", ""), Get(p, "sort_dir", "asc")>>])
           h == Aggregations(p)
           x == a ++ b ++ c ++ d ++ e ++ f ++ g ++ h
           direction == Get(p, "sort_dir", "asc")
<1>0. CellReads(p, spec, row, column, parallel)
  BY CellFields
<1>1. /\ p.shape = IF spec.task = "SORT" THEN "top_docs" ELSE "facet"
      /\ p.limit = spec.limit /\ p.fields = {"id"} /\ WantsTotal(p) = FALSE
      /\ p.request_cache = FALSE
      /\ "sort_field" \in DOMAIN p <=> spec.task = "SORT"
      /\ spec.task = "SORT" => Get(p, "sort_field", "") = column
  BY <1>0, Zenon DEF CellReads
<1>w. WantsTotal(p) = FALSE
  BY <1>1, Zenon
<1>2. b = [query |-> CellQuery("rest", row)] /\ b # Refused
  BY CellNarrowed
<1>3. p.shape # "get"
  BY <1>1
<1>4. RestRequest(p) = x
  <2>1. ~spec.selected => Get(p, "facet_selected", {}) = {}
    <3>1. Get(p, "facet_selected", {}) = Picked(spec)
      BY <1>0, Zenon DEF CellReads
    <3> QED BY <3>1 DEF Picked
  <2> QED BY <1>2, <1>3, <2>1, Zenon DEF RestRequest
<1>5. PICK order :
        /\ h = IF spec.task = "SORT" THEN Nothing ELSE [ops |-> CellOps(spec, column, order)]
        /\ spec.task = "SORT" => order = direction
        /\ spec.task \notin {"SORT", "FACET_METRIC_SORT"} => order = <<>>
  <2>1. CASE spec.task = "SORT"
    BY <2>1, CellAggregations
  <2>2. CASE spec.task # "SORT"
    <3>1. PICK facet : /\ Aggregations(p) = [ops |-> CellOps(spec, column, facet)]
                       /\ spec.task # "FACET_METRIC_SORT" => facet = <<>>
      BY <2>2, CellAggregations
    <3>2. h = [ops |-> CellOps(spec, column, facet)]
      BY <3>1
    <3> HIDE DEF h, direction
    <3> QED BY <2>2, <3>1, <3>2
  <2> QED BY <2>1, <2>2
<1>6. g = IF spec.task = "SORT" THEN [sort |-> <<column, order>>] ELSE <<>>
  <2>1. CASE spec.task = "SORT"
    BY <1>1, <1>5, <2>1, Zenon DEF Given
  <2>2. CASE spec.task # "SORT"
    BY <1>1, <2>2, Zenon DEF Given, Nothing
  <2> QED BY <2>1, <2>2
<1>7. e = <<>> /\ d = [track_total_hits |-> FALSE]
  BY <1>w, Zenon DEF Given, Nothing
<1>8. texts = {} /\ p.fields \ texts = {"id"}
  BY <1>1
<1>9. a = [size |-> spec.limit, source |-> {}, docvalues |-> {"id"}]
  BY <1>1, <1>8, Zenon
<1>10. c = [request_cache |-> FALSE]
  BY <1>1, Zenon
<1>11. f = IF spec.limit # 0 THEN [stored_fields |-> "_none_"] ELSE <<>>
  BY <1>1, <1>8, Zenon DEF Given, Nothing
<1> HIDE DEF a, b, c, d, e, f, g, h
<1>12. ASSUME NEW k
       PROVE  Entry(x, k) =
         Foremost(Entry(a, k), Foremost(Entry(b, k), Foremost(Entry(c, k), Foremost(Entry(d, k),
         Foremost(Entry(e, k), Foremost(Entry(f, k), Foremost(Entry(g, k), Entry(h, k))))))))
  BY FromEight
<1> HIDE DEF x
<1>13. \A v : <<v>> # <<>>
  OBVIOUS
<1>14. /\ Entry(a, "size") = <<spec.limit>>
       /\ \A k : k \notin {"size", "source", "docvalues"} => Entry(a, k) = <<>>
       /\ \A k : k # "size" => Entry(a, k) = Entry([source |-> {}, docvalues |-> {"id"}], k)
  <2> DEFINE others == [source |-> {}, docvalues |-> {"id"}]
  <2>1. /\ DOMAIN a = {"size", "source", "docvalues"} /\ DOMAIN others = {"source", "docvalues"}
        /\ a["size"] = spec.limit /\ a["source"] = {} /\ others["source"] = {}
        /\ a["docvalues"] = {"id"} /\ others["docvalues"] = {"id"}
    BY <1>9
  <2> HIDE DEF others
  <2>2. \A k : k # "size" => Entry(a, k) = Entry(others, k)
    BY <2>1 DEF Entry
  <2> QED BY <2>1, <2>2 DEF Entry, others
<1>15. /\ Entry(b, "query") = <<CellQuery("rest", row)>>
       /\ \A k : k # "query" => Entry(b, k) = <<>>
  BY <1>2 DEF Entry
<1>16. /\ \A k : k # "request_cache" => Entry(c, k) = <<>>
       /\ \A k : k # "track_total_hits" => Entry(d, k) = <<>>
       /\ \A k : Entry(e, k) = <<>>
  <2>1. DOMAIN c = {"request_cache"} /\ DOMAIN d = {"track_total_hits"} /\ DOMAIN e = {}
    BY <1>7, <1>10
  <2> QED BY <2>1 DEF Entry
<1>17. /\ Entry(f, "stored_fields") = IF spec.limit # 0 THEN <<"_none_">> ELSE <<>>
       /\ \A k : k # "stored_fields" => Entry(f, k) = <<>>
  <2>1. CASE spec.limit # 0
    <3>1. f = [stored_fields |-> "_none_"]
      BY <1>11, <2>1
    <3> QED BY <2>1, <3>1 DEF Entry
  <2>2. CASE spec.limit = 0
    <3>1. f = <<>>
      BY <1>11, <2>2
    <3> QED BY <2>2, <3>1 DEF Entry
  <2> QED BY <2>1, <2>2
<1>18. /\ Entry(g, "sort") = IF spec.task = "SORT" THEN <<<<column, order>>>> ELSE <<>>
       /\ \A k : k # "sort" => Entry(g, k) = <<>>
  <2>1. CASE spec.task = "SORT"
    <3>1. g = [sort |-> <<column, order>>]
      BY <1>6, <2>1
    <3> QED BY <2>1, <3>1 DEF Entry
  <2>2. CASE spec.task # "SORT"
    <3>1. g = <<>>
      BY <1>6, <2>2
    <3> QED BY <2>2, <3>1 DEF Entry
  <2> QED BY <2>1, <2>2
<1>19. /\ Entry(h, "ops") = IF spec.task = "SORT" THEN <<>> ELSE <<CellOps(spec, column, order)>>
       /\ \A k : k # "ops" => Entry(h, k) = <<>>
  <2>1. CASE spec.task = "SORT"
    <3>1. h = <<>>
      BY <1>5, <2>1 DEF Nothing
    <3> QED BY <2>1, <3>1 DEF Entry
  <2>2. CASE spec.task # "SORT"
    <3>1. h = [ops |-> CellOps(spec, column, order)]
      BY <1>5, <2>2
    <3> QED BY <2>2, <3>1 DEF Entry
  <2> QED BY <2>1, <2>2
<1>20. /\ Entry(x, "query") = <<CellQuery("rest", row)>>
       /\ Entry(x, "size") = <<spec.limit>> /\ Entry(x, "limit") = <<>>
       /\ Entry(x, "stored_fields") = Entry(f, "stored_fields")
       /\ Entry(x, "ops") = Entry(h, "ops") /\ Entry(x, "sort") = Entry(g, "sort")
  BY <1>12, <1>13, <1>14, <1>15, <1>16, <1>17, <1>18, <1>19 DEF Foremost
<1>21. Wired("rest", spec, row, column, parallel, x, order)
  <2>1. /\ Entry(x, "limit") = <<>> /\ Entry(x, "size") = <<spec.limit>>
        /\ Entry(x, "stored_fields") =
             IF "rest" # "luxir" /\ spec.limit # 0 THEN <<"_none_">> ELSE <<>>
    BY <1>17, <1>20
  <2>2. "rest" # "luxir"
    OBVIOUS
  <2> QED BY <1>18, <1>19, <1>20, <2>1, <2>2, Zenon DEF Wired
<1>22. ASSUME NEW k, k \notin Variable PROVE Entry(x, k) = Fixture("rest", parallel, k)
  <2>1. /\ Entry(b, k) = <<>> /\ Entry(e, k) = <<>> /\ Entry(f, k) = <<>>
        /\ Entry(g, k) = <<>> /\ Entry(h, k) = <<>>
        /\ Entry(a, k) = Entry([source |-> {}, docvalues |-> {"id"}], k)
    BY <1>14, <1>15, <1>16, <1>17, <1>18, <1>19, <1>22 DEF Variable
  <2>2. Entry(x, k) = Foremost(Entry(a, k), Foremost(Entry(c, k), Entry(d, k)))
    <3>1. \A u : Foremost(<<>>, u) = u /\ Foremost(u, <<>>) = u
      BY DEF Foremost
    <3> HIDE DEF Foremost
    <3> QED BY <1>12, <2>1, <3>1
  <2>3. "rest" # "luxir"
    OBVIOUS
  <2> QED BY <1>7, <1>10, <2>1, <2>2, <2>3, Zenon DEF Fixture
<1> QED BY <1>4, <1>5, <1>21, <1>22 DEF CellSent

\* The request for a cell.
Wire(engine, grid, row, column, parallel) ==
  Request(engine, GridCell(grid, row, column, parallel, Pinned))

LEMMA CellMade ==
  ASSUME NEW engine \in Engines, NEW grid \in DOMAIN Grids, NEW row \in Rows,
         NEW column \in Columns, NEW parallel, NEW x,
         x = Wire(engine, grid, row, column, parallel),
         x # Refused \/ ~Grids[grid].selected
  PROVE  \E order : CellSent(engine, Grids[grid], row, column, parallel, x, order)
<1> DEFINE p == GridCell(grid, row, column, parallel, Pinned)
           spec == Grids[grid]
<1>1. CellParams(p, spec, row, column, parallel)
  BY CellIs
<1> HIDE DEF p, spec
<1>2. p.shape # "mix"
  <2>1. p.shape = IF spec.task = "SORT" THEN "top_docs" ELSE "facet"
    <3>1. CellReads(p, spec, row, column, parallel)
      BY <1>1, CellFields
    <3> QED BY <3>1, Zenon DEF CellReads
  <2> QED BY <2>1
<1>3. CASE engine = "luxir"
  <2>1. x = LuxirRequest(p)
    BY <1>2, <1>3, Zenon DEF Wire, Request, p
  <2>2. PICK order : CellSent("luxir", spec, row, column, parallel, LuxirRequest(p), order)
    BY <1>1, LuxirCell
  <2>3. CellSent(engine, spec, row, column, parallel, x, order)
    BY <1>3, <2>1, <2>2
  <2> QED BY <2>2, <2>3 DEF spec
<1>4. CASE engine = "rest"
  <2>0. engine # "luxir"
    BY <1>4
  <2>1. x = RestRequest(p)
    BY <1>2, <2>0, Zenon DEF Wire, Request, p
  <2>2. RestRequest(p) # Refused \/ ~spec.selected
    BY <2>1 DEF spec
  <2>3. PICK order : CellSent("rest", spec, row, column, parallel, RestRequest(p), order)
    BY <1>1, <2>2, RestCell
  <2>4. CellSent(engine, spec, row, column, parallel, x, order)
    BY <1>4, <2>1, <2>3
  <2> QED BY <2>3, <2>4 DEF spec
<1> QED BY <1>3, <1>4 DEF Engines

\* Two cells of a grid are asked for by two requests.
LEMMA CellsApart ==
  ASSUME NEW engine \in Engines, NEW grid \in DOMAIN Grids, NEW row \in Rows,
         NEW column \in Columns, NEW parallel, NEW r \in Rows, NEW c \in Columns,
         Wire(engine, grid, row, column, parallel) # Refused,
         Wire(engine, grid, r, c, parallel) = Wire(engine, grid, row, column, parallel)
  PROVE  r = row /\ c = column
<1> DEFINE x == Wire(engine, grid, row, column, parallel)
           spec == Grids[grid]
<1> HIDE DEF spec
<1>1. PICK order : Wired(engine, spec, row, column, parallel, x, order)
  BY CellMade DEF spec, CellSent
<1>2. PICK other : Wired(engine, spec, r, c, parallel, x, other)
  BY CellMade DEF spec, CellSent
<1> HIDE DEF x
<1>3. \A u, v : <<u>> = <<v>> => u = v
  OBVIOUS
<1>4. r = row
  <2>1. CellQuery(engine, row) = CellQuery(engine, r)
    BY <1>1, <1>2, <1>3 DEF Wired
  <2>2. CellFilters(row) = CellFilters(r)
    <3>1. \A q : CellQuery(engine, q).filters = CellFilters(q)
      BY DEF CellQuery
    <3> QED BY <2>1, <3>1
  <2> QED BY <1>3, <2>2 DEF CellFilters
<1>5. c = column
  <2>1. CASE spec.task = "SORT"
    <3>1. Entry(x, "sort") = <<<<column, order>>>> /\ Entry(x, "sort") = <<<<c, other>>>>
      BY <1>1, <1>2, <2>1 DEF Wired
    <3>2. <<column, order>> = <<c, other>>
      BY <1>3, <3>1
    <3> QED BY <3>2
  <2>2. CASE spec.task # "SORT"
    <3>1. /\ Entry(x, "ops") = <<CellOps(spec, column, order)>>
          /\ Entry(x, "ops") = <<CellOps(spec, c, other)>>
      BY <1>1, <1>2, <2>2 DEF Wired
    <3>2. CellOps(spec, column, order) = CellOps(spec, c, other)
      BY <1>3, <3>1
    <3>3. \A u, v : CellOps(spec, u, v).field = u
      BY DEF CellOps
    <3> QED BY <3>2, <3>3
  <2> QED BY <2>1, <2>2
<1> QED BY <1>4, <1>5

\* The keys under which two requests differ.
Apart(x, y) == {k \in DOMAIN x \cup DOMAIN y : k \notin DOMAIN x \cap DOMAIN y \/ x[k] # y[k]}

LEMMA ApartEntries ==
  ASSUME NEW x, NEW y, NEW k
  PROVE  k \in Apart(x, y) <=> Entry(x, k) # Entry(y, k)
<1>1. \A u, v : <<u>> = <<v>> => u = v
  OBVIOUS
<1>2. \A u : <<u>> # <<>>
  OBVIOUS
<1> QED BY <1>1, <1>2 DEF Apart, Entry

\* A cell and the same cell of the grid it is read against.
LEMMA OneDelta ==
  ASSUME NEW engine \in Engines, NEW grid \in DOMAIN Grids, NEW row \in Rows,
         NEW column \in Columns, NEW parallel, NEW base, base = Grids[grid].base, base # "none",
         NEW x, x = Wire(engine, grid, row, column, parallel), x # Refused,
         NEW y, y = Wire(engine, base, row, column, parallel)
  PROVE  \/ /\ Apart(x, y) = {"ops"}
            /\ x.ops.field = y.ops.field /\ x.ops.limit = y.ops.limit
         \/ Apart(x, y) # {} /\ Apart(x, y) \subseteq {"limit", "size", "stored_fields"}
<1> DEFINE spec == Grids[grid]
           from == Grids[base]
<1>1. /\ base \in DOMAIN Grids /\ from.task = "FACET_1M" /\ ~from.selected
      /\ spec.task # "SORT" /\ spec.task \in GridTasks
      /\ spec.selected => spec.task = "FACET_1M"
      /\ \/ spec.limit = from.limit /\ (spec.selected \/ spec.task # "FACET_1M")
         \/ spec.limit = 10 /\ from.limit = 0 /\ ~spec.selected /\ spec.task = "FACET_1M"
  BY GridSpecs
<1>2. PICK order : CellSent(engine, spec, row, column, parallel, x, order)
  BY CellMade
<1>3. PICK other : CellSent(engine, from, row, column, parallel, y, other)
  BY <1>1, CellMade
<1> HIDE DEF spec, from
<1>4. \A k : k \in Apart(x, y) <=> Entry(x, k) # Entry(y, k)
  BY ApartEntries
<1>5. Apart(x, y) \subseteq {"ops", "limit", "size", "stored_fields"}
  <2>1. ASSUME NEW k, k \notin {"ops", "limit", "size", "stored_fields"}
        PROVE  Entry(x, k) = Entry(y, k)
    <3>1. CASE k \notin Variable
      BY <1>2, <1>3, <3>1 DEF CellSent
    <3>2. CASE k = "query"
      BY <1>2, <1>3, <3>2 DEF Wired, CellSent
    <3>3. CASE k = "sort"
      BY <1>1, <1>2, <1>3, <3>3 DEF Wired, CellSent
    <3> QED BY <2>1, <3>1, <3>2, <3>3 DEF Variable
  <2> QED BY <1>4, <2>1
<1>6. /\ Entry(x, "ops") = <<CellOps(spec, column, order)>>
      /\ Entry(y, "ops") = <<CellOps(from, column, other)>>
  BY <1>1, <1>2, <1>3 DEF Wired, CellSent
<1>7. x.ops = CellOps(spec, column, order) /\ y.ops = CellOps(from, column, other)
  BY <1>6, Entries
<1>8. /\ x.ops.field = column /\ x.ops.limit = 10 /\ y.ops.field = column /\ y.ops.limit = 10
      /\ x.ops.metrics = Metered(spec) /\ y.ops.metrics = Metered(from)
      /\ x.ops.selected = Picked(spec) /\ y.ops.selected = Picked(from)
  BY <1>7 DEF CellOps
<1>9. CASE spec.limit = from.limit /\ (spec.selected \/ spec.task # "FACET_1M")
  <2>1. x.ops # y.ops
    <3>1. CASE spec.selected
      BY <1>1, <1>8, <3>1 DEF Picked
    <3>2. CASE spec.task # "FACET_1M"
      BY <1>1, <1>8, <3>2 DEF Metered, GridTasks
    <3> QED BY <1>9, <3>1, <3>2
  <2>2. "ops" \in Apart(x, y)
    BY <1>4, <1>6, <1>7, <2>1
  <2>3. /\ Entry(x, "limit") = Entry(y, "limit") /\ Entry(x, "size") = Entry(y, "size")
        /\ Entry(x, "stored_fields") = Entry(y, "stored_fields")
    BY <1>2, <1>3, <1>9 DEF Wired, CellSent
  <2> QED BY <1>4, <1>5, <1>8, <2>2, <2>3
<1>10. CASE spec.limit = 10 /\ from.limit = 0 /\ ~spec.selected /\ spec.task = "FACET_1M"
  <2>1. order = <<>> /\ other = <<>>
    BY <1>1, <1>2, <1>3, <1>10 DEF CellSent
  <2>2. Metered(spec) = Metered(from) /\ Picked(spec) = Picked(from)
    BY <1>1, <1>10 DEF Metered, Picked
  <2>3. "ops" \notin Apart(x, y)
    BY <1>4, <1>6, <2>1, <2>2, Zenon DEF CellOps
  <2>4. Entry(x, "limit") # Entry(y, "limit") \/ Entry(x, "size") # Entry(y, "size")
    BY <1>2, <1>3, <1>10 DEF Wired, CellSent
  <2> QED BY <1>4, <1>5, <2>3, <2>4
<1> QED BY <1>1, <1>9, <1>10

\* A cell is of a grid that there is.
Swept ==
  case.kind = "cell" => case.grid \in DOMAIN Grids /\ case.row \in Rows /\ case.column \in Columns

LEMMA SweptHolds == Spec => []Swept
<1>1. Init => Swept
  BY DEF Init, CaseInit, Swept
<1>2. ASSUME Swept, [Next]_vars PROVE Swept'
  <2>1. CASE UNCHANGED case
    BY <1>2, <2>1 DEF Swept
  <2>2. CASE CaseStep
    <3>1. CASE Ask
      BY <3>1 DEF Ask, Swept
    <3>2. CASE Sweep
      <4>1. PICK grid \in DOMAIN Grids, row \in Rows, column \in Columns, parallel \in {0, -1} :
              case' = [kind |-> "cell", grid |-> grid, row |-> row, column |-> column,
                       parallel |-> parallel]
        BY <3>2 DEF Sweep
      <4> QED BY <4>1 DEF Swept
    <3>3. CASE Answer
      BY <3>3 DEF Answer, Swept
    <3> QED BY <2>2, <3>1, <3>2, <3>3 DEF CaseStep
  <2>3. UNCHANGED case \/ CaseStep
    BY <1>2 DEF Next, vars, Requesting, Measuring, Reporting, Preparing, Transforming, Benchmarking
  <2> QED BY <2>1, <2>2, <2>3
<1> QED BY <1>1, <1>2, PTL DEF Spec

\* DeltaIsPayload (Requests) follows: for every engine, cell and parallelism.
LEMMA DeltasHold == Swept => DeltaIsPayload
<1> SUFFICES ASSUME Swept, case.kind = "cell", NEW e \in Engines,
                    Wire(e, case.grid, case.row, case.column, case.parallel) # Refused
             PROVE  LET x == Wire(e, case.grid, case.row, case.column, case.parallel)
                        base == Grids[case.grid].base
                    IN  /\ \A r \in Rows, c \in Columns :
                              <<r, c>> # <<case.row, case.column>> =>
                                  Wire(e, case.grid, r, c, case.parallel) # x
                        /\ base # "none" =>
                             LET y == Wire(e, base, case.row, case.column, case.parallel)
                             IN  \/ /\ Apart(x, y) = {"ops"}
                                    /\ x.ops.field = y.ops.field /\ x.ops.limit = y.ops.limit
                                 \/ /\ Apart(x, y) # {}
                                    /\ Apart(x, y) \subseteq {"limit", "size", "stored_fields"}
  BY Zenon DEF DeltaIsPayload, Wire, Apart, Pinned
<1>1. case.grid \in DOMAIN Grids /\ case.row \in Rows /\ case.column \in Columns
  BY DEF Swept
<1>2. PICK grid \in DOMAIN Grids, row \in Rows, column \in Columns,
            parallel \in {case.parallel} :
        grid = case.grid /\ row = case.row /\ column = case.column
  BY <1>1
<1>e. parallel = case.parallel
  OBVIOUS
<1>3. ASSUME NEW r \in Rows, NEW c \in Columns, <<r, c>> # <<row, column>>
      PROVE  Wire(e, grid, r, c, parallel) # Wire(e, grid, row, column, parallel)
  BY <1>2, <1>3, CellsApart
<1>4. ASSUME Grids[grid].base # "none"
      PROVE  LET x == Wire(e, grid, row, column, parallel)
                 y == Wire(e, Grids[grid].base, row, column, parallel)
             IN  \/ /\ Apart(x, y) = {"ops"}
                    /\ x.ops.field = y.ops.field /\ x.ops.limit = y.ops.limit
                 \/ /\ Apart(x, y) # {}
                    /\ Apart(x, y) \subseteq {"limit", "size", "stored_fields"}
  <2> DEFINE x == Wire(e, grid, row, column, parallel)
             base == Grids[grid].base
             y == Wire(e, base, row, column, parallel)
  <2>1. x # Refused
    BY <1>2, <1>e
  <2>2. base # "none"
    BY <1>4
  <2> HIDE DEF base
  <2>3. base = Grids[grid].base
    BY DEF base
  <2> HIDE DEF x, y
  <2>4. x = Wire(e, grid, row, column, parallel) /\ y = Wire(e, base, row, column, parallel)
    BY DEF x, y
  <2>5. \/ /\ Apart(x, y) = {"ops"}
           /\ x.ops.field = y.ops.field /\ x.ops.limit = y.ops.limit
        \/ Apart(x, y) # {} /\ Apart(x, y) \subseteq {"limit", "size", "stored_fields"}
    BY <2>1, <2>2, <2>3, <2>4, OneDelta
  <2> QED BY <2>5 DEF x, y, base
<1> QED BY <1>2, <1>e, <1>3, <1>4, Zenon

\* The request of a payload cell differs from that of the same cell of the grid it
\* is read against in the facet's payload alone or in the retrieved documents
\* alone, and no two cells of a grid are one request (grid.py: GRIDS,
\* resolve_grid_cell; adapters.py: build of both).
THEOREM GridsAreDeltas == Spec => []DeltaIsPayload
BY SweptHolds, DeltasHold, PTL

-----------------------------------------------------------------------------
(* What the preparations leave behind.                                     *)

\* The clock is ahead of every file; the program is there.
Timed ==
  /\ DOMAIN prep = {"tool", "pc", "now", "runs", "changes", "published", "version",
                    "seen", "hash", "results"}
  /\ prep.now \in Nat
  /\ \A n \in DOMAIN disk : disk[n].time \in Nat /\ disk[n].time < prep.now
  /\ Has({<<"program">>})
\* A stamp whose writer looked at the archive that is there is of the archive.
Stamps ==
  Has({<<"stamp">>, <<"archive">>}) /\ Newer(<<"stamp">>, <<"archive">>)
     /\ disk[<<"archive">>].time < disk[<<"stamp">>].of.looked =>
    disk[<<"stamp">>].of.hash = disk[<<"archive">>].of
\* Between two looks the source is the one that was seen, or later than it; after
\* the last look it is the one that was hashed, or later than the look.
PinsKept ==
  prep.tool = "pins" =>
    /\ Has({<<"archive">>})
    /\ prep.pc \in {"hash", "look"} => prep.seen \in Nat /\ prep.seen <= disk[<<"archive">>].time
    /\ prep.pc = "look" /\ disk[<<"archive">>].time = prep.seen => prep.hash = disk[<<"archive">>].of
    /\ prep.pc \in {"stamp", "stamp again"} =>
          /\ prep.seen \in Nat /\ prep.seen < prep.now
          /\ disk[<<"archive">>].time < prep.seen => prep.hash = disk[<<"archive">>].of
    /\ prep.pc = "replace" => Has({<<"manifest.part">>})
\* The corpus and what is under way beside it: a checksum of before is older than
\* the corpus that is to be moved in.
Half ==
  /\ Has({<<"output.part">>, <<"report.part">>})
  /\ disk[<<"output.part">>].of = disk[<<"report.part">>].of
  /\ disk[<<"output.part">>].of.archive = "good"
  /\ Has({<<"digest">>}) => disk[<<"digest">>].time < disk[<<"output.part">>].time
CorpusKept ==
  prep.tool = "corpus" =>
    /\ Has({<<"output">>}) => disk[<<"output">>].of.archive = "good"
    /\ Has({<<"stamp">>}) =>
          disk[<<"stamp">>].of.hash = "good" /\ disk[<<"stamp">>].of.looked = disk[<<"stamp">>].time
    /\ Has({<<"output">>}) /\ Newer(<<"digest">>, <<"output">>) =>
          disk[<<"digest">>].of = disk[<<"output">>].of
    /\ prep.pc \in {"verify", "ready?"} => Has({<<"archive">>})
    /\ prep.pc = "ready?" => disk[<<"archive">>].of = "good"
    /\ prep.pc \in {"digest", "output"} => Half
    /\ prep.pc \in {"output", "report", "digest it"} => Has({<<"digest.part">>})
    /\ prep.pc = "output" => disk[<<"digest.part">>].of = disk[<<"output.part">>].of
    /\ prep.pc \in {"report", "digest it"} =>
          Has({<<"output">>}) /\ disk[<<"digest.part">>].of = disk[<<"output">>].of
    /\ prep.pc = "report" =>
          Has({<<"report.part">>}) /\ disk[<<"report.part">>].of = disk[<<"output">>].of
\* An engine in its place passed its tests; what the link names is in its place.
Homes ==
  /\ \A b : Tar(b) \in DOMAIN disk => disk[Tar(b)].of \in Archives
  /\ \A b : Home(b) \in DOMAIN disk =>
        disk[Home(b)].of \in {"good"} \cup IF prep.published THEN {} ELSE {"altered"}
  /\ <<"link">> \in DOMAIN disk => Home(disk[<<"link">>].of) \in DOMAIN disk
  /\ prep.tool = "snapshot" /\ prep.pc = "link" => Home(prep.version) \in DOMAIN disk
  /\ prep.tool = "snapshot" /\ prep.pc = "unpack" => Tar(prep.version) \in DOMAIN disk
\* The checksums of a prepared directory are of what the program made.
VectorsKept ==
  /\ \A v : Prepared(v) \in DOMAIN disk =>
        /\ DOMAIN disk[Prepared(v)].of = {"identity", "corpus", "truth", "sums"}
        /\ disk[Prepared(v)].of.sums = <<v, v>>
  /\ prep.tool = "vectors" /\ prep.pc \in {"recheck", "accepted"} => Prepared(prep.version) \in DOMAIN disk
  /\ Running("vectors", "accepted") =>
        /\ disk[Prepared(prep.version)].of.corpus = prep.version
        /\ disk[Prepared(prep.version)].of.truth = prep.version
\* A selection is of results that could be compared.
Selected ==
  /\ <<"selection">> \in DOMAIN disk =>
        /\ Selects(disk[<<"selection">>].of.results)
        /\ disk[<<"selection">>].of.sha256 = Agreeing(disk[<<"selection">>].of.results)
  /\ Running("selection", "manifest") => Selects(prep.results)

Made == Timed /\ Stamps /\ PinsKept /\ CorpusKept /\ Homes /\ VectorsKept /\ Selected
Preparations == IF active = "preparation" THEN Made ELSE prep = [tool |-> "none", pc |-> "idle"] /\ disk = <<>>

\* The file n is as it was.
SameFile(n) == (n \in DOMAIN disk' <=> n \in DOMAIN disk) /\ (n \in DOMAIN disk => disk'[n] = disk[n])

LEMMA FileNames ==
  /\ \A s, t : <<s>> = <<t>> => s = t
  /\ \A s, a, b, v : <<s>> # Tar(b) /\ <<s>> # Home(b) /\ <<s>> # Prepared(b)
  /\ \A a, b : Tar(a) # Home(b) /\ Tar(a) # Prepared(b) /\ Home(a) # Prepared(b)
  /\ \A a, b : (Tar(a) = Tar(b) => a = b) /\ (Home(a) = Home(b) => a = b)
                 /\ (Prepared(a) = Prepared(b) => a = b)
BY DEF Tar, Home, Prepared

\* What the writes of a program do to its files.
LEMMA PutFile ==
  ASSUME NEW n, NEW of, Put(n, of)
  PROVE  /\ n \in DOMAIN disk' /\ disk'[n].of = of /\ disk'[n].time = prep.now
         /\ \A m : m # n => SameFile(m)
<1> DEFINE new == [x \in {n} |-> File(of, prep.now)]
<1>1. disk' = new ++ disk
  BY DEF Put, Written
<1>2. disk' = [k \in DOMAIN new \cup DOMAIN disk |-> IF k \in DOMAIN new THEN new[k] ELSE disk[k]]
  BY <1>1 DEF ++
<1> QED BY <1>2 DEF File, SameFile

LEMMA DroppedFiles ==
  ASSUME NEW names, disk' = Without(names)
  PROVE  /\ \A m \in names : m \notin DOMAIN disk'
         /\ \A m : m \notin names => SameFile(m)
BY DEF Without, Restrict, SameFile

LEMMA RenamedFile ==
  ASSUME NEW from, NEW to, from # to, disk' = Renamed(from, to)
  PROVE  /\ to \in DOMAIN disk' /\ disk'[to] = disk[from] /\ from \notin DOMAIN disk'
         /\ \A m : m # from /\ m # to => SameFile(m)
<1> DEFINE new == [x \in {to} |-> disk[from]]
           rest == Without({from})
<1>1. disk' = new ++ rest
  BY DEF Renamed
<1>2. disk' = [k \in DOMAIN new \cup DOMAIN rest |-> IF k \in DOMAIN new THEN new[k] ELSE rest[k]]
  BY <1>1 DEF ++
<1>3. /\ DOMAIN new = {to} /\ new[to] = disk[from]
      /\ DOMAIN rest = DOMAIN disk \ {from} /\ \A m \in DOMAIN rest : rest[m] = disk[m]
  BY DEF Without, Restrict
<1> HIDE DEF new, rest
<1>4. /\ DOMAIN disk' = {to} \cup (DOMAIN disk \ {from})
      /\ disk'[to] = disk[from]
      /\ \A m \in DOMAIN disk \ {from} : m # to => disk'[m] = disk[m]
  BY <1>2, <1>3
<1> QED BY <1>4 DEF SameFile

\* A step does not change the tool; time passes.
LEMMA Clock ==
  ASSUME Timed, PrepStep
  PROVE  /\ DOMAIN prep' = DOMAIN prep /\ prep'.now = prep.now + 1
         /\ prep'.tool = prep.tool /\ prep'.published = prep.published
<1> USE DEF Timed
<1>1. CASE PrepBegin BY <1>1 DEF PrepBegin
<1>2. CASE PrepKilled BY <1>2 DEF PrepKilled, Stop, Go
<1>3. CASE Edit BY <1>3 DEF Edit
<1>4. CASE ReplaceArchive BY <1>4 DEF ReplaceArchive
<1>5. CASE Fetch BY <1>5 DEF Fetch, Stop, Go
<1>6. CASE Verify BY <1>6 DEF Verify, Stop, Go
<1>7. CASE Transform BY <1>7 DEF Transform, Stop, Go
<1>8. CASE WriteDigest BY <1>8 DEF WriteDigest, Stop, Go
<1>9. CASE MoveInto BY <1>9 DEF MoveInto, Stop, Go
<1>10. CASE TakeCorpus BY <1>10 DEF TakeCorpus, Stop, Go
<1>11. CASE ResolveBuild BY <1>11 DEF ResolveBuild
<1>12. CASE DownloadBuild BY <1>12 DEF DownloadBuild, Go
<1>13. CASE Unpack BY <1>13 DEF Unpack, Stop, Go
<1>14. CASE Link BY <1>14 DEF Link, Stop, Go
<1>15. CASE Stage BY <1>15 DEF Stage
<1>16. CASE Recheck BY <1>16 DEF Recheck, Stop, Go
<1>17. CASE Overwrite BY <1>17 DEF Overwrite
<1>18. CASE PinStat BY <1>18 DEF PinStat
<1>19. CASE PinHash BY <1>19 DEF PinHash
<1>20. CASE PinLook BY <1>20 DEF PinLook, Stop, Go
<1>21. CASE Select BY <1>21 DEF Select, Stop, Go
<1>22. CASE ReplaceManifest BY <1>22 DEF ReplaceManifest, Stop, Go
<1>23. CASE PinStamp BY <1>23 DEF PinStamp, Go
<1>24. CASE PinVerify BY <1>24 DEF PinVerify, Stop, Go
<1>25. CASE WritePins BY <1>25 DEF WritePins, Go
<1>26. CASE ReplacePins BY <1>26 DEF ReplacePins, Stop, Go
<1> QED
  BY <1>1, <1>2, <1>3, <1>4, <1>5, <1>6, <1>7, <1>8, <1>9, <1>10, <1>11, <1>12, <1>13, <1>14,
     <1>15, <1>16, <1>17, <1>18, <1>19, <1>20, <1>21, <1>22, <1>23, <1>24, <1>25, <1>26
  DEF PrepStep

\* A program writes its own files; the program and the archive are anybody's.
Owned(n) ==
  \/ Edit /\ n = <<"program">>
  \/ (ReplaceArchive \/ Fetch) /\ n = <<"archive">>
  \/ (Verify \/ PinStamp) /\ n = <<"stamp">>
  \/ prep.tool = "pins" /\ n \in {<<"manifest.part">>, <<"manifest">>}
  \/ prep.tool = "corpus" /\ n \in Parts \cup {<<"output">>, <<"report">>, <<"digest">>}
  \/ prep.tool = "snapshot" /\ (n = <<"link">> \/ \E b : n = Tar(b) \/ n = Home(b))
  \/ prep.tool = "vectors" /\ (n = <<"sidecar">> \/ \E v : n = Prepared(v))
  \/ prep.tool = "selection" /\ n \in {<<"queries">>, <<"selection">>}

\* Every file is of before, or is written now; a renamed one is of before too.
Aged == \A n \in DOMAIN disk' : disk'[n].time = prep.now \/ \E m \in DOMAIN disk : disk'[n] = disk[m]

\* Only what is half made is ever removed.
Remaining == DOMAIN disk \ (Parts \cup {<<"manifest.part">>}) \subseteq DOMAIN disk'

Writes == Aged /\ Remaining /\ \A n : ~Owned(n) => SameFile(n)

LEMMA Untouched == ASSUME disk' = disk PROVE Writes
BY DEF Writes, Aged, Remaining, SameFile

LEMMA PutWrites == ASSUME NEW n, NEW of, Put(n, of), Owned(n) PROVE Writes
<1>1. /\ n \in DOMAIN disk' /\ disk'[n].of = of /\ disk'[n].time = prep.now
      /\ \A m : m # n => SameFile(m)
  BY PutFile
<1>2. Aged
  BY <1>1 DEF Aged, SameFile
<1> QED BY <1>1, <1>2 DEF Writes, Remaining, SameFile

LEMMA TransformWrites ==
  ASSUME NEW made,
         disk' = [n \in {<<"output.part">>, <<"report.part">>} |-> File(made, prep.now)]
                   ++ Without(Parts)
  PROVE  /\ \A m \in {<<"output.part">>, <<"report.part">>} :
              m \in DOMAIN disk' /\ disk'[m].of = made /\ disk'[m].time = prep.now
         /\ <<"digest.part">> \notin DOMAIN disk'
         /\ \A m : m \notin Parts => SameFile(m)
<1> DEFINE new == [n \in {<<"output.part">>, <<"report.part">>} |-> File(made, prep.now)]
           rest == Without(Parts)
<1>1. disk' = [k \in DOMAIN new \cup DOMAIN rest |-> IF k \in DOMAIN new THEN new[k] ELSE rest[k]]
  BY DEF ++
<1>2. /\ DOMAIN new = {<<"output.part">>, <<"report.part">>}
      /\ \A m \in DOMAIN new : new[m].of = made /\ new[m].time = prep.now
      /\ DOMAIN rest = DOMAIN disk \ Parts /\ \A m \in DOMAIN rest : rest[m] = disk[m]
  BY DEF Without, Restrict, File
<1> HIDE DEF new, rest
<1>3. <<"digest.part">> \notin DOMAIN new
  BY <1>2, FileNames
<1> QED BY <1>1, <1>2, <1>3 DEF SameFile, Parts

LEMMA StepWrites == ASSUME Timed, CorpusKept, PinsKept, PrepStep PROVE Writes
<1> USE DEF Running
<1>1. CASE PrepBegin BY <1>1, Untouched DEF PrepBegin
<1>2. CASE PrepKilled BY <1>2, Untouched DEF PrepKilled
<1>3. CASE Edit BY <1>3, PutWrites DEF Edit, Owned
<1>4. CASE ReplaceArchive BY <1>4, PutWrites DEF ReplaceArchive, Owned
<1>5. CASE Fetch BY <1>5, Untouched, PutWrites DEF Fetch, Owned
<1>6. CASE Verify BY <1>6, Untouched, PutWrites DEF Verify, Stamp, Owned
<1>7. CASE Transform
  <2>1. prep.tool = "corpus"
    BY <1>7 DEF Transform
  <2>2. CASE disk' = disk
    BY <2>2, Untouched
  <2>3. CASE disk' = Without(Parts)
    <3>1. /\ \A m \in Parts : m \notin DOMAIN disk'
          /\ \A m : m \notin Parts => SameFile(m)
      BY <2>3, DroppedFiles
    <3>2. Aged
      BY <3>1 DEF Aged, SameFile
    <3> QED BY <2>1, <3>1, <3>2 DEF Writes, Remaining, Owned, SameFile
  <2>4. ASSUME NEW made,
               disk' = [n \in {<<"output.part">>, <<"report.part">>} |-> File(made, prep.now)]
                         ++ Without(Parts)
        PROVE  Writes
    <3>1. /\ \A m \in {<<"output.part">>, <<"report.part">>} :
                m \in DOMAIN disk' /\ disk'[m].of = made /\ disk'[m].time = prep.now
          /\ <<"digest.part">> \notin DOMAIN disk'
          /\ \A m : m \notin Parts => SameFile(m)
      BY <2>4, TransformWrites
    <3>2. Aged
      BY <3>1 DEF Aged, SameFile, Parts
    <3> QED BY <2>1, <3>1, <3>2 DEF Writes, Remaining, Owned, SameFile
  <2>5. \/ disk' = disk
        \/ disk' = Without(Parts)
        \/ \E made : disk' = [n \in {<<"output.part">>, <<"report.part">>} |-> File(made, prep.now)]
                               ++ Without(Parts)
    BY <1>7 DEF Transform
  <2> QED BY <2>2, <2>3, <2>4, <2>5
<1>8. CASE WriteDigest BY <1>8, PutWrites DEF WriteDigest, Owned, Parts
<1>9. CASE MoveInto
  <2>1. prep.tool = "corpus"
    BY <1>9 DEF MoveInto
  <2>2. ASSUME NEW from \in Parts, NEW to \in {<<"output">>, <<"report">>, <<"digest">>},
               from \in DOMAIN disk, disk' = Renamed(from, to)
        PROVE  Writes
    <3>0. from # to
      BY FileNames DEF Parts
    <3>1. /\ to \in DOMAIN disk' /\ disk'[to] = disk[from] /\ from \notin DOMAIN disk'
          /\ \A m : m # from /\ m # to => SameFile(m)
      BY <2>2, <3>0, RenamedFile
    <3>2. Aged
      BY <2>2, <3>1 DEF Aged, SameFile
    <3> QED BY <2>1, <3>1, <3>2 DEF Writes, Remaining, Owned, SameFile
  <2>3. CASE prep.pc = "output"
    BY <1>9, <2>1, <2>2, <2>3 DEF MoveInto, Parts, CorpusKept, Half, Has
  <2>4. CASE prep.pc = "report"
    BY <1>9, <2>1, <2>2, <2>4 DEF MoveInto, Parts, CorpusKept, Has
  <2>5. CASE prep.pc = "digest it"
    BY <1>9, <2>1, <2>2, <2>5 DEF MoveInto, Parts, CorpusKept, Has
  <2> QED BY <1>9, <2>3, <2>4, <2>5 DEF MoveInto
<1>10. CASE TakeCorpus BY <1>10, PutWrites DEF TakeCorpus, Owned
<1>11. CASE ResolveBuild BY <1>11, Untouched DEF ResolveBuild
<1>12. CASE DownloadBuild
  BY <1>12, Untouched, PutWrites DEF DownloadBuild, Owned
<1>13. CASE Unpack BY <1>13, Untouched, PutWrites DEF Unpack, Owned
<1>14. CASE Link BY <1>14, PutWrites DEF Link, Owned
<1>15. CASE Stage BY <1>15, Untouched, PutWrites DEF Stage, Owned
<1>16. CASE Recheck BY <1>16, Untouched, PutWrites DEF Recheck, Owned
<1>17. CASE Overwrite BY <1>17, PutWrites DEF Overwrite, Owned
<1>18. CASE PinStat BY <1>18, Untouched DEF PinStat
<1>19. CASE PinHash BY <1>19, Untouched DEF PinHash
<1>20. CASE PinLook BY <1>20, Untouched DEF PinLook
<1>21. CASE Select BY <1>21, Untouched, PutWrites DEF Select, Owned
<1>22. CASE ReplaceManifest BY <1>22, PutWrites DEF ReplaceManifest, Owned
<1>23. CASE PinStamp BY <1>23, PutWrites DEF PinStamp, Stamp, Owned
<1>24. CASE PinVerify BY <1>24, Untouched DEF PinVerify
<1>25. CASE WritePins BY <1>25, PutWrites DEF WritePins, Owned
<1>26. CASE ReplacePins
  <2> DEFINE from == <<"manifest.part">>
             to == <<"manifest">>
  <2>1. prep.tool = "pins" /\ from \in DOMAIN disk /\ from # to
    BY <1>26, FileNames DEF ReplacePins, PinsKept, Has
  <2>2. /\ to \in DOMAIN disk' /\ disk'[to] = disk[from] /\ from \notin DOMAIN disk'
        /\ \A m : m # from /\ m # to => SameFile(m)
    BY <1>26, <2>1, RenamedFile DEF ReplacePins
  <2>3. Aged
    BY <2>1, <2>2 DEF Aged, SameFile
  <2> QED BY <2>1, <2>2, <2>3 DEF Writes, Remaining, Owned, SameFile
<1> QED
  BY <1>1, <1>2, <1>3, <1>4, <1>5, <1>6, <1>7, <1>8, <1>9, <1>10, <1>11, <1>12, <1>13, <1>14,
     <1>15, <1>16, <1>17, <1>18, <1>19, <1>20, <1>21, <1>22, <1>23, <1>24, <1>25, <1>26
  DEF PrepStep


\* Unowned files stay, and so does what is said of them.
LEMMA Frames ==
  ASSUME Timed, CorpusKept, PinsKept, PrepStep
  PROVE  /\ ~(ReplaceArchive \/ Fetch) => SameFile(<<"archive">>)
         /\ ~(Verify \/ PinStamp) => SameFile(<<"stamp">>)
         /\ prep.tool # "corpus" =>
              \A s \in {"output", "report", "digest", "output.part", "report.part", "digest.part"} :
                 SameFile(<<s>>)
         /\ prep.tool # "snapshot" => SameFile(<<"link">>) /\ \A b : SameFile(Tar(b)) /\ SameFile(Home(b))
         /\ prep.tool # "vectors" => \A v : SameFile(Prepared(v))
         /\ prep.tool # "selection" => SameFile(<<"queries">>) /\ SameFile(<<"selection">>)
<1>0. \A n : ~Owned(n) => SameFile(n)
  BY StepWrites DEF Writes
<1>1. /\ ~(ReplaceArchive \/ Fetch) => ~Owned(<<"archive">>)
      /\ ~(Verify \/ PinStamp) => ~Owned(<<"stamp">>)
  BY FileNames DEF Owned, Parts
<1>2. prep.tool # "corpus" =>
        \A s \in {"output", "report", "digest", "output.part", "report.part", "digest.part"} : ~Owned(<<s>>)
  BY FileNames DEF Owned, Parts
<1>3. prep.tool # "snapshot" => ~Owned(<<"link">>)
  BY FileNames DEF Owned, Parts
<1>4. prep.tool # "snapshot" => \A b : ~Owned(Tar(b)) /\ ~Owned(Home(b))
  BY FileNames DEF Owned, Parts
<1>5. prep.tool # "vectors" => \A v : ~Owned(Prepared(v))
  BY FileNames DEF Owned, Parts
<1>6. prep.tool # "selection" => ~Owned(<<"queries">>) /\ ~Owned(<<"selection">>)
  BY FileNames DEF Owned, Parts
<1> QED BY <1>0, <1>1, <1>2, <1>3, <1>4, <1>5, <1>6

LEMMA TimedGoes == ASSUME Timed, CorpusKept, PinsKept, PrepStep PROVE Timed'
<1>1. /\ DOMAIN prep' = DOMAIN prep /\ prep'.now = prep.now + 1
  BY Clock
<1>2. \A n \in DOMAIN disk' : disk'[n].time = prep.now \/ \E m \in DOMAIN disk : disk'[n] = disk[m]
  BY StepWrites DEF Writes, Aged
<1>3. \A n \in DOMAIN disk' : disk'[n].time \in Nat /\ disk'[n].time < prep'.now
  BY <1>1, <1>2 DEF Timed
<1>4. <<"program">> \in DOMAIN disk'
  BY StepWrites, FileNames DEF Timed, Has, Writes, Remaining, Parts
<1> QED BY <1>1, <1>3, <1>4 DEF Timed, Has


\* The steps that any program may take, and that they leave everything but the
\* program and the archive alone.
Common == PrepBegin \/ PrepKilled \/ Edit \/ ReplaceArchive

LEMMA CommonSteps ==
  ASSUME Timed, Common
  PROVE  /\ \A n : n # <<"program">> /\ n # <<"archive">> => SameFile(n)
         /\ prep'.tool = prep.tool /\ prep'.version = prep.version /\ prep'.published = prep.published
         /\ prep'.results = prep.results
         /\ prep'.pc \in {"begin", "idle", prep.pc}
<1> USE DEF Timed
<1>1. CASE PrepBegin BY <1>1 DEF PrepBegin, SameFile
<1>2. CASE PrepKilled BY <1>2 DEF PrepKilled, Stop, Go, SameFile
<1>3. CASE Edit BY <1>3, PutFile DEF Edit
<1>4. CASE ReplaceArchive BY <1>4, PutFile DEF ReplaceArchive
<1> QED BY <1>1, <1>2, <1>3, <1>4 DEF Common

LEMMA HomesGo == ASSUME Made, PrepStep PROVE Homes'
<1> USE DEF Made
<1>0. /\ DOMAIN prep' = DOMAIN prep
      /\ prep'.tool = prep.tool /\ prep'.published = prep.published
  BY Clock
<1>1. CASE prep.tool # "snapshot"
  <2>1. SameFile(<<"link">>) /\ \A b : SameFile(Tar(b)) /\ SameFile(Home(b))
    BY <1>1, Frames
  <2> QED BY <1>0, <1>1, <2>1 DEF Homes, SameFile
<1>2. CASE Common
  <2>1. SameFile(<<"link">>) /\ \A b : SameFile(Tar(b)) /\ SameFile(Home(b))
    BY <1>2, CommonSteps, FileNames
  <2>2. prep'.version = prep.version /\ prep'.pc \in {"begin", "idle", prep.pc}
    BY <1>2, CommonSteps
  <2> QED BY <1>0, <2>1, <2>2 DEF Homes, SameFile
<1>3. CASE ResolveBuild
  BY <1>3 DEF ResolveBuild, Homes, Timed, Has
<1>4. CASE DownloadBuild
  <2>1. /\ prep'.version = prep.version /\ prep'.pc = "unpack"
    BY <1>4 DEF DownloadBuild, Go, Timed
  <2>2. CASE disk' = disk /\ Has({Tar(prep.version)})
    BY <1>0, <2>1, <2>2 DEF Homes, Has
  <2>3. ASSUME NEW of \in Archives, Put(Tar(prep.version), of) PROVE Homes'
    <3>1. /\ Tar(prep.version) \in DOMAIN disk' /\ disk'[Tar(prep.version)].of = of
          /\ \A m : m # Tar(prep.version) => SameFile(m)
      BY <2>3, PutFile
    <3>2. SameFile(<<"link">>) /\ \A b : SameFile(Home(b))
      BY <3>1, FileNames
    <3> QED BY <1>0, <2>1, <3>1, <3>2, FileNames DEF Homes, SameFile
  <2> QED BY <1>4, <2>2, <2>3 DEF DownloadBuild
<1>5. CASE Unpack
  <2> DEFINE of == disk[Tar(prep.version)].of
  <2>1. CASE prep'.pc = "idle" /\ disk' = disk
    BY <1>0, <2>1 DEF Homes
  <2>2. CASE /\ of \notin {"damaged", "other"} /\ ~(prep.published /\ of # "good")
             /\ Go("link") /\ Put(Home(prep.version), of)
    <3>1. /\ Home(prep.version) \in DOMAIN disk' /\ disk'[Home(prep.version)].of = of
          /\ \A m : m # Home(prep.version) => SameFile(m)
      BY <2>2, PutFile
    <3>2. SameFile(<<"link">>) /\ \A b : SameFile(Tar(b))
      BY <3>1, FileNames
    <3>3. of \in {"good"} \cup IF prep.published THEN {} ELSE {"altered"}
      BY <1>5, <2>2 DEF Unpack, Running, Homes, Archives
    <3>4. prep'.version = prep.version /\ prep'.pc = "link"
      BY <2>2 DEF Go, Timed
    <3> QED BY <1>0, <3>1, <3>2, <3>3, <3>4, FileNames DEF Homes, SameFile
  <2> QED BY <1>5, <2>1, <2>2 DEF Unpack, Stop, Go, Timed
<1>6. CASE Link
  <2>1. /\ <<"link">> \in DOMAIN disk' /\ disk'[<<"link">>].of = prep.version
        /\ \A m : m # <<"link">> => SameFile(m)
    BY <1>6, PutFile DEF Link
  <2>2. \A b : SameFile(Tar(b)) /\ SameFile(Home(b))
    BY <2>1, FileNames
  <2>3. prep'.pc = "idle"
    BY <1>6 DEF Link, Stop, Go, Timed
  <2> QED BY <1>0, <1>6, <2>1, <2>2, <2>3 DEF Homes, SameFile, Link, Running
<1> QED
  BY <1>1, <1>2, <1>3, <1>4, <1>5, <1>6
  DEF PrepStep, Common, Running, Fetch, Verify, Transform, WriteDigest, MoveInto, TakeCorpus,
      Stage, Recheck, Overwrite, PinStat, PinHash, PinLook, PinStamp, PinVerify, WritePins,
      ReplacePins, Select, ReplaceManifest

LEMMA VectorsGo == ASSUME Made, PrepStep PROVE VectorsKept'
<1> USE DEF Made
<1>0. DOMAIN prep' = DOMAIN prep /\ prep'.tool = prep.tool
  BY Clock
<1>1. CASE prep.tool # "vectors"
  <2>1. \A v : SameFile(Prepared(v))
    BY <1>1, Frames
  <2> QED BY <1>0, <1>1, <2>1 DEF VectorsKept, SameFile, Running
<1>2. CASE Common
  <2>1. \A v : SameFile(Prepared(v))
    BY <1>2, CommonSteps, FileNames
  <2>2. prep'.version = prep.version /\ prep'.pc \in {"begin", "idle", prep.pc}
    BY <1>2, CommonSteps
  <2> QED BY <1>0, <2>1, <2>2 DEF VectorsKept, SameFile, Running
<1>3. CASE Stage
  <2> DEFINE v == disk[<<"program">>].of
  <2>1. prep'.version = v /\ prep'.pc = "recheck"
    BY <1>3 DEF Stage, Timed
  <2>2. CASE disk' = disk /\ Has({Prepared(v)})
    BY <1>0, <2>1, <2>2 DEF VectorsKept, Has, Running
  <2>3. CASE Put(Prepared(v), [identity |-> v, corpus |-> v, truth |-> v, sums |-> <<v, v>>])
    <3> DEFINE made == [identity |-> v, corpus |-> v, truth |-> v, sums |-> <<v, v>>]
    <3>1. /\ Prepared(v) \in DOMAIN disk' /\ disk'[Prepared(v)].of = made
          /\ \A m : m # Prepared(v) => SameFile(m)
      BY <2>3, PutFile
    <3>2. DOMAIN made = {"identity", "corpus", "truth", "sums"} /\ made.sums = <<v, v>>
      OBVIOUS
    <3> HIDE DEF made, v
    <3> QED BY <1>0, <2>1, <3>1, <3>2, FileNames DEF VectorsKept, SameFile, Running
  <2> QED BY <1>3, <2>2, <2>3 DEF Stage
<1>4. CASE Recheck
  <2> DEFINE p == disk[Prepared(prep.version)].of
  <2>1. CASE prep'.pc = "idle" /\ disk' = disk
    BY <1>0, <2>1 DEF VectorsKept, Running
  <2>2. CASE /\ p.identity = prep.version /\ p.sums = <<p.corpus, p.truth>>
             /\ Go("accepted") /\ Put(<<"sidecar">>, p.sums[1])
    <3>1. \A v : SameFile(Prepared(v))
      BY <2>2, PutFile, FileNames
    <3>2. prep'.version = prep.version /\ prep'.pc = "accepted"
      BY <2>2 DEF Go, Timed
    <3>3. Prepared(prep.version) \in DOMAIN disk /\ p.sums = <<prep.version, prep.version>>
      BY <1>4 DEF Recheck, Running, VectorsKept
    <3>4. p.corpus = prep.version /\ p.truth = prep.version
      BY <2>2, <3>3
    <3> QED BY <1>0, <3>1, <3>2, <3>3, <3>4 DEF VectorsKept, SameFile, Running
  <2> QED BY <1>4, <2>1, <2>2 DEF Recheck, Stop, Go, Timed
<1>5. CASE Overwrite
  <2>1. PICK file \in {"corpus", "truth"} :
          Put(Prepared(1), [disk[Prepared(1)].of EXCEPT ![file] = 0])
    BY <1>5 DEF Overwrite
  <2> DEFINE before == disk[Prepared(1)].of
             after == [before EXCEPT ![file] = 0]
  <2>2. /\ Prepared(1) \in DOMAIN disk' /\ disk'[Prepared(1)].of = after
        /\ \A m : m # Prepared(1) => SameFile(m)
    BY <2>1, PutFile
  <2>3. prep'.pc = "idle" /\ Prepared(1) \in DOMAIN disk
    BY <1>5 DEF Overwrite, Running, Timed, Has
  <2>4. DOMAIN before = {"identity", "corpus", "truth", "sums"} /\ before.sums = <<1, 1>>
    BY <2>3 DEF VectorsKept
  <2>5. DOMAIN after = {"identity", "corpus", "truth", "sums"} /\ after.sums = <<1, 1>>
    BY <2>4
  <2> HIDE DEF before, after
  <2> QED BY <1>0, <2>2, <2>3, <2>5, FileNames DEF VectorsKept, SameFile, Running
<1> QED
  BY <1>1, <1>2, <1>3, <1>4, <1>5
  DEF PrepStep, Common, Running, Fetch, Verify, Transform, WriteDigest, MoveInto, TakeCorpus,
      ResolveBuild, DownloadBuild, Unpack, Link, PinStat, PinHash, PinLook, PinStamp, PinVerify,
      WritePins, ReplacePins, Select, ReplaceManifest

LEMMA SelectedGoes == ASSUME Made, PrepStep PROVE Selected'
<1> USE DEF Made
<1>0. DOMAIN prep' = DOMAIN prep /\ prep'.tool = prep.tool
  BY Clock
<1>1. CASE prep.tool # "selection"
  <2>1. SameFile(<<"selection">>)
    BY <1>1, Frames
  <2> QED BY <1>0, <1>1, <2>1 DEF Selected, SameFile, Running
<1>2. CASE Common
  <2>1. SameFile(<<"selection">>)
    BY <1>2, CommonSteps, FileNames
  <2>2. prep'.results = prep.results /\ prep'.pc \in {"begin", "idle", prep.pc}
    BY <1>2, CommonSteps
  <2> QED BY <1>0, <2>1, <2>2 DEF Selected, SameFile, Running
<1>3. CASE Select
  <2>1. CASE prep'.pc = "idle" /\ disk' = disk
    BY <1>0, <2>1 DEF Selected, Running
  <2>2. ASSUME NEW r, Selects(r), prep' = [prep EXCEPT !.results = r, !.now = @ + 1, !.pc = "manifest"],
               Put(<<"queries">>, Agreeing(r))
        PROVE  Selected'
    <3>1. SameFile(<<"selection">>)
      BY <2>2, PutFile, FileNames
    <3>2. prep'.results = r
      BY <2>2 DEF Timed
    <3> QED BY <2>2, <3>1, <3>2 DEF Selected, SameFile, Running
  <2> QED BY <1>3, <2>1, <2>2 DEF Select, Stop, Go, Timed
<1>4. CASE ReplaceManifest
  <2> DEFINE made == [results |-> prep.results, sha256 |-> Agreeing(prep.results)]
  <2>1. /\ <<"selection">> \in DOMAIN disk' /\ disk'[<<"selection">>].of = made
    BY <1>4, PutFile DEF ReplaceManifest
  <2>2. prep'.pc = "idle" /\ Selects(prep.results)
    BY <1>4 DEF ReplaceManifest, Stop, Go, Timed, Selected, Running
  <2> QED BY <2>1, <2>2 DEF Selected, Running
<1> QED
  BY <1>1, <1>2, <1>3, <1>4
  DEF PrepStep, Common, Running, Fetch, Verify, Transform, WriteDigest, MoveInto, TakeCorpus,
      ResolveBuild, DownloadBuild, Unpack, Link, Stage, Recheck, Overwrite, PinStat, PinHash,
      PinLook, PinStamp, PinVerify, WritePins, ReplacePins


LEMMA StampsGo == ASSUME Made, PrepStep PROVE Stamps'
<1> USE DEF Made
<1>1. CASE ReplaceArchive \/ (Fetch /\ Put(<<"archive">>, "good"))
  <2>1. /\ <<"archive">> \in DOMAIN disk' /\ disk'[<<"archive">>].time = prep.now
        /\ SameFile(<<"stamp">>)
    BY <1>1, PutFile, FileNames DEF ReplaceArchive
  <2>2. <<"stamp">> \in DOMAIN disk' => disk'[<<"stamp">>].time < prep.now /\ prep.now \in Nat
                                        /\ disk'[<<"stamp">>].time \in Nat
    BY <2>1 DEF SameFile, Timed
  <2> QED BY <2>1, <2>2 DEF Stamps, Newer, Has
<1>2. CASE disk' = disk
  BY <1>2 DEF Stamps, Newer, Has
<1>3. CASE Verify
  <2>2. CASE disk[<<"archive">>].of = "good" /\ Stamp("good", prep.now)
    <3>1. disk'[<<"stamp">>].of.hash = "good" /\ SameFile(<<"archive">>)
      BY <2>2, PutFile, FileNames DEF Stamp
    <3>2. <<"archive">> \in DOMAIN disk
      BY <1>3 DEF Verify, Running, CorpusKept, Has
    <3> QED BY <2>2, <3>1, <3>2 DEF Stamps, SameFile
  <2> QED BY <1>2, <1>3, <2>2 DEF Verify
<1>4. CASE PinStamp
  <2>0. Put(<<"stamp">>, [hash |-> prep.hash, looked |-> prep.seen])
    BY <1>4 DEF PinStamp, Stamp
  <2>1. /\ disk'[<<"stamp">>].of.hash = prep.hash /\ disk'[<<"stamp">>].of.looked = prep.seen
        /\ SameFile(<<"archive">>)
    <3>1. disk'[<<"stamp">>].of = [hash |-> prep.hash, looked |-> prep.seen]
      BY <2>0, PutFile
    <3>2. SameFile(<<"archive">>)
      BY <2>0, PutFile, FileNames
    <3> QED BY <3>1, <3>2
  <2>2. <<"archive">> \in DOMAIN disk
        /\ (disk[<<"archive">>].time < prep.seen => prep.hash = disk[<<"archive">>].of)
    BY <1>4 DEF PinStamp, PinsKept, Has
  <2> QED BY <2>1, <2>2 DEF Stamps, SameFile
<1>5. CASE ~(ReplaceArchive \/ Fetch) /\ ~(Verify \/ PinStamp)
  <2>1. SameFile(<<"archive">>) /\ SameFile(<<"stamp">>)
    BY <1>5, Frames
  <2> SUFFICES ASSUME {<<"stamp">>, <<"archive">>} \subseteq DOMAIN disk',
                      disk'[<<"stamp">>].time > disk'[<<"archive">>].time,
                      disk'[<<"archive">>].time < disk'[<<"stamp">>].of.looked
               PROVE  disk'[<<"stamp">>].of.hash = disk'[<<"archive">>].of
    BY DEF Stamps, Newer, Has
  <2>2. /\ {<<"stamp">>, <<"archive">>} \subseteq DOMAIN disk
        /\ disk'[<<"stamp">>] = disk[<<"stamp">>] /\ disk'[<<"archive">>] = disk[<<"archive">>]
    BY <2>1 DEF SameFile
  <2>3. disk[<<"stamp">>].of.hash = disk[<<"archive">>].of
    BY <2>2 DEF Stamps, Newer, Has
  <2> QED BY <2>2, <2>3
<1>6. Fetch => Put(<<"archive">>, "good") \/ disk' = disk
  BY DEF Fetch
<1> QED BY <1>1, <1>2, <1>3, <1>4, <1>5, <1>6

LEMMA Later ==
  ASSUME NEW n \in Nat
  PROVE  /\ n + 1 \in Nat /\ n < n + 1
         /\ \A s, a \in Nat : s <= a /\ a < n => s < n
         /\ \A s \in Nat : s < n => s <= n /\ n # s /\ s < n + 1 /\ ~(n < s)
OBVIOUS

LEMMA PinsGo == ASSUME Made, PrepStep PROVE PinsKept'
<1> USE DEF Made
<1>0. prep'.tool = prep.tool /\ prep'.now = prep.now + 1
  BY Clock
<1> SUFFICES ASSUME prep.tool = "pins" PROVE PinsKept'
  BY <1>0 DEF PinsKept
<1>1. <<"archive">> \in DOMAIN disk
  BY DEF PinsKept, Has
<1>2. PICK at \in Nat, now \in Nat : disk[<<"archive">>].time = at /\ prep.now = now /\ at < now
  BY <1>1 DEF Timed
<1>3. /\ prep.pc \in {"hash", "look"} =>
            prep.seen \in Nat /\ prep.seen <= disk[<<"archive">>].time
      /\ prep.pc = "look" /\ disk[<<"archive">>].time = prep.seen =>
            prep.hash = disk[<<"archive">>].of
      /\ prep.pc \in {"stamp", "stamp again"} =>
            /\ prep.seen \in Nat /\ prep.seen < prep.now
            /\ disk[<<"archive">>].time < prep.seen => prep.hash = disk[<<"archive">>].of
      /\ prep.pc = "replace" => <<"manifest.part">> \in DOMAIN disk
  BY DEF PinsKept, Has
<1> DEFINE Goal ==
      /\ <<"archive">> \in DOMAIN disk'
      /\ prep'.pc \in {"hash", "look"} =>
            prep'.seen \in Nat /\ prep'.seen <= disk'[<<"archive">>].time
      /\ prep'.pc = "look" /\ disk'[<<"archive">>].time = prep'.seen =>
            prep'.hash = disk'[<<"archive">>].of
      /\ prep'.pc \in {"stamp", "stamp again"} =>
            /\ prep'.seen \in Nat /\ prep'.seen < prep'.now
            /\ disk'[<<"archive">>].time < prep'.seen => prep'.hash = disk'[<<"archive">>].of
      /\ prep'.pc = "replace" => <<"manifest.part">> \in DOMAIN disk'
<1> SUFFICES Goal
  BY DEF PinsKept, Has
<1>4. CASE ReplaceArchive
  <2>1. /\ <<"archive">> \in DOMAIN disk' /\ disk'[<<"archive">>].time = prep.now
        /\ SameFile(<<"manifest.part">>)
    BY <1>4, PutFile, FileNames DEF ReplaceArchive
  <2>2. prep'.pc = prep.pc /\ prep'.seen = prep.seen
    BY <1>4 DEF ReplaceArchive, Timed
  <2>3. prep.pc \in {"hash", "look", "stamp", "stamp again"} =>
          prep.seen \in Nat /\ prep.seen < prep.now
    <3>1. CASE prep.pc \in {"hash", "look"}
      <4>1. PICK seen \in Nat : prep.seen = seen /\ seen <= at
        BY <1>2, <1>3, <3>1
      <4>2. seen < now
        BY <1>2, <4>1
      <4> QED BY <1>2, <4>1, <4>2
    <3>2. CASE prep.pc \in {"stamp", "stamp again"}
      BY <1>3, <3>2
    <3> QED BY <3>1, <3>2
  <2>4. prep'.now \in Nat /\ prep.now < prep'.now
        /\ (prep.seen \in Nat /\ prep.seen < prep.now =>
               prep.seen <= prep.now /\ prep.now # prep.seen /\ prep.seen < prep'.now
               /\ ~(prep.now < prep.seen))
    BY <1>0, <1>2, Later
  <2>5. <<"manifest.part">> \in DOMAIN disk' <=> <<"manifest.part">> \in DOMAIN disk
    BY <2>1 DEF SameFile
  <2> QED BY <1>3, <2>1, <2>2, <2>3, <2>4, <2>5
<1>5. CASE ~ReplaceArchive
  <2>1. <<"archive">> \in DOMAIN disk' /\ disk'[<<"archive">>] = disk[<<"archive">>]
    BY <1>1, <1>5, Frames DEF Fetch, Running, SameFile
  <2>2. CASE PinStat
    <3>1. prep'.pc = "verify" \/ (prep'.pc = "hash" /\ prep'.seen = disk[<<"archive">>].time)
      BY <2>2 DEF PinStat, Timed
    <3>2. at <= at
      OBVIOUS
    <3> QED BY <1>2, <2>1, <3>1, <3>2
  <2>3. CASE PinHash
    <3>1. prep'.pc = "look" /\ prep'.seen = prep.seen /\ prep'.hash = disk[<<"archive">>].of
          /\ prep.pc = "hash"
      BY <2>3 DEF PinHash, Timed, Running
    <3> QED BY <1>3, <2>1, <3>1
  <2>4. CASE PrepBegin \/ PrepKilled \/ ReplacePins \/ PinStamp
    <3>1. prep'.pc \in {"idle", "begin", "verify", "manifest"}
      BY <2>4 DEF PrepBegin, PrepKilled, ReplacePins, PinStamp, Stop, Go, Timed
    <3> QED BY <2>1, <3>1
  <2>5. CASE Edit
    <3>1. prep'.pc = prep.pc /\ prep'.seen = prep.seen /\ prep'.hash = prep.hash
      BY <2>5 DEF Edit, Timed
    <3>2. <<"manifest.part">> \in DOMAIN disk' <=> <<"manifest.part">> \in DOMAIN disk
      BY <2>5, PutFile, FileNames DEF Edit, SameFile
    <3>3. prep.seen \in Nat /\ prep.seen < prep.now => prep.seen < prep'.now
      BY <1>0, <1>2
    <3> QED BY <1>3, <2>1, <3>1, <3>2, <3>3
  <2>6. CASE PinLook
    <3>1. \/ prep'.pc = "idle"
          \/ /\ prep'.pc = "stamp" /\ prep'.seen = prep.now /\ prep'.hash = prep.hash
             /\ prep.pc = "look" /\ disk[<<"archive">>].time = prep.seen
      BY <2>6 DEF PinLook, Stop, Go, Timed, Running
    <3>2. prep.now < prep'.now
      BY <1>0, <1>2
    <3> QED BY <1>2, <1>3, <2>1, <3>1, <3>2
  <2>7. CASE PinVerify
    <3>1. \/ prep'.pc \in {"idle", "manifest"}
          \/ /\ prep'.pc = "stamp again" /\ prep'.seen = prep.now /\ prep'.hash = prep.hash
             /\ disk[<<"archive">>].of = prep.hash
      BY <2>7 DEF PinVerify, Stop, Go, Timed
    <3>2. prep.now < prep'.now
      BY <1>0, <1>2
    <3> QED BY <1>2, <2>1, <3>1, <3>2
  <2>8. CASE WritePins
    <3>1. prep'.pc = "replace" /\ <<"manifest.part">> \in DOMAIN disk'
      BY <2>8, PutFile DEF WritePins, Go, Timed
    <3> QED BY <2>1, <3>1
  <2> HIDE DEF Goal
  <2> QED
    BY <1>5, <2>2, <2>3, <2>4, <2>5, <2>6, <2>7, <2>8
    DEF PrepStep, Running, Fetch, Verify, Transform, WriteDigest, MoveInto, TakeCorpus,
        ResolveBuild, DownloadBuild, Unpack, Link, Stage, Recheck, Overwrite, Select, ReplaceManifest
<1> HIDE DEF Goal
<1> QED BY <1>4, <1>5


\* Any file of the corpus and its half is as it was.
SameCorpus ==
  \A s \in {"output", "report", "digest", "output.part", "report.part", "digest.part", "stamp"} :
     SameFile(<<s>>)

LEMMA CorpusGoes == ASSUME Made, PrepStep PROVE CorpusKept'
<1> USE DEF Made
<1>0. DOMAIN prep' = DOMAIN prep /\ prep'.tool = prep.tool
  BY Clock
<1> SUFFICES ASSUME prep.tool = "corpus" PROVE CorpusKept'
  BY <1>0 DEF CorpusKept
<1>1. CASE SameCorpus /\ prep'.pc \in {"begin", "idle"}
  BY <1>0, <1>1 DEF CorpusKept, SameCorpus, SameFile, Has, Newer
<1>2. CASE Common
  <2>1. SameCorpus
    BY <1>2, CommonSteps, FileNames DEF SameCorpus
  <2>2. CASE prep'.pc \in {"begin", "idle"}
    BY <1>1, <2>1, <2>2
  <2>3. CASE Edit
    <3>1. prep'.pc = prep.pc /\ SameFile(<<"archive">>)
      BY <2>3, PutFile, FileNames DEF Edit, Timed
    <3> QED BY <1>0, <2>1, <3>1 DEF CorpusKept, SameCorpus, SameFile, Has, Newer, Half
  <2>4. CASE ReplaceArchive
    <3>1. prep'.pc = "idle"
      BY <2>4 DEF ReplaceArchive, Timed
    <3> QED BY <2>2, <3>1
  <2>5. CASE PrepBegin \/ PrepKilled
    <3>1. prep'.pc \in {"begin", "idle"}
      BY <2>5 DEF PrepBegin, PrepKilled, Stop, Go, Timed
    <3> QED BY <2>2, <3>1
  <2> QED BY <1>2, <2>3, <2>4, <2>5 DEF Common
<1>3. CASE Fetch
  <2>1. SameCorpus
    BY <1>3, PutFile, FileNames DEF Fetch, SameCorpus, SameFile
  <2>2. CASE prep'.pc = "idle"
    BY <1>1, <2>1, <2>2
  <2>3. CASE prep'.pc = "verify" /\ <<"archive">> \in DOMAIN disk'
    BY <1>0, <2>1, <2>3 DEF CorpusKept, SameCorpus, SameFile, Has, Newer
  <2>4. \/ prep'.pc = "idle"
        \/ prep'.pc = "verify" /\ <<"archive">> \in DOMAIN disk'
    BY <1>3, PutFile DEF Fetch, Stop, Go, Timed, Has
  <2> QED BY <2>2, <2>3, <2>4
<1>4. CASE Verify
  <2>1. <<"archive">> \in DOMAIN disk
    BY <1>4 DEF Verify, Running, CorpusKept, Has
  <2>2. CASE prep'.pc = "idle" /\ disk' = disk
    BY <1>1, <2>2 DEF SameCorpus, SameFile
  <2>3. CASE Newer(<<"stamp">>, <<"archive">>) /\ prep'.pc = "ready?" /\ disk' = disk
    <3>0. <<"stamp">> \in DOMAIN disk /\ disk[<<"archive">>].time < disk[<<"stamp">>].time
      BY <2>1, <2>3 DEF Newer, Has, Timed
    <3>1. disk[<<"archive">>].of = "good"
      BY <2>1, <2>3, <3>0 DEF Stamps, CorpusKept, Has
    <3> QED BY <1>0, <2>1, <2>3, <3>1 DEF CorpusKept, Has, Newer
  <2>4. CASE /\ disk[<<"archive">>].of = "good" /\ Stamp("good", prep.now) /\ prep'.pc = "ready?"
    <3>1. /\ disk'[<<"stamp">>].of.hash = "good"
          /\ disk'[<<"stamp">>].of.looked = disk'[<<"stamp">>].time
          /\ SameFile(<<"archive">>)
          /\ \A s \in {"output", "report", "digest", "output.part", "report.part", "digest.part"} :
                SameFile(<<s>>)
      BY <2>4, PutFile, FileNames DEF Stamp
    <3> QED BY <1>0, <2>1, <2>4, <3>1 DEF CorpusKept, SameFile, Has, Newer
  <2> QED BY <1>4, <2>2, <2>3, <2>4 DEF Verify, Trusted, Stop, Go, Timed
<1>5. CASE Transform
  <2>1. <<"archive">> \in DOMAIN disk /\ disk[<<"archive">>].of = "good"
    BY <1>5 DEF Transform, Running, CorpusKept, Has
  <2>2. CASE disk' = disk /\ prep'.pc = "idle"
    BY <1>1, <2>2 DEF SameCorpus, SameFile
  <2>3. CASE disk' = Without(Parts) /\ prep'.pc = "idle"
    <3>1. \A s \in {"output", "report", "digest", "stamp"} : SameFile(<<s>>)
      BY <2>3, DroppedFiles, FileNames DEF Parts
    <3> QED BY <1>0, <2>3, <3>1 DEF CorpusKept, SameFile, Has, Newer
  <2>4. ASSUME NEW made, made.archive = "good", prep'.pc = "digest",
               disk' = [n \in {<<"output.part">>, <<"report.part">>} |-> File(made, prep.now)]
                         ++ Without(Parts)
        PROVE  CorpusKept'
    <3>1. /\ \A m \in {<<"output.part">>, <<"report.part">>} :
                m \in DOMAIN disk' /\ disk'[m].of = made /\ disk'[m].time = prep.now
          /\ \A m : m \notin Parts => SameFile(m)
      BY <2>4, TransformWrites
    <3>2. \A s \in {"output", "report", "digest", "stamp"} : SameFile(<<s>>)
      BY <3>1, FileNames DEF Parts
    <3>3. Half'
      BY <2>4, <3>1, <3>2 DEF Half, SameFile, Has, Timed
    <3> QED BY <1>0, <2>4, <3>2, <3>3 DEF CorpusKept, SameFile, Has, Newer
  <2>5. \/ prep'.pc = "idle" /\ (disk' = disk \/ disk' = Without(Parts))
        \/ \E made : /\ made.archive = "good" /\ prep'.pc = "digest"
                     /\ disk' = [n \in {<<"output.part">>, <<"report.part">>} |-> File(made, prep.now)]
                                  ++ Without(Parts)
    <3> DEFINE made == [program |-> disk[<<"program">>].of, archive |-> disk[<<"archive">>].of]
    <3>1. made.archive = "good"
      BY <2>1
    <3> QED BY <1>5, <3>1 DEF Transform, Stop, Go, Timed
  <2> QED BY <2>2, <2>3, <2>4, <2>5
<1>6. CASE WriteDigest
  <2>1. prep.pc = "digest" /\ prep'.pc = "output"
    BY <1>6 DEF WriteDigest, Running, Go, Timed
  <2>2. /\ <<"digest.part">> \in DOMAIN disk' /\ disk'[<<"digest.part">>].of = disk[<<"report.part">>].of
        /\ \A s \in {"output", "report", "digest", "stamp", "output.part", "report.part"} : SameFile(<<s>>)
    BY <1>6, PutFile, FileNames DEF WriteDigest
  <2>3. Half
    BY <2>1 DEF CorpusKept
  <2>4. Half' /\ disk'[<<"digest.part">>].of = disk'[<<"output.part">>].of
    BY <2>2, <2>3 DEF Half, SameFile, Has
  <2> QED BY <1>0, <2>1, <2>2, <2>4 DEF CorpusKept, SameFile, Has, Newer
<1>7. CASE MoveInto
  <2>1. CASE prep.pc = "output" /\ prep'.pc = "report" /\ disk' = Renamed(<<"output.part">>, <<"output">>)
    <3>0. <<"output.part">> # <<"output">>
      BY FileNames
    <3>1. /\ <<"output">> \in DOMAIN disk' /\ disk'[<<"output">>] = disk[<<"output.part">>]
          /\ \A m : m # <<"output.part">> /\ m # <<"output">> => SameFile(m)
      BY <2>1, <3>0, RenamedFile
    <3>2. \A s \in {"report", "digest", "stamp", "report.part", "digest.part"} : SameFile(<<s>>)
      BY <3>1, FileNames
    <3>3. Half /\ disk[<<"digest.part">>].of = disk[<<"output.part">>].of
          /\ <<"digest.part">> \in DOMAIN disk
      BY <2>1 DEF CorpusKept, Has
    <3>4. /\ disk'[<<"output">>].of.archive = "good"
          /\ disk'[<<"digest.part">>].of = disk'[<<"output">>].of /\ <<"digest.part">> \in DOMAIN disk'
          /\ disk'[<<"report.part">>].of = disk'[<<"output">>].of /\ <<"report.part">> \in DOMAIN disk'
      BY <3>1, <3>2, <3>3 DEF Half, SameFile, Has
    <3>5. ~Newer(<<"digest">>, <<"output">>)'
      <4>1. <<"digest">> \in DOMAIN disk' =>
               /\ disk'[<<"digest">>].time < disk'[<<"output">>].time
               /\ disk'[<<"digest">>].time \in Nat /\ disk'[<<"output">>].time \in Nat
        BY <3>1, <3>2, <3>3 DEF Half, SameFile, Has, Timed
      <4> QED BY <3>1, <4>1 DEF Newer, Has
    <3> QED BY <1>0, <2>1, <3>1, <3>2, <3>4, <3>5 DEF CorpusKept, SameFile, Has
  <2>2. CASE prep.pc = "report" /\ prep'.pc = "digest it" /\ disk' = Renamed(<<"report.part">>, <<"report">>)
    <3>0. <<"report.part">> # <<"report">>
      BY FileNames
    <3>1. \A m : m # <<"report.part">> /\ m # <<"report">> => SameFile(m)
      BY <2>2, <3>0, RenamedFile
    <3>2. \A s \in {"output", "digest", "stamp", "digest.part"} : SameFile(<<s>>)
      BY <3>1, FileNames
    <3> QED BY <1>0, <2>2, <3>2 DEF CorpusKept, SameFile, Has, Newer
  <2>3. CASE prep.pc = "digest it" /\ prep'.pc = "idle" /\ disk' = Renamed(<<"digest.part">>, <<"digest">>)
    <3>0. <<"digest.part">> # <<"digest">>
      BY FileNames
    <3>1. /\ <<"digest">> \in DOMAIN disk' /\ disk'[<<"digest">>] = disk[<<"digest.part">>]
          /\ \A m : m # <<"digest.part">> /\ m # <<"digest">> => SameFile(m)
      BY <2>3, <3>0, RenamedFile
    <3>2. \A s \in {"output", "stamp"} : SameFile(<<s>>)
      BY <3>1, FileNames
    <3>3. disk[<<"digest.part">>].of = disk[<<"output">>].of /\ <<"output">> \in DOMAIN disk
      BY <2>3 DEF CorpusKept, Has
    <3> QED BY <1>0, <2>3, <3>1, <3>2, <3>3 DEF CorpusKept, SameFile, Has
  <2> QED BY <1>7, <2>1, <2>2, <2>3 DEF MoveInto, Stop, Go, Timed
<1>8. CASE TakeCorpus
  <2>1. prep'.pc = "idle"
    BY <1>8 DEF TakeCorpus, Stop, Go, Timed
  <2>2. /\ disk'[<<"digest">>].of = disk[<<"output">>].of
        /\ SameFile(<<"output">>) /\ SameFile(<<"stamp">>)
    BY <1>8, PutFile, FileNames DEF TakeCorpus, CorpusSha256
  <2> QED BY <1>0, <1>8, <2>1, <2>2 DEF CorpusKept, SameFile, Has, TakeCorpus
<1> QED
  BY <1>2, <1>3, <1>4, <1>5, <1>6, <1>7, <1>8
  DEF PrepStep, Common, Running, ResolveBuild, DownloadBuild, Unpack, Link, Stage, Recheck, Overwrite,
      PinStat, PinHash, PinLook, PinStamp, PinVerify, WritePins, ReplacePins, Select, ReplaceManifest


LEMMA PreparationStarts == Init => Preparations
<1> SUFFICES ASSUME Init, active = "preparation" PROVE Made
  BY DEF Init, Preparations
<1> PICK tool \in Tools, public \in BOOLEAN :
      /\ prep = [tool |-> tool, pc |-> "idle", now |-> 1, runs |-> 0, changes |-> 0,
                 published |-> public, version |-> 0, seen |-> 0, hash |-> "none",
                 results |-> <<>>]
      /\ disk = [n \in {<<"program">>} |-> File(1, 0)] ++
                IF tool = "pins" THEN [n \in {<<"archive">>} |-> File("good", 0)] ELSE <<>>
  BY DEF Init, PrepInit
<1> DEFINE first == [n \in {<<"program">>} |-> File(1, 0)]
           pinned == IF tool = "pins" THEN [n \in {<<"archive">>} |-> File("good", 0)] ELSE <<>>
<1>1. disk = [k \in DOMAIN first \cup DOMAIN pinned |-> IF k \in DOMAIN first THEN first[k] ELSE pinned[k]]
  BY DEF ++
<1>2. DOMAIN first = {<<"program">>} /\ \A n \in DOMAIN first : first[n].time = 0
  BY DEF File
<1>3. /\ DOMAIN pinned = IF tool = "pins" THEN {<<"archive">>} ELSE {}
      /\ \A n \in DOMAIN pinned : pinned[n].time = 0
  BY DEF File
<1> HIDE DEF first, pinned
<1>4. /\ DOMAIN disk = {<<"program">>} \cup IF tool = "pins" THEN {<<"archive">>} ELSE {}
      /\ \A n \in DOMAIN disk : disk[n].time = 0
  BY <1>1, <1>2, <1>3
<1>5. prep.tool = tool /\ prep.pc = "idle" /\ prep.now = 1
  OBVIOUS
<1>6. Timed
  BY <1>4 DEF Timed, Has
<1>7. /\ \A b : Tar(b) \notin DOMAIN disk /\ Home(b) \notin DOMAIN disk /\ Prepared(b) \notin DOMAIN disk
      /\ \A s : s \notin {"program", "archive"} => <<s>> \notin DOMAIN disk
  BY <1>4, FileNames
<1>8. Stamps /\ PinsKept
  BY <1>4, <1>5, <1>7 DEF Stamps, PinsKept, Has
<1>9. CorpusKept
  BY <1>5, <1>7 DEF CorpusKept, Has
<1>10. Homes /\ VectorsKept /\ Selected
  BY <1>5, <1>7 DEF Homes, VectorsKept, Selected, Running
<1> QED BY <1>6, <1>8, <1>9, <1>10 DEF Made

LEMMA PreparationGoes == Preparations /\ [Next]_vars => Preparations'
<1> SUFFICES ASSUME Preparations, [Next]_vars PROVE Preparations'
  OBVIOUS
<1>1. CASE Preparing
  <2>1. Made /\ PrepStep /\ active' = "preparation"
    BY <1>1 DEF Preparing, Preparations
  <2>2. Timed /\ CorpusKept /\ PinsKept
    BY <2>1 DEF Made
  <2>3. Made'
    BY <2>1, <2>2, TimedGoes, StampsGo, PinsGo, CorpusGoes, HomesGo, VectorsGo, SelectedGoes DEF Made
  <2> QED BY <2>1, <2>3 DEF Preparations
<1>2. CASE UNCHANGED <<active, prep, disk>>
  <2>1. CASE active # "preparation"
    BY <1>2, <2>1 DEF Preparations
  <2>2. CASE active = "preparation"
    <3> USE <1>2
    <3>1. Made
      BY <2>2 DEF Preparations
    <3>2. Timed'
      BY <3>1 DEF Made, Timed, Has
    <3>3. Stamps' /\ PinsKept'
      BY <3>1 DEF Made, Stamps, PinsKept, Has, Newer
    <3>4. CorpusKept'
      BY <3>1 DEF Made, CorpusKept, Half, Has, Newer
    <3>5. Homes'
      BY <3>1 DEF Made, Homes
    <3>6. VectorsKept'
      BY <3>1 DEF Made, VectorsKept, Running
    <3>7. Selected'
      BY <3>1 DEF Made, Selected, Running
    <3> QED BY <2>2, <3>2, <3>3, <3>4, <3>5, <3>6, <3>7 DEF Made, Preparations
  <2> QED BY <2>1, <2>2
<1> QED
  BY <1>1, <1>2 DEF Next, vars, Requesting, Measuring, Reporting, Transforming, Benchmarking

LEMMA Believed == Preparations => BelievedIsWhole
<1>1. CASE active # "preparation"
  <2> SUFFICES ASSUME prep = [tool |-> "none", pc |-> "idle"], disk = <<>> PROVE BelievedIsWhole
    BY <1>1 DEF Preparations
  <2> QED BY DEF BelievedIsWhole, Has, Running, ReportAccepted, SelectionQuoted
<1>2. CASE active = "preparation"
  <2> SUFFICES ASSUME Made PROVE BelievedIsWhole
    BY <1>2 DEF Preparations
  <2> USE DEF Made
  <2>1. ASSUME prep.tool = "corpus", ReportAccepted
        PROVE  disk[<<"report">>].of = disk[<<"output">>].of /\ disk[<<"output">>].of.archive = "good"
    <3>1. Has({<<"output">>}) /\ disk[<<"report">>].of = CorpusSha256
      BY <2>1 DEF ReportAccepted, Has
    <3>2. CorpusSha256 = disk[<<"output">>].of
      BY <2>1, <3>1 DEF CorpusSha256, CorpusKept
    <3> QED BY <2>1, <3>1, <3>2 DEF CorpusKept
  <2>2. Has({<<"link">>}) =>
          /\ Has({Home(disk[<<"link">>].of)})
          /\ disk[Home(disk[<<"link">>].of)].of \in {"good"} \cup IF prep.published THEN {} ELSE {"altered"}
    BY DEF Homes, Has
  <2>3. Running("vectors", "accepted") =>
          LET p == disk[Prepared(prep.version)].of
          IN  p.corpus = prep.version /\ p.truth = prep.version
    BY DEF VectorsKept
  <2>4. Has({<<"stamp">>, <<"archive">>}) /\ Newer(<<"stamp">>, <<"archive">>)
           /\ disk[<<"archive">>].time < disk[<<"stamp">>].of.looked =>
          disk[<<"stamp">>].of.hash = disk[<<"archive">>].of
    BY DEF Stamps
  <2>5. ASSUME SelectionQuoted, NEW q \in disk[<<"queries">>].of, NEW l \in Lanes,
               NEW e \in Sides, NEW f \in Sides
        PROVE  LET r == disk[<<"selection">>].of.results
               IN  r[l, e].found[q] = r[l, f].found[q] /\ r[l, e].about.corpus = r[l, f].about.corpus
    <3> DEFINE r == disk[<<"selection">>].of.results
    <3>1. Selects(r) /\ disk[<<"queries">>].of = Agreeing(r)
      BY <2>5 DEF SelectionQuoted, Selected, Has
    <3> HIDE DEF r
    <3>2. r[l, e].found[q] = r[l, f].found[q]
      BY <3>1 DEF Agreeing
    <3>3. r[l, e].about.corpus = r[l, f].about.corpus
      BY <3>1 DEF Selects
    <3> QED BY <3>2, <3>3 DEF r
  <2>6. (prep.tool = "corpus" /\ prep.pc = "idle" /\ ReportAccepted) =>
          disk[<<"report">>].of = disk[<<"output">>].of /\ disk[<<"output">>].of.archive = "good"
    BY <2>1
  <2>7. SelectionQuoted => \A q \in disk[<<"queries">>].of : \A l \in Lanes : \A e, f \in Sides :
          LET r == disk[<<"selection">>].of.results
          IN  r[l, e].found[q] = r[l, f].found[q] /\ r[l, e].about.corpus = r[l, f].about.corpus
    BY <2>5, Zenon
  <2> QED BY <2>2, <2>3, <2>4, <2>6, <2>7, Zenon DEF BelievedIsWhole
<1> QED BY <1>1, <1>2

\* Whatever was killed where, and edited or replaced since, what passes the test of
\* its reader is what the reader takes it for (prepare-corpus.sh, install_snapshot.py,
\* vector_datasets.py, pin_vector_sources.py, select_queries.py), for any number of
\* runs and of changes of what they read; a stamp, unless its file was replaced
\* between its writer's last look and the stamp.
THEOREM WhatIsBelieved == Spec => []BelievedIsWhole
BY PreparationStarts, PreparationGoes, Believed, PTL DEF Spec

-----------------------------------------------------------------------------
(* The transformed corpus and its report.                                  *)

\* Where a name occurs.
At(n) == {i \in DOMAIN xf.docs : xf.docs[i].name = n}

\* The stream's types; sort keys are of ordinals, a name is counted once for each
\* document that has it, and the stream has not gone past its limit.
Streamed ==
  /\ xf \in [variant : {"full", "facet", "text"}, limit : 0..Longest,
             docs : Seq([name : Names, sort : Nat]), seen : [Names -> Nat], ended : BOOLEAN]
  /\ Len(xf.docs) <= Longest
  /\ \A i \in DOMAIN xf.docs : xf.docs[i].sort = SortKey(i - 1)
  /\ xf.variant # "text" => \A n \in Names : xf.seen[n] = Cardinality(At(n))
  /\ xf.limit # 0 => Len(xf.docs) <= xf.limit
  /\ xf.limit # 0 /\ ~xf.ended => Len(xf.docs) < xf.limit
Stream == IF active = "transform" THEN Streamed ELSE xf = [ended |-> FALSE]

\* Two ordinals have one key only if they are one.
LEMMA KeysApart ==
  ASSUME NEW i \in 0 .. Space - 1, NEW j \in 0 .. Space - 1, SortKey(i) = SortKey(j)
  PROVE  i = j
<1>0. Space \in Nat /\ Space > 0 /\ Multiplier \in Nat /\ Offset \in Nat
  BY TransformAssumption
<1>1. \A a \in Nat : \E q \in Nat : a = Space * q + (a % Space)
  <2> SUFFICES ASSUME NEW a \in Nat PROVE \E q \in Nat : a = Space * q + (a % Space)
    OBVIOUS
  <2>1. a = Space * (a \div Space) + (a % Space) /\ a \div Space \in Nat
    BY <1>0
  <2> QED BY <2>1
<1> DEFINE d == i - j
<1>2. PICK k \in Int : d * Multiplier = Space * k
  <2> DEFINE a == i * Multiplier + Offset
             b == j * Multiplier + Offset
  <2>1. a \in Nat /\ b \in Nat /\ a % Space = b % Space /\ a - b = d * Multiplier
    BY <1>0 DEF SortKey
  <2> HIDE DEF a, b
  <2>2. PICK q \in Nat : a = Space * q + (a % Space)
    BY <1>1, <2>1
  <2>3. PICK r \in Nat : b = Space * r + (b % Space)
    BY <1>1, <2>1
  <2>4. a % Space \in Int
    BY <1>0, <2>1
  <2>5. Space * q - Space * r = Space * (q - r)
    BY <1>0
  <2>6. a - b = Space * (q - r)
    BY <2>1, <2>2, <2>3, <2>4, <2>5, <1>0
  <2> QED BY <2>1, <2>6
<1>3. PICK inverse \in 0 .. Space - 1 : (Multiplier * inverse) % Space = 1 % Space
  BY SortKeyAssumption
<1>4. CASE Space = 1
  BY <1>4
<1>5. CASE Space > 1
  <2>1. (Multiplier * inverse) % Space = 1 /\ Multiplier * inverse \in Nat
    <3>1. 1 % Space = 1
      BY <1>0, <1>5
    <3> QED BY <1>0, <1>3, <3>1
  <2>2. PICK t \in Nat : Multiplier * inverse = Space * t + 1
    BY <1>1, <2>1
  <2>3. d \in Int /\ inverse \in Nat /\ d < Space /\ d > 0 - Space
    BY <1>0
  <2> HIDE DEF d
  <2>4. d * (Multiplier * inverse) = (d * Multiplier) * inverse
    BY <1>0, <2>3
  <2>5. d * (Multiplier * inverse) = d * (Space * t) + d
    BY <2>2, <2>3, <1>0
  <2>6. (d * Multiplier) * inverse = Space * (k * inverse)
    BY <1>0, <1>2, <2>3
  <2>7. d * (Space * t) = Space * (d * t)
    BY <1>0, <2>3
  <2> DEFINE u == k * inverse - d * t
  <2>8. u \in Int /\ Space * u = Space * (k * inverse) - Space * (d * t)
    BY <1>0, <2>3
  <2>9. d = Space * u
    BY <1>0, <2>3, <2>4, <2>5, <2>6, <2>7, <2>8
  <2> HIDE DEF u
  <2>10. u = 0
    <3>1. CASE u >= 1
      <4>1. PICK v \in Nat : u = 1 + v
        BY <2>8, <3>1, u - 1 \in Nat, u = 1 + (u - 1)
      <4>2. Space * u = Space + Space * v /\ Space * v >= 0
        BY <1>0, <4>1
      <4> QED BY <1>0, <2>3, <2>9, <4>2
    <3>2. CASE u <= 0 - 1
      <4>1. PICK v \in Nat : u = 0 - 1 - v
        BY <2>8, <3>2, 0 - 1 - u \in Nat, u = 0 - 1 - (0 - 1 - u)
      <4>2. Space * u = 0 - Space - Space * v /\ Space * v >= 0
        BY <1>0, <4>1
      <4> QED BY <1>0, <2>3, <2>9, <4>2
    <3> QED BY <2>8, <3>1, <3>2
  <2>11. d = 0
    BY <1>0, <2>9, <2>10
  <2> QED BY <2>11 DEF d
<1> QED BY <1>0, <1>4, <1>5

\* The first of those for which f is least.
LEMMA FirstLeast ==
  ASSUME NEW S, S \subseteq Nat, S # {}, NEW f, \A i \in S : f[i] \in Nat
  PROVE  LET best == {i \in S : \A j \in S : ~(f[i] > f[j])} IN Min(best) \in best
<1> DEFINE Values == {f[i] : i \in S}
           best == {i \in S : \A j \in S : ~(f[i] > f[j])}
<1>1. Values \subseteq Nat /\ Values # {}
  OBVIOUS
<1> HIDE DEF Values
<1>2. PICK v \in Values : \A w \in Values : ~(<<w, v>> \in OpToRel(<, Nat))
  BY <1>1, WFMin, NatLessThanWellFounded
<1>3. PICK i \in S : f[i] = v
  BY <1>2 DEF Values
<1>4. i \in best
  <2> SUFFICES ASSUME NEW j \in S, f[i] > f[j] PROVE FALSE
    BY <1>3
  <2>1. f[j] \in Values /\ f[j] \in Nat /\ f[i] \in Nat
    BY DEF Values
  <2>2. <<f[j], v>> \in OpToRel(<, Nat)
    BY <1>3, <2>1 DEF OpToRel
  <2> QED BY <1>2, <2>1, <2>2
<1>5. best \subseteq Nat /\ best # {}
  BY <1>4
<1> HIDE DEF best
<1>6. PICK x \in best : \A y \in best : ~(<<y, x>> \in OpToRel(<, Nat))
  BY <1>5, WFMin, NatLessThanWellFounded
<1>7. \A y \in best : x <= y
  <2> SUFFICES ASSUME NEW y \in best PROVE x <= y
    OBVIOUS
  <2>1. x \in Nat /\ y \in Nat
    BY <1>5
  <2>2. ~(y < x)
    BY <1>6, <2>1 DEF OpToRel
  <2> QED BY <2>1, <2>2
<1>8. Min(best) \in best
  BY <1>6, <1>7 DEF Min
<1> QED BY <1>8 DEF best

LEMMA StreamStart == Init => Stream
<1> SUFFICES ASSUME Init PROVE Stream
  OBVIOUS
<1>1. CASE active = "transform"
  <2>1. xf \in [variant : {"full", "facet", "text"}, limit : 0..Longest, docs : {<<>>},
               seen : {[n \in Names |-> 0]}, ended : {FALSE}]
    BY <1>1 DEF Init, TransformInit
  <2>2. xf.docs = <<>> /\ xf.seen = [n \in Names |-> 0] /\ xf.ended = FALSE
    BY <2>1
  <2>3. xf \in [variant : {"full", "facet", "text"}, limit : 0..Longest,
               docs : Seq([name : Names, sort : Nat]), seen : [Names -> Nat], ended : BOOLEAN]
    <3>1. xf = [variant |-> xf.variant, limit |-> xf.limit, docs |-> xf.docs,
                seen |-> xf.seen, ended |-> xf.ended]
      BY <2>1
    <3>2. <<>> \in Seq([name : Names, sort : Nat]) /\ [n \in Names |-> 0] \in [Names -> Nat]
      OBVIOUS
    <3>3. xf.variant \in {"full", "facet", "text"} /\ xf.limit \in 0..Longest
      BY <2>1
    <3> QED BY <2>2, <3>1, <3>2, <3>3
  <2>4. \A n \in Names : At(n) = {}
    BY <2>2 DEF At
  <2>5. \A n \in Names : xf.seen[n] = Cardinality(At(n))
    BY <2>2, <2>4, FS_EmptySet
  <2>6. Len(xf.docs) = 0 /\ DOMAIN xf.docs = {} /\ xf.limit \in Nat /\ Longest \in Nat
    BY <2>1, <2>2, TransformAssumption
  <2>7. Len(xf.docs) <= Longest /\ (xf.limit # 0 => Len(xf.docs) < xf.limit)
    BY <2>6
  <2> QED BY <1>1, <2>3, <2>5, <2>6, <2>7 DEF Stream, Streamed
<1>2. CASE active # "transform"
  BY <1>2 DEF Init, Stream
<1> QED BY <1>1, <1>2

\* A document is counted where it is.
LEMMA EmitKeeps == Streamed /\ Emit => Streamed'
<1> SUFFICES ASSUME Streamed, Emit PROVE Streamed'
  OBVIOUS
<1>1. PICK n \in Names :
        xf' = [xf EXCEPT
              !.docs = Append(@, [name |-> n, sort |-> SortKey(Len(@))]),
              !.seen[n] = IF xf.variant = "text" THEN @ ELSE @ + 1,
              !.ended = xf.limit # 0 /\ Len(xf.docs) + 1 >= xf.limit]
  BY DEF Emit
<1> DEFINE doc == [name |-> n, sort |-> SortKey(Len(xf.docs))]
           len == Len(xf.docs)
<1>2. /\ xf \in [variant : {"full", "facet", "text"}, limit : 0..Longest,
                 docs : Seq([name : Names, sort : Nat]), seen : [Names -> Nat], ended : BOOLEAN]
      /\ xf.ended = FALSE /\ len < Longest /\ len \in Nat /\ Longest \in Nat
      /\ xf.limit \in Nat
      /\ DOMAIN xf.docs = 1..len
  BY TransformAssumption DEF Streamed, Emit
<1>3. /\ xf'.docs = Append(xf.docs, doc)
      /\ xf'.seen = [xf.seen EXCEPT ![n] = IF xf.variant = "text" THEN @ ELSE @ + 1]
      /\ xf'.ended = (xf.limit # 0 /\ len + 1 >= xf.limit)
      /\ xf'.variant = xf.variant /\ xf'.limit = xf.limit
  BY <1>1, <1>2
<1>4. doc \in [name : Names, sort : Nat] /\ doc.name = n /\ doc.sort = SortKey(len)
  BY <1>2, TransformAssumption DEF SortKey
<1> HIDE DEF doc
<1>5. /\ xf'.docs \in Seq([name : Names, sort : Nat]) /\ Len(xf'.docs) = len + 1
      /\ DOMAIN xf'.docs = 1..(len + 1)
      /\ \A i \in 1..len : xf'.docs[i] = xf.docs[i]
      /\ xf'.docs[len + 1] = doc
  BY <1>2, <1>3, <1>4
<1>6. xf'.seen \in [Names -> Nat]
  BY <1>2, <1>3
<1>7. xf' \in [variant : {"full", "facet", "text"}, limit : 0..Longest,
              docs : Seq([name : Names, sort : Nat]), seen : [Names -> Nat], ended : BOOLEAN]
  <2>1. xf' = [variant |-> xf'.variant, limit |-> xf'.limit, docs |-> xf'.docs,
               seen |-> xf'.seen, ended |-> xf'.ended]
    BY <1>1, <1>2
  <2>2. xf'.ended \in BOOLEAN
    BY <1>3, Zenon
  <2>3. xf'.variant \in {"full", "facet", "text"} /\ xf'.limit \in 0..Longest
    BY <1>2, <1>3
  <2> QED BY <2>1, <2>2, <2>3, <1>5, <1>6
<1>8. \A i \in DOMAIN xf'.docs : xf'.docs[i].sort = SortKey(i - 1)
  <2> SUFFICES ASSUME NEW i \in 1..(len + 1) PROVE xf'.docs[i].sort = SortKey(i - 1)
    BY <1>5
  <2>1. CASE i \in 1..len
    BY <1>2, <1>5, <2>1 DEF Streamed
  <2>2. CASE i = len + 1
    BY <1>2, <1>4, <1>5, <2>2
  <2> QED BY <1>2, <2>1, <2>2
<1>9. ASSUME xf'.variant # "text", NEW m \in Names PROVE xf'.seen[m] = Cardinality(At(m)')
  <2>1. At(m) \subseteq 1..len /\ IsFiniteSet(1..len) /\ len + 1 \notin At(m)
    <3>1. At(m) \subseteq 1..len
      BY <1>2 DEF At
    <3> HIDE DEF len
    <3>2. len + 1 \notin 1..len /\ 1 \in Int /\ len \in Int
      BY <1>2
    <3> QED BY <3>1, <3>2, FS_Interval
  <2>2. IsFiniteSet(At(m))
    BY <2>1, FS_Subset
  <2>3. xf.seen[m] = Cardinality(At(m))
    BY <1>3, <1>9 DEF Streamed
  <2>4. At(m)' = IF m = n THEN At(m) \cup {len + 1} ELSE At(m)
    <3>1. \A i \in 1..len : xf'.docs[i].name = xf.docs[i].name
      BY <1>5
    <3>2. xf'.docs[len + 1].name = n
      BY <1>4, <1>5
    <3>3. \A i : i \in 1..(len + 1) <=> i \in 1..len \/ i = len + 1
      BY <1>2
    <3>4. At(m)' = {i \in 1..(len + 1) : xf'.docs[i].name = m}
      BY <1>5 DEF At
    <3>5. At(m) = {i \in 1..len : xf.docs[i].name = m}
      BY <1>2 DEF At
    <3> HIDE DEF len
    <3> QED BY <3>1, <3>2, <3>3, <3>4, <3>5
  <2>5. Cardinality(At(m) \cup {len + 1}) = Cardinality(At(m)) + 1
    BY <2>1, <2>2, FS_AddElement
  <2>6. xf'.seen[m] = IF m = n THEN xf.seen[m] + 1 ELSE xf.seen[m]
    BY <1>2, <1>3, <1>9
  <2> QED BY <2>3, <2>4, <2>5, <2>6
<1>10. /\ Len(xf'.docs) <= Longest
       /\ xf'.limit # 0 => Len(xf'.docs) <= xf'.limit
       /\ xf'.limit # 0 /\ ~xf'.ended => Len(xf'.docs) < xf'.limit
  <2>1. xf.limit # 0 => len < xf.limit
    BY <1>2 DEF Streamed
  <2>2. ~xf'.ended => ~(xf.limit # 0 /\ len + 1 >= xf.limit)
    BY <1>3, Zenon
  <2>3. Len(xf'.docs) = len + 1 /\ xf'.limit = xf.limit
    BY <1>3, <1>5
  <2> HIDE DEF len
  <2> QED BY <1>2, <2>1, <2>2, <2>3
<1> QED BY <1>7, <1>8, <1>9, <1>10 DEF Streamed

LEMMA StreamGoes == Stream /\ [Next]_vars => Stream'
<1> SUFFICES ASSUME Stream, [Next]_vars PROVE Stream'
  OBVIOUS
<1>1. active' = active
  BY DEF Next, vars, Requesting, Measuring, Reporting, Preparing, Transforming, Benchmarking
<1>2. CASE UNCHANGED xf
  <2>1. \A n : At(n)' = At(n)
    BY <1>2 DEF At
  <2>2. Streamed => Streamed'
    BY <1>2, <2>1 DEF Streamed
  <2> QED BY <1>1, <1>2, <2>2 DEF Stream
<1>3. CASE active = "transform" /\ Emit
  BY <1>1, <1>3, EmitKeeps DEF Stream
<1>4. CASE active = "transform" /\ SourceEnds
  <2>1. Streamed /\ xf' = [xf EXCEPT !.ended = TRUE]
    BY <1>4 DEF Stream, SourceEnds
  <2>2. xf'.docs = xf.docs /\ xf'.seen = xf.seen /\ xf'.variant = xf.variant /\ xf'.limit = xf.limit
        /\ xf'.ended = TRUE
    BY <2>1 DEF Streamed
  <2>3. \A n : At(n)' = At(n)
    BY <2>2 DEF At
  <2>4. xf' \in [variant : {"full", "facet", "text"}, limit : 0..Longest,
                docs : Seq([name : Names, sort : Nat]), seen : [Names -> Nat], ended : BOOLEAN]
    BY <2>1 DEF Streamed
  <2>5. Streamed'
    BY <2>1, <2>2, <2>3, <2>4 DEF Streamed
  <2> QED BY <1>1, <1>4, <2>5 DEF Stream
<1> QED
  BY <1>2, <1>3, <1>4 DEF Next, vars, Requesting, Measuring, Reporting, Preparing,
     Transforming, TransformStep, Benchmarking

LEMMA NamesAre == Names \subseteq Nat /\ Names # {}
<1>1. Nominal \in Nat /\ Nominal > 0
  BY TransformAssumption
<1>2. 0 \in Names /\ Names \subseteq Nat
  BY <1>1 DEF Names
<1> QED BY <1>2

\* The designated values are names, the head a most frequent one and the tail a
\* least frequent one of those that occur.
HeadValue(seen) == First(Names, LAMBDA i, j : seen[i] < seen[j])

LEMMA HeadIs ==
  ASSUME NEW seen \in [Names -> Nat], NEW top \in Nat, \A n \in Names : seen[n] <= top
  PROVE  HeadValue(seen) \in Names /\ \A n \in Names : seen[n] <= seen[HeadValue(seen)]
<1> DEFINE f == [n \in Names |-> top - seen[n]]
           best == {i \in Names : \A j \in Names : ~(f[i] > f[j])}
<1>1. Names \subseteq Nat /\ Names # {}
  BY NamesAre
<1>2. \A n \in Names : f[n] \in Nat /\ f[n] = top - seen[n] /\ seen[n] \in Nat
  OBVIOUS
<1>3. Min(best) \in best
  <2> HIDE DEF f
  <2> QED BY <1>1, <1>2, FirstLeast
<1> HIDE DEF f
<1>4. best = {i \in Names : \A j \in Names : ~(seen[i] < seen[j])}
  BY <1>2
<1>5. HeadValue(seen) = Min(best)
  BY <1>4 DEF HeadValue, First
<1>6. \A i \in best : i \in Names /\ \A j \in Names : seen[j] <= seen[i]
  BY <1>2, <1>4
<1> QED BY <1>3, <1>5, <1>6

LEMMA TailIs ==
  ASSUME NEW seen \in [Names -> Nat], \E n \in Names : seen[n] > 0
  PROVE  /\ TailValue(seen) \in Names /\ seen[TailValue(seen)] > 0
         /\ \A n \in Names : seen[n] > 0 => seen[n] >= seen[TailValue(seen)]
<1> DEFINE S == {i \in Names : seen[i] > 0}
           best == {i \in S : \A j \in S : ~(seen[i] > seen[j])}
<1>1. S \subseteq Nat /\ S # {} /\ \A i \in S : seen[i] \in Nat
  BY TransformAssumption DEF Names
<1>2. Min(best) \in best
  <2> HIDE DEF S
  <2> QED BY <1>1, FirstLeast
<1>3. TailValue(seen) = Min(best)
  BY DEF TailValue, First
<1>4. \A i \in best : i \in S /\ \A j \in S : seen[j] >= seen[i]
  BY <1>1
<1> QED BY <1>2, <1>3, <1>4

LEMMA NearestIs ==
  ASSUME NEW seen \in [Names -> Nat], Len(xf.docs) \in Nat, NEW parts \in Nat
  PROVE  Nearest(seen, parts) \in Names
<1> DEFINE short(i) == Len(xf.docs) - seen[i] * parts
           off(i) == Max({short(i), -short(i)})
           f == [n \in Names |-> off(n)]
           best == {i \in Names : \A j \in Names : ~(f[i] > f[j])}
<1>1. Names \subseteq Nat /\ Names # {}
  BY NamesAre
<1>2. ASSUME NEW n \in Names PROVE off(n) \in Nat
  <2>1. short(n) \in Int
    <3>1. seen[n] * parts \in Int
      OBVIOUS
    <3> QED BY <3>1
  <2> HIDE DEF short
  <2>2. \E x \in {short(n), -short(n)} : \A y \in {short(n), -short(n)} : x >= y
    BY <2>1
  <2>3. off(n) \in {short(n), -short(n)} /\ \A y \in {short(n), -short(n)} : off(n) >= y
    BY <2>2 DEF Max
  <2> QED BY <2>1, <2>3
<1> HIDE DEF off
<1>3. \A n \in Names : f[n] \in Nat /\ f[n] = off(n)
  BY <1>2
<1> HIDE DEF f
<1>4. Min(best) \in best
  BY <1>1, <1>3, FirstLeast
<1>5. best = {i \in Names : \A j \in Names : ~(off(i) > off(j))}
  BY <1>3
<1>6. Nearest(seen, parts) = Min({i \in Names : \A j \in Names : ~(off(i) > off(j))})
  BY DEF Nearest, First, off
<1> QED BY <1>4, <1>5, <1>6

LEMMA Element ==
  ASSUME NEW R, NEW s \in Seq(R), NEW i \in 1..Len(s)
  PROVE  s[i] \in R
OBVIOUS

LEMMA Exact == Stream => DesignatedIsExact
<1> SUFFICES ASSUME Stream, xf.ended PROVE DesignatedIsExact
  BY DEF DesignatedIsExact
<1>1. active = "transform" /\ Streamed
  <2>1. CASE active # "transform"
    BY <2>1 DEF Stream
  <2> QED BY <2>1 DEF Stream
<1>2. /\ xf.seen \in [Names -> Nat] /\ Len(xf.docs) \in Nat
      /\ DOMAIN xf.docs = 1..Len(xf.docs) /\ Len(xf.docs) <= Longest
  BY <1>1 DEF Streamed
<1>7. \A i \in DOMAIN xf.docs : xf.docs[i].name \in Names
  <2>1. xf.docs \in Seq([name : Names, sort : Nat])
    BY <1>1 DEF Streamed
  <2> SUFFICES ASSUME NEW i \in 1..Len(xf.docs) PROVE xf.docs[i].name \in Names
    BY <1>2
  <2>2. xf.docs[i] \in [name : Names, sort : Nat]
    BY <2>1, Element
  <2> QED BY <2>2
<1>0. Longest \in Nat /\ Space \in Nat /\ Longest <= Space
  BY TransformAssumption, SortKeyAssumption, Zenon
<1>3. \A i, j \in DOMAIN xf.docs : i # j => xf.docs[i].sort # xf.docs[j].sort
  <2> SUFFICES ASSUME NEW i \in DOMAIN xf.docs, NEW j \in DOMAIN xf.docs,
                      xf.docs[i].sort = xf.docs[j].sort
               PROVE  i = j
    OBVIOUS
  <2>1. SortKey(i - 1) = SortKey(j - 1)
    BY <1>1 DEF Streamed
  <2>2. i - 1 \in 0 .. Space - 1 /\ j - 1 \in 0 .. Space - 1
    BY <1>0, <1>2
  <2>3. i - 1 = j - 1
    BY <2>1, <2>2, KeysApart
  <2> QED BY <1>2, <2>3
<1>4. xf.limit # 0 => Report.documents <= xf.limit
  BY <1>1 DEF Streamed, Report
<1>5. CASE xf.variant = "text"
  <2>1. Report.values = {}
    BY <1>5 DEF Report
  <2> QED BY <1>3, <1>4, <1>5, <2>1 DEF DesignatedIsExact
<1>6. CASE xf.variant # "text"
  <2>1. Report.values = Designate(xf.seen)
    BY <1>6 DEF Report
  <2>2. \A n \in Names : xf.seen[n] = Cardinality(At(n)) /\ IsFiniteSet(At(n))
    <3>1. \A n \in Names : xf.seen[n] = Cardinality(At(n))
      BY <1>1, <1>6 DEF Streamed
    <3>2. \A n : At(n) \subseteq 1..Len(xf.docs)
      BY <1>2 DEF At
    <3>3. IsFiniteSet(1..Len(xf.docs)) /\ Cardinality(1..Len(xf.docs)) = Len(xf.docs)
      <4> DEFINE len == Len(xf.docs)
      <4>1. 1 \in Int /\ len \in Int /\ (IF 1 > len THEN 0 ELSE len - 1 + 1) = len
        BY <1>2
      <4> HIDE DEF len
      <4>2. IsFiniteSet(1..len) /\ Cardinality(1..len) = IF 1 > len THEN 0 ELSE len - 1 + 1
        BY <4>1, FS_Interval
      <4> QED BY <4>1, <4>2 DEF len
    <3> QED BY <3>1, <3>2, <3>3, FS_Subset
  <2>3. \A n \in Names : xf.seen[n] <= Len(xf.docs)
    <3> SUFFICES ASSUME NEW n \in Names PROVE Cardinality(At(n)) <= Len(xf.docs)
      BY <2>2
    <3>1. At(n) \subseteq 1..Len(xf.docs)
      BY <1>2 DEF At
    <3> DEFINE len == Len(xf.docs)
    <3>2. 1 \in Int /\ len \in Int /\ (IF 1 > len THEN 0 ELSE len - 1 + 1) = len
      BY <1>2
    <3> HIDE DEF len
    <3>3. IsFiniteSet(1..len) /\ Cardinality(1..len) = IF 1 > len THEN 0 ELSE len - 1 + 1
      BY <3>2, FS_Interval
    <3>4. Cardinality(At(n)) <= Cardinality(1..len)
      BY <3>1, <3>3, FS_Subset DEF len
    <3> QED BY <3>2, <3>3, <3>4 DEF len
  <2>4. /\ HeadValue(xf.seen) \in Names
        /\ \A n \in Names : xf.seen[n] <= xf.seen[HeadValue(xf.seen)]
    BY <1>2, <2>3, HeadIs
  <2>5. (\E n \in Names : xf.seen[n] > 0) =>
          /\ TailValue(xf.seen) \in Names /\ xf.seen[TailValue(xf.seen)] > 0
          /\ \A n \in Names : xf.seen[n] > 0 => xf.seen[n] >= xf.seen[TailValue(xf.seen)]
    BY <1>2, TailIs
  <2>6. \A parts \in {10, 100, 1000} : Nearest(xf.seen, parts) \in Names
    <3>1. {10, 100, 1000} \subseteq Nat
      OBVIOUS
    <3> QED BY <1>2, <3>1, NearestIs
  <2> DEFINE head == HeadValue(xf.seen)
             tail == TailValue(xf.seen)
             occurs == \E n \in Names : xf.seen[n] > 0
  <2>7. \A d : d \in Report.values <=>
          /\ xf.seen[d[2]] > 0
          /\ \/ d = <<"head", head>> \/ d = <<"10pct", Nearest(xf.seen, 10)>>
             \/ d = <<"1pct", Nearest(xf.seen, 100)>> \/ d = <<"0.1pct", Nearest(xf.seen, 1000)>>
             \/ occurs /\ d = <<"tail", tail>>
    <3> DEFINE named == {<<"head", head>>, <<"10pct", Nearest(xf.seen, 10)>>,
                         <<"1pct", Nearest(xf.seen, 100)>>, <<"0.1pct", Nearest(xf.seen, 1000)>>}
                        \cup IF occurs THEN {<<"tail", tail>>} ELSE {}
    <3>1. Designate(xf.seen) = {d \in named : xf.seen[d[2]] > 0}
      BY DEF Designate, HeadValue
    <3> HIDE DEF head, tail, occurs
    <3>2. \A d : d \in named <=>
             \/ d = <<"head", head>> \/ d = <<"10pct", Nearest(xf.seen, 10)>>
             \/ d = <<"1pct", Nearest(xf.seen, 100)>> \/ d = <<"0.1pct", Nearest(xf.seen, 1000)>>
             \/ occurs /\ d = <<"tail", tail>>
      <4>1. CASE occurs
        BY <4>1
      <4>2. CASE ~occurs
        BY <4>2
      <4> QED BY <4>1, <4>2
    <3> HIDE DEF named
    <3> QED BY <2>1, <3>1, <3>2
  <2> HIDE DEF head, tail, occurs
  <2>8. ASSUME NEW d \in Report.values
        PROVE  /\ d[2] \in Names /\ xf.seen[d[2]] > 0
               /\ d[1] = "head" => d[2] = head
               /\ d[1] = "tail" => d[2] = tail /\ occurs
    <3>1. xf.seen[d[2]] > 0
      BY <2>7
    <3>2. CASE d = <<"head", head>>
      BY <2>4, <3>1, <3>2 DEF head
    <3>3. CASE d = <<"10pct", Nearest(xf.seen, 10)>>
      BY <2>6, <3>1, <3>3
    <3>4. CASE d = <<"1pct", Nearest(xf.seen, 100)>>
      BY <2>6, <3>1, <3>4
    <3>5. CASE d = <<"0.1pct", Nearest(xf.seen, 1000)>>
      BY <2>6, <3>1, <3>5
    <3>6. CASE occurs /\ d = <<"tail", tail>>
      BY <2>5, <3>1, <3>6 DEF tail, occurs
    <3> QED BY <2>7, <3>2, <3>3, <3>4, <3>5, <3>6
  <2>9. ASSUME NEW d \in Report.values
        PROVE  /\ xf.seen[d[2]] = Cardinality(At(d[2])) /\ Cardinality(At(d[2])) > 0
               /\ d[1] = "head" => \A n \in Names : Cardinality(At(n)) <= Cardinality(At(d[2]))
               /\ d[1] = "tail" => \A n \in Names :
                     Cardinality(At(n)) > 0 => Cardinality(At(n)) >= Cardinality(At(d[2]))
    BY <2>2, <2>4, <2>5, <2>8 DEF head, tail, occurs
  <2>10. ASSUME xf.docs # <<>> PROVE {"head", "tail"} \subseteq {d[1] : d \in Report.values}
    <3>1. Len(xf.docs) # 0 /\ 1 \in DOMAIN xf.docs
      <4>1. xf.docs \in Seq([name : Names, sort : Nat])
        BY <1>1 DEF Streamed
      <4>2. Len(xf.docs) # 0
        BY <2>10, <4>1
      <4> QED BY <1>2, <4>2
    <3> DEFINE n == xf.docs[1].name
    <3>2. n \in Names /\ 1 \in At(n)
      BY <1>7, <3>1 DEF At
    <3> HIDE DEF n
    <3>3. Cardinality(At(n)) \in Nat /\ Cardinality(At(n)) # 0
      BY <2>2, <3>2, FS_EmptySet, FS_CardinalityType
    <3>4. xf.seen[n] > 0 /\ occurs
      BY <2>2, <3>2, <3>3 DEF occurs
    <3>5. xf.seen[head] > 0 /\ xf.seen[tail] > 0
      <4>1. xf.seen[n] \in Nat /\ xf.seen[head] \in Nat /\ xf.seen[n] <= xf.seen[head]
        BY <1>2, <2>4, <3>2 DEF head
      <4> QED BY <2>5, <3>4, <4>1 DEF tail, occurs
    <3>6. <<"head", head>> \in Report.values /\ <<"tail", tail>> \in Report.values
      BY <2>7, <3>4, <3>5
    <3> QED BY <3>6
  <2> QED BY <1>3, <1>4, <2>9, <2>10 DEF DesignatedIsExact, At
<1> QED BY <1>5, <1>6

\* The values that a grid pins are in the corpus as often as the report says, the
\* head and the tail are what they are called, sort keys are all different
\* and no lane is longer than its limit (corpus_transform.py), for any corpus, any
\* number of values and any space of keys.
THEOREM PinsAreExact == Spec => []DesignatedIsExact
BY StreamStart, StreamGoes, Exact, PTL DEF Spec
===============================================================================
