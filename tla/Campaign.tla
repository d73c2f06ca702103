------------------------------ MODULE Campaign ------------------------------
(***************************************************************************)
(* One engine's leg of a grid (grid.py run-engine), the files it leaves    *)
(* and the cells a report then takes from them: result files, written in   *)
(* place, the content-addressed contexts they refer to, the generation     *)
(* before (.prev), and the transport control.  A leg, or the driver it     *)
(* runs, may be killed between any two steps; engines are rebuilt and      *)
(* corpora transformed again between legs.                                 *)
(***************************************************************************)
EXTENDS Integers, FiniteSets, FiniteSetsExt

CONSTANTS Cells,       \* (selectivity, cardinality) of the grid
          Effective,   \* settings every adapter turns into the request
          Parallel,    \* settings of max_parallel, which REST never reads
          Builds, Corpora,
          Legs         \* bound: legs run

ASSUME LegsAssumption == Legs \in Nat /\ Legs > 0

VARIABLES world,       \* the build and corpus in use, what the report describes
          files,       \* files[c, p]: the result of cell c with parameters p
          prev,        \* the generation before
          contexts,    \* names of the context files that are there and whole
          torn,        \* names of context files that were written in part
          control,     \* controls/luxir-HEALTH*.json
          leg          \* the program

campaignVars == <<world, files, prev, contexts, torn, control, leg>>

Params == [effective : Effective, parallel : Parallel]
World == [build : Builds, corpus : Corpora, report : Corpora]
None == [state |-> "none"]
Failure(at) == [state |-> "failure", at |-> at]
Torn(at) == [state |-> "torn", at |-> at]

CampaignInit ==
    /\ world \in {w \in World : w.report = w.corpus}
    /\ files = [k \in Cells \X Params |-> None] /\ prev = files
    /\ contexts = {} /\ torn = {} /\ control = None
    /\ leg \in [pc : {"idle"}, engine : {"luxir", "rest"}, count : {0}, params : Params,
                session : {0}, todo : {{}}, cell : Cells, errors : {{}}, rc : {0},
                failures : {0}, status : {"none"}]

Proceed(to) == leg' = [leg EXCEPT !.pc = to]
Key(c) == <<c, leg.params>>
\* What a context holds of the environment; its name is the hash of this.
Context == [build |-> world.build, corpus |-> world.corpus, session |-> leg.session,
            dir |-> "grid"]
\* A result of this leg: its parameters and verdict, and the context it names.
Result == [state |-> "whole", at |-> leg.count, params |-> leg.params,
           errors |-> leg.errors, context |-> Context]
\* load_result raises for a file or a context it cannot read.
Readable(f) == f.state = "failure" \/ (f.state = "whole" /\ f.context \in contexts)

-----------------------------------------------------------------------------
\* Between legs.
Rebuild ==
    /\ leg.pc = "idle" /\ \E b \in Builds : world' = [world EXCEPT !.build = b]
    /\ UNCHANGED <<files, prev, contexts, torn, control, leg>>

\* The corpus and its checksum first, then the report of its cardinalities.
Retransform ==
    /\ leg.pc = "idle"
    /\ \/ \E c \in Corpora : world' = [world EXCEPT !.corpus = c]
       \/ world' = [world EXCEPT !.report = world.corpus]
    /\ UNCHANGED <<files, prev, contexts, torn, control, leg>>

\* load_cardinality_report refuses a report of another corpus.
Begin(p) ==
    /\ leg.pc = "idle" /\ leg.count < Legs
    /\ \E s \in {leg.session, leg.count + 1} :
          leg' = IF world.report # world.corpus
                   THEN [leg EXCEPT !.count = @ + 1, !.status = "refused"]
                   ELSE [leg EXCEPT !.pc = "archive", !.count = @ + 1, !.params = p,
                            !.session = s, !.todo = Cells, !.failures = 0,
                            !.status = "none"]
    /\ UNCHANGED <<world, files, prev, contexts, torn, control>>

\* A slip: only readable results make way.
ArchiveReadable ==
    /\ leg.pc = "archive" /\ leg.todo # {}
    /\ \E c \in leg.todo :
          /\ IF Readable(files[Key(c)])
               THEN /\ prev' = [prev EXCEPT ![Key(c)] = files[Key(c)]]
                    /\ files' = [files EXCEPT ![Key(c)] = None]
               ELSE UNCHANGED <<files, prev>>
          /\ leg' = [leg EXCEPT !.todo = @ \ {c}]
    /\ UNCHANGED <<world, contexts, torn, control>>
\* os.replace of a cell's file to .prev, one cell after the other.
Archive ==
    /\ leg.pc = "archive" /\ leg.todo # {}
    /\ \E c \in leg.todo :
          /\ IF files[Key(c)].state # "none"
               THEN /\ prev' = [prev EXCEPT ![Key(c)] = files[Key(c)]]
                    /\ files' = [files EXCEPT ![Key(c)] = None]
               ELSE UNCHANGED <<files, prev>>
          /\ leg' = [leg EXCEPT !.todo = @ \ {c}]
    /\ UNCHANGED <<world, contexts, torn, control>>

\* Every column is probed; one that fails ends the leg.
Probe ==
    /\ leg.pc = "archive" /\ leg.todo = {}
    /\ \/ leg' = [leg EXCEPT !.pc = "warm", !.todo = Cells]
       \/ leg' = [leg EXCEPT !.pc = "idle", !.status = "failed"]
    /\ UNCHANGED <<world, files, prev, contexts, torn, control>>

\* The warm requests' failures are gathered and dropped.
Warm ==
    /\ leg.pc = "warm" /\ Proceed("cell")
    /\ UNCHANGED <<world, files, prev, contexts, torn, control>>

-----------------------------------------------------------------------------
\* The driver measures a cell, or exits before it has a result.
Measure ==
    /\ leg.pc = "cell" /\ leg.todo # {}
    /\ \E c \in leg.todo, e \in {{}, {"replay"}, {"topology"}} :
          \/ leg' = [leg EXCEPT !.pc = "context", !.cell = c, !.errors = e]
          \/ leg' = [leg EXCEPT !.pc = "check", !.cell = c, !.rc = 1]
    /\ UNCHANGED <<world, files, prev, contexts, torn, control>>

\* A slip: the context is opened under its own name; a file that exists is
\* believed to be whole.
WriteContextInPlace ==
    /\ leg.pc \in {"context", "replace"}
    /\ IF leg.pc = "context" /\ Context \notin contexts \cup torn
         THEN Proceed("replace") /\ torn' = torn \cup {Context} /\ UNCHANGED contexts
         ELSE /\ Proceed("open")
              /\ torn' = IF leg.pc = "replace" THEN torn \ {Context} ELSE torn
              /\ contexts' = IF leg.pc = "replace" THEN contexts \cup {Context} ELSE contexts
    /\ UNCHANGED <<world, files, prev, control>>
\* write_context: nothing if the name exists, else a temporary file, renamed.
WriteContext ==
    /\ leg.pc \in {"context", "replace"}
    /\ \/ /\ leg.pc = "context" /\ Context \in contexts
          /\ Proceed("open") /\ UNCHANGED contexts
       \/ /\ leg.pc = "context" /\ Context \notin contexts
          /\ Proceed("replace") /\ UNCHANGED contexts
       \/ leg.pc = "replace" /\ Proceed("open") /\ contexts' = contexts \cup {Context}
    /\ UNCHANGED <<world, files, prev, torn, control>>

\* The result is opened under its own name and written.
OpenResult ==
    /\ leg.pc = "open" /\ Proceed("write")
    /\ files' = [files EXCEPT ![Key(leg.cell)] = Torn(leg.count)]
    /\ UNCHANGED <<world, prev, contexts, torn, control>>

WriteResult ==
    /\ leg.pc = "write"
    /\ files' = [files EXCEPT ![Key(leg.cell)] = Result]
    /\ leg' = [leg EXCEPT !.pc = "check", !.rc = IF leg.errors = {} THEN 0 ELSE 1]
    /\ UNCHANGED <<world, prev, contexts, torn, control>>

\* An exception, or a driver that is killed: what it wrote stays.
DriverDies ==
    /\ leg.pc \in {"context", "replace", "open", "write"}
    /\ leg' = [leg EXCEPT !.pc = "check", !.rc = 1]
    /\ UNCHANGED <<world, files, prev, contexts, torn, control>>

\* A slip: a file that is there and readable is a success.
CheckPresent ==
    /\ leg.pc = "check"
    /\ leg' = [leg EXCEPT !.pc = "cell", !.todo = @ \ {leg.cell}, !.rc = 0,
                  !.failures = @ + IF Readable(files[Key(leg.cell)]) THEN 0 ELSE 1]
    /\ UNCHANGED <<world, files, prev, contexts, torn, control>>
\* The exit code, the file, what can be read of it, and the parameters it has.
Check ==
    /\ leg.pc = "check"
    /\ LET f == files[Key(leg.cell)]
           bad == f.state = "none" \/ ~Readable(f) \/ f.params # leg.params
       IN  leg' = [leg EXCEPT !.pc = "cell", !.todo = @ \ {leg.cell}, !.rc = 0,
                      !.failures = @ + leg.rc + IF bad THEN 1 ELSE 0]
    /\ UNCHANGED <<world, files, prev, contexts, torn, control>>

-----------------------------------------------------------------------------
\* record_health_control: the old control makes way, the driver runs, and a run
\* that left no file leaves one that says so.
ArchiveControl ==
    /\ leg.pc = "cell" /\ leg.todo = {} /\ leg.engine = "luxir"
    /\ control' = None /\ Proceed("control")
    /\ UNCHANGED <<world, files, prev, contexts, torn>>

Control ==
    /\ leg.pc = "control"
    /\ LET end(c, n) == /\ control' = c
                        /\ leg' = [leg EXCEPT !.pc = "idle", !.failures = 0, !.rc = 0,
                              !.status = IF leg.failures + n = 0 THEN "passed" ELSE "failed"]
           beside == [Context EXCEPT !.dir = "controls"]
       IN  \/ /\ contexts' = contexts \cup {beside}
              /\ \E e \in {{}, {"replay"}} :
                    end([Result EXCEPT !.errors = e, !.context = beside],
                        IF e = {} THEN 0 ELSE 1)
           \/ UNCHANGED contexts /\ end(Failure(leg.count), 1)
           \/ UNCHANGED contexts /\ end(Torn(leg.count), 1)
    /\ UNCHANGED <<world, files, prev, torn>>

NoControl ==
    /\ leg.pc = "cell" /\ leg.todo = {} /\ leg.engine = "rest"
    /\ leg' = [leg EXCEPT !.pc = "idle", !.failures = 0,
                  !.status = IF leg.failures = 0 THEN "passed" ELSE "failed"]
    /\ UNCHANGED <<world, files, prev, contexts, torn, control>>

\* The leg is killed, and its driver with it.
Killed ==
    /\ leg.pc # "idle"
    /\ leg' = [leg EXCEPT !.pc = "idle", !.failures = 0, !.rc = 0, !.status = "killed"]
    /\ UNCHANGED <<world, files, prev, contexts, torn, control>>

CampaignStep ==
    \/ Rebuild \/ Retransform \/ \E p \in Params : Begin(p)
    \/ Archive \/ Probe \/ Warm \/ Measure \/ WriteContext \/ OpenResult
    \/ WriteResult \/ DriverDies \/ Check \/ ArchiveControl \/ Control
    \/ NoControl \/ Killed

CampaignSpec == CampaignInit /\ [][CampaignStep]_campaignVars

-----------------------------------------------------------------------------
\* What a report of parameters p takes, whenever it is rendered.

\* The parameters that shaped the request: inert ones do not count.
Asked(p) == IF leg.engine = "luxir" THEN <<p.effective, p.parallel>> ELSE <<p.effective>>

\* The hard gates: layout, corpus and, of the REST engines alone, the build:
\* no build of Luxir is ever selected, and none recorded (None = None).
Gated(f) == /\ f.state = "whole" /\ Readable(f)
            /\ f.context.corpus = world.report
            /\ leg.engine = "rest" => f.context.build = world.build

\* A slip: every file has the parameters its table wants.
UnmarkedAlways(f, p) == TRUE
Unmarked(f, p) == Asked(f.params) = Asked(p)

\* Newest among the exact matches if there is one, else the newest: None or
\* the file shown.
Shown(c, p) ==
    LET usable == {f \in {files[<<c, q>>] : q \in Params} : Gated(f)}
        exact == {f \in usable : Unmarked(f, p)}
        best == IF exact # {} THEN exact ELSE usable
    IN  IF best = {} THEN {} ELSE {f \in best : \A g \in best : g.at <= f.at}

\* The previous generation, for the change in server work.
ShownBefore(c, p) == {f \in {prev[<<c, p>>]} : Gated(f) /\ f.params = p}

\* A cell shows numbers unless its replay counted errors.
Measured(f) == "replay" \notin f.errors

\* control_mismatches: the session and the binary, and after every cell that is
\* shown.
ValidControl(p) ==
    /\ control.state = "whole" /\ Readable(control) /\ control.errors = {}
    /\ \A c \in Cells : \A f \in Shown(c, p) :
          /\ f.context.session = control.context.session
          /\ f.context.build = control.context.build
          /\ f.at <= control.at

-----------------------------------------------------------------------------
\* Whatever is killed where, each whole result can be loaded: the context it
\* names is there, and whole (write_context is "race-free").
ContextsServe ==
    \A f \in {files[k] : k \in DOMAIN files} \cup {prev[k] : k \in DOMAIN prev} \cup {control} :
        f.state = "whole" => f.context \in contexts

\* A cell that is shown without a warning was measured with the request the
\* table is about, on the corpus of now and, of a REST engine, on the build that
\* is selected now (a Luxir that was built again keeps its old cells in the
\* table); and one that matches exactly is never hidden by a newer one that does
\* not.  What Luxir's cell is compared with as its previous run was measured
\* before it.
ShownIsThisRequest ==
    \A c \in Cells, p \in Params : \A f \in Shown(c, p) :
        /\ f.context.corpus = world.report
        /\ leg.engine = "rest" => f.context.build = world.build
        /\ (leg.engine = "luxir" /\ Unmarked(f, p)) =>
              \A g \in ShownBefore(c, p) : g.at < f.at
        /\ \/ Asked(f.params) = Asked(p)
           \/ ~Unmarked(f, p) /\ \A q \in Params :
                 LET g == files[<<c, q>>] IN Gated(g) => Asked(g.params) # Asked(p)

\* From the first probe on, no file of the leg's own parameters is older than
\* the leg: a rerun that fails shows no measurement of before.
StaleHidden ==
    (\/ leg.pc \notin {"idle", "archive"} \/ (leg.pc = "archive" /\ leg.todo = {})
     \/ leg.status \in {"passed", "failed"}) =>
        \A c \in Cells : files[Key(c)].state # "none" => files[Key(c)].at = leg.count

\* A leg that exits 0 left a whole, readable result without an error for every
\* cell, and for Luxir a control that the report of the leg's corpus will accept
\* beside them.
SuccessMeansWhole ==
    leg.status = "passed" =>
        /\ \A c \in Cells : LET f == files[Key(c)] IN
              /\ f.state = "whole" /\ f.context \in contexts
              /\ f.errors = {} /\ f.at = leg.count
        /\ (leg.engine = "luxir" /\ \A c \in Cells : Gated(files[Key(c)])) =>
              ValidControl(leg.params)

\* The report says "A topology change fails the cell": it shows no numbers.
FlawedNeverShown ==
    \A c \in Cells, p \in Params : \A f \in Shown(c, p) :
        Measured(f) => f.errors = {}
=============================================================================
