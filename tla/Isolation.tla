----------------------------- MODULE Isolation -----------------------------
(***************************************************************************)
(* python/network_namespace.py: supervise() runs a campaign command in a   *)
(* network namespace of its own and, however the command ends, finds the   *)
(* processes left in the namespace, ends them, and clears the PID files of *)
(* their engines.  Process identifiers are the kernel's: shared with the   *)
(* host, and reused once free.                                             *)
(***************************************************************************)
EXTENDS Naturals, FiniteSets

CONSTANTS
  Pid,          \* process identifiers, the host's and the namespace's alike
  NoPid,        \* not a pid: None in Python
  Forks,        \* bound: processes the campaign forks beside the command
  HostForks,    \* bound: processes the host forks while the campaign runs
  Signals       \* bound: SIGINT and SIGTERM sent to the supervisor

ASSUME ConstantsAssumption ==
  /\ {NoPid, "none", "empty"} \cap Pid = {}
  /\ Forks \in Nat /\ HostForks \in Nat /\ Signals \in Nat

VARIABLES
  proc,         \* what a pid names: free, member, dying, zombie or host
  birth,        \* how often a pid has been given out: with it, an identity
  file,         \* run/<engine>.pid: none, empty, or the pid it holds
  pc,           \* where the supervisor is
  handler,      \* its SIGINT and SIGTERM handlers: raise, half or ignore
  kid,          \* the command's process
  child,        \* the supervisor's variable of that name
  leaving,      \* how the try block was left: nothing, status, interrupted
  outcome,      \* how supervise() ended
  round,        \* the part of cleanup() in progress: term, wait or confirm
  listed,       \* pids in the listing of /proc that are still to be looked at
  found,        \* the result of namespace_processes, so far
  todo,         \* pids signal_processes has still to visit
  fd,           \* the pidfd: a pid and the birth it pins
  late,         \* the deadline of the round has passed
  struck,       \* history: the kinds of process that were ever signalled
  left          \* what is left of the three bounds, and whether a fork was late

kernel == <<proc, birth>>
super  == <<pc, handler, child, leaving, outcome, round, listed, found, todo, fd>>
vars   == <<kernel, file, super, kid, late, struck, left>>

Kinds   == {"free", "member", "dying", "zombie", "host"}
Living  == {"member", "dying"}          \* /proc/<pid>/ns/net can be read
Members == {p \in Pid : proc[p] \in Living}
NoFd    == [pid |-> NoPid, birth |-> 0]
Rounds  == {"term", "wait", "confirm"}

Init ==
  /\ proc \in [Pid -> {"free", "host"}]
  /\ birth = [p \in Pid |-> 0]
  /\ file \in {"none"} \cup {p \in Pid : proc[p] = "host"}
  /\ pc = "start" /\ handler = "raise" /\ kid = NoPid /\ child = NoPid
  /\ leaving = "nothing" /\ outcome = "none" /\ round = "term"
  /\ listed = {} /\ found = {} /\ todo = {} /\ fd = NoFd
  /\ late = FALSE /\ struck = {}
  /\ left = [forks |-> Forks, hosts |-> HostForks, signals |-> Signals, late |-> FALSE]

-----------------------------------------------------------------------------
(* The kernel, the host and the campaign's own processes.                  *)

Born(p, kind) ==
  /\ proc[p] = "free"
  /\ proc' = [proc EXCEPT ![p] = kind]
  /\ birth' = [birth EXCEPT ![p] = @ + 1]

InCleanup == pc \in {"list", "scan", "signal", "check", "send", "files", "reap"}

MemberForks(p) ==
  /\ \E q \in Pid : proc[q] = "member"
  /\ Born(p, "member")
  /\ left.forks > 0
  /\ left' = [left EXCEPT !.forks = @ - 1, !.late = @ \/ InCleanup]
  /\ UNCHANGED <<super, file, kid, late, struck>>

HostForksOne(p) ==
  /\ left.hosts > 0
  /\ Born(p, "host")
  /\ left' = [left EXCEPT !.hosts = @ - 1]
  /\ UNCHANGED <<super, file, kid, late, struck>>

\* The command stays a zombie until the supervisor waits for it; the others
\* are reaped by their parents.
Dies(p) ==
  /\ proc[p] \in Living \cup {"host"}
  /\ proc' = [proc EXCEPT ![p] = IF p = kid THEN "zombie" ELSE "free"]
  /\ UNCHANGED <<birth, super, file, kid, late, struck, left>>

\* scripts/start-luxir.sh opens the PID file, writes a pid; stop removes it.
EngineFile ==
  /\ \E p \in Pid : proc[p] = "member"
  /\ \/ file = "none" /\ file' = "empty"
     \/ file = "empty" /\ file' \in {p \in Pid : proc[p] = "member"}
     \/ file # "none" /\ file' = "none"
  /\ UNCHANGED <<kernel, super, kid, late, struck, left>>

Tick ==
  /\ InCleanup /\ ~late /\ late' = TRUE
  /\ UNCHANGED <<kernel, super, file, kid, struck, left>>

Environment ==
  /\ pc # "done"
  /\ \/ \E p \in Pid : MemberForks(p) \/ HostForksOne(p) \/ Dies(p)
     \/ EngineFile

-----------------------------------------------------------------------------
(* supervise().                                                            *)

Finish(how) == pc' = "done" /\ outcome' = how

Start ==
  /\ pc = "start"
  /\ \/ file # "none" /\ Finish("refused")
     \/ file = "none" /\ pc' = "popen" /\ UNCHANGED outcome
  /\ UNCHANGED <<kernel, file, handler, child, leaving, round, listed, found, todo,
                 fd, kid, late, struck, left>>

\* subprocess.Popen: the process exists before the variable holds it.
Popen ==
  /\ pc = "popen"
  /\ \E p \in Pid : Born(p, "member") /\ kid' = p
  /\ pc' = "assign"
  /\ UNCHANGED <<file, handler, child, leaving, outcome, round, listed, found,
                 todo, fd, late, struck, left>>

Assign ==
  /\ pc = "assign" /\ pc' = "wait" /\ child' = kid
  /\ UNCHANGED <<kernel, file, handler, leaving, outcome, round, listed, found,
                 todo, fd, kid, late, struck, left>>

\* child.wait() in the try block: the command has ended.
CommandEnds ==
  /\ pc = "wait" /\ proc[child] = "zombie"
  /\ proc' = [proc EXCEPT ![child] = "free"]
  /\ kid' = NoPid
  /\ leaving' = "status" /\ pc' = "finally"
  /\ UNCHANGED <<birth, file, handler, child, outcome, round, listed, found, todo,
                 fd, late, struck, left>>

\* interrupt() raises Interrupted wherever the supervisor is.  The try block
\* catches it; raised before the block, or in the finally block before
\* both signals are ignored, it leaves supervise() without the cleanup.
Interrupt ==
  /\ left.signals > 0 /\ handler # "ignore" /\ pc # "done"
  /\ left' = [left EXCEPT !.signals = @ - 1]
  /\ \/ /\ pc \in {"popen", "assign", "wait"}
        /\ leaving' = "interrupted" /\ pc' = "finally" /\ UNCHANGED outcome
     \/ /\ pc \in {"start", "finally"}
        /\ Finish("escaped") /\ UNCHANGED leaving
  /\ UNCHANGED <<kernel, file, handler, child, round, listed, found, todo, fd,
                 kid, late, struck>>

\* signal.signal(SIGINT, SIG_IGN), then the same for SIGTERM.
IgnoreSignals ==
  /\ pc = "finally"
  /\ \/ handler = "raise" /\ handler' = "half" /\ UNCHANGED pc
     \/ handler = "half" /\ handler' = "ignore" /\ pc' = "list"
  /\ UNCHANGED <<kernel, file, child, leaving, outcome, round, listed, found, todo,
                 fd, kid, late, struck, left>>

-----------------------------------------------------------------------------
(* cleanup(): three rounds of listing, two of them followed by signals.    *)

\* Path("/proc").iterdir() reads the whole directory ...
List ==
  /\ pc = "list" /\ pc' = "scan"
  /\ listed' = {p \in Pid : proc[p] # "free"} /\ found' = {}
  /\ UNCHANGED <<kernel, file, handler, child, leaving, outcome, round, todo, fd,
                 kid, late, struck, left>>

\* ... and only then is the namespace of each entry read.
Scan(p) ==
  /\ pc = "scan" /\ p \in listed
  /\ listed' = listed \ {p}
  /\ found' = IF proc[p] \in Living THEN found \cup {p} ELSE found
  /\ UNCHANGED <<kernel, file, pc, handler, child, leaving, outcome, round, todo,
                 fd, kid, late, struck, left>>

\* Slips: the listing after SIGKILL is not looked at; its loop has no deadline.
AfterScanUnconfirmed ==
  CASE round = "confirm" -> "files"
    [] round = "term" \/ late \/ found = {} -> "signal"
    [] OTHER -> "list"
AfterScanForever ==
  CASE round = "confirm" /\ found = {} -> "files"
    [] round = "term" \/ (round = "wait" /\ (late \/ found = {})) -> "signal"
    [] OTHER -> "list"

\* What follows a listing: its loops go on `while pids and time.monotonic() <
\* deadline`, then `while namespace_processes(namespace)`, with a deadline
\* that raises.
AfterScan ==
  CASE round = "confirm" /\ found = {} -> "files"
    [] round = "confirm" /\ found # {} /\ late -> "done"
    [] round # "confirm" /\ (round = "term" \/ late \/ found = {}) -> "signal"
    [] OTHER -> "list"

Scanned ==
  /\ pc = "scan" /\ listed = {}
  /\ pc' = AfterScan
  /\ todo' = IF AfterScan = "signal" THEN found ELSE todo
  /\ outcome' = IF AfterScan = "done" THEN "remain" ELSE outcome
  /\ UNCHANGED <<kernel, file, handler, child, leaving, round, listed, found, fd,
                 kid, late, struck, left>>

\* os.pidfd_open(pid) fails when the pid names nothing.
Pin(p) ==
  /\ pc = "signal" /\ p \in todo
  /\ todo' = todo \ {p}
  /\ IF proc[p] = "free"
     THEN UNCHANGED <<pc, fd>>
     ELSE fd' = [pid |-> p, birth |-> birth[p]] /\ pc' = "check"
  /\ UNCHANGED <<kernel, file, handler, child, leaving, outcome, round, listed,
                 found, kid, late, struck, left>>

\* The pid's namespace is read after the pin.
CheckMember ==
  /\ pc = "check"
  /\ IF proc[fd.pid] \in Living
     THEN pc' = "send" /\ UNCHANGED fd
     ELSE pc' = "signal" /\ fd' = NoFd
  /\ UNCHANGED <<kernel, file, handler, child, leaving, outcome, round, listed,
                 found, todo, kid, late, struck, left>>

Pinned == proc[fd.pid] # "free" /\ birth[fd.pid] = fd.birth

\* A slip: SIGTERM is sent again where SIGKILL should be.
StrikeGently(p) ==
  /\ struck' = struck \cup {proc[p]}
  /\ UNCHANGED proc

Strike(p) ==
  /\ struck' = struck \cup {proc[p]}
  /\ proc' = [proc EXCEPT ![p] = IF round = "wait" /\ @ = "member" THEN "dying" ELSE @]

\* A slip: os.kill(pid, signum) in place of the pidfd.
SendByNumber ==
  /\ pc = "send" /\ pc' = "signal" /\ fd' = NoFd
  /\ IF proc[fd.pid] # "free" THEN Strike(fd.pid) ELSE UNCHANGED <<proc, struck>>
  /\ UNCHANGED <<birth, file, handler, child, leaving, outcome, round, listed,
                 found, todo, kid, late, left>>

\* signal.pidfd_send_signal: SIGTERM, which a process may ignore (Dies is
\* its choice), in the first round; SIGKILL after the second.
Send ==
  /\ pc = "send" /\ pc' = "signal" /\ fd' = NoFd
  /\ IF Pinned THEN Strike(fd.pid) ELSE UNCHANGED <<proc, struck>>
  /\ UNCHANGED <<birth, file, handler, child, leaving, outcome, round, listed,
                 found, todo, kid, late, left>>

\* A round of signals is over; no pids to wait for means no waiting.
NextRound ==
  /\ pc = "signal" /\ todo = {}
  /\ late' = FALSE /\ pc' = "list"
  /\ round' = IF round = "term" /\ found # {} THEN "wait" ELSE "confirm"
  /\ UNCHANGED <<kernel, file, handler, child, leaving, outcome, listed, found,
                 todo, fd, kid, struck, left>>

\* A PID file stays when its pid names a process outside the namespace.
ClearFiles ==
  /\ pc = "files" /\ pc' = "reap"
  /\ file' = IF file \in Pid /\ proc[file] = "host" THEN file ELSE "none"
  /\ UNCHANGED <<kernel, handler, child, leaving, outcome, round, listed, found,
                 todo, fd, kid, late, struck, left>>

\* child.wait() after the cleanup returns at once for a process waited for.
Reap ==
  /\ pc = "reap"
  /\ {child, kid} \subseteq Pid => proc[kid] = "zombie"
  /\ Finish(leaving)
  /\ UNCHANGED <<kernel, file, handler, child, leaving, round, listed, found,
                 todo, fd, kid, late, struck, left>>

Supervisor ==
  \/ Start \/ Popen \/ Assign \/ CommandEnds \/ IgnoreSignals
  \/ List \/ (\E p \in Pid : Scan(p)) \/ Scanned
  \/ (\E p \in Pid : Pin(p)) \/ CheckMember \/ Send \/ NextRound
  \/ ClearFiles \/ Reap

Done == pc = "done" /\ UNCHANGED vars

Next == Supervisor \/ Interrupt \/ Tick \/ Environment \/ Done

Spec == Init /\ [][Next]_vars

\* The supervisor runs and time passes.  Nothing is assumed of the command,
\* of its processes, or of those the kernel is told to kill.
Fairness == WF_vars(Supervisor) /\ WF_vars(Tick)
FairSpec == Spec /\ Fairness

-----------------------------------------------------------------------------
(* Properties.                                                             *)

Budget == [forks : Nat, hosts : Nat, signals : Nat, late : BOOLEAN]

\* Every variable of the supervisor and of the kernel has its type.
TypeOK ==
  /\ proc \in [Pid -> Kinds] /\ birth \in [Pid -> Nat]
  /\ file \in {"none", "empty"} \cup Pid
  /\ pc \in {"start", "popen", "assign", "wait", "finally", "list", "scan", "signal",
             "check", "send", "files", "reap", "done"}
  /\ handler \in {"raise", "half", "ignore"}
  /\ kid \in Pid \cup {NoPid} /\ child \in Pid \cup {NoPid}
  /\ leaving \in {"nothing", "status", "interrupted"}
  /\ outcome \in {"none", "refused", "escaped", "remain", "status", "interrupted"}
  /\ round \in Rounds
  /\ listed \subseteq Pid /\ found \subseteq Pid /\ todo \subseteq Pid
  /\ fd \in [pid : Pid \cup {NoPid}, birth : Nat]
  /\ late \in BOOLEAN /\ struck \subseteq Kinds
  /\ left \in Budget

\* A process of the host never receives a signal of the cleanup, whatever
\* pids are freed and given out again between the listing, the pidfd, the look at
\* the namespace and the signal (lines 29-43: "a PID reused by a host process
\* must never receive our cleanup signal").
HostNeverSignalled == "host" \notin struck

\* Nothing has forked since the cleanup began.
NoLateFork == ~left.late

\* supervise() that returns a status leaves nobody behind in the namespace
\* (lines 46-61), provided that its processes did not fork during the cleanup.
NobodyLeft == NoLateFork /\ outcome \in {"status", "interrupted"} => Members = {}

\* Processes that supervise() reports as surviving SIGKILL were sent one
\* (line 60: "processes remain in {namespace} after SIGKILL"), with the same
\* provision: a process forked after the listing that SIGKILL was sent from is
\* only waited for.
RemainSurvivedKill ==
  NoLateFork /\ outcome = "remain" => \A p \in Members : proc[p] = "dying"

\* The cleanup's child.wait() never waits: the command is in every listing
\* until it has ended (lines 111-113), even when others fork meanwhile.
ReapNeverBlocks == pc = "reap" /\ kid # NoPid => proc[kid] = "zombie"

\* However supervise() ends once the command has been started, short of
\* reporting processes that survive SIGKILL, nobody is left in the namespace.
EveryExitCleans == outcome \in {"status", "interrupted", "escaped"} => Members = {}

\* Every cleanup comes to an end, whoever survives SIGKILL (lines 57-61).
CleanupEnds == InCleanup ~> pc = "done"
=============================================================================
