-------------------------- MODULE IsolationProofs --------------------------
(***************************************************************************)
(* Proofs about Isolation, for every set of pids and every bound: no      *)
(* process of the host is signalled, the last wait never blocks, and when  *)
(* nothing forks during the cleanup nobody is left but who was sent        *)
(* SIGKILL.                                                                *)
(***************************************************************************)
EXTENDS Isolation, TLAPS

Working == {"list", "scan", "signal", "check", "send", "files", "reap"}

\* The try block has been left one way or the other before the cleanup, and
\* a pidfd is held while it is used.
Entered ==
  /\ pc \in Working \cup {"finally"} => leaving \in {"status", "interrupted"}
  /\ pc \in {"check", "send"} => fd.pid \in Pid

TypeInv == TypeOK /\ Entered

\* A pid is never given out backwards, so a pid with the birth of the pidfd
\* still names the process that was pinned, which was then seen in the namespace.
PinInv ==
  /\ pc \in {"check", "send"} => birth[fd.pid] >= fd.birth
  /\ pc = "send" /\ birth[fd.pid] = fd.birth => proc[fd.pid] # "host"

\* The command's process is listed and found until it has ended.
KidInv ==
  /\ kid \in Pid => proc[kid] \in Living \cup {"zombie"}
  /\ pc = "scan" /\ kid \in Members => kid \in listed \cup found
  /\ pc \in {"files", "reap"} => kid \notin Members

\* Without late forks everybody is listed or found, so nobody is left.
LeftInv ==
  /\ outcome # "none" => pc = "done"
  /\ NoLateFork =>
       /\ pc = "scan" => Members \subseteq listed \cup found
       /\ pc \in {"files", "reap"} => Members = {}
       /\ outcome \in {"status", "interrupted"} => Members = {}

\* The shape of Next the proofs split on.
LEMMA NextCases ==
  ASSUME Next
  PROVE  \/ (pc # "done" /\ \E p \in Pid : MemberForks(p))
         \/ (pc # "done" /\ \E p \in Pid : HostForksOne(p))
         \/ (pc # "done" /\ \E p \in Pid : Dies(p))
         \/ (pc # "done" /\ EngineFile)
         \/ Start \/ Popen \/ Assign \/ CommandEnds \/ IgnoreSignals
         \/ List \/ (\E p \in Pid : Scan(p)) \/ Scanned
         \/ (\E p \in Pid : Pin(p)) \/ CheckMember \/ Send \/ NextRound
         \/ ClearFiles \/ Reap \/ Interrupt \/ Tick \/ UNCHANGED vars
BY DEF Next, Environment, Supervisor, Done

\* TypeInv holds at first.
LEMMA TypeInit == Init => TypeInv
<1> SUFFICES ASSUME Init PROVE TypeInv
  OBVIOUS
<1>1. proc \in [Pid -> Kinds] /\ birth \in [Pid -> Nat]
  BY DEF Init, Kinds
<1>2. left \in Budget
  BY ConstantsAssumption DEF Init, Budget
<1>3. fd \in [pid : Pid \cup {NoPid}, birth : Nat]
  BY DEF Init, NoFd
<1>4. file \in {"none", "empty"} \cup Pid
  BY DEF Init
<1> QED BY <1>1, <1>2, <1>3, <1>4 DEF Init, TypeInv, TypeOK, Entered, Working, Rounds

\* Every step keeps the types.
LEMMA TypeStep == TypeInv /\ [Next]_vars => TypeInv'
<1> SUFFICES ASSUME TypeInv, [Next]_vars PROVE TypeInv'
  OBVIOUS
<1> USE DEF TypeInv, TypeOK, Entered, Working, Kinds, Rounds, NoFd, Finish
<1>1. CASE pc # "done" /\ \E p \in Pid : MemberForks(p)
  <2>1. /\ left.forks > 0 /\ left.forks - 1 \in Nat
        /\ left' = [left EXCEPT !.forks = left.forks - 1, !.late = left.late \/ InCleanup]
    BY <1>1 DEF MemberForks, Budget
  <2>2. (left.late \/ InCleanup) \in BOOLEAN
    OBVIOUS
  <2>3. left' \in Budget
    BY <2>1, <2>2 DEF Budget
  <2> QED BY <1>1, <2>3 DEF MemberForks, Born, super
<1>2. CASE pc # "done" /\ \E p \in Pid : HostForksOne(p)
  BY <1>2 DEF HostForksOne, Born, super, Budget
<1>3. CASE pc # "done" /\ \E p \in Pid : Dies(p)
  BY <1>3 DEF Dies, super
<1>4. CASE pc # "done" /\ EngineFile
  BY <1>4 DEF EngineFile, kernel, super
<1>5. CASE Start
  BY <1>5 DEF Start, kernel
<1>6. CASE Popen
  BY <1>6 DEF Popen, Born
<1>7. CASE Assign
  BY <1>7 DEF Assign, kernel
<1>8. CASE CommandEnds
  BY <1>8 DEF CommandEnds
<1>9. CASE IgnoreSignals
  BY <1>9 DEF IgnoreSignals, kernel
<1>10. CASE List
  BY <1>10 DEF List, kernel
<1>11. CASE \E p \in Pid : Scan(p)
  BY <1>11 DEF Scan, kernel
<1>12. CASE Scanned
  <2>1. AfterScan \in {"files", "done", "signal", "list"}
    BY DEF AfterScan
  <2> QED BY <2>1, <1>12 DEF Scanned, kernel
<1>13. CASE \E p \in Pid : Pin(p)
  BY <1>13 DEF Pin, kernel
<1>14. CASE CheckMember
  BY <1>14 DEF CheckMember, kernel
<1>15. CASE Send
  <2>1. fd.pid \in Pid /\ proc[fd.pid] \in Kinds
    BY <1>15 DEF Send
  <2>2. proc' \in [Pid -> Kinds] /\ struck' \subseteq Kinds
    <3>1. CASE Pinned
      BY <1>15, <2>1, <3>1 DEF Send, Strike
    <3>2. CASE ~Pinned
      BY <1>15, <3>2 DEF Send
    <3> QED BY <3>1, <3>2
  <2>3. fd' \in [pid : Pid \cup {NoPid}, birth : Nat]
    BY <1>15 DEF Send
  <2> QED BY <1>15, <2>2, <2>3 DEF Send
<1>16. CASE NextRound
  BY <1>16 DEF NextRound, kernel
<1>17. CASE ClearFiles
  BY <1>17 DEF ClearFiles, kernel
<1>18. CASE Reap
  BY <1>18 DEF Reap, kernel
<1>19. CASE Interrupt
  <2>1. left' \in Budget
    BY <1>19 DEF Interrupt, Budget
  <2> QED BY <1>19, <2>1 DEF Interrupt, kernel
<1>20. CASE Tick
  BY <1>20 DEF Tick, kernel, super
<1>21. CASE UNCHANGED vars
  BY <1>21 DEF vars, kernel, super
<1> QED
  BY <1>1, <1>2, <1>3, <1>4, <1>5, <1>6, <1>7, <1>8, <1>9, <1>10, <1>11, <1>12,
     <1>13, <1>14, <1>15, <1>16, <1>17, <1>18, <1>19, <1>20, <1>21, NextCases
\* Every variable of the supervisor and of the kernel keeps its type, and
\* supervise() never returns without a status.
THEOREM IsolationTypes == Spec => []TypeOK
<1>1. Spec => []TypeInv
  BY TypeInit, TypeStep, PTL DEF Spec
<1>2. TypeInv => TypeOK
  BY DEF TypeInv
<1> QED BY <1>1, <1>2, PTL

-----------------------------------------------------------------------------
(* No process of the host is signalled.                                    *)

\* Nothing is pinned and nobody struck at first.
LEMMA PinInit == Init => PinInv /\ HostNeverSignalled
BY DEF Init, PinInv, HostNeverSignalled

\* Pinned first, looked at second: what is signalled is what was looked at.
LEMMA PinStep ==
  TypeInv /\ PinInv /\ HostNeverSignalled /\ [Next]_vars => (PinInv /\ HostNeverSignalled)'
<1> SUFFICES ASSUME TypeInv, PinInv, HostNeverSignalled, [Next]_vars
             PROVE  (PinInv /\ HostNeverSignalled)'
  OBVIOUS
<1> USE DEF PinInv, HostNeverSignalled
<1>t. /\ proc \in [Pid -> Kinds] /\ birth \in [Pid -> Nat]
      /\ fd \in [pid : Pid \cup {NoPid}, birth : Nat]
      /\ pc \in {"check", "send"} => fd.pid \in Pid
  BY DEF TypeInv, TypeOK, Entered
\* A birth takes a pid away from whoever was pinned under it.
<1>b. ASSUME NEW p \in Pid, NEW kind \in Kinds, Born(p, kind),
             UNCHANGED <<pc, fd>>, UNCHANGED struck
      PROVE  (PinInv /\ HostNeverSignalled)'
  <2>1. birth' \in [Pid -> Nat] /\ \A q \in Pid : birth'[q] >= birth[q]
    BY <1>b, <1>t DEF Born
  <2>2. \A q \in Pid : birth'[q] = birth[q] => proc'[q] = proc[q]
    BY <1>b, <1>t DEF Born
  <2> QED BY <1>b, <1>t, <2>1, <2>2
\* A step that gives out no pid, signals nobody and leaves the pidfd alone.
<1>q. ASSUME UNCHANGED <<birth, pc, fd, struck>>,
             \A q \in Pid : proc'[q] = "host" => proc[q] = "host"
      PROVE  (PinInv /\ HostNeverSignalled)'
  BY <1>q, <1>t
<1>1. CASE pc # "done" /\ \E p \in Pid : MemberForks(p)
  BY <1>1, <1>b DEF MemberForks, super, Kinds
<1>2. CASE pc # "done" /\ \E p \in Pid : HostForksOne(p)
  BY <1>2, <1>b DEF HostForksOne, super, Kinds
<1>3. CASE pc # "done" /\ \E p \in Pid : Dies(p)
  <2> PICK p \in Pid : Dies(p)
    BY <1>3
  <2>1. \A q \in Pid : proc'[q] = "host" => proc[q] = "host"
    BY <1>t DEF Dies
  <2> QED BY <2>1, <1>q DEF Dies, super
<1>4. CASE (pc # "done" /\ EngineFile) \/ Tick \/ UNCHANGED vars
  BY <1>4, <1>q DEF EngineFile, Tick, vars, kernel, super
<1>5. CASE Popen
  BY <1>5, <1>t DEF Popen, Born
<1>6. CASE Start \/ Assign \/ CommandEnds \/ IgnoreSignals \/ Interrupt
  BY <1>6 DEF Start, Assign, CommandEnds, IgnoreSignals, Interrupt, Finish, kernel
<1>7. CASE List \/ (\E p \in Pid : Scan(p)) \/ NextRound \/ ClearFiles \/ Reap
  BY <1>7 DEF List, Scan, NextRound, ClearFiles, Reap, Finish, kernel
<1>8. CASE Scanned
  <2>1. AfterScan \in {"files", "done", "signal", "list"}
    BY DEF AfterScan
  <2> QED BY <1>8, <2>1 DEF Scanned
<1>9. CASE \E p \in Pid : Pin(p)
  <2> PICK p \in Pid : Pin(p)
    BY <1>9
  <2>1. CASE proc[p] = "free"
    BY <2>1 DEF Pin, kernel
  <2>2. CASE proc[p] # "free"
    <3>1. pc' = "check" /\ birth' = birth /\ struck' = struck
      BY <2>2 DEF Pin, kernel
    <3>2. fd' = [pid |-> p, birth |-> birth[p]]
      BY <2>2 DEF Pin
    <3>3. birth[p] >= birth[p]
      BY <1>t
    <3> QED BY <3>1, <3>2, <3>3
  <2> QED BY <2>1, <2>2
<1>10. CASE CheckMember
  <2>1. CASE proc[fd.pid] \in Living
    BY <1>10, <2>1 DEF CheckMember, Living, kernel
  <2>2. CASE proc[fd.pid] \notin Living
    BY <1>10, <2>2 DEF CheckMember, kernel
  <2> QED BY <2>1, <2>2
<1>11. CASE Send
  <2>1. pc = "send" /\ pc' = "signal"
    BY <1>11 DEF Send
  <2>2. CASE Pinned
    <3>1. proc[fd.pid] # "host"
      BY <2>1, <2>2 DEF Pinned
    <3>2. struck' = struck \cup {proc[fd.pid]}
      BY <1>11, <2>2 DEF Send, Strike
    <3> QED BY <2>1, <3>1, <3>2
  <2>3. CASE ~Pinned
    BY <1>11, <2>1, <2>3 DEF Send
  <2> QED BY <2>2, <2>3
<1> QED
  BY <1>1, <1>2, <1>3, <1>4, <1>5, <1>6, <1>7, <1>8, <1>9, <1>10, <1>11, NextCases

\* A process of the host never receives a signal of the cleanup: the pid is
\* pinned by a pidfd before its namespace is read (signal_processes).
THEOREM HostIsSafe == Spec => []HostNeverSignalled
<1>1. Spec => [](PinInv /\ HostNeverSignalled)
  BY TypeInit, TypeStep, PinInit, PinStep, PTL DEF Spec
<1> QED BY <1>1, PTL

-----------------------------------------------------------------------------
(* The last wait does not block.                                           *)

\* There is no command at first.
LEMMA KidInit == Init => KidInv
BY ConstantsAssumption DEF Init, KidInv, Members, Living

\* The command is in every listing until it has ended.
LEMMA KidStep == TypeInv /\ KidInv /\ [Next]_vars => KidInv'
<1> SUFFICES ASSUME TypeInv, KidInv, [Next]_vars PROVE KidInv'
  OBVIOUS
<1> USE DEF KidInv, Members, Living
<1>t. /\ proc \in [Pid -> Kinds] /\ NoPid \notin Pid
      /\ kid \in Pid \cup {NoPid} /\ listed \subseteq Pid
  BY ConstantsAssumption DEF TypeInv, TypeOK
\* What happens to others' pids does not matter.
<1>q. ASSUME UNCHANGED <<pc, kid, listed, found>>,
             kid \in Pid => \/ proc'[kid] = proc[kid]
                            \/ proc'[kid] = "zombie"
                            \/ proc[kid] = "member" /\ proc'[kid] = "dying"
      PROVE  KidInv'
  BY <1>q, <1>t
<1>1. CASE pc # "done" /\ \E p \in Pid : MemberForks(p) \/ HostForksOne(p)
  <2>1. kid \in Pid => proc'[kid] = proc[kid]
    BY <1>1, <1>t DEF MemberForks, HostForksOne, Born
  <2> QED BY <1>1, <2>1, <1>q DEF MemberForks, HostForksOne, super
<1>2. CASE pc # "done" /\ \E p \in Pid : Dies(p)
  <2>1. kid \in Pid => proc'[kid] = proc[kid] \/ proc'[kid] = "zombie"
    BY <1>2, <1>t DEF Dies
  <2> QED BY <1>2, <2>1, <1>q DEF Dies, super
<1>3. CASE (pc # "done" /\ EngineFile) \/ Tick \/ UNCHANGED vars
  BY <1>3, <1>q DEF EngineFile, Tick, vars, kernel, super
<1>4. CASE Popen
  BY <1>4, <1>t DEF Popen, Born
<1>5. CASE CommandEnds
  BY <1>5, <1>t DEF CommandEnds
<1>6. CASE Start \/ Assign \/ IgnoreSignals \/ Interrupt
  BY <1>6 DEF Start, Assign, IgnoreSignals, Interrupt, Finish, kernel
<1>7. CASE List
  BY <1>7, <1>t DEF List, kernel
<1>8. CASE \E p \in Pid : Scan(p)
  BY <1>8, <1>t DEF Scan, kernel
<1>9. CASE Scanned
  <2>1. AfterScan \in {"files", "done", "signal", "list"}
    BY DEF AfterScan
  <2>2. AfterScan = "files" => found = {}
    BY DEF AfterScan
  <2>3. AfterScan # "files" \/ kid \notin Members
    BY <1>9, <2>2 DEF Scanned
  <2> QED BY <1>9, <2>1, <2>3 DEF Scanned, kernel
<1>10. CASE (\E p \in Pid : Pin(p)) \/ CheckMember \/ NextRound
  BY <1>10 DEF Pin, CheckMember, NextRound, kernel
<1>11. CASE Send
  <2>1. pc' = "signal" /\ UNCHANGED kid
    BY <1>11 DEF Send
  <2>2. kid \in Pid => proc'[kid] = proc[kid] \/ (proc[kid] = "member" /\ proc'[kid] = "dying")
    BY <1>11, <1>t DEF Send, Strike
  <2> QED BY <2>1, <2>2
<1>12. CASE ClearFiles \/ Reap
  BY <1>12 DEF ClearFiles, Reap, Finish, kernel
<1> QED
  BY <1>1, <1>2, <1>3, <1>4, <1>5, <1>6, <1>7, <1>8, <1>9, <1>10, <1>11, <1>12,
     NextCases

\* child.wait() at the end of supervise() never waits, whatever forks.
THEOREM LastWaitIsFree == Spec => []ReapNeverBlocks
<1>1. Spec => [](TypeInv /\ KidInv)
  BY TypeInit, TypeStep, KidInit, KidStep, PTL DEF Spec
<1>2. TypeInv /\ KidInv => ReapNeverBlocks
  BY DEF TypeInv, TypeOK, KidInv, ReapNeverBlocks, Members
<1> QED BY <1>1, <1>2, PTL

-----------------------------------------------------------------------------
(* Nobody is left when nothing forks during the cleanup.                   *)

\* Nothing has ended at first.
LEMMA LeftInit == Init => LeftInv
BY DEF Init, LeftInv, NoLateFork

\* A listing holds everybody, and only forks could add to it.
LEMMA LeftStep == TypeInv /\ LeftInv /\ [Next]_vars => LeftInv'
<1> SUFFICES ASSUME TypeInv, LeftInv, [Next]_vars PROVE LeftInv'
  OBVIOUS
<1> USE DEF LeftInv, NoLateFork
<1>t. /\ proc \in [Pid -> Kinds] /\ listed \subseteq Pid
      /\ left \in [forks : Nat, hosts : Nat, signals : Nat, late : BOOLEAN]
  BY DEF TypeInv, TypeOK, Budget
\* A step that adds nobody to the namespace.
<1>q. ASSUME UNCHANGED <<pc, outcome, listed, found>>, left'.late = left.late,
             Members' \subseteq Members
      PROVE  LeftInv'
  BY <1>q
<1>1. CASE pc # "done" /\ \E p \in Pid : MemberForks(p)
  <2>1. pc' = pc /\ outcome' = outcome /\ outcome = "none"
    BY <1>1 DEF MemberForks, super
  <2>2. left'.late = (left.late \/ InCleanup)
    BY <1>1, <1>t DEF MemberForks
  <2> QED BY <2>1, <2>2 DEF InCleanup
<1>2. CASE pc # "done" /\ \E p \in Pid : HostForksOne(p) \/ Dies(p)
  <2>1. Members' \subseteq Members
    BY <1>2, <1>t DEF HostForksOne, Dies, Born, Members, Living
  <2>2. left'.late = left.late
    BY <1>2, <1>t DEF HostForksOne, Dies
  <2> QED BY <1>2, <2>1, <2>2, <1>q DEF HostForksOne, Dies, super
<1>3. CASE (pc # "done" /\ EngineFile) \/ Tick \/ UNCHANGED vars
  BY <1>3, <1>q DEF EngineFile, Tick, vars, kernel, super, Members
<1>4. CASE Popen \/ Start \/ Assign \/ CommandEnds \/ IgnoreSignals
  BY <1>4 DEF Popen, Start, Assign, CommandEnds, IgnoreSignals, Finish
<1>i. CASE Interrupt
  <2>1. left'.late = left.late
    BY <1>i, <1>t DEF Interrupt
  <2> QED BY <1>i, <2>1 DEF Interrupt, Finish
<1>5. CASE List
  BY <1>5, <1>t DEF List, Members, Living, kernel
<1>6. CASE \E p \in Pid : Scan(p)
  BY <1>6, <1>t DEF Scan, Members, kernel
<1>7. CASE Scanned
  <2>1. AfterScan \in {"files", "done", "signal", "list"}
    BY DEF AfterScan
  <2>2. NoLateFork /\ AfterScan = "files" => Members = {}
    BY <1>7 DEF AfterScan, Scanned
  <2>3. Members' = Members /\ left' = left
    BY <1>7 DEF Scanned, kernel, Members
  <2> QED BY <1>7, <2>1, <2>2, <2>3 DEF Scanned
<1>8. CASE (\E p \in Pid : Pin(p)) \/ CheckMember \/ NextRound \/ Send
  BY <1>8 DEF Pin, CheckMember, NextRound, Send
<1>9. CASE ClearFiles \/ Reap
  BY <1>9 DEF ClearFiles, Reap, Finish, kernel, Members
<1> QED
  BY <1>1, <1>2, <1>3, <1>4, <1>i, <1>5, <1>6, <1>7, <1>8, <1>9, NextCases

\* When nothing forks during the cleanup, a supervisor that returns a status
\* leaves nobody in the namespace (cleanup's three rounds).
THEOREM CleanupLeavesNobody == Spec => []NobodyLeft
<1>1. TypeInv /\ LeftInv /\ [Next]_vars => LeftInv'
  BY LeftStep
<1>2. Spec => []LeftInv
  BY TypeInit, TypeStep, LeftInit, <1>1, PTL DEF Spec
<1>3. LeftInv => NobodyLeft
  BY DEF LeftInv, NobodyLeft, NoLateFork
<1> QED BY <1>2, <1>3, PTL

-----------------------------------------------------------------------------
(* Whoever is reported as remaining was sent SIGKILL.                      *)

Signalling == {"signal", "check", "send"}

\* Nobody is left that SIGKILL is not meant for any more.
AllDying == \A p \in Members : proc[p] = "dying"

\* Still to be visited, or pinned under the birth it has.
ToBeKilled(p) ==
  \/ p \in todo
  \/ pc \in {"check", "send"} /\ fd.pid = p /\ fd.birth = birth[p]

\* SIGKILL goes to everybody the last listing found, and without late forks
\* that is everybody there is.
KillInv ==
  /\ round # "term" => pc \in Working \cup {"done"}
  /\ round = "confirm" => pc \notin Signalling
  /\ outcome = "remain" => round = "confirm"
  /\ NoLateFork =>
       /\ pc \in Signalling => Members \subseteq found
       /\ round = "confirm" => AllDying
       /\ round = "wait" /\ pc \in Signalling =>
            \A p \in Pid : proc[p] = "member" => ToBeKilled(p)

\* The first round has not begun at first.
LEMMA KillInit == Init => KillInv
BY DEF Init, KillInv, Signalling

\* Every step keeps it: one SIGKILL for each pid that was found.
LEMMA KillStep == TypeInv /\ LeftInv /\ KillInv /\ [Next]_vars => KillInv'
<1> SUFFICES ASSUME TypeInv, LeftInv, KillInv, [Next]_vars PROVE KillInv'
  OBVIOUS
<1> USE DEF KillInv, Signalling, NoLateFork, AllDying, ToBeKilled, Members, Living
<1>t. /\ proc \in [Pid -> Kinds] /\ birth \in [Pid -> Nat]
      /\ listed \subseteq Pid /\ found \subseteq Pid /\ todo \subseteq Pid
      /\ round \in {"term", "wait", "confirm"}
      /\ pc \in {"check", "send"} => fd.pid \in Pid
      /\ left \in [forks : Nat, hosts : Nat, signals : Nat, late : BOOLEAN]
      /\ outcome # "none" => pc = "done"
  BY DEF TypeInv, TypeOK, Entered, Budget, Rounds, LeftInv
\* A step that adds nobody: who was a member keeps its birth.
<1>q. ASSUME UNCHANGED <<pc, round, outcome, found, todo, fd>>, left'.late = left.late,
             \A p \in Pid : proc'[p] \in Living =>
                proc'[p] = proc[p] /\ birth'[p] = birth[p]
      PROVE  KillInv'
  BY <1>q, <1>t
<1>1. CASE pc # "done" /\ \E p \in Pid : MemberForks(p)
  <2>1. UNCHANGED <<pc, round, outcome>> /\ outcome = "none"
    BY <1>1, <1>t DEF MemberForks, super
  <2>2. left'.late = (left.late \/ InCleanup)
    BY <1>1, <1>t DEF MemberForks
  <2>3. pc \notin Working => round = "term" /\ pc \notin Signalling
    BY <1>1 DEF Working
  <2> QED BY <2>1, <2>2, <2>3 DEF InCleanup, Working
<1>2. CASE pc # "done" /\ \E p \in Pid : HostForksOne(p) \/ Dies(p)
  <2>1. \A p \in Pid : proc'[p] \in Living => proc'[p] = proc[p] /\ birth'[p] = birth[p]
    BY <1>2, <1>t DEF HostForksOne, Dies, Born
  <2>2. left'.late = left.late
    BY <1>2, <1>t DEF HostForksOne, Dies
  <2> QED BY <1>2, <2>1, <2>2, <1>q DEF HostForksOne, Dies, super
<1>3. CASE (pc # "done" /\ EngineFile) \/ Tick \/ UNCHANGED vars
  BY <1>3, <1>q DEF EngineFile, Tick, vars, kernel, super
<1>4. CASE Popen \/ Start \/ Assign \/ CommandEnds \/ IgnoreSignals
  BY <1>4, <1>t DEF Popen, Start, Assign, CommandEnds, IgnoreSignals, Finish, Working
<1>5. CASE Interrupt
  <2>1. left'.late = left.late
    BY <1>5, <1>t DEF Interrupt
  <2> QED BY <1>5, <1>t, <2>1 DEF Interrupt, Finish, Working
<1>6. CASE List \/ (\E p \in Pid : Scan(p))
  BY <1>6, <1>t DEF List, Scan, kernel, Working
<1>7. CASE Scanned
  <2>1. UNCHANGED <<proc, birth, round, found, left>> /\ pc = "scan" /\ pc' = AfterScan
    BY <1>7 DEF Scanned, kernel
  <2>2. AfterScan \in {"files", "done", "signal", "list"}
    BY DEF AfterScan
  <2>3. AfterScan = "signal" => round # "confirm"
    BY <1>t DEF AfterScan
  <2>4. AfterScan = "done" => round = "confirm"
    BY <1>t DEF AfterScan
  <2>5. NoLateFork => Members \subseteq found
    BY <1>7 DEF Scanned, LeftInv
  <2>6. AfterScan = "signal" => todo' = found
    BY <1>7 DEF Scanned
  <2>7. outcome' = "remain" => round = "confirm"
    BY <1>7, <2>4 DEF Scanned
  <2> QED BY <2>1, <2>2, <2>3, <2>5, <2>6, <2>7 DEF Working
<1>8. CASE \E p \in Pid : Pin(p)
  <2> PICK p \in Pid : Pin(p)
    BY <1>8
  <2>1. /\ UNCHANGED <<proc, birth, round, found, left, outcome>>
        /\ pc = "signal" /\ pc' \in {"signal", "check"} /\ todo' = todo \ {p}
    BY DEF Pin, kernel
  <2>2. proc[p] = "member" => pc' = "check" /\ fd'.pid = p /\ fd'.birth = birth[p]
    BY DEF Pin
  <2> QED BY <2>1, <2>2 DEF Working
<1>9. CASE CheckMember
  <2>1. /\ UNCHANGED <<proc, birth, round, found, left, outcome, todo>>
        /\ pc = "check" /\ pc' \in {"signal", "send"}
    BY <1>9 DEF CheckMember, kernel
  <2>2. proc[fd.pid] = "member" => pc' = "send" /\ fd' = fd
    BY <1>9 DEF CheckMember
  <2> QED BY <2>1, <2>2 DEF Working
<1>10. CASE Send
  <2>1. /\ UNCHANGED <<birth, round, found, left, outcome, todo>>
        /\ pc = "send" /\ pc' = "signal" /\ fd.pid \in Pid
    BY <1>10, <1>t DEF Send
  <2>2. \A p \in Pid : p # fd.pid => proc'[p] = proc[p]
    BY <1>10, <1>t DEF Send, Strike
  <2>3. proc'[fd.pid] \in Living => proc[fd.pid] \in Living
    BY <1>10, <1>t, <2>1 DEF Send, Strike
  <2>4. round = "wait" /\ fd.birth = birth[fd.pid] => proc'[fd.pid] # "member"
    BY <1>10, <1>t, <2>1 DEF Send, Strike, Pinned
  <2>5. Members' \subseteq Members
    BY <2>2, <2>3
  <2>6. NoLateFork' /\ round' = "wait" =>
           \A p \in Pid : proc'[p] = "member" => p \in todo'
    <3> SUFFICES ASSUME NoLateFork', round' = "wait", NEW p \in Pid, proc'[p] = "member"
                 PROVE  p \in todo'
      OBVIOUS
    <3>1. NoLateFork /\ round = "wait"
      BY <2>1
    <3>2. CASE p = fd.pid
      BY <3>1, <3>2, <2>1, <2>3, <2>4, <1>10, <1>t DEF Send, Strike, Pinned
    <3>3. CASE p # fd.pid
      BY <3>1, <3>3, <2>1, <2>2
    <3> QED BY <3>2, <3>3
  <2>7. round # "confirm"
    BY <2>1
  <2> QED BY <2>1, <2>5, <2>6, <2>7 DEF Working
<1>11. CASE NextRound
  <2>1. /\ UNCHANGED <<proc, birth, found, left, outcome>>
        /\ pc = "signal" /\ pc' = "list" /\ todo = {}
        /\ round' = IF round = "term" /\ found # {} THEN "wait" ELSE "confirm"
    BY <1>11 DEF NextRound, kernel
  <2>2. NoLateFork /\ round' = "confirm" => AllDying
    <3>1. CASE round = "term"
      BY <2>1, <3>1
    <3>2. CASE round = "wait"
      BY <2>1, <3>2, <1>t
    <3> QED BY <3>1, <3>2, <1>t, <2>1
  <2> QED BY <2>1, <2>2, <1>t DEF Working
<1>12. CASE ClearFiles \/ Reap
  <2>1. outcome' = "remain" => round = "confirm"
    BY <1>12, <1>t DEF ClearFiles, Reap, Finish, TypeInv, Entered, Working
  <2> QED BY <1>12, <2>1 DEF ClearFiles, Reap, Finish, kernel, Working
<1> QED
  BY <1>1, <1>2, <1>3, <1>4, <1>5, <1>6, <1>7, <1>8, <1>9, <1>10, <1>11, <1>12, NextCases

\* Without forks during the cleanup, every process that supervise() reports
\* as remaining was sent SIGKILL (cleanup's second round of signals).
THEOREM RemainingWereKilled == Spec => []RemainSurvivedKill
<1>1. Spec => [](TypeInv /\ LeftInv /\ KillInv)
  BY TypeInit, TypeStep, LeftInit, LeftStep, KillInit, KillStep, PTL DEF Spec
<1>2. KillInv => RemainSurvivedKill
  BY DEF KillInv, AllDying, RemainSurvivedKill
<1> QED BY <1>1, <1>2, PTL
=============================================================================
