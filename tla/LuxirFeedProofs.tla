-------------------------- MODULE LuxirFeedProofs --------------------------
(***************************************************************************)
(* Proofs about LuxirFeed, for any corpus, any number of streams and any   *)
(* block size: ranges partition the corpus, and a feed reported as a       *)
(* success was taken whole and published.                                  *)
(***************************************************************************)
EXTENDS LuxirFeed, WellFoundedInduction, TLAPS

\* The first record boundary that is not before p.
Align(p) == IF p = 0 \/ p \in job.ends THEN p ELSE LineEnd(p)

\* Where a stream that has begun stands in its range.
InRange ==
  \A i \in Stream :
    /\ pc[i] \in {"stream", "drained"} => first[i] = Align(Bound(i))
    /\ pc[i] \in {"stream", "drained"} => remaining[i] = Bound(i + 1) - pos[i]
    /\ pc[i] = "drained" => remaining[i] <= 0
    /\ pc[i] = "start" => first[i] = 0 /\ pos[i] = 0
    /\ pos[i] > first[i] => first[i] = Align(Bound(i)) /\ pos[i] <= Align(Bound(i + 1))
    /\ first[i] <= pos[i]

\* The phases of the main thread and the answers.
Phases ==
  /\ main \in {"commit", "check", "fed"} => \A i \in Stream : pc[i] = "drained"
  /\ published => \A i \in Stream : pc[i] = "drained"
  /\ main \in {"check", "fed"} /\ job.commit => published
  /\ main = "fed" => \A i \in Stream : ~bad[i]
  /\ \A i \in Stream : pc[i] = "drained" /\ ~bad[i] => accepted[i] = pos[i]

IInv == TypeOK /\ RecordAligned /\ InRange /\ Phases

-----------------------------------------------------------------------------
LEMMA JobFacts ==
  ASSUME job \in Jobs
  PROVE  /\ job.size \in Nat /\ job.streams \in Nat \ {0} /\ job.ends \subseteq 1 .. job.size
         /\ job.commit \in BOOLEAN /\ Block \in Nat \ {0} /\ Stream = 0 .. job.streams - 1
<1>1. job.size \in Nat /\ job.streams \in Nat \ {0} /\ job.ends \subseteq 1 .. job.size
  BY JobsAssumption, Zenon
<1>2. job.commit \in BOOLEAN /\ Block \in Nat \ {0} /\ Stream = 0 .. job.streams - 1
  BY JobsAssumption, Zenon DEF Stream
<1> QED
  BY <1>1, <1>2

\* Division by the number of streams.
LEMMA DivFacts ==
  ASSUME NEW n \in Nat \ {0}
  PROVE  /\ \A a \in Nat : a \div n \in Nat
         /\ \A a, b \in Nat : a <= b => a \div n <= b \div n
         /\ \A a \in Nat : (a * n) \div n = a
<1>1. ASSUME NEW a \in Nat PROVE a \div n \in Nat
  BY SMT
<1>2. ASSUME NEW a \in Nat, NEW b \in Nat, a <= b PROVE a \div n <= b \div n
  BY <1>2, SMT
<1>3. ASSUME NEW a \in Nat PROVE (a * n) \div n = a
  BY SMT
<1> QED
  BY <1>1, <1>2, <1>3

\* Products with the size.
LEMMA MulFacts ==
  ASSUME NEW s \in Nat
  PROVE  \A a, b \in Nat : s * a \in Nat /\ (a <= b => s * a <= s * b)
<1>1. ASSUME NEW a \in Nat, NEW b \in Nat PROVE s * a \in Nat /\ (a <= b => s * a <= s * b)
  BY SMT
<1> QED
  BY <1>1

\* The bounds begin at 0, end at the size and do not decrease.
LEMMA BoundFacts ==
  ASSUME job \in Jobs
  PROVE  /\ Bound(0) = 0 /\ Bound(job.streams) = job.size
         /\ \A i \in 0 .. job.streams : Bound(i) \in 0 .. job.size
         /\ \A i, j \in 0 .. job.streams : i <= j => Bound(i) <= Bound(j)
<1> DEFINE s == job.size
           n == job.streams
<1>1. s \in Nat /\ n \in Nat \ {0} /\ \A i \in 0 .. n : i \in Nat
  BY JobFacts
<1>2. \A i : Bound(i) = (s * i) \div n
  BY DEF Bound
<1> HIDE DEF s, n
<1>3. s * 0 = 0 * n /\ s * n \in Nat
  BY <1>1, MulFacts
<1>4. Bound(0) = 0 /\ Bound(n) = s
  BY <1>1, <1>2, <1>3, DivFacts
<1>5. \A i, j \in 0 .. n : i <= j => Bound(i) <= Bound(j)
  <2> SUFFICES ASSUME NEW i \in 0 .. n, NEW j \in 0 .. n, i <= j
               PROVE  Bound(i) <= Bound(j)
    OBVIOUS
  <2>1. s * i \in Nat /\ s * j \in Nat /\ s * i <= s * j
    BY <1>1, MulFacts
  <2> QED
    BY <2>1, <1>1, <1>2, DivFacts
<1>6. \A i \in 0 .. n : Bound(i) \in Nat
  <2> SUFFICES ASSUME NEW i \in 0 .. n
               PROVE  Bound(i) \in Nat
    OBVIOUS
  <2>1. s * i \in Nat
    BY <1>1, MulFacts
  <2> QED
    BY <2>1, <1>1, <1>2, DivFacts
<1>7. \A i \in 0 .. n : Bound(i) \in 0 .. s
  BY <1>1, <1>4, <1>5, <1>6
<1> QED
  BY <1>4, <1>5, <1>7 DEF s, n

\* readline stops at the first record end after p, or at the end of the file.
LEMMA LineEndFacts ==
  ASSUME job \in Jobs, NEW p \in 0 .. job.size
  PROVE  /\ LineEnd(p) \in p .. job.size /\ RecordEnd(LineEnd(p))
         /\ p < job.size => p < LineEnd(p)
         /\ \A e \in job.ends : e > p => LineEnd(p) <= e
<1>1. job.size \in Nat /\ job.ends \subseteq 1 .. job.size
  BY JobFacts
<1>2. CASE \E e \in job.ends : e > p
  <2> DEFINE after == {e \in job.ends : e > p}
  <2>1. after \subseteq Nat /\ after # {}
    BY <1>1, <1>2
  <2> HIDE DEF after
  <2>2. PICK e \in after : \A f \in after : ~(<<f, e>> \in OpToRel(<, Nat))
    BY <2>1, WFMin, NatLessThanWellFounded
  <2>3. \A f \in after : e <= f
    <3> SUFFICES ASSUME NEW f \in after
                 PROVE  e <= f
      OBVIOUS
    <3>1. e \in Nat /\ f \in Nat
      BY <2>1
    <3>2. ~(f < e)
      BY <2>2, <3>1 DEF OpToRel
    <3> QED
      BY <3>1, <3>2
  <2>4. \E g \in job.ends : g > p /\ \A f \in job.ends : f > p => g <= f
    BY <2>3 DEF after
  <2>5. LineEnd(p) = CHOOSE g \in job.ends : g > p /\ \A f \in job.ends : f > p => g <= f
    BY <1>2 DEF LineEnd
  <2>6. LineEnd(p) \in job.ends /\ LineEnd(p) > p /\ \A f \in job.ends : f > p => LineEnd(p) <= f
    BY <2>4, <2>5
  <2> QED
    BY <1>1, <2>6 DEF RecordEnd
<1>3. CASE ~\E e \in job.ends : e > p
  BY <1>1, <1>3 DEF LineEnd, RecordEnd
<1> QED
  BY <1>2, <1>3

\* Align goes forward to a record boundary, the nearest one, and keeps order.
LEMMA AlignFacts ==
  ASSUME job \in Jobs, NEW p \in 0 .. job.size
  PROVE  /\ Align(p) \in p .. job.size /\ RecordEnd(Align(p))
         /\ \A q \in p .. job.size : RecordEnd(q) => Align(p) <= q
         /\ \A q \in p .. job.size : Align(p) <= Align(q)
         /\ Align(0) = 0 /\ Align(job.size) = job.size
<1>1. job.size \in Nat /\ job.ends \subseteq 1 .. job.size
  BY JobFacts
<1>2. \A q \in 0 .. job.size : Align(q) \in q .. job.size /\ RecordEnd(Align(q))
  BY <1>1, LineEndFacts DEF Align, RecordEnd
<1>3. ASSUME NEW q \in p .. job.size, RecordEnd(q)
      PROVE  Align(p) <= q
  BY <1>1, <1>3, LineEndFacts DEF Align, RecordEnd
<1>4. \A q \in p .. job.size : Align(p) <= Align(q)
  <2> SUFFICES ASSUME NEW q \in p .. job.size
               PROVE  Align(p) <= Align(q)
    OBVIOUS
  <2>1. q \in 0 .. job.size /\ Align(q) \in p .. job.size
    BY <1>1, <1>2
  <2> QED
    BY <1>2, <1>3, <2>1
<1>5. Align(0) = 0 /\ Align(job.size) = job.size
  <2>1. Align(job.size) \in job.size .. job.size
    BY <1>1, <1>2
  <2> QED
    BY <1>1, <2>1 DEF Align
<1> QED
  BY <1>1, <1>2, <1>3, <1>4, <1>5

-----------------------------------------------------------------------------
LEMMA InitKeeps ==
  ASSUME Init
  PROVE  IInv
<1>1. job \in Jobs /\ job.size \in Nat /\ 0 \in 0 .. job.size
  BY JobFacts DEF Init
<1>2. TypeOK
  <2>1. /\ pc \in [Stream -> {"start", "stream", "drained", "failed"}]
        /\ bad \in [Stream -> BOOLEAN]
    BY DEF Init
  <2>2. /\ first \in [Stream -> 0 .. job.size] /\ pos \in [Stream -> 0 .. job.size]
        /\ remaining \in [Stream -> Int] /\ accepted \in [Stream -> 0 .. job.size]
    BY <1>1 DEF Init
  <2>3. /\ published \in BOOLEAN
        /\ main \in {"join", "commit", "check", "fed", "raised"}
    BY DEF Init
  <2> QED
    BY <1>1, <2>1, <2>2, <2>3 DEF TypeOK
<1>3. RecordAligned /\ InRange /\ Phases
  BY DEF Init, RecordAligned, RecordEnd, InRange, Phases
<1> QED
  BY <1>2, <1>3 DEF IInv

\* The values the lemmas below speak of, in a state with the invariant.
LEMMA StreamFacts ==
  ASSUME IInv, NEW i \in Stream
  PROVE  /\ job \in Jobs /\ job.size \in Nat /\ Block \in Nat \ {0}
         /\ Bound(i) \in 0 .. job.size /\ Bound(i + 1) \in 0 .. job.size
         /\ Bound(i) <= Bound(i + 1)
         /\ pos[i] \in 0 .. job.size /\ first[i] \in 0 .. job.size
         /\ remaining[i] \in Int /\ i \in Int
<1>1. job \in Jobs /\ i \in 0 .. job.streams /\ i + 1 \in 0 .. job.streams /\ i <= i + 1
  BY JobFacts DEF IInv, TypeOK
<1>2. /\ Bound(i) \in 0 .. job.size /\ Bound(i + 1) \in 0 .. job.size
      /\ Bound(i) <= Bound(i + 1)
  BY <1>1, BoundFacts
<1> QED
  BY <1>1, <1>2, JobFacts DEF IInv, TypeOK

\* A stream begins at the boundary of its range, moved to a record's.
LEMMA OpenKeeps ==
  ASSUME IInv, NEW i \in Stream, Open(i)
  PROVE  IInv'
<1>0. /\ pc[i] = "start" /\ pc' = [pc EXCEPT ![i] = "stream"]
      /\ UNCHANGED <<job, accepted, bad, published, main>>
  BY DEF Open
<1> DEFINE to == Align(Bound(i))
<1>1. Seek(i) = to
  <2>1. Bound(i) = 0 \/ Bound(i) \in job.ends => Seek(i) = to
    BY DEF Seek, Align
  <2>2. ~(Bound(i) = 0 \/ Bound(i) \in job.ends) => Seek(i) = to
    BY DEF Seek, Align
  <2> QED
    BY <2>1, <2>2
<1>2. to \in 0 .. job.size /\ RecordEnd(to)
  BY StreamFacts, AlignFacts
<1>3. /\ first' = [first EXCEPT ![i] = to] /\ pos' = [pos EXCEPT ![i] = to]
      /\ remaining' = [remaining EXCEPT ![i] = Bound(i + 1) - to]
  BY <1>1 DEF Open
<1>4. Stream' = Stream /\ \A k : Bound(k)' = Bound(k) /\ Align(k)' = Align(k) /\ RecordEnd(k)' = RecordEnd(k)
  BY <1>0 DEF Stream, Bound, Align, LineEnd, RecordEnd
<1>5. Bound(i + 1) - to \in Int
  BY <1>2, StreamFacts
<1> HIDE DEF to
<1>6. TypeOK'
  BY <1>0, <1>2, <1>3, <1>4, <1>5 DEF IInv, TypeOK
<1>7. RecordAligned'
  BY <1>2, <1>3, <1>4 DEF IInv, TypeOK, RecordAligned
<1>8. InRange'
  <2>1. ASSUME NEW k \in Stream, k # i
        PROVE  /\ pc'[k] = pc[k] /\ first'[k] = first[k] /\ pos'[k] = pos[k]
               /\ remaining'[k] = remaining[k]
    BY <1>0, <1>3, <2>1 DEF IInv, TypeOK
  <2>2. pc'[i] = "stream" /\ first'[i] = to /\ pos'[i] = to /\ remaining'[i] = Bound(i + 1) - to
    BY <1>0, <1>3 DEF IInv, TypeOK
  <2> QED
    BY <2>1, <2>2, <1>2, <1>4, StreamFacts DEF IInv, InRange, to
<1>9. Phases'
  BY <1>0, <1>3, <1>4 DEF IInv, TypeOK, Phases
<1> QED
  BY <1>6, <1>7, <1>8, <1>9 DEF IInv

\* A block goes on to a record boundary and not beyond the range's.
LEMMA YieldKeeps ==
  ASSUME IInv, NEW i \in Stream, Yield(i)
  PROVE  IInv'
<1>0. /\ pc[i] = "stream" /\ remaining[i] > 0
      /\ UNCHANGED <<job, pc, first, accepted, bad, published, main>>
  BY DEF Yield
<1> DEFINE cut == pos[i] + Minimum(Block, remaining[i])
           to == Align(cut)
<1>1. /\ remaining[i] = Bound(i + 1) - pos[i] /\ first[i] = Align(Bound(i))
      /\ first[i] <= pos[i]
  BY <1>0 DEF IInv, InRange
<1>2. cut \in 1 .. Bound(i + 1) /\ cut > pos[i] /\ cut \in 0 .. job.size
  BY <1>0, <1>1, StreamFacts DEF Minimum
<1>3. /\ to \in 0 .. job.size /\ RecordEnd(to) /\ to > pos[i] /\ to <= Align(Bound(i + 1))
  <2>1. Bound(i + 1) \in cut .. job.size
    BY <1>2, StreamFacts
  <2> HIDE DEF cut
  <2> QED
    BY <2>1, <1>2, StreamFacts, AlignFacts
<1>4. /\ pos' = [pos EXCEPT ![i] = to]
      /\ remaining' = [remaining EXCEPT ![i] = remaining[i] - (to - pos[i])]
  <2>1. to = IF cut \in job.ends THEN cut ELSE LineEnd(cut)
    BY <1>2 DEF Align
  <2> QED
    BY <2>1 DEF Yield
<1>5. Stream' = Stream /\ \A k : Bound(k)' = Bound(k) /\ Align(k)' = Align(k) /\ RecordEnd(k)' = RecordEnd(k)
  BY <1>0 DEF Stream, Bound, Align, LineEnd, RecordEnd
<1> HIDE DEF cut, to
<1>6. remaining[i] - (to - pos[i]) = Bound(i + 1) - to /\ Bound(i + 1) - to \in Int
  BY <1>1, <1>3, StreamFacts
<1>7. TypeOK'
  BY <1>0, <1>3, <1>4, <1>5, <1>6 DEF IInv, TypeOK
<1>8. RecordAligned'
  BY <1>0, <1>3, <1>4, <1>5 DEF IInv, TypeOK, RecordAligned
<1>9. InRange'
  <2>1. ASSUME NEW k \in Stream, k # i
        PROVE  pos'[k] = pos[k] /\ remaining'[k] = remaining[k]
    BY <1>4, <2>1 DEF IInv, TypeOK
  <2>2. pos'[i] = to /\ remaining'[i] = Bound(i + 1) - to
    BY <1>4, <1>6 DEF IInv, TypeOK
  <2>3. first[i] <= to
    BY <1>1, <1>3, StreamFacts
  <2> QED
    BY <2>1, <2>2, <2>3, <1>0, <1>1, <1>3, <1>5 DEF IInv, InRange
<1>10. Phases'
  BY <1>0, <1>4, <1>5 DEF IInv, TypeOK, Phases
<1> QED
  BY <1>7, <1>8, <1>9, <1>10 DEF IInv

\* The end of a stream, with or without an answer.
LEMMA EndKeeps ==
  ASSUME IInv, NEW i \in Stream, Drain(i) \/ Break(i)
  PROVE  IInv'
<1>1. PICK st \in {"drained", "failed"}, p \in first[i] .. pos[i], b \in BOOLEAN :
         /\ pc[i] \in {"start", "stream"}
         /\ st = "drained" => pc[i] = "stream" /\ remaining[i] <= 0
         /\ pc' = [pc EXCEPT ![i] = st]
         /\ accepted' = [accepted EXCEPT ![i] = p] /\ bad' = [bad EXCEPT ![i] = b]
         /\ st = "drained" /\ ~b => p = pos[i]
         /\ UNCHANGED <<job, first, pos, remaining, published, main>>
  <2>1. CASE Drain(i) /\ accepted' = [accepted EXCEPT ![i] = pos[i]] /\ UNCHANGED bad
    <3>1. bad' = [bad EXCEPT ![i] = bad[i]] /\ bad[i] \in BOOLEAN
      BY <2>1 DEF IInv, TypeOK
    <3>2. pos[i] \in first[i] .. pos[i]
      BY StreamFacts DEF IInv, InRange
    <3> QED
      BY <2>1, <3>1, <3>2 DEF Drain
  <2>2. CASE /\ Drain(i) /\ \E p \in first[i] .. pos[i] : accepted' = [accepted EXCEPT ![i] = p]
             /\ bad' = [bad EXCEPT ![i] = TRUE]
    BY <2>2 DEF Drain
  <2>3. CASE Break(i)
    <3>1. bad' = [bad EXCEPT ![i] = bad[i]] /\ bad[i] \in BOOLEAN
      BY <2>3 DEF IInv, TypeOK, Break
    <3> QED
      BY <2>3, <3>1 DEF Break
  <2> QED
    BY <2>1, <2>2, <2>3 DEF Drain
<1>2. Stream' = Stream /\ \A k : Bound(k)' = Bound(k) /\ Align(k)' = Align(k) /\ RecordEnd(k)' = RecordEnd(k)
  BY <1>1 DEF Stream, Bound, Align, LineEnd, RecordEnd
<1>3. p \in 0 .. job.size
  BY StreamFacts
<1>4. TypeOK'
  BY <1>1, <1>2, <1>3 DEF IInv, TypeOK
<1>5. RecordAligned'
  BY <1>1, <1>2 DEF IInv, RecordAligned
<1>6. InRange'
  <2>1. \A k \in Stream : pc'[k] = IF k = i THEN st ELSE pc[k]
    BY <1>1 DEF IInv, TypeOK
  <2> QED
    BY <2>1, <1>1, <1>2 DEF IInv, InRange
<1>7. Phases'
  BY <1>1, <1>2 DEF IInv, TypeOK, Phases
<1> QED
  BY <1>4, <1>5, <1>6, <1>7 DEF IInv

\* The main thread.
LEMMA MainKeeps ==
  ASSUME IInv, Join \/ Commit \/ Check
  PROVE  IInv'
<1>1. UNCHANGED <<job, pc, first, pos, remaining, accepted, bad>>
  BY DEF Join, Commit, Check
<1>2. Stream' = Stream /\ \A k : Bound(k)' = Bound(k) /\ Align(k)' = Align(k) /\ RecordEnd(k)' = RecordEnd(k)
  BY <1>1 DEF Stream, Bound, Align, LineEnd, RecordEnd
<1>3. TypeOK'
  BY <1>1, <1>2 DEF IInv, TypeOK, Join, Commit, Check
<1>4. RecordAligned' /\ InRange'
  BY <1>1, <1>2 DEF IInv, RecordAligned, InRange
<1>5. Phases'
  <2>1. CASE Join
    BY <2>1, <1>1, <1>2 DEF IInv, TypeOK, Phases, Join, Ended
  <2>2. CASE Commit
    BY <2>2, <1>1, <1>2 DEF IInv, TypeOK, Phases, Commit
  <2>3. CASE Check
    BY <2>3, <1>1, <1>2 DEF IInv, TypeOK, Phases, Check
  <2> QED
    BY <2>1, <2>2, <2>3
<1> QED
  BY <1>3, <1>4, <1>5 DEF IInv

\* The invariant holds in every reachable state.
THEOREM Invariance == Spec => []IInv
<1>1. Init => IInv
  BY InitKeeps
<1>2. ASSUME IInv, [Next]_vars
      PROVE  IInv'
  <2>1. CASE UNCHANGED vars
    <3>1. Stream' = Stream /\ \A k : Bound(k)' = Bound(k) /\ Align(k)' = Align(k) /\ RecordEnd(k)' = RecordEnd(k)
      BY <2>1 DEF vars, Stream, Bound, Align, LineEnd, RecordEnd
    <3> QED
      BY <1>2, <2>1, <3>1 DEF vars, IInv, TypeOK, RecordAligned, InRange, Phases
  <2>2. CASE Join \/ Commit \/ Check
    BY <1>2, <2>2, MainKeeps
  <2>3. CASE \E i \in Stream : Worker(i)
    BY <1>2, <2>3, OpenKeeps, YieldKeeps, EndKeeps DEF Worker
  <2> QED
    BY <1>2, <2>1, <2>2, <2>3 DEF Next, Done
<1> QED
  BY <1>1, <1>2, PTL DEF Spec

\* Positions stay in the corpus, and streams and the main thread in their phases.
THEOREM LuxirFeedTypes == Spec => []TypeOK
<1>1. IInv => TypeOK
  BY DEF IInv
<1> QED
  BY <1>1, Invariance, PTL

\* What any stream has sent at any moment is a run of whole records.
THEOREM WholeRecords == Spec => []RecordAligned
<1>1. IInv => RecordAligned
  BY DEF IInv
<1> QED
  BY <1>1, Invariance, PTL

\* A drained stream stands at the aligned end of its range.
LEMMA DrainedAtBound ==
  ASSUME IInv, NEW i \in Stream, pc[i] = "drained"
  PROVE  first[i] = Align(Bound(i)) /\ pos[i] = Align(Bound(i + 1))
<1>1. /\ first[i] = Align(Bound(i)) /\ pos[i] >= Bound(i + 1)
      /\ RecordEnd(pos[i]) /\ first[i] <= pos[i]
  BY StreamFacts DEF IInv, InRange, RecordAligned
<1>2. Bound(i + 1) \in Bound(i) .. job.size /\ pos[i] \in Bound(i + 1) .. job.size
  BY <1>1, StreamFacts
<1>3. Align(Bound(i + 1)) <= pos[i] /\ Align(Bound(i)) <= Align(Bound(i + 1))
  BY <1>1, <1>2, StreamFacts, AlignFacts
<1>4. pos[i] > first[i] => pos[i] <= Align(Bound(i + 1))
  BY DEF IInv, InRange
<1>5. Align(Bound(i + 1)) \in Nat /\ first[i] \in Nat /\ pos[i] \in Nat
  <2>1. Align(Bound(i + 1)) \in Bound(i + 1) .. job.size
    BY StreamFacts, AlignFacts
  <2> QED
    BY <2>1, StreamFacts
<1> QED
  BY <1>1, <1>3, <1>4, <1>5

\* A drained range ends where the next one begins.
LEMMA Meet ==
  ASSUME IInv
  PROVE  RangesMeet
<1> SUFFICES ASSUME NEW i \in Stream, pc[i] = "drained"
             PROVE  /\ i = 0 => first[i] = 0
                    /\ i = job.streams - 1 => pos[i] = job.size
                    /\ i + 1 \in Stream /\ pc[i + 1] \in {"stream", "drained"} => pos[i] = first[i + 1]
  BY DEF RangesMeet
<1>1. first[i] = Align(Bound(i)) /\ pos[i] = Align(Bound(i + 1))
  BY DrainedAtBound
<1>2. job \in Jobs /\ job.size \in Nat /\ job.streams \in Nat
  BY JobFacts DEF IInv, TypeOK
<1>3. 0 \in 0 .. job.size /\ Align(0) = 0 /\ Align(job.size) = job.size
  BY <1>2, AlignFacts
<1>4. i = 0 => first[i] = 0
  BY <1>1, <1>2, <1>3, BoundFacts
<1>5. i = job.streams - 1 => pos[i] = job.size
  <2> SUFFICES ASSUME i = job.streams - 1
               PROVE  pos[i] = job.size
    OBVIOUS
  <2>1. i + 1 = job.streams
    BY <1>2
  <2> QED
    BY <2>1, <1>1, <1>2, <1>3, BoundFacts
<1>6. i + 1 \in Stream /\ pc[i + 1] \in {"stream", "drained"} => first[i + 1] = Align(Bound(i + 1))
  BY DEF IInv, InRange
<1> QED
  BY <1>1, <1>4, <1>5, <1>6

\* A feed reported as a success was taken whole and published.
THEOREM SuccessIsWhole == Spec => []FedIsWhole
<1>1. ASSUME IInv, main = "fed"
      PROVE  /\ first[0] = 0 /\ \A i \in Stream : accepted[i] = pos[i]
             /\ \A i \in Stream : pos[i] = IF i + 1 \in Stream THEN first[i + 1] ELSE job.size
             /\ job.commit => published
  <2>1. /\ \A i \in Stream : pc[i] = "drained" /\ accepted[i] = pos[i]
        /\ job.commit => published
    BY <1>1 DEF IInv, Phases
  <2>2. Stream = 0 .. job.streams - 1 /\ job.streams \in Nat \ {0}
    BY <1>1, JobFacts DEF IInv, TypeOK
  <2>3. 0 \in Stream /\ \A i \in Stream : i + 1 \in Stream \/ i = job.streams - 1
    BY <2>2
  <2>4. RangesMeet
    BY <1>1, Meet
  <2>5. \A i \in Stream : i + 1 \in Stream => pos[i] = first[i + 1]
    BY <2>1, <2>4 DEF RangesMeet
  <2>6. \A i \in Stream : i + 1 \notin Stream => pos[i] = job.size
    BY <2>1, <2>3, <2>4 DEF RangesMeet
  <2> QED
    BY <2>1, <2>3, <2>4, <2>5, <2>6 DEF RangesMeet
<1>2. IInv => FedIsWhole
  BY <1>1 DEF FedIsWhole
<1> QED
  BY <1>2, Invariance, PTL

\* Ranges are apart: what a stream has sent lies between its aligned bounds.
LEMMA Apart ==
  ASSUME IInv
  PROVE  StreamsApart
<1> SUFFICES ASSUME NEW i \in Stream, NEW j \in Stream, i < j,
                    pos[i] > first[i], pos[j] > first[j]
             PROVE  pos[i] <= first[j]
  BY DEF StreamsApart
<1>1. pos[i] <= Align(Bound(i + 1)) /\ first[j] = Align(Bound(j))
  BY DEF IInv, InRange
<1>0. job \in Jobs
  BY DEF IInv, TypeOK
<1>2. job \in Jobs /\ i + 1 \in 0 .. job.streams /\ j \in 0 .. job.streams /\ i + 1 <= j
  BY <1>0, JobFacts
<1>3. Bound(i + 1) \in 0 .. job.size /\ Bound(j) \in 0 .. job.size /\ Bound(i + 1) <= Bound(j)
  BY <1>2, BoundFacts
<1>4. Bound(j) \in Bound(i + 1) .. job.size
  BY <1>3
<1>5. Align(Bound(i + 1)) <= Align(Bound(j))
  BY <1>2, <1>3, <1>4, AlignFacts
<1>6. pos[i] \in Int /\ first[j] \in Int /\ Align(Bound(i + 1)) \in Int
  <2>1. Align(Bound(i + 1)) \in Bound(i + 1) .. job.size
    BY <1>2, <1>3, AlignFacts
  <2>2. pos[i] \in 0 .. job.size /\ first[j] \in 0 .. job.size
    BY StreamFacts
  <2> QED
    BY <2>1, <2>2, <1>3
<1> QED
  BY <1>1, <1>5, <1>6

\* Ranges partition the corpus, for every corpus and number of streams.
THEOREM ExactPartition == Spec => []RangesPartition
<1>1. IInv => RangesPartition
  BY Meet, Apart DEF RangesPartition
<1> QED
  BY <1>1, Invariance, PTL

\* Nothing is published before all streams have drained.
THEOREM OneCommitLast == Spec => []PublishedAfterDrain
<1>1. IInv => PublishedAfterDrain
  BY DEF IInv, Phases, PublishedAfterDrain
<1> QED
  BY <1>1, Invariance, PTL
=============================================================================
