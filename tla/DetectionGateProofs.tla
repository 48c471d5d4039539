------------------------ MODULE DetectionGateProofs ------------------------
(***************************************************************************)
(* Proofs about the late-window gate.  The gate forgets history at its cap *)
(* and when every rule has seen it; in both cases, and when the process    *)
(* starts again, the floor moves to where the history still reaches.  So   *)
(* the comparison of a rule's watermark with the floor is all it takes to  *)
(* know that nothing the rule has not seen is missing, at any cap.         *)
(***************************************************************************)
EXTENDS DetectionGate, SequenceTheorems, FiniteSetTheorems, WellFoundedInduction, TLAPS

Statuses == {"due", "backoff", "completed"}

\* A run under way, and a watermark.
Runs == [phase : Phases \ {"idle"}, start : Int, end : Int, seq : Int]
Marks == [seq : Nat, through : Int]

\* The clock and the log.
BaseInv ==
    /\ now \in Times /\ log \in Seq(SUBSET Times)
    /\ head \in 0..Len(log) /\ floor \in 0..head
    /\ faults \in Nat /\ gap \subseteq Rules /\ onTime \subseteq RowsUpTo(Len(log))

\* A window ends where the delayed clock has been, and a run that tells the
\* gate has a plan of it.
RunOK(r) ==
    run[r] # Idle =>
        /\ run[r] \in Runs
        /\ run[r].start <= run[r].end /\ run[r].end <= now - Delay
        /\ run[r].seq = NoPlan \/ run[r].seq \in 0..head
        /\ run[r].phase \in {"evaluated", "committed"} => run[r].seq # NoPlan

RunInv ==
    /\ run \in [Rules -> {Idle} \cup Runs] /\ lastRun \in [Rules -> Int]
    /\ \A r \in Rules : RunOK(r)
    /\ \A r \in Rules : lastRun[r] = Never \/ lastRun[r] <= now - Delay

MarkInv ==
    /\ mark \in [Rules -> {NoMark} \cup Marks]
    /\ \A r \in Rules : mark[r] # NoMark => mark[r].seq <= head /\ mark[r].through <= now - Delay

JobOK(j) ==
    /\ j = [rule |-> j.rule, id |-> j.id, start |-> j.start, end |-> j.end, status |-> j.status]
    /\ j.rule \in Rules /\ j.status \in Statuses
    /\ j.start < j.end \/ (j.start = j.end /\ j.id[1] = "drain")

JobInv == \A j \in jobs : JobOK(j)

DetectedInv == detected \in [Rules -> SUBSET RowsUpTo(Len(log))]

\* One record for each log entry, of its rows, seen at a later head.
Recorded(e) ==
    /\ e.entry \in 1..head /\ e.seq \in e.entry..head
    /\ e.min = Min(log[e.entry]) /\ e.max = Max(log[e.entry])

HistoryInv ==
    /\ IsFiniteSet(history) /\ Cardinality(history) <= MaxHistory
    /\ \A e \in history : Recorded(e)
    /\ \A e, f \in history : e.entry = f.entry => e = f

\* Past the floor the history is complete.
Reaches == \A i \in (floor + 1)..head : log[i] # {} => \E e \in history : e.entry = i

GateInv == BaseInv /\ RunInv /\ MarkInv /\ JobInv /\ DetectedInv /\ HistoryInv /\ Reaches

-----------------------------------------------------------------------------
(* Facts about numbers, windows and the cap.                               *)

\* The constants are numbers.
LEMMA Consts ==
    /\ MaxTime \in Nat /\ Delay \in Nat /\ DefaultLookback \in Nat /\ Lookback \in Nat
    /\ Overlap \in Nat \ {0} /\ MaxCatchup \in Nat \ {0} /\ MaxHistory \in Nat \ {0}
    /\ Never \in Int /\ NoPlan = -1
  BY DetectionAssumption DEF Never, NoPlan

\* The smaller and the larger of two numbers.
LEMMA Bounds ==
    ASSUME NEW a \in Int, NEW b \in Int
    PROVE  /\ Smaller(a, b) \in {a, b} /\ Smaller(a, b) <= a /\ Smaller(a, b) <= b
           /\ Larger(a, b) \in {a, b} /\ Larger(a, b) >= a /\ Larger(a, b) >= b
  BY DEF Smaller, Larger

\* A non-empty set of numbers has a least one, and a bounded one a largest:
\* the values of Min and Max.
LEMMA MinIsLeast ==
    ASSUME NEW T \in SUBSET Nat, T # {}
    PROVE  Min(T) \in T /\ \A y \in T : Min(T) <= y
  <1> DEFINE R == OpToRel(<, Nat)
  <1>1. R = {ss \in Nat \X Nat : ss[1] < ss[2]}
    BY Zenon DEF OpToRel
  <1>2. IsWellFoundedOn(R, Nat)
    BY Zenon, NatLessThanWellFounded
  <1> HIDE DEF R
  <1>3. PICK x \in T : \A y \in T : ~(<<y, x>> \in R)
    BY <1>2, WFMin
  <1>4. \A y \in Nat : y < x => <<y, x>> \in R
    BY <1>1
  <1>5. \A y \in T : ~(y < x)
    BY <1>3, <1>4
  <1>6. \A y \in T : x <= y
    BY <1>5
  <1> QED BY <1>6 DEF Min

LEMMA MaxIsLargest ==
    ASSUME NEW n \in Nat, NEW S \in SUBSET (0..n), S # {}
    PROVE  Max(S) \in S /\ \A y \in S : Max(S) >= y
  <1> DEFINE T == {x \in Nat : n - x \in S}
  <1>1. T \subseteq Nat /\ T # {}
    <2>1. PICK s \in S : TRUE
      OBVIOUS
    <2>2. n - s \in Nat /\ n - (n - s) = s
      BY <2>1
    <2> QED BY <2>2
  <1>2. Min(T) \in T /\ \A y \in T : Min(T) <= y
    <2> HIDE DEF T
    <2> QED BY <1>1, MinIsLeast
  <1> DEFINE x == Min(T)
  <1>3. x \in Nat /\ n - x \in S
    BY <1>2
  <1> HIDE DEF x
  <1>4. ASSUME NEW t \in S PROVE t <= n - x
    <2>1. n - t \in Nat /\ n - (n - t) = t
      BY <1>4
    <2>2. n - t >= x
      BY <1>2, <2>1 DEF x
    <2> QED BY <1>3, <2>1, <2>2
  <1>5. \A y \in S : n - x >= y
    BY <1>3, <1>4
  <1> QED BY <1>3, <1>5 DEF Max

\* compute_window_start and compute_window_end: a window is not backwards, and
\* ends where the delayed clock has been.
LEMMA WindowFacts ==
    ASSUME GateInv, NEW r \in Rules
    PROVE  /\ WindowStart(r) \in Int /\ WindowEnd(r) \in Int
           /\ WindowStart(r) <= WindowEnd(r) /\ WindowEnd(r) <= now - Delay
  <1>0. /\ now \in Int /\ lastRun[r] \in Int /\ (lastRun[r] = Never \/ lastRun[r] <= now - Delay)
        /\ now - Delay \in Int
    BY Consts DEF GateInv, BaseInv, RunInv, Times
  <1>1. WindowEnd(r) \in Int /\ WindowEnd(r) <= now - Delay
    BY <1>0, Consts DEF WindowEnd, Smaller
  <1>2. CASE Lookback > 0
    <2>1. WindowStart(r) = WindowEnd(r) - Lookback
      <3>1. ~(Lookback = 0)
        BY <1>2, Consts
      <3> QED BY <1>2, <3>1, Zenon DEF WindowStart
    <2> QED BY <1>1, <2>1, Consts
  <1>3. CASE Lookback = 0 /\ lastRun[r] # Never
    <2>0. ~(Lookback > 0)
      BY <1>3
    <2>1. WindowStart(r) = lastRun[r] - Overlap
      BY <1>3, <2>0, Zenon DEF WindowStart
    <2>2. WindowEnd(r) = Smaller(lastRun[r] + MaxCatchup, now - Delay)
      BY <1>3, <2>0 DEF WindowEnd
    <2> QED BY <1>0, <1>1, <1>3, <2>1, <2>2, Consts DEF Smaller
  <1>4. CASE Lookback = 0 /\ lastRun[r] = Never
    <2>0. ~(Lookback > 0)
      BY <1>4
    <2>1. WindowStart(r) = WindowEnd(r) - DefaultLookback
      BY <1>4, <2>0, Zenon DEF WindowStart
    <2> QED BY <1>1, <2>1, Consts
  <1>5. Lookback > 0 \/ Lookback = 0
    BY Consts
  <1> QED BY <1>2, <1>3, <1>4, <1>5

\* Rows that landed stay in the log.
LEMMA RowsKept ==
    ASSUME GateInv, Len(log) <= Len(log'), Len(log') \in Nat, \A i \in 1..Len(log) : log'[i] = log[i]
    PROVE  RowsUpTo(head) \subseteq RowsUpTo(Len(log)) /\ RowsUpTo(Len(log)) \subseteq RowsUpTo(Len(log))'
  <1>1. Len(log) \in Nat /\ head \in 0..Len(log)
    BY LenProperties DEF GateInv, BaseInv
  <1>2. 1..head \subseteq 1..Len(log) /\ 1..Len(log) \subseteq 1..Len(log')
    BY <1>1
  <1>3. RowsUpTo(head) \subseteq RowsUpTo(Len(log))
    BY <1>2 DEF RowsUpTo
  <1>4. RowsUpTo(Len(log)) \subseteq RowsUpTo(Len(log))'
    BY <1>2 DEF RowsUpTo
  <1> QED BY <1>3, <1>4

\* What cap_history keeps is within the cap.
LEMMA CappedFits ==
    ASSUME NEW h, IsFiniteSet(h), \A e \in h : e.entry \in Nat, \A e, f \in h : e.entry = f.entry => e = f
    PROVE  IsFiniteSet(Capped(h)) /\ Cardinality(Capped(h)) <= MaxHistory
  <1> DEFINE C == Capped(h)
  <1>1. C \subseteq h /\ IsFiniteSet(C)
    <2>1. C \subseteq h
      BY DEF Capped
    <2> QED BY <2>1, FS_Subset
  <1>2. CASE C = {}
    BY <1>1, <1>2, FS_EmptySet, Consts
  <1>3. CASE C # {}
    <2> DEFINE N == {e.entry : e \in C}
    <2>1. N \subseteq Nat /\ N # {}
      BY <1>1, <1>3
    <2>2. Min(N) \in N /\ \A y \in N : Min(N) <= y
      <3> HIDE DEF N
      <3> QED BY <2>1, MinIsLeast
    <2>3. PICK e \in C : e.entry = Min(N)
      BY <2>2
    <2>4. \A f \in C : e.entry <= f.entry
      BY <2>2, <2>3
    <2> DEFINE A == {f \in h : f.entry > e.entry}
    <2>5. A \subseteq h /\ IsFiniteSet(A) /\ Cardinality(A) < MaxHistory /\ Cardinality(A) \in Nat
      <3>1. A \subseteq h
        OBVIOUS
      <3>2. IsFiniteSet(A)
        BY <3>1, FS_Subset
      <3>3. Cardinality(A) < MaxHistory
        BY <2>3 DEF Capped
      <3>4. Cardinality(A) \in Nat
        BY <3>2, FS_CardinalityType
      <3> QED BY <3>1, <3>2, <3>3, <3>4
    <2>6. C \ {e} \subseteq A
      <3> SUFFICES ASSUME NEW f \in C, f # e PROVE f.entry > e.entry /\ f \in h
        OBVIOUS
      <3>1. f \in h /\ e \in h /\ f.entry \in Nat /\ e.entry \in Nat
        BY <1>1, <2>3
      <3>2. f.entry # e.entry
        BY <3>1
      <3> QED BY <2>4, <3>1, <3>2
    <2>7. IsFiniteSet(C \ {e}) /\ Cardinality(C \ {e}) <= Cardinality(A)
      <3> HIDE DEF A, C
      <3> QED BY <2>5, <2>6, FS_Subset
    <2>8. Cardinality(C \ {e}) = Cardinality(C) - 1 /\ Cardinality(C) \in Nat
      <3> HIDE DEF C
      <3> QED BY <1>1, <2>3, FS_RemoveElement, FS_CardinalityType
    <2> QED BY <1>1, <2>5, <2>7, <2>8, Consts
  <1> QED BY <1>2, <1>3

\* What is dropped at the cap is at or below the new floor.
LEMMA CapStep ==
    ASSUME NEW n \in Nat, NEW f \in 0..n, NEW h, IsFiniteSet(h),
           \A e \in h : e.entry \in Nat /\ e.seq \in 0..n,
           \A e, g \in h : e.entry = g.entry => e = g
    PROVE  /\ IsFiniteSet(Capped(h)) /\ Cardinality(Capped(h)) <= MaxHistory /\ Capped(h) \subseteq h
           /\ CapFloor(f, h) \in f..n
           /\ \A e \in h : e.seq > CapFloor(f, h) => e \in Capped(h)
  <1>1. IsFiniteSet(Capped(h)) /\ Cardinality(Capped(h)) <= MaxHistory
    BY CappedFits
  <1>2. Capped(h) \subseteq h
    BY DEF Capped
  <1>3. CASE Capped(h) = h
    <2>1. CapFloor(f, h) = f
      BY <1>3 DEF CapFloor
    <2> QED BY <1>1, <1>2, <1>3, <2>1
  <1>4. CASE Capped(h) # h
    <2> DEFINE D == {e.seq : e \in h \ Capped(h)}
    <2>1. D \subseteq 0..n /\ D # {}
      BY <1>2, <1>4
    <2>2. Max(D) \in D /\ \A y \in D : Max(D) >= y
      <3> HIDE DEF D
      <3> QED BY <2>1, MaxIsLargest
    <2>3. CapFloor(f, h) = Larger(f, Max(D))
      BY <1>4 DEF CapFloor
    <2>4. Max(D) \in 0..n
      BY <2>1, <2>2
    <2> DEFINE c == CapFloor(f, h)
    <2>5. c \in f..n /\ c >= Max(D)
      BY <2>3, <2>4, Bounds
    <2>6. ASSUME NEW e \in h, e.seq > c PROVE e \in Capped(h)
      <3>1. e \notin Capped(h) => Max(D) >= e.seq
        BY <2>2
      <3> HIDE DEF D, c
      <3> QED BY <2>4, <2>5, <2>6, <3>1
    <2> QED BY <1>1, <1>2, <2>5, <2>6
  <1> QED BY <1>3, <1>4

\* record_advance and seed: one record for each entry with rows.
LEMMA NewDataFacts ==
    ASSUME NEW from \in Nat, NEW to \in Nat
    PROVE  /\ IsFiniteSet(NewData(from, to))
           /\ \A e \in NewData(from, to) :
                /\ e.entry \in (from + 1)..to /\ e.seq = to
                /\ e.min = Min(log[e.entry]) /\ e.max = Max(log[e.entry])
           /\ \A e, g \in NewData(from, to) : e.entry = g.entry => e = g
           /\ \A i \in (from + 1)..to : log[i] # {} => \E e \in NewData(from, to) : e.entry = i
  <1> DEFINE I == {i \in (from + 1)..to : log[i] # {}}
             F == [i \in I |-> [entry |-> i, seq |-> to, min |-> Min(log[i]), max |-> Max(log[i])]]
  <1>1. NewData(from, to) = {F[i] : i \in I}
    BY DEF NewData
  <1>2. IsFiniteSet(I)
    <2>1. IsFiniteSet((from + 1)..to)
      BY FS_Interval
    <2>2. I \subseteq (from + 1)..to
      OBVIOUS
    <2> QED BY <2>1, <2>2, FS_Subset
  <1>3. IsFiniteSet({F[i] : i \in I})
    <2> DEFINE T == {F[i] : i \in I}
    <2>1. F \in [I -> T] /\ \A t \in T : \E i \in I : F[i] = t
      OBVIOUS
    <2>2. F \in Surjection(I, T)
      BY <2>1 DEF Surjection
    <2> HIDE DEF F, I, T
    <2>3. IsFiniteSet(T)
      BY <1>2, <2>2, FS_Surjection
    <2> QED BY <2>3 DEF T
  <1>4. \A i \in I : F[i].entry = i
    OBVIOUS
  <1>5. \A i \in (from + 1)..to : log[i] # {} => \E e \in NewData(from, to) : e.entry = i
    BY <1>1, <1>4
  <1>6. ASSUME NEW e \in NewData(from, to) PROVE e = F[e.entry] /\ e.entry \in I
    <2>1. PICK i \in I : e = F[i]
      BY <1>1
    <2> QED BY <1>4, <2>1
  <1>7. IsFiniteSet(NewData(from, to))
    BY <1>1, <1>3
  <1>8. \A e, g \in NewData(from, to) : e.entry = g.entry => e = g
    BY <1>6
  <1>9. ASSUME NEW e \in NewData(from, to)
        PROVE  e.entry \in (from + 1)..to /\ e.seq = to /\ e.min = Min(log[e.entry]) /\ e.max = Max(log[e.entry])
    <2>1. PICK i \in I : e = F[i]
      BY <1>1
    <2>2. e = [entry |-> i, seq |-> to, min |-> Min(log[i]), max |-> Max(log[i])] /\ i \in (from + 1)..to
      BY <2>1
    <2> QED BY <2>2
  <1> QED BY <1>5, <1>7, <1>8, <1>9

-----------------------------------------------------------------------------
(* The gate.                                                               *)

\* The log is read on.
LEMMA RefreshGate ==
    ASSUME GateInv, Refresh
    PROVE  head' \in 0..Len(log) /\ floor' \in 0..head' /\ head <= head' /\ HistoryInv' /\ Reaches'
  <1> DEFINE n == Len(log)
             new == NewData(head, n)
             h == history \cup new
  <1>0. n \in Nat /\ head \in 0..n /\ floor \in 0..head /\ head \in Nat
    BY LenProperties DEF GateInv, BaseInv
  <1>1. head' = n /\ history' = Capped(h) /\ floor' = CapFloor(floor, h) /\ log' = log
    BY DEF Refresh
  <1>2. /\ IsFiniteSet(new)
        /\ \A e \in new : /\ e.entry \in (head + 1)..n /\ e.seq = n
                          /\ e.min = Min(log[e.entry]) /\ e.max = Max(log[e.entry])
        /\ \A e, g \in new : e.entry = g.entry => e = g
        /\ \A i \in (head + 1)..n : log[i] # {} => \E e \in new : e.entry = i
    BY <1>0, NewDataFacts
  <1>3. /\ IsFiniteSet(history) /\ (\A e, g \in history : e.entry = g.entry => e = g)
        /\ \A e \in history : /\ e.entry \in 1..head /\ e.seq \in e.entry..head
                              /\ e.min = Min(log[e.entry]) /\ e.max = Max(log[e.entry])
    BY DEF GateInv, HistoryInv, Recorded
  <1> HIDE DEF new
  <1>4. \A e \in h : /\ e.entry \in 1..n /\ e.seq \in e.entry..n /\ e.entry \in Nat /\ e.seq \in 0..n
                     /\ e.min = Min(log[e.entry]) /\ e.max = Max(log[e.entry])
    BY <1>0, <1>2, <1>3
  <1>5. \A e, g \in h : e.entry = g.entry => e = g
    <2>1. ASSUME NEW e \in history, NEW g \in new PROVE e.entry # g.entry
      BY <1>0, <1>2, <1>3
    <2> QED BY <1>2, <1>3, <2>1
  <1>6. IsFiniteSet(h)
    BY <1>2, <1>3, FS_Union
  <1>7. \A i \in (floor + 1)..n : log[i] # {} => \E e \in h : e.entry = i
    <2> SUFFICES ASSUME NEW i \in (floor + 1)..n, log[i] # {} PROVE \E e \in h : e.entry = i
      OBVIOUS
    <2>1. i \in (floor + 1)..head \/ i \in (head + 1)..n
      BY <1>0
    <2> QED BY <1>2, <2>1 DEF GateInv, Reaches
  <1> HIDE DEF h
  <1>8. /\ IsFiniteSet(Capped(h)) /\ Cardinality(Capped(h)) <= MaxHistory /\ Capped(h) \subseteq h
        /\ CapFloor(floor, h) \in floor..n
        /\ \A e \in h : e.seq > CapFloor(floor, h) => e \in Capped(h)
    BY <1>0, <1>4, <1>5, <1>6, CapStep
  <1>9. HistoryInv'
    <2>1. \A e \in history' : Recorded(e)'
      BY <1>1, <1>4, <1>8 DEF Recorded
    <2> QED BY <1>1, <1>5, <1>8, <2>1 DEF HistoryInv
  <1>10. Reaches'
    <2> SUFFICES ASSUME NEW i \in (floor' + 1)..n, log[i] # {} PROVE \E e \in history' : e.entry = i
      BY <1>1 DEF Reaches
    <2>1. i \in (floor + 1)..n /\ i > CapFloor(floor, h) /\ i \in Int
      BY <1>0, <1>1, <1>8
    <2>2. PICK e \in h : e.entry = i
      BY <1>7, <2>1
    <2>3. e.seq >= i /\ e.seq \in Int
      BY <1>4, <2>1, <2>2
    <2>4. e.seq > CapFloor(floor, h)
      BY <1>0, <1>8, <2>1, <2>3
    <2> QED BY <1>1, <1>8, <2>2, <2>4
  <1> QED BY <1>0, <1>1, <1>8, <1>9, <1>10

\* The process starts again.
LEMMA RespawnGate ==
    ASSUME GateInv, Respawn
    PROVE  head' \in 0..Len(log) /\ floor' \in 0..head' /\ head <= head' /\ HistoryInv' /\ Reaches'
  <1> DEFINE n == Len(log)
             h == NewData(0, n)
  <1>0. n \in Nat /\ head \in 0..n
    BY LenProperties DEF GateInv, BaseInv
  <1>1. head' = n /\ history' = Capped(h) /\ floor' = CapFloor(n, h) /\ log' = log
    BY DEF Respawn
  <1>2. /\ IsFiniteSet(h)
        /\ \A e \in h : /\ e.entry \in (0 + 1)..n /\ e.seq = n
                        /\ e.min = Min(log[e.entry]) /\ e.max = Max(log[e.entry])
        /\ \A e, g \in h : e.entry = g.entry => e = g
    BY <1>0, NewDataFacts
  <1> HIDE DEF h
  <1>3. /\ IsFiniteSet(Capped(h)) /\ Cardinality(Capped(h)) <= MaxHistory /\ Capped(h) \subseteq h
        /\ CapFloor(n, h) \in n..n
    <2>1. n \in 0..n /\ \A e \in h : e.entry \in Nat /\ e.seq \in 0..n
      BY <1>0, <1>2
    <2> QED BY <1>0, <1>2, <2>1, CapStep
  <1>4. HistoryInv'
    <2>1. \A e \in history' : Recorded(e)'
      BY <1>0, <1>1, <1>2, <1>3 DEF Recorded
    <2> QED BY <1>1, <1>2, <1>3, <2>1 DEF HistoryInv
  <1>5. floor' = n /\ (floor' + 1)..head' = {}
    BY <1>0, <1>1, <1>3
  <1>6. Reaches'
    BY <1>5 DEF Reaches
  <1> QED BY <1>0, <1>1, <1>4, <1>5, <1>6

\* A run is committed: what is dropped every rule has seen.
LEMMA CommitGate ==
    ASSUME GateInv, NEW r \in Rules, Commit(r)
    PROVE  head' = head /\ floor' \in 0..head' /\ HistoryInv' /\ Reaches' /\ MarkInv'
  <1> DEFINE m == Advanced(mark[r], run[r].seq, run[r].end)
             marks == [mark EXCEPT ![r] = m]
             known == {s \in Rules : marks[s] # NoMark}
             seqs == {marks[s].seq : s \in known}
  <1>0. /\ head \in Nat /\ floor \in 0..head /\ mark \in [Rules -> {NoMark} \cup Marks] /\ now - Delay \in Int
        /\ \A s \in Rules : mark[s] # NoMark => /\ mark[s].seq \in Nat /\ mark[s].through \in Int
                                                /\ mark[s].seq <= head /\ mark[s].through <= now - Delay
    <2>1. head \in Nat /\ floor \in 0..head /\ now - Delay \in Int
      BY Consts, LenProperties DEF GateInv, BaseInv, Times
    <2>2. mark \in [Rules -> {NoMark} \cup Marks]
      BY DEF GateInv, MarkInv
    <2>3. \A s \in Rules : mark[s] # NoMark => mark[s] \in Marks
      BY <2>2
    <2>4. \A x \in Marks : x.seq \in Nat /\ x.through \in Int
      BY DEF Marks
    <2> QED BY <2>1, <2>2, <2>3, <2>4 DEF GateInv, MarkInv
  <1>1. /\ mark' = marks /\ head' = head /\ log' = log /\ now' = now
        /\ history' = {e \in history : Kept(e, marks)}
        /\ floor' = Larger(floor, Smaller(head, Min(seqs)))
    BY DEF Commit, Committed
  <1>2. run[r].seq \in 0..head /\ run[r].end \in Int /\ run[r].end <= now - Delay
    <2>1. run[r].phase = "evaluated"
      BY DEF Commit
    <2>2. run[r] # Idle
      BY <2>1 DEF Idle
    <2>3. RunOK(r)
      BY DEF GateInv, RunInv
    <2>4. run[r] \in Runs
      BY <2>2, <2>3 DEF RunOK
    <2>5. run[r].end \in Int
      BY <2>4 DEF Runs
    <2> QED BY <2>1, <2>2, <2>3, <2>5 DEF RunOK
  <1>3. m \in Marks /\ m # NoMark /\ m.seq <= head /\ m.through <= now - Delay
    <2>1. \A x \in Marks : x # NoMark
      BY DEF Marks, NoMark
    <2>2. CASE mark[r] = NoMark
      <3>1. m = [seq |-> run[r].seq, through |-> run[r].end]
        BY <2>2 DEF Advanced
      <3>2. m \in Marks
        BY <1>0, <1>2, <3>1 DEF Marks
      <3> QED BY <1>0, <1>2, <2>1, <3>1, <3>2
    <2>3. CASE mark[r] # NoMark
      <3>1. m = [seq |-> Larger(mark[r].seq, run[r].seq), through |-> Larger(mark[r].through, run[r].end)]
        BY <2>3 DEF Advanced
      <3>2. /\ Larger(mark[r].seq, run[r].seq) \in Nat /\ Larger(mark[r].seq, run[r].seq) <= head
            /\ Larger(mark[r].through, run[r].end) \in Int /\ Larger(mark[r].through, run[r].end) <= now - Delay
        BY <1>0, <1>2, <2>3 DEF Larger
      <3>3. m \in Marks
        BY <3>1, <3>2 DEF Marks
      <3> QED BY <2>1, <3>1, <3>2, <3>3
    <2> QED BY <2>2, <2>3
  <1> HIDE DEF m
  <1>4. /\ marks \in [Rules -> {NoMark} \cup Marks] /\ marks[r] = m
        /\ \A s \in Rules : marks[s] # NoMark => /\ marks[s].seq \in Nat
                                                 /\ marks[s].seq <= head /\ marks[s].through <= now - Delay
    <2>1. marks \in [Rules -> {NoMark} \cup Marks] /\ marks[r] = m /\ \A s \in Rules : s # r => marks[s] = mark[s]
      BY <1>0, <1>3
    <2>2. m.seq \in Nat
      BY <1>3 DEF Marks
    <2> HIDE DEF marks
    <2> QED BY <1>0, <1>3, <2>1, <2>2
  <1>5. MarkInv'
    BY <1>1, <1>4 DEF MarkInv
  <1> HIDE DEF marks
  <1>6. seqs \subseteq 0..head /\ seqs # {}
    <2>1. r \in known
      BY <1>3, <1>4
    <2>2. seqs # {}
      BY <2>1
    <2>3. ASSUME NEW s \in known PROVE marks[s].seq \in 0..head
      BY <1>0, <1>4, <2>3
    <2> QED BY <2>2, <2>3
  <1>7. Min(seqs) \in seqs
    <2>1. seqs \subseteq Nat
      BY <1>0, <1>6
    <2> HIDE DEF seqs, known
    <2> QED BY <1>6, <2>1, MinIsLeast
  <1>8. Min(seqs) \in 0..head
    BY <1>6, <1>7
  <1>9. floor' \in 0..head /\ floor' >= floor /\ floor' >= Min(seqs)
    <2> HIDE DEF seqs
    <2> QED BY <1>0, <1>1, <1>8 DEF Larger, Smaller
  <1>10. HistoryInv'
    <2>0. history' \subseteq history
      BY <1>1
    <2>1. IsFiniteSet(history') /\ Cardinality(history') <= Cardinality(history)
      BY <2>0, FS_Subset DEF GateInv, HistoryInv
    <2>2. Cardinality(history) \in Nat /\ Cardinality(history') \in Nat /\ Cardinality(history) <= MaxHistory
      BY <2>1, FS_CardinalityType DEF GateInv, HistoryInv
    <2>3. \A e \in history' : Recorded(e)'
      BY <1>1, <2>0 DEF GateInv, HistoryInv, Recorded
    <2>4. Cardinality(history') <= MaxHistory
      BY <2>1, <2>2, Consts
    <2> QED BY <2>0, <2>1, <2>3, <2>4 DEF HistoryInv, GateInv
  <1>11. Reaches'
    <2> SUFFICES ASSUME NEW i \in (floor' + 1)..head, log[i] # {} PROVE \E e \in history' : e.entry = i
      BY <1>1 DEF Reaches
    <2>1. i \in (floor + 1)..head /\ i > Min(seqs) /\ i \in Int
      <3> DEFINE q == Min(seqs)
      <3>1. q \in Int /\ floor \in Int /\ head \in Int /\ floor' \in Int
        BY <1>0, <1>8, <1>9
      <3>2. floor' >= floor /\ floor' >= q
        BY <1>9
      <3> HIDE DEF q
      <3>3. i \in Int /\ i > floor' /\ i <= head
        BY <3>1
      <3>4. i > floor /\ i > q
        BY <3>1, <3>2, <3>3
      <3> QED BY <3>1, <3>3, <3>4 DEF q
    <2>2. PICK e \in history : e.entry = i
      BY <2>1 DEF GateInv, Reaches
    <2>3. e.seq \in Int /\ e.seq >= i
      BY <1>0, <2>1, <2>2 DEF GateInv, HistoryInv, Recorded
    <2>4. e.seq > Min(seqs)
      BY <1>8, <2>1, <2>3
    <2>5. Kept(e, marks)
      BY <2>4 DEF Kept
    <2> QED BY <1>1, <2>2, <2>5
  <1> QED BY <1>1, <1>5, <1>9, <1>10, <1>11

\* The steps that leave what the gate knows alone.
Quiet == UNCHANGED <<log, gate>>

\* Every step is one of the gate's own, of the clock or the log, or quiet.
LEMMA StepCases ==
    ASSUME [Next]_vars
    PROVE  \/ Refresh \/ Respawn \/ Tick
           \/ \E r \in Rules : Commit(r) \/ Reset(r)
           \/ \E rows \in Entries : Land(rows)
           \/ Quiet /\ now' = now /\ onTime' = onTime
  BY DEF Next, Execute, Claim, ClaimWithoutPlan, Evaluate, EnqueueDrain, Release, CommitFails, Fails, Crash,
         Replay, ReplayFails, BackoffOver, Quiet, vars, gate, ghost

\* Time and the log's head only advance.
LEMMA BaseNext ==
    ASSUME GateInv, [Next]_vars
    PROVE  /\ BaseInv' /\ head <= head' /\ now <= now' /\ now' \in Int /\ head' \in Int
           /\ Len(log) <= Len(log') /\ Len(log') \in Nat /\ \A i \in 1..Len(log) : log'[i] = log[i]
  <1>0. /\ BaseInv /\ Len(log) \in Nat /\ head \in Nat /\ now \in Nat /\ MaxTime \in Nat
    BY Consts, LenProperties DEF GateInv, BaseInv, Times
  <1>1. faults' \in Nat
    <2>1. faults' = faults \/ faults' = faults + 1
      BY Zenon DEF Next, Execute, Claim, ClaimWithoutPlan, Evaluate, Commit, EnqueueDrain, Release, CommitFails,
           Fails, Crash, Reset, Replay, ReplayFails, BackoffOver, Land, Refresh, Tick, Respawn, Fault, vars
    <2> QED BY <1>0, <2>1 DEF BaseInv
  <1>2. gap' \subseteq Rules
    BY <1>0 DEF BaseInv, Next, Execute, Claim, ClaimWithoutPlan, Evaluate, Commit, EnqueueDrain, Release, CommitFails,
           Fails, Crash, Reset, Replay, ReplayFails, BackoffOver, Land, Refresh, Tick, Respawn, vars, ghost
  <1>3. ASSUME UNCHANGED <<log, onTime>>, now' \in Times, now <= now', head' \in 0..Len(log), head <= head',
               floor' \in 0..head'
        PROVE  /\ BaseInv' /\ head <= head' /\ now <= now' /\ now' \in Int /\ head' \in Int
               /\ Len(log) <= Len(log') /\ Len(log') \in Nat /\ \A i \in 1..Len(log) : log'[i] = log[i]
    <2>1. RowsUpTo(Len(log))' = RowsUpTo(Len(log))
      BY <1>3 DEF RowsUpTo
    <2>2. now' \in Int /\ head' \in Int
      BY <1>0, <1>3 DEF Times
    <2> QED BY <1>0, <1>1, <1>2, <1>3, <2>1, <2>2 DEF BaseInv
  <1>4. CASE Refresh
    BY <1>0, <1>3, <1>4, RefreshGate DEF Refresh, BaseInv, ghost
  <1>5. CASE Respawn
    BY <1>0, <1>3, <1>5, RespawnGate DEF Respawn, BaseInv, ghost
  <1>6. CASE Tick
    <2>1. now' \in Times /\ now <= now'
      BY <1>0, <1>6 DEF Tick, Times
    <2> QED BY <1>0, <1>3, <1>6, <2>1 DEF Tick, BaseInv, gate, ghost
  <1>7. ASSUME NEW r \in Rules, Commit(r) \/ Reset(r)
        PROVE  /\ UNCHANGED <<log, onTime, now, head>> /\ floor' \in 0..head'
    BY <1>0, <1>7, CommitGate DEF Commit, Reset, BaseInv, ghost
  <1>8. ASSUME NEW rows \in Entries, Land(rows)
        PROVE  /\ BaseInv' /\ head <= head' /\ now <= now' /\ now' \in Int /\ head' \in Int
               /\ Len(log) <= Len(log') /\ Len(log') \in Nat /\ \A i \in 1..Len(log) : log'[i] = log[i]
    <2>1. /\ log' = Append(log, rows) /\ head' = head /\ floor' = floor /\ now' = now
          /\ onTime' = onTime \cup {<<Len(log) + 1, t>> : t \in {t \in rows : now - t <= Delay}}
      BY <1>8 DEF Land, gate
    <2>2. rows \in SUBSET Times /\ log \in Seq(SUBSET Times)
      BY <1>0 DEF Entries, BaseInv
    <2>3. /\ log' \in Seq(SUBSET Times) /\ Len(log') = Len(log) + 1 /\ log'[Len(log) + 1] = rows
          /\ \A i \in 1..Len(log) : log'[i] = log[i]
      BY <2>1, <2>2, AppendProperties
    <2>4. Len(log) <= Len(log') /\ Len(log') \in Nat /\ Len(log) + 1 \in 1..Len(log')
      BY <1>0, <2>3
    <2>5. RowsUpTo(Len(log)) \subseteq RowsUpTo(Len(log))'
      BY <2>3, <2>4, RowsKept
    <2>6. {Len(log) + 1} \X rows \subseteq RowsUpTo(Len(log))'
      BY <2>3, <2>4 DEF RowsUpTo
    <2>7. onTime' \subseteq RowsUpTo(Len(log))'
      BY <1>0, <2>1, <2>5, <2>6 DEF BaseInv
    <2>8. head' \in 0..Len(log')
      BY <1>0, <2>1, <2>3 DEF BaseInv
    <2> QED BY <1>0, <1>1, <1>2, <2>1, <2>3, <2>4, <2>7, <2>8 DEF BaseInv
  <1>9. CASE Quiet /\ now' = now /\ onTime' = onTime
    BY <1>0, <1>3, <1>9 DEF Quiet, gate, BaseInv
  <1>10. ASSUME NEW r \in Rules, Commit(r) \/ Reset(r)
         PROVE  /\ BaseInv' /\ head <= head' /\ now <= now' /\ now' \in Int /\ head' \in Int
                /\ Len(log) <= Len(log') /\ Len(log') \in Nat /\ \A i \in 1..Len(log) : log'[i] = log[i]
    BY <1>0, <1>3, <1>7, <1>10 DEF BaseInv
  <1> QED BY <1>4, <1>5, <1>6, <1>8, <1>9, <1>10, StepCases

\* The history and the watermarks.
LEMMA GateNext ==
    ASSUME GateInv, [Next]_vars
    PROVE  MarkInv' /\ HistoryInv' /\ Reaches'
  <1>0. /\ MarkInv /\ HistoryInv /\ Reaches /\ head \in Int /\ now \in Int /\ Delay \in Int /\ head <= Len(log)
        /\ Len(log) \in Nat
    BY Consts, LenProperties DEF GateInv, BaseInv, Times
  <1>1. BaseInv' /\ head <= head' /\ now <= now' /\ now' \in Int /\ head' \in Int
        /\ \A i \in 1..Len(log) : log'[i] = log[i]
    BY BaseNext
  <1>2. ASSUME mark' = mark PROVE MarkInv'
    <2>1. ASSUME NEW r \in Rules, mark[r] # NoMark PROVE mark[r].seq <= head' /\ mark[r].through <= now' - Delay
      <3>1. mark[r] \in Marks /\ mark[r].seq <= head /\ mark[r].through <= now - Delay
        BY <1>0, <2>1 DEF MarkInv
      <3>2. mark[r].seq \in Int /\ mark[r].through \in Int
        BY <3>1 DEF Marks
      <3> QED BY <1>0, <1>1, <3>1, <3>2
    <2> QED BY <1>0, <1>2, <2>1 DEF MarkInv
  <1>3. ASSUME UNCHANGED <<head, history, floor>> PROVE HistoryInv' /\ Reaches'
    <2>1. \A i \in 1..head : log'[i] = log[i]
      BY <1>0, <1>1
    <2>2. \A e \in history : Recorded(e)'
      BY <1>0, <1>3, <2>1 DEF HistoryInv, Recorded
    <2>3. \A i \in (floor + 1)..head : i \in 1..head
      BY <1>0 DEF GateInv, BaseInv
    <2> QED BY <1>0, <1>3, <2>1, <2>2, <2>3 DEF HistoryInv, Reaches
  <1>4. CASE Refresh
    BY <1>2, <1>4, RefreshGate DEF Refresh
  <1>5. CASE Respawn
    BY <1>2, <1>5, RespawnGate DEF Respawn
  <1>6. CASE Tick
    BY <1>2, <1>3, <1>6 DEF Tick, gate
  <1>7. ASSUME NEW r \in Rules, Commit(r) PROVE MarkInv' /\ HistoryInv' /\ Reaches'
    BY <1>7, CommitGate
  <1>8. ASSUME NEW r \in Rules, Reset(r) PROVE MarkInv' /\ HistoryInv' /\ Reaches'
    <2>1. mark' = [mark EXCEPT ![r] = NoMark] /\ UNCHANGED <<head, history, floor, now>>
      BY <1>8 DEF Reset
    <2>2. MarkInv'
      BY <1>0, <2>1 DEF MarkInv
    <2> QED BY <1>3, <2>1, <2>2
  <1>9. ASSUME NEW rows \in Entries, Land(rows) PROVE MarkInv' /\ HistoryInv' /\ Reaches'
    BY <1>2, <1>3, <1>9 DEF Land, gate
  <1>10. CASE Quiet
    BY <1>2, <1>3, <1>10 DEF Quiet, gate
  <1> QED BY <1>4, <1>5, <1>6, <1>7, <1>8, <1>9, <1>10, StepCases

-----------------------------------------------------------------------------
(* The runs, the repairs and the rows.                                     *)

\* A run, once it is under way.
WindowOK(x) ==
    x # Idle =>
        /\ x \in Runs
        /\ x.start <= x.end /\ x.end <= now - Delay
        /\ x.seq = NoPlan \/ x.seq \in 0..head
        /\ x.phase \in {"evaluated", "committed"} => x.seq # NoPlan

\* A step of rule r's run.
LEMMA RunStep ==
    ASSUME GateInv, [Next]_vars,
           run' = run \/ \E r \in Rules : \E x \in {Idle} \cup Runs : WindowOK(x) /\ run' = [run EXCEPT ![r] = x]
    PROVE  run' \in [Rules -> {Idle} \cup Runs] /\ \A r \in Rules : RunOK(r)'
  <1>0. /\ run \in [Rules -> {Idle} \cup Runs] /\ (\A r \in Rules : WindowOK(run[r]))
        /\ head \in Nat /\ now \in Int /\ Delay \in Int
    <2>1. run \in [Rules -> {Idle} \cup Runs] /\ (\A r \in Rules : RunOK(r))
      BY DEF GateInv, RunInv
    <2> QED BY <2>1, Consts, LenProperties DEF GateInv, BaseInv, Times, RunOK, WindowOK
  <1>1. head <= head' /\ now <= now' /\ now' \in Int /\ head' \in Int
    BY BaseNext
  <1>2. ASSUME NEW x, WindowOK(x)
        PROVE  x # Idle => /\ x \in Runs
                           /\ x.start <= x.end /\ x.end <= now' - Delay
                           /\ x.seq = NoPlan \/ x.seq \in 0..head'
                           /\ x.phase \in {"evaluated", "committed"} => x.seq # NoPlan
    <2> SUFFICES ASSUME x # Idle
                 PROVE  /\ x \in Runs
                        /\ x.start <= x.end /\ x.end <= now' - Delay
                        /\ x.seq = NoPlan \/ x.seq \in 0..head'
                        /\ x.phase \in {"evaluated", "committed"} => x.seq # NoPlan
      OBVIOUS
    <2>1. x \in Runs /\ x.end <= now - Delay /\ (x.seq = NoPlan \/ x.seq \in 0..head)
      BY <1>2 DEF WindowOK
    <2>2. x.end \in Int
      BY <2>1 DEF Runs
    <2>3. x.end <= now' - Delay
      BY <1>0, <1>1, <2>1, <2>2
    <2>4. x.seq = NoPlan \/ x.seq \in 0..head'
      BY <1>0, <1>1, <2>1
    <2> QED BY <1>2, <2>3, <2>4 DEF WindowOK
  <1>3. run' \in [Rules -> {Idle} \cup Runs] /\ \A s \in Rules : WindowOK(run'[s])
    <2>1. CASE run' = run
      BY <1>0, <2>1
    <2>2. ASSUME NEW r \in Rules, NEW x \in {Idle} \cup Runs, WindowOK(x), run' = [run EXCEPT ![r] = x]
          PROVE  run' \in [Rules -> {Idle} \cup Runs] /\ \A s \in Rules : WindowOK(run'[s])
      <3>1. run' \in [Rules -> {Idle} \cup Runs]
        BY <1>0, <2>2
      <3>2. \A s \in Rules : run'[s] = x \/ run'[s] = run[s]
        BY <1>0, <2>2
      <3> QED BY <1>0, <2>2, <3>1, <3>2
    <2> QED BY <2>1, <2>2
  <1> QED BY <1>2, <1>3 DEF RunOK

\* The parts of a run.
LEMMA RunFields ==
    ASSUME GateInv, NEW r \in Rules, run[r].phase # "idle"
    PROVE  /\ run[r] # Idle /\ run[r] \in Runs /\ WindowOK(run[r])
           /\ run[r].start \in Int /\ run[r].end \in Int /\ run[r].seq \in Int
           /\ run[r].start <= run[r].end /\ run[r].end <= now - Delay
  <1>1. run[r] # Idle
    BY DEF Idle
  <1>2. RunOK(r)
    BY DEF GateInv, RunInv
  <1>3. run[r] \in Runs
    BY <1>1, <1>2 DEF RunOK
  <1> QED BY <1>1, <1>2, <1>3 DEF RunOK, WindowOK, Runs

\* The next phase of a run.
LEMMA PhaseStep ==
    ASSUME GateInv, NEW r \in Rules, run[r].phase # "idle",
           NEW p \in Phases \ {"idle"}, p \in {"evaluated", "committed"} => run[r].seq # NoPlan,
           run' = [run EXCEPT ![r].phase = p]
    PROVE  \E x \in {Idle} \cup Runs : WindowOK(x) /\ run' = [run EXCEPT ![r] = x]
  <1> DEFINE x == [run[r] EXCEPT !.phase = p]
  <1>1. run[r] \in Runs /\ WindowOK(run[r]) /\ run[r] # Idle
    BY RunFields
  <1>2. x \in Runs /\ x.phase = p /\ x.start = run[r].start /\ x.end = run[r].end /\ x.seq = run[r].seq
    BY <1>1 DEF Runs
  <1>3. run' = [run EXCEPT ![r] = x]
    OBVIOUS
  <1> HIDE DEF x
  <1>4. WindowOK(x)
    BY <1>1, <1>2 DEF WindowOK
  <1> QED BY <1>2, <1>3, <1>4

\* Every run keeps to its window.
LEMMA RunsNext ==
    ASSUME GateInv, [Next]_vars
    PROVE  run' \in [Rules -> {Idle} \cup Runs] /\ \A r \in Rules : RunOK(r)'
  <1> SUFFICES run' = run \/ \E r \in Rules : \E x \in {Idle} \cup Runs : WindowOK(x) /\ run' = [run EXCEPT ![r] = x]
    BY RunStep
  <1>1. ASSUME NEW r \in Rules, NEW q, q = NoPlan \/ q \in 0..head, run' = Running(r, q)
        PROVE  \E x \in {Idle} \cup Runs : WindowOK(x) /\ run' = [run EXCEPT ![r] = x]
    <2> DEFINE x == [phase |-> "running", start |-> WindowStart(r), end |-> WindowEnd(r), seq |-> q]
    <2>1. q \in Int
      BY <1>1, Consts
    <2>2. x \in Runs
      BY <2>1, WindowFacts DEF Runs, Phases
    <2>3. WindowOK(x)
      BY <1>1, <2>2, WindowFacts DEF WindowOK
    <2>4. run' = [run EXCEPT ![r] = x]
      BY <1>1 DEF Running
    <2> QED BY <2>2, <2>3, <2>4
  <1>2. ASSUME NEW r \in Rules, run' = [run EXCEPT ![r] = Idle]
        PROVE  \E x \in {Idle} \cup Runs : WindowOK(x) /\ run' = [run EXCEPT ![r] = x]
    BY <1>2 DEF WindowOK
  <1>3. head \in 0..head
    BY LenProperties DEF GateInv, BaseInv
  <1>4. ASSUME NEW r \in Rules, Claim(r)
        PROVE  run' = run \/ \E x \in {Idle} \cup Runs : WindowOK(x) /\ run' = [run EXCEPT ![r] = x]
    BY <1>1, <1>3, <1>4 DEF Claim
  <1>5. ASSUME NEW r \in Rules, ClaimWithoutPlan(r)
        PROVE  \E x \in {Idle} \cup Runs : WindowOK(x) /\ run' = [run EXCEPT ![r] = x]
    BY <1>1, <1>5 DEF ClaimWithoutPlan
  <1>6. ASSUME NEW r \in Rules, Evaluate(r)
        PROVE  \E x \in {Idle} \cup Runs : WindowOK(x) /\ run' = [run EXCEPT ![r] = x]
    <2> DEFINE p == IF Drains(r, run[r].start, run[r].end) THEN "drain"
                    ELSE IF run[r].seq = NoPlan THEN "done" ELSE "evaluated"
    <2>1. run[r].phase = "running" /\ run' = [run EXCEPT ![r].phase = p]
      BY <1>6 DEF Evaluate
    <2>2. p \in {"drain", "done", "evaluated"} /\ (p = "evaluated" => run[r].seq # NoPlan)
      OBVIOUS
    <2> HIDE DEF p
    <2>3. p \in Phases \ {"idle"} /\ (p \in {"evaluated", "committed"} => run[r].seq # NoPlan)
      BY <2>2 DEF Phases
    <2> QED BY <2>1, <2>3, PhaseStep
  <1>7. ASSUME NEW r \in Rules, Commit(r) \/ CommitFails(r) \/ EnqueueDrain(r)
        PROVE  \E x \in {Idle} \cup Runs : WindowOK(x) /\ run' = [run EXCEPT ![r] = x]
    <2>1. CASE Commit(r)
      <3>1. run[r].phase = "evaluated" /\ run' = [run EXCEPT ![r].phase = "committed"]
        BY <2>1 DEF Commit
      <3>2. run[r].seq # NoPlan
        BY <3>1, RunFields DEF WindowOK
      <3> QED BY <3>1, <3>2, PhaseStep DEF Phases
    <2>2. CASE CommitFails(r) \/ EnqueueDrain(r)
      <3>1. run[r].phase # "idle" /\ run' = [run EXCEPT ![r].phase = "done"]
        BY <2>2 DEF CommitFails, EnqueueDrain
      <3> QED BY <3>1, PhaseStep DEF Phases
    <2> QED BY <1>7, <2>1, <2>2
  <1>8. ASSUME NEW r \in Rules, Release(r) \/ Fails(r) \/ Crash(r)
        PROVE  run' = [run EXCEPT ![r] = Idle]
    BY <1>8 DEF Release, Fails, Crash
  <1>9. ASSUME \/ \E r \in Rules : Reset(r)
               \/ \E j \in jobs : Replay(j) \/ ReplayFails(j) \/ BackoffOver(j)
               \/ \E rows \in Entries : Land(rows)
               \/ Refresh \/ Tick \/ Respawn \/ UNCHANGED vars
        PROVE  run' = run
    BY <1>9 DEF Reset, Replay, ReplayFails, BackoffOver, Land, Refresh, Tick, Respawn, vars
  <1> QED BY <1>2, <1>4, <1>5, <1>6, <1>7, <1>8, <1>9 DEF Next, Execute

\* last_run_at is where the delayed clock has been.
LEMMA LastRunNext ==
    ASSUME GateInv, [Next]_vars
    PROVE  lastRun' \in [Rules -> Int] /\ \A r \in Rules : lastRun'[r] = Never \/ lastRun'[r] <= now' - Delay
  <1>0. /\ lastRun \in [Rules -> Int] /\ now \in Int /\ Delay \in Int
        /\ \A r \in Rules : lastRun[r] = Never \/ lastRun[r] <= now - Delay
    BY Consts DEF GateInv, BaseInv, RunInv, Times
  <1>1. now <= now' /\ now' \in Int
    BY BaseNext
  <1>2. ASSUME NEW r \in Rules, NEW y \in Int, y <= now - Delay, lastRun' = [lastRun EXCEPT ![r] = y]
        PROVE  lastRun' \in [Rules -> Int] /\ \A s \in Rules : lastRun'[s] = Never \/ lastRun'[s] <= now' - Delay
    <2>1. lastRun' \in [Rules -> Int] /\ \A s \in Rules : lastRun'[s] = y \/ lastRun'[s] = lastRun[s]
      BY <1>0, <1>2
    <2>2. y <= now' - Delay
      <3>1. now \in Int /\ now' \in Int /\ Delay \in Int /\ now <= now'
        BY <1>0, <1>1
      <3>2. \A a, b, d, z \in Int : a <= b /\ z <= a - d => z <= b - d
        OBVIOUS
      <3> QED BY <1>2, <3>1, <3>2
    <2>3. \A s \in Rules : lastRun[s] = Never \/ lastRun[s] <= now' - Delay
      BY <1>0, <1>1
    <2> QED BY <2>1, <2>2, <2>3
  <1>3. ASSUME lastRun' = lastRun
        PROVE  lastRun' \in [Rules -> Int] /\ \A s \in Rules : lastRun'[s] = Never \/ lastRun'[s] <= now' - Delay
    BY <1>0, <1>1, <1>3
  <1>4. ASSUME NEW r \in Rules, NEW y \in Int, y <= now - Delay, lastRun' = FailedLastRun(r, y)
        PROVE  lastRun' \in [Rules -> Int] /\ \A s \in Rules : lastRun'[s] = Never \/ lastRun'[s] <= now' - Delay
    <2>1. CASE lastRun[r] = Never
      BY <1>2, <1>4, <2>1 DEF FailedLastRun
    <2>2. CASE lastRun[r] # Never
      <3>1. lastRun' = [lastRun EXCEPT ![r] = lastRun[r]]
        BY <1>4, <2>2 DEF FailedLastRun
      <3>2. lastRun' = lastRun
        BY <1>0, <3>1
      <3> QED BY <1>3, <3>2
    <2> QED BY <2>1, <2>2
  <1>5. ASSUME NEW r \in Rules, Claim(r)
        PROVE  lastRun' = lastRun \/ \E y \in Int : y <= now - Delay /\ lastRun' = FailedLastRun(r, y)
    <2>1. WindowStart(r) \in Int /\ WindowStart(r) <= now - Delay
      BY <1>0, WindowFacts
    <2> QED BY <1>5, <2>1 DEF Claim
  <1>6. ASSUME NEW r \in Rules, Release(r)
        PROVE  \E y \in Int : y <= now - Delay /\ lastRun' = [lastRun EXCEPT ![r] = y]
    <2>1. run[r].phase # "idle" /\ lastRun' = [lastRun EXCEPT ![r] = run[r].end]
      BY <1>6 DEF Release
    <2> QED BY <2>1, RunFields
  <1>7. ASSUME NEW r \in Rules, Fails(r)
        PROVE  \E y \in Int : y <= now - Delay /\ lastRun' = FailedLastRun(r, y)
    <2>1. run[r].phase # "idle" /\ lastRun' = FailedLastRun(r, run[r].start)
      BY <1>7 DEF Fails
    <2>2. run[r].start \in Int /\ run[r].start <= now - Delay
      BY <1>0, <2>1, RunFields
    <2> QED BY <2>1, <2>2
  <1>8. ASSUME \/ \E r \in Rules : \/ ClaimWithoutPlan(r) \/ Evaluate(r) \/ Commit(r) \/ EnqueueDrain(r)
                                   \/ CommitFails(r) \/ Crash(r) \/ Reset(r)
               \/ \E j \in jobs : Replay(j) \/ ReplayFails(j) \/ BackoffOver(j)
               \/ \E rows \in Entries : Land(rows)
               \/ Refresh \/ Tick \/ Respawn \/ UNCHANGED vars
        PROVE  lastRun' = lastRun
    BY <1>8 DEF ClaimWithoutPlan, Evaluate, Commit, EnqueueDrain, CommitFails, Crash, Reset, Replay, ReplayFails,
                BackoffOver, Land, Refresh, Tick, Respawn, vars
  <1>9. CASE \E r \in Rules : Claim(r) \/ Release(r) \/ Fails(r)
    BY <1>2, <1>3, <1>4, <1>5, <1>6, <1>7, <1>9
  <1> QED BY <1>3, <1>8, <1>9 DEF Next, Execute

\* A repair job is never empty, unless it is the rest of a window at one
\* instant.
LEMMA JobsNext ==
    ASSUME GateInv, [Next]_vars
    PROVE  JobInv'
  <1>0. \A j \in jobs : JobOK(j)
    BY DEF GateInv, JobInv
  <1> SUFFICES ASSUME NEW j \in jobs' PROVE j \in jobs \/ JobOK(j)
    BY <1>0 DEF JobInv, JobOK
  <1>1. ASSUME NEW new, Insert(new) PROVE j \in jobs \/ j \in new
    BY <1>1 DEF Insert
  <1>2. ASSUME NEW r \in Rules, NEW id, NEW w, w.start < w.end \/ (w.start = w.end /\ id[1] = "drain"),
               j = Job(r, id, w)
        PROVE  JobOK(j)
    BY <1>2 DEF Job, JobOK, Statuses
  <1>3. ASSUME NEW k \in jobs, NEW s \in Statuses, SetStatus(k, s) PROVE j \in jobs \/ JobOK(j)
    <2> DEFINE x == [k EXCEPT !.status = s]
    <2>1. j \in jobs \/ j = x
      BY <1>3 DEF SetStatus
    <2>2. JobOK(k)
      BY <1>0
    <2>3. k = [rule |-> k.rule, id |-> k.id, start |-> k.start, end |-> k.end, status |-> k.status]
      BY <2>2 DEF JobOK
    <2>4. x = [rule |-> k.rule, id |-> k.id, start |-> k.start, end |-> k.end, status |-> s]
      BY <2>3
    <2> HIDE DEF x
    <2>5. x.rule = k.rule /\ x.id = k.id /\ x.start = k.start /\ x.end = k.end /\ x.status = s
      BY <2>4
    <2>6. JobOK(x)
      BY <1>3, <2>2, <2>4, <2>5 DEF JobOK
    <2> QED BY <2>1, <2>6
  <1>4. ASSUME NEW r \in Rules, Claim(r) PROVE j \in jobs \/ JobOK(j)
    <2> DEFINE ws == WindowStart(r)
               windows == PlannedWindows(r, ws, WindowEnd(r))
    <2>1. CASE jobs' = jobs
      BY <2>1
    <2>2. CASE Insert({Job(r, <<"late", head, w.start, w.end>>, w) : w \in Clamped(windows, ws)})
      <3>1. SUFFICES ASSUME NEW w \in Clamped(windows, ws), j = Job(r, <<"late", head, w.start, w.end>>, w)
                     PROVE  JobOK(j)
        BY <1>1, <2>2
      <3>2. w.start < w.end
        BY <3>1 DEF Clamped
      <3> QED BY <1>2, <3>1, <3>2
    <2> QED BY <1>4, <2>1, <2>2 DEF Claim
  <1>5. ASSUME NEW r \in Rules, EnqueueDrain(r) PROVE j \in jobs \/ JobOK(j)
    <2>1. Insert({Job(r, DrainId(r), run[r])}) /\ run[r].phase # "idle"
      BY <1>5 DEF EnqueueDrain
    <2>2. run[r].start <= run[r].end /\ run[r].start \in Int /\ run[r].end \in Int
      BY <2>1, RunFields
    <2>3. DrainId(r)[1] = "drain"
      BY DEF DrainId
    <2>4. run[r].start < run[r].end \/ (run[r].start = run[r].end /\ DrainId(r)[1] = "drain")
      BY <2>2, <2>3
    <2> QED BY <1>1, <1>2, <2>1, <2>4
  <1>6. ASSUME NEW k \in jobs, Replay(k) \/ ReplayFails(k) \/ BackoffOver(k)
        PROVE  \E s \in Statuses : SetStatus(k, s)
    BY <1>6 DEF Replay, ReplayFails, BackoffOver, Statuses
  <1>7. ASSUME \/ \E r \in Rules : \/ ClaimWithoutPlan(r) \/ Evaluate(r) \/ Commit(r) \/ Release(r)
                                   \/ CommitFails(r) \/ Fails(r) \/ Crash(r) \/ Reset(r)
               \/ \E rows \in Entries : Land(rows)
               \/ Refresh \/ Tick \/ Respawn \/ UNCHANGED vars
        PROVE  jobs' = jobs
    BY <1>7 DEF ClaimWithoutPlan, Evaluate, Commit, Release, CommitFails, Fails, Crash, Reset, Land, Refresh, Tick,
                Respawn, vars
  <1> QED BY <1>3, <1>4, <1>5, <1>6, <1>7 DEF Next, Execute

\* A rule is evaluated on rows of the log only.
LEMMA DetectedNext ==
    ASSUME GateInv, [Next]_vars
    PROVE  DetectedInv'
  <1>0. detected \in [Rules -> SUBSET RowsUpTo(Len(log))] /\ JobInv
    BY DEF GateInv, DetectedInv
  <1>1. RowsUpTo(head) \subseteq RowsUpTo(Len(log)) /\ RowsUpTo(Len(log)) \subseteq RowsUpTo(Len(log))'
    BY BaseNext, RowsKept
  <1>2. ASSUME NEW r \in Rules, NEW start, NEW end, Consume(r, start, end)
        PROVE  detected' \in [Rules -> SUBSET RowsUpTo(Len(log))]
    <2>1. PICK b \in kSubset(Smaller(Batch, Cardinality(Matches(r, start, end))), Matches(r, start, end)) :
                 detected' = [detected EXCEPT ![r] = @ \cup b]
      BY <1>2 DEF Consume
    <2>2. b \subseteq RowsUpTo(head)
      BY DEF kSubset, Matches
    <2>3. detected[r] \cup b \in SUBSET RowsUpTo(Len(log))
      BY <1>0, <1>1, <2>2
    <2> QED BY <1>0, <2>1, <2>3
  <1>3. detected' \in [Rules -> SUBSET RowsUpTo(Len(log))]
    <2>1. ASSUME NEW r \in Rules, Evaluate(r) PROVE detected' \in [Rules -> SUBSET RowsUpTo(Len(log))]
      BY <1>2, <2>1 DEF Evaluate
    <2>2. ASSUME NEW j \in jobs, Replay(j) PROVE detected' \in [Rules -> SUBSET RowsUpTo(Len(log))]
      <3>1. j.rule \in Rules /\ Consume(j.rule, j.start, j.end)
        BY <1>0, <2>2 DEF Replay, JobInv, JobOK
      <3> QED BY <1>2, <3>1
    <2>3. ASSUME \/ \E r \in Rules : \/ Claim(r) \/ ClaimWithoutPlan(r) \/ Commit(r) \/ EnqueueDrain(r) \/ Release(r)
                                     \/ CommitFails(r) \/ Fails(r) \/ Crash(r) \/ Reset(r)
                 \/ \E j \in jobs : ReplayFails(j) \/ BackoffOver(j)
                 \/ \E rows \in Entries : Land(rows)
                 \/ Refresh \/ Tick \/ Respawn \/ UNCHANGED vars
          PROVE  detected' = detected
      BY <2>3 DEF Claim, ClaimWithoutPlan, Commit, EnqueueDrain, Release, CommitFails, Fails, Crash, Reset, ReplayFails,
                  BackoffOver, Land, Refresh, Tick, Respawn, vars
    <2> QED BY <1>0, <2>1, <2>2, <2>3 DEF Next, Execute
  <1>4. \A r \in Rules : detected'[r] \subseteq RowsUpTo(Len(log))'
    BY <1>1, <1>3
  <1> QED BY <1>3, <1>4 DEF DetectedInv

-----------------------------------------------------------------------------
(* The theorems.                                                           *)

\* Nothing has landed and no rule has run.
LEMMA GateInit == ASSUME Init PROVE GateInv
  <1>0. now = 0 /\ head = 0 /\ floor = 0 /\ history = {} /\ Len(log) = 0 /\ faults = 0 /\ 0..0 = {0}
    BY DEF Init
  <1>1. BaseInv
    <2>1. log \in Seq(SUBSET Times)
      BY DEF Init
    <2> QED BY <1>0, <2>1, Consts DEF Init, BaseInv, Times
  <1>2. RunInv
    BY Consts DEF Init, RunInv, RunOK
  <1>3. MarkInv
    BY DEF Init, MarkInv
  <1>4. JobInv /\ DetectedInv
    BY DEF Init, JobInv, DetectedInv
  <1>5. HistoryInv
    BY <1>0, FS_EmptySet, Consts DEF HistoryInv
  <1>6. Reaches
    BY <1>0 DEF Reaches
  <1> QED BY <1>1, <1>2, <1>3, <1>4, <1>5, <1>6 DEF GateInv

\* The inductive invariant: past the floor the gate's history is complete,
\* for any number of rules, any cap, any windows, and however often the
\* process starts again.
THEOREM GateInvariant == Spec => []GateInv
  <1>1. GateInv /\ [Next]_vars => GateInv'
    BY BaseNext, GateNext, RunsNext, LastRunNext, JobsNext, DetectedNext DEF GateInv, RunInv
  <1> QED BY <1>1, GateInit, PTL DEF Spec

\* The state is well formed: commit_at moves no watermark past the head or
\* the delayed clock, no window is backwards, and the cap is kept.
THEOREM GateTyped == Spec => []TypeOK
  <1>1. GateInv => TypeOK
    <2> SUFFICES ASSUME GateInv PROVE TypeOK
      OBVIOUS
    <2>1. ASSUME NEW r \in Rules, mark[r] # NoMark PROVE mark[r].seq \in 0..head /\ mark[r].through <= now - Delay
      <3>1. mark[r] \in Marks /\ mark[r].seq <= head /\ mark[r].through <= now - Delay
        BY <2>1 DEF GateInv, MarkInv
      <3>2. mark[r].seq \in Nat /\ head \in Nat
        BY <3>1, LenProperties DEF Marks, GateInv, BaseInv
      <3> QED BY <3>1, <3>2
    <2>2. ASSUME NEW r \in Rules PROVE run[r].phase \in Phases /\ (run[r] # Idle => run[r].start <= run[r].end)
      <3>1. run[r] \in {Idle} \cup Runs /\ RunOK(r)
        BY DEF GateInv, RunInv
      <3>2. run[r].phase \in Phases
        BY <3>1 DEF Idle, Runs, Phases
      <3> QED BY <3>1, <3>2 DEF RunOK
    <2>3. ASSUME NEW j \in jobs
          PROVE  /\ j.start < j.end \/ (j.start = j.end /\ j.id[1] = "drain")
                 /\ j.status \in {"due", "backoff", "completed"}
      BY DEF GateInv, JobInv, JobOK, Statuses
    <2>4. \A r \in Rules : detected[r] \subseteq RowsUpTo(Len(log))
      BY DEF GateInv, DetectedInv
    <2> QED BY <2>1, <2>2, <2>3, <2>4 DEF GateInv, BaseInv, HistoryInv, TypeOK
  <1> QED BY <1>1, GateInvariant, PTL

\* A rule whose watermark is at or above the floor is given every entry it
\* has not seen, whatever commit_at and cap_history dropped.
THEOREM NothingHidden == Spec => []HistoryReaches
  <1>1. GateInv => HistoryReaches
    <2> SUFFICES ASSUME GateInv, NEW r \in Rules, mark[r] # NoMark, ~Truncated(r),
                        NEW i \in (mark[r].seq + 1)..head, log[i] # {}
                 PROVE  \E e \in history : /\ e.entry = i /\ e.seq > mark[r].seq
                                          /\ e.min = Min(log[i]) /\ e.max = Max(log[i])
      BY DEF HistoryReaches
    <2>1. mark[r] \in Marks
      BY DEF GateInv, MarkInv
    <2>2. mark[r].seq \in Nat /\ head \in Nat /\ floor \in Nat /\ floor <= mark[r].seq
      BY <2>1, LenProperties DEF Marks, GateInv, BaseInv, Truncated
    <2>3. i \in (floor + 1)..head /\ i > mark[r].seq /\ i \in Int
      BY <2>2
    <2>4. PICK e \in history : e.entry = i
      BY <2>3 DEF GateInv, Reaches
    <2>5. e.seq \in Int /\ e.seq >= i /\ e.min = Min(log[i]) /\ e.max = Max(log[i])
      BY <2>2, <2>3, <2>4 DEF GateInv, HistoryInv, Recorded
    <2> QED BY <2>2, <2>3, <2>4, <2>5
  <1> QED BY <1>1, GateInvariant, PTL
=============================================================================
