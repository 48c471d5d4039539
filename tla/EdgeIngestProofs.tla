-------------------------- MODULE EdgeIngestProofs --------------------------
(***************************************************************************)
(* Proofs about consuming the edge log.  Every entry of the part log takes *)
(* up where the one before left off, so a segment's place in the log is    *)
(* decided once, by the entry that moves the log's point past it; and a    *)
(* consumer asks the DO to commit only points the log has reached.  Which  *)
(* consumer holds the lease plays no part: two may run at once.            *)
(***************************************************************************)
EXTENDS EdgeIngest, SequenceTheorems, FiniteSetTheorems, WellFoundedInduction, TLAPS

\* Operations, whatever the DO has received so far.
Shape == [kind : {"none", "add", "floor", "end"}, adds : SUBSET Nat, removes : {{}},
          consumes : SUBSET Nat, first : Int, through : Int]
Flush == [op : Shape, added : BOOLEAN]

\* TypeOK, and that the log and the flushes are sequences.
Typed ==
    /\ TypeOK
    /\ log \in Seq(Shape) /\ issued \in [Consumers -> Seq(Flush)] /\ pend \in [Consumers -> Shape]

\* The log's point.
LogPoint == Base(Len(log))

\* What became of a segment is settled: its rows are in the log, it has none,
\* or it was purged.
Settled(s) == s \in Consumed \/ s \in decided \/ s <= dPurge
SettledTo(t) == \A s \in 1..t : Settled(s)

\* An operation accounts for every segment it passes over.
Accounts(op) ==
    /\ op.kind # "none" /\ op.through \in 0..dHead
    /\ op.kind = "add" => /\ op.first \in 1..op.through
                          /\ op.consumes \subseteq op.first..op.through
                          /\ op.first..op.through \subseteq op.consumes \cup decided
    /\ op.kind # "add" => op.consumes = {}
    /\ op.kind = "floor" => SettledTo(op.through)

\* The log's point is its largest, and no entry consumes past it.
LogInv ==
    \A i \in 1..Len(log) : /\ log[i].kind # "none" /\ log[i].through \in 0..LogPoint
                           /\ log[i].consumes \subseteq 1..LogPoint

\* An append in flight fits at the log's end.
LateInv == \A op \in late : Accounts(op) /\ Fits(Len(log), op)

\* What consumer c asks the DO to commit is in the log, and what it passes
\* over is settled.
ConsumerOK(c) ==
    /\ phase[c] \notin {"down", "loaded"} => lease[c] # 0
    /\ phase[c] \in {"loaded", "reconciling"} => through[c] <= LogPoint
    /\ phase[c] = "floored" => point[c] \in 0..LogPoint
    /\ phase[c] = "ending" => point[c] # NoPoint
    /\ SettledTo(through[c])
    /\ skipped[c] \subseteq decided
    /\ floor[c] <= dPurge
    /\ \A i \in 1..Len(issued[c]) :
         /\ Accounts(issued[c][i].op) /\ issued[c][i].op.kind = "add"
         /\ issued[c][i].added => issued[c][i].op.through <= LogPoint

ConsumerInv == \A c \in Consumers : ConsumerOK(c)

StrayInv == \A r \in strays : r.through <= LogPoint

EdgeInv == Typed /\ LogInv /\ LateInv /\ ConsumerInv /\ StrayInv
           /\ ConsumedOnce /\ NothingLost /\ DoNeverAhead

-----------------------------------------------------------------------------
(* Facts about numbers, flushes and operations.                            *)

\* A non-empty set of numbers has a least one.
LEMMA Least ==
    ASSUME NEW T \in SUBSET Nat, T # {}
    PROVE  \E x \in T : \A y \in T : x <= y
  <1> DEFINE R == OpToRel(<, Nat)
  <1>1. R = {ss \in Nat \X Nat : ss[1] < ss[2]}
    BY Zenon DEF OpToRel
  <1>2. IsWellFoundedOn(R, Nat)
    BY Zenon, NatLessThanWellFounded
  <1> HIDE DEF R
  <1>3. PICK x \in T : \A y \in T : ~(<<y, x>> \in R)
    BY <1>2, WFMin
  <1>4. \A y \in Nat : y < x => <<y, x>> \in R
    BY <1>1
  <1>5. \A y \in T : ~(y < x)
    BY <1>3, <1>4
  <1> QED BY <1>5

\* A bounded one has a largest: the CHOOSE of range_for_flush and floor_due.
LEMMA Largest ==
    ASSUME NEW n \in Nat, NEW S \in SUBSET (0..n), S # {}
    PROVE  LET m == CHOOSE s \in S : \A t \in S : t <= s IN m \in S /\ \A t \in S : t <= m
  <1> DEFINE T == {x \in Nat : n - x \in S}
  <1>1. T \subseteq Nat /\ T # {}
    <2>1. PICK s \in S : TRUE
      OBVIOUS
    <2>2. n - s \in Nat /\ n - (n - s) = s
      BY <2>1
    <2> QED BY <2>2
  <1>2. PICK x \in T : \A y \in T : x <= y
    BY <1>1, Least
  <1>3. ASSUME NEW t \in S PROVE t <= n - x
    <2>1. n - t \in Nat /\ n - (n - t) = t
      BY <1>3
    <2>2. n - t >= x
      BY <1>2, <2>1
    <2> QED BY <2>1, <2>2
  <1>4. \E m \in S : \A t \in S : t <= m
    BY <1>2, <1>3
  <1> QED BY <1>4

\* The flushes in flight after one is issued, added or acked.
LEMMA FlushSeqs ==
    ASSUME NEW q \in Seq(Flush), NEW x \in Flush
    PROVE  /\ Append(q, x) \in Seq(Flush)
           /\ \A i \in 1..Len(Append(q, x)) : Append(q, x)[i] = x \/ \E j \in 1..Len(q) : Append(q, x)[i] = q[j]
           /\ q # << >> => /\ Tail(q) \in Seq(Flush) /\ 1 \in 1..Len(q)
                           /\ \A i \in 1..Len(Tail(q)) : \E j \in 1..Len(q) : Tail(q)[i] = q[j]
                           /\ <<x>> \o Tail(q) \in Seq(Flush)
                           /\ \A i \in 1..Len(<<x>> \o Tail(q)) :
                                \/ (<<x>> \o Tail(q))[i] = x
                                \/ \E j \in 1..Len(q) : (<<x>> \o Tail(q))[i] = q[j]
  <1>1. Len(q) \in Nat /\ \A i \in 1..Len(q) : q[i] \in Flush
    BY LenProperties, ElementOfSeq
  <1>2. /\ Append(q, x) \in Seq(Flush) /\ Len(Append(q, x)) = Len(q) + 1
        /\ \A i \in 1..Len(q) : Append(q, x)[i] = q[i]
        /\ Append(q, x)[Len(q) + 1] = x
    BY AppendProperties
  <1>3. \A i \in 1..Len(Append(q, x)) : Append(q, x)[i] = x \/ \E j \in 1..Len(q) : Append(q, x)[i] = q[j]
    <2> SUFFICES ASSUME NEW i \in 1..Len(Append(q, x))
                 PROVE  Append(q, x)[i] = x \/ \E j \in 1..Len(q) : Append(q, x)[i] = q[j]
      OBVIOUS
    <2>1. i \in 1..Len(q) \/ i = Len(q) + 1
      BY <1>1, <1>2
    <2> QED BY <1>2, <2>1
  <1>4. ASSUME q # << >>
        PROVE  /\ Tail(q) \in Seq(Flush) /\ Len(Tail(q)) = Len(q) - 1 /\ Len(q) >= 1
               /\ \A i \in 1..Len(Tail(q)) : Tail(q)[i] = q[i + 1]
    BY <1>1, <1>4, EmptySeq, HeadTailProperties
  <1>5. ASSUME q # << >>
        PROVE  \A i \in 1..Len(Tail(q)) : \E j \in 1..Len(q) : Tail(q)[i] = q[j]
    <2> SUFFICES ASSUME NEW i \in 1..Len(Tail(q)) PROVE \E j \in 1..Len(q) : Tail(q)[i] = q[j]
      OBVIOUS
    <2>1. i + 1 \in 1..Len(q) /\ Tail(q)[i] = q[i + 1]
      BY <1>1, <1>4, <1>5
    <2> QED BY <2>1
  <1>6. ASSUME q # << >>
        PROVE  /\ <<x>> \o Tail(q) \in Seq(Flush)
               /\ \A i \in 1..Len(<<x>> \o Tail(q)) :
                    \/ (<<x>> \o Tail(q))[i] = x
                    \/ \E j \in 1..Len(q) : (<<x>> \o Tail(q))[i] = q[j]
    <2> DEFINE h == <<x>>
               t == Tail(q)
    <2>1. h \in Seq(Flush) /\ Len(h) = 1 /\ h[1] = x
      OBVIOUS
    <2>2. t \in Seq(Flush) /\ Len(t) \in Nat
      BY <1>4, <1>6, LenProperties
    <2>3. \A i \in 1..Len(t) : \E j \in 1..Len(q) : t[i] = q[j]
      BY <1>5, <1>6
    <2> HIDE DEF h, t
    <2>4. /\ h \o t \in Seq(Flush) /\ Len(h \o t) = Len(h) + Len(t)
          /\ \A i \in 1..(Len(h) + Len(t)) : (h \o t)[i] = IF i <= Len(h) THEN h[i] ELSE t[i - Len(h)]
      BY <2>1, <2>2, ConcatProperties
    <2>5. \A i \in 1..Len(h \o t) : (h \o t)[i] = x \/ \E j \in 1..Len(q) : (h \o t)[i] = q[j]
      <3> SUFFICES ASSUME NEW i \in 1..Len(h \o t)
                   PROVE  (h \o t)[i] = x \/ \E j \in 1..Len(q) : (h \o t)[i] = q[j]
        OBVIOUS
      <3>1. i \in 1..(1 + Len(t))
        BY <2>1, <2>4
      <3>2. CASE i = 1
        BY <2>1, <2>4, <3>1, <3>2
      <3>3. CASE i # 1
        <4>1. ~(i <= 1) /\ i - 1 \in 1..Len(t)
          BY <2>2, <3>1, <3>3
        <4>2. (h \o t)[i] = t[i - 1]
          BY <2>1, <2>4, <3>1, <4>1
        <4> QED BY <2>3, <4>1, <4>2
      <3> QED BY <3>2, <3>3
    <2> QED BY <2>4, <2>5 DEF h, t
  <1>7. q # << >> => 1 \in 1..Len(q)
    BY <1>1, <1>4
  <1> QED BY <1>2, <1>3, <1>4, <1>5, <1>6, <1>7

\* The operations of the model.
LEMMA OpTypes ==
    /\ NoOp \in Shape /\ NoOp \in EdgeOps /\ NoOp.kind = "none"
    /\ \A t \in Points : EdgeFloor(t) \in Shape /\ EdgeFloor(t) \in EdgeOps
    /\ \A t \in Points : EdgeEnd(t) \in Shape /\ EdgeEnd(t) \in EdgeOps
  <1>0. Points \subseteq Int /\ NoPoint \in Points
    BY DEF Points, NoPoint
  <1>1. Cardinality({}) = 0
    BY FS_EmptySet
  <1>2. NoOp.adds = {} /\ (\A t : EdgeFloor(t).adds = {} /\ EdgeEnd(t).adds = {})
    BY DEF NoOp, EdgeFloor, EdgeEnd, Op
  <1>3. Cardinality(NoOp.adds) = 0 /\ \A t : Cardinality(EdgeFloor(t).adds) = 0 /\ Cardinality(EdgeEnd(t).adds) = 0
    BY <1>1, <1>2
  <1>4. NoOp \in EdgeOps /\ NoOp \in Shape
    <2>1. Cardinality(NoOp.adds) <= 1
      BY <1>3
    <2> QED BY <1>0, <2>1 DEF NoOp, Op, EdgeOps, Shape
  <1>5. ASSUME NEW t \in Points PROVE EdgeFloor(t) \in Shape /\ EdgeFloor(t) \in EdgeOps
    <2>1. Cardinality(EdgeFloor(t).adds) <= 1
      BY <1>3
    <2> QED BY <1>0, <2>1 DEF EdgeFloor, Op, EdgeOps, Shape
  <1>6. ASSUME NEW t \in Points PROVE EdgeEnd(t) \in Shape /\ EdgeEnd(t) \in EdgeOps
    <2>1. Cardinality(EdgeEnd(t).adds) <= 1
      BY <1>3
    <2> QED BY <1>0, <2>1 DEF EdgeEnd, Op, EdgeOps, Shape
  <1> QED BY <1>4, <1>5, <1>6 DEF NoOp, Op

\* What was typed stays so while the DO receives segments.
LEMMA TypesGrow ==
    ASSUME dHead \in Nat, dHead' \in Nat, dHead <= dHead'
    PROVE  Points \subseteq Points' /\ EdgeOps \subseteq EdgeOps'
  <1>1. Points \subseteq Points' /\ 1..dHead \subseteq 1..dHead'
    BY DEF Points
  <1> QED BY <1>1 DEF EdgeOps

\* Types of the parts.
LEMMA Types ==
    ASSUME Typed
    PROVE  /\ dHead \in Nat /\ dCommitted \in 0..dHead /\ dPurge \in Int /\ dPurge >= NoPoint /\ dPurge <= dHead
           /\ MaxLeases \in Nat /\ dEpoch \in Nat
           /\ Len(log) \in Nat /\ DOMAIN log = 1..Len(log)
           /\ \A i \in 1..Len(log) : log[i] \in Shape /\ log[i].through \in Int
           /\ \A c \in Consumers : /\ through[c] \in 0..dHead /\ lastPulled[c] \in 0..dHead /\ head[c] \in 0..Len(log)
                                   /\ point[c] \in Points /\ floor[c] \in Points
                                   /\ issued[c] \in Seq(Flush) /\ lease[c] \in 0..MaxLeases
  <1>1. dHead \in Nat /\ MaxLeases \in Nat /\ dEpoch \in Nat
    BY EdgeIngestAssumption DEF Typed, TypeOK
  <1>2. dPurge \in Int /\ dPurge >= NoPoint /\ dPurge <= dHead /\ dCommitted \in 0..dHead
    BY <1>1 DEF Typed, TypeOK, Points, NoPoint
  <1>3. /\ Len(log) \in Nat /\ DOMAIN log = 1..Len(log)
        /\ \A i \in 1..Len(log) : log[i] \in Shape /\ log[i].through \in Int
    <2>1. log \in Seq(Shape)
      BY DEF Typed
    <2>2. \A op \in Shape : op.through \in Int
      BY DEF Shape
    <2> QED BY <2>1, <2>2, LenProperties, ElementOfSeq
  <1>4. \A c \in Consumers : /\ through[c] \in 0..dHead /\ lastPulled[c] \in 0..dHead /\ head[c] \in 0..Len(log)
                             /\ point[c] \in Points /\ floor[c] \in Points
                             /\ issued[c] \in Seq(Flush) /\ lease[c] \in 0..MaxLeases
    BY DEF Typed, TypeOK
  <1> QED BY <1>1, <1>2, <1>3, <1>4

\* The log's point is one the DO has received.
LEMMA PointIn ==
    ASSUME Typed, LogInv
    PROVE  LogPoint \in 0..dHead
  <1>1. CASE Len(log) = 0
    BY <1>1, Types DEF LogPoint, Base
  <1>2. CASE Len(log) # 0
    <2>1. Len(log) \in 1..Len(log) /\ Len(log) \in Nat
      BY <1>2, Types
    <2>2. LogPoint = log[Len(log)].through /\ log[Len(log)].through \in Int
      BY <1>2, <2>1, Types DEF LogPoint, Base
    <2>3. LogPoint >= 0
      BY <2>1, <2>2 DEF LogInv
    <2>4. log[Len(log)] \in EdgeOps
      BY <2>1 DEF Typed, TypeOK
    <2>5. log[Len(log)].through \in Points
      BY <2>4 DEF EdgeOps
    <2> QED BY <2>2, <2>3, <2>5, Types DEF Points, NoPoint
  <1> QED BY <1>1, <1>2

-----------------------------------------------------------------------------
(* The log only grows, and what is settled stays settled.                  *)

Grown ==
    /\ dHead <= dHead' /\ dPurge <= dPurge' /\ decided \subseteq decided'
    /\ LogPoint <= LogPoint' /\ Consumed \subseteq Consumed'

\* What was settled, or accounted for, stays so.
LEMMA StaysSettled ==
    ASSUME Typed, Typed', Grown
    PROVE  /\ \A t : SettledTo(t) => SettledTo(t)'
           /\ \A op : Accounts(op) => Accounts(op)'
  <1>1. dHead \in Nat /\ dHead' \in Nat /\ dPurge \in Int /\ dPurge' \in Int
    BY Types DEF Typed, TypeOK, Points, NoPoint
  <1>2. \A t : SettledTo(t) => SettledTo(t)'
    <2> SUFFICES ASSUME NEW t, SettledTo(t), NEW s \in 1..t PROVE Settled(s)'
      BY DEF SettledTo
    <2>1. Settled(s) /\ s \in Int
      BY DEF SettledTo
    <2> QED BY <1>1, <2>1 DEF Settled, Grown
  <1>3. ASSUME NEW op, Accounts(op) PROVE Accounts(op)'
    <2>1. op.through \in 0..dHead'
      BY <1>1, <1>3 DEF Accounts, Grown
    <2> QED BY <1>2, <1>3, <2>1 DEF Accounts, Grown
  <1> QED BY <1>2, <1>3

\* An entry that fits takes up where the log left off.
LEMMA FitsContinues ==
    ASSUME Typed, LogInv, NEW op \in Shape, Accounts(op), Fits(Len(log), op)
    PROVE  /\ op.through >= LogPoint
           /\ op.kind = "add" => op.first = LogPoint + 1
           /\ op.kind = "end" => op.through = LogPoint
  <1> DEFINE n == Len(log)
             s == SetAfter(n)
  <1>1. n \in Nat /\ op.through \in Int /\ op.through >= 0 /\ LogPoint \in Nat
    BY Types, PointIn DEF Shape, Accounts
  <1>2. OpFits(s, n + 1, op) /\ op.kind \in {"add", "floor", "end"}
    BY DEF Fits, Shape, Accounts
  <1>3. CASE n = 0
    <2>1. s.edge = NoPoint /\ s.ended = NoPoint /\ LogPoint = 0 /\ EdgeBase(s) = 0
      BY <1>3 DEF SetAfter, Set, LogPoint, Base, EdgeBase
    <2> HIDE DEF n, s
    <2> QED BY <1>1, <1>2, <2>1 DEF OpFits, AddFitsEdge, Accounts, NoPoint
  <1>4. CASE n # 0
    <2>0. n \in 1..Len(log) /\ n > 0
      BY <1>1, <1>4
    <2>1. LogPoint = log[n].through /\ log[n].through # NoPoint
      BY <1>1, <1>4 DEF LogPoint, Base, NoPoint
    <2>2. s.edge = (IF log[n].kind = "end" THEN NoPoint ELSE log[n].through)
          /\ s.ended = (IF log[n].kind = "end" THEN log[n].through ELSE NoPoint)
      BY <1>4, <2>0 DEF SetAfter, Set
    <2>3. EdgeBase(s) = LogPoint
      BY <2>1, <2>2 DEF EdgeBase
    <2> HIDE DEF n, s
    <2>4. s.edge # NoPoint => s.edge = LogPoint
      BY <2>1, <2>2
    <2>5. s.edge = NoPoint => s.ended # NoPoint
      BY <2>1, <2>2
    <2> QED BY <1>1, <1>2, <2>3, <2>4, <2>5 DEF OpFits, AddFitsEdge, Accounts, NoPoint
  <1> QED BY <1>3, <1>4

\* Such an entry lands: no segment is consumed again, and every segment it
\* passes over is settled.
LEMMA Landed ==
    ASSUME Typed, Typed', LogInv, ConsumedOnce, NothingLost,
           NEW op \in Shape, Accounts(op), Fits(Len(log), op), log' = Append(log, op),
           dHead' = dHead, dPurge' = dPurge, decided' = decided
    PROVE  Grown /\ LogInv' /\ ConsumedOnce' /\ NothingLost'
  <1> DEFINE n == Len(log)
  <1>1. /\ n \in Nat /\ Len(log') = n + 1 /\ log'[n + 1] = op
        /\ \A i \in 1..n : log'[i] = log[i]
    BY Types, AppendProperties DEF Typed
  <1>2. \A i \in 1..Len(log') : i \in 1..n \/ i = n + 1
    BY <1>1
  <1>3. n + 1 \in 1..Len(log') /\ \A i \in 1..n : i \in 1..Len(log')
    BY <1>1
  <1>4. LogPoint' = op.through
    <2>1. Len(log') # 0
      BY <1>1
    <2> QED BY <1>1, <2>1 DEF LogPoint, Base
  <1>5. /\ op.through >= LogPoint /\ op.through \in Nat /\ LogPoint \in Nat
        /\ op.kind = "add" => op.first = LogPoint + 1
        /\ op.kind = "end" => op.through = LogPoint
    BY FitsContinues, PointIn, Types DEF Accounts
  <1>6. op.consumes \subseteq (LogPoint + 1)..op.through /\ op.kind # "none"
    BY <1>5 DEF Accounts
  <1>7. Consumed' = Consumed \cup op.consumes
    <2>1. Consumed' = UNION {log'[i].consumes : i \in 1..Len(log')}
      BY DEF Consumed
    <2>2. Consumed = UNION {log[i].consumes : i \in 1..n}
      BY DEF Consumed
    <2> HIDE DEF n
    <2>3. ASSUME NEW p \in Consumed' PROVE p \in Consumed \cup op.consumes
      BY <1>1, <1>2, <2>1, <2>2, <2>3
    <2>4. ASSUME NEW p \in Consumed \cup op.consumes PROVE p \in Consumed'
      BY <1>1, <1>3, <2>1, <2>2, <2>4
    <2> QED BY <2>3, <2>4
  <1>8. Grown
    BY <1>4, <1>5, <1>7, Types DEF Grown
  <1>9. LogInv'
    <2> SUFFICES ASSUME NEW i \in 1..Len(log')
                 PROVE  /\ log'[i].kind # "none" /\ log'[i].through \in 0..op.through
                        /\ log'[i].consumes \subseteq 1..op.through
      BY <1>4 DEF LogInv
    <2>1. CASE i = n + 1
      BY <1>1, <1>5, <1>6, <2>1
    <2>2. CASE i \in 1..n
      <3>1. log'[i] = log[i] /\ log[i].kind # "none" /\ log[i].through \in 0..LogPoint
            /\ log[i].consumes \subseteq 1..LogPoint
        BY <1>1, <2>2 DEF LogInv
      <3>2. 0..LogPoint \subseteq 0..op.through /\ 1..LogPoint \subseteq 1..op.through
        BY <1>5
      <3> QED BY <3>1, <3>2
    <2> QED BY <1>2, <2>1, <2>2
  <1>10. ConsumedOnce'
    <2>1. \A i \in 1..n : log[i].consumes \cap op.consumes = {}
      <3>1. \A i \in 1..n : log[i].consumes \subseteq 1..LogPoint
        BY DEF LogInv
      <3>2. (1..LogPoint) \cap ((LogPoint + 1)..op.through) = {}
        BY <1>5
      <3> QED BY <1>6, <3>1, <3>2
    <2> HIDE DEF n
    <2>2. \A i, j \in 1..n : i # j => log'[i].consumes \cap log'[j].consumes = {}
      BY <1>1 DEF ConsumedOnce, n
    <2>3. ASSUME NEW i \in 1..Len(log'), NEW j \in 1..Len(log'), i # j
          PROVE  log'[i].consumes \cap log'[j].consumes = {}
      <3>1. CASE i \in 1..n /\ j \in 1..n
        BY <2>2, <2>3, <3>1
      <3>2. CASE i = n + 1 /\ j \in 1..n
        BY <1>1, <2>1, <3>2
      <3>3. CASE j = n + 1 /\ i \in 1..n
        BY <1>1, <2>1, <3>3
      <3> QED BY <1>2, <2>3, <3>1, <3>2, <3>3
    <2> QED BY <2>3 DEF ConsumedOnce
  <1>11. NothingLost'
    <2> SUFFICES ASSUME NEW s \in 1..op.through PROVE Settled(s)'
      BY <1>4 DEF NothingLost, Settled, LogPoint
    <2>1. CASE s \in 1..LogPoint
      <3>1. Settled(s)
        BY <2>1 DEF NothingLost, Settled, LogPoint
      <3> QED BY <1>7, <3>1 DEF Settled
    <2>2. CASE s \notin 1..LogPoint
      <3>1. s \in (LogPoint + 1)..op.through
        BY <1>5, <2>2
      <3>2. op.kind = "add" => s \in op.consumes \cup decided
        BY <1>5, <3>1 DEF Accounts
      <3>3. op.kind = "floor" => Settled(s)
        BY DEF Accounts, SettledTo
      <3>4. op.kind # "end"
        BY <1>5, <3>1
      <3>5. op.kind = "add" \/ op.kind = "floor"
        BY <1>6, <3>4 DEF Shape
      <3>6. Settled(s) => Settled(s)'
        BY <1>7 DEF Settled
      <3>7. s \in op.consumes \cup decided => Settled(s)'
        BY <1>7 DEF Settled
      <3> QED BY <3>2, <3>3, <3>5, <3>6, <3>7
    <2> QED BY <2>1, <2>2
  <1> QED BY <1>8, <1>9, <1>10, <1>11

-----------------------------------------------------------------------------
(* What is appended.                                                       *)

\* Typed operations have the constant shape.
LEMMA OpsShaped == ASSUME Typed PROVE EdgeOps \subseteq Shape
  <1>1. 1..MaxLeases \subseteq Nat /\ 1..dHead \subseteq Nat /\ Points \subseteq Int
    BY Types DEF Points, NoPoint
  <1> QED BY <1>1 DEF EdgeOps, Shape

\* A floor that is due is one the DO has received, and settled.
LEMMA FloorAccounts ==
    ASSUME EdgeInv, NEW c \in Consumers, FloorDue(c) # NoPoint
    PROVE  /\ FloorDue(c) \in 0..dHead
           /\ EdgeFloor(FloorDue(c)) \in EdgeOps /\ Accounts(EdgeFloor(FloorDue(c)))
  <1>0. Typed /\ ConsumerOK(c) /\ dHead \in Nat
    BY Types DEF EdgeInv, ConsumerInv
  <1>1. FloorDue(c) \in 0..dHead /\ SettledTo(FloorDue(c))
    <2>1. CASE floor[c] # NoPoint
      <3>1. FloorDue(c) = floor[c] /\ floor[c] \in 0..dHead
        BY <1>0, <2>1, Types DEF FloorDue, Points
      <3>2. floor[c] <= dPurge /\ dPurge \in Int
        BY <1>0, Types DEF ConsumerOK
      <3> QED BY <3>1, <3>2 DEF SettledTo, Settled
    <2>2. CASE floor[c] = NoPoint
      <3> DEFINE S == SkipRun(c)
                 m == CHOOSE s \in S : \A t \in S : t <= s
      <3>1. S # {} /\ FloorDue(c) = m
        BY <2>2 DEF FloorDue
      <3>2. skipped[c] \subseteq 1..dHead /\ through[c] \in 0..dHead
        BY <1>0 DEF Typed, TypeOK
      <3>3. S \subseteq 0..dHead /\ S \subseteq skipped[c]
        BY <1>0, <3>2 DEF SkipRun
      <3>4. m \in S
        <4> HIDE DEF S
        <4> QED BY <1>0, <3>1, <3>3, Largest
      <3>5. m \in 0..dHead /\ (through[c] + 1)..m \subseteq skipped[c]
        BY <3>3, <3>4 DEF SkipRun
      <3> HIDE DEF m, S
      <3>6. ASSUME NEW s \in 1..m PROVE Settled(s)
        <4>1. CASE s <= through[c]
          BY <1>0, <3>2, <4>1 DEF ConsumerOK, SettledTo
        <4>2. CASE ~(s <= through[c])
          <5>1. s \in (through[c] + 1)..m
            BY <3>2, <3>5, <4>2
          <5> QED BY <1>0, <3>5, <5>1 DEF ConsumerOK, Settled
        <4> QED BY <4>1, <4>2
      <3> QED BY <3>1, <3>5, <3>6 DEF SettledTo
    <2> QED BY <2>1, <2>2
  <1>2. FloorDue(c) \in Points
    BY <1>1 DEF Points
  <1>3. Accounts(EdgeFloor(FloorDue(c)))
    BY <1>1 DEF Accounts, EdgeFloor, Op
  <1> QED BY <1>1, <1>2, <1>3, OpTypes

\* The end of edge mode.
LEMMA EndAccounts ==
    ASSUME EdgeInv, NEW c \in Consumers, phase[c] = "ending"
    PROVE  EdgeEnd(point[c]) \in EdgeOps /\ Accounts(EdgeEnd(point[c]))
  <1>1. point[c] \in Points /\ point[c] \in 0..dHead
    BY Types DEF EdgeInv, ConsumerInv, ConsumerOK, Points
  <1> QED BY <1>1, OpTypes DEF Accounts, EdgeEnd, Op

\* A flush's range: every segment in it is consumed, or without rows.
LEMMA RangeAccounts ==
    ASSUME EdgeInv, NEW c \in Consumers, NEW S, RangeForFlush(c, S)
    PROVE  \E op \in EdgeOps :
              /\ Accounts(op) /\ op.kind = "add"
              /\ issued' = [issued EXCEPT ![c] = Append(@, [op |-> op, added |-> FALSE])]
  <1> DEFINE m == CHOOSE s \in S : \A t \in S : t <= s
             first == RangeStart(c)
             op == EdgeAdd({lease[c]}, S, first, m)
  <1>0. Typed /\ ConsumerOK(c) /\ dHead \in Nat /\ MaxLeases \in Nat
    BY Types DEF EdgeInv, ConsumerInv
  <1>1. /\ S # {} /\ S \subseteq pulled[c] /\ S \subseteq first..m /\ first..m \subseteq S \cup skipped[c]
        /\ issued' = [issued EXCEPT ![c] = Append(@, [op |-> op, added |-> FALSE])]
        /\ phase[c] = "running"
    BY DEF RangeForFlush, Issue
  <1>2. pulled[c] \subseteq 1..dHead /\ skipped[c] \subseteq decided
    BY <1>0 DEF Typed, TypeOK, ConsumerOK
  <1>3. m \in S /\ m \in 1..dHead
    <2>1. S \in SUBSET (0..dHead)
      BY <1>0, <1>1, <1>2
    <2> QED BY <1>0, <1>1, <1>2, <2>1, Largest
  <1>4. first \in Int /\ first >= 1
    <2>1. CASE issued[c] = << >>
      BY <1>0, <2>1, Types DEF RangeStart
    <2>2. CASE issued[c] # << >>
      <3>1. Len(issued[c]) \in 1..Len(issued[c])
        BY <1>0, <2>2, Types, EmptySeq, LenProperties
      <3>2. issued[c][Len(issued[c])].op.through \in 0..dHead
        BY <1>0, <3>1 DEF ConsumerOK, Accounts
      <3> QED BY <1>0, <2>2, <3>2 DEF RangeStart
    <2> QED BY <2>1, <2>2
  <1>5. first \in 1..m /\ first \in 1..dHead
    <2>1. m \in first..m
      BY <1>1, <1>3
    <2> HIDE DEF m, first
    <2> QED BY <1>0, <1>3, <1>4, <2>1
  <1>6. lease[c] \in 1..MaxLeases
    BY <1>0, <1>1, Types DEF ConsumerOK
  <1> HIDE DEF m, first
  <1>7. /\ op.kind = "add" /\ op.first = first /\ op.through = m /\ op.consumes = S /\ op.adds = {lease[c]}
        /\ op.removes = {}
    BY DEF EdgeAdd, Op
  <1>8. op \in EdgeOps
    <2>1. Cardinality(op.adds) <= 1
      <3>1. Cardinality({lease[c]}) = 1
        BY FS_Singleton
      <3> QED BY <1>7, <3>1
    <2>2. /\ m \in Points /\ first \in Points /\ S \in SUBSET (1..dHead)
          /\ {lease[c]} \in SUBSET (1..MaxLeases)
      BY <1>0, <1>1, <1>2, <1>3, <1>5, <1>6 DEF Points
    <2> QED BY <2>1, <2>2 DEF EdgeOps, EdgeAdd, Op
  <1>9. Accounts(op)
    <2>1. m \in 0..dHead
      BY <1>0, <1>3
    <2> HIDE DEF op
    <2> QED BY <1>1, <1>2, <1>5, <1>7, <2>1 DEF Accounts
  <1> QED BY <1>1, <1>7, <1>8, <1>9

-----------------------------------------------------------------------------
(* Steps of the log.                                                       *)

\* An operation that may be appended now.
Fitting(op) == op \in EdgeOps /\ Accounts(op) /\ Fits(Len(log), op)

LogKept == log' = log /\ \A l \in late' : l \in late \/ Fitting(l)

LogExtended == \E op : Fitting(op) /\ log' = Append(log, op) /\ late' = {}

\* What an append of a writer does to the log.
LEMMA AppendStep ==
    ASSUME NEW c, NEW op \in EdgeOps, Accounts(op), Commits(c, op) \/ Unknown(c, op)
    PROVE  LogKept \/ LogExtended
  <1>1. CASE Lands(c, op)
    BY <1>1 DEF Lands, Appendable, LogExtended, Fitting
  <1>2. CASE Adopts(c, op)
    BY <1>2 DEF Adopts, partLog, LogKept
  <1>3. CASE Unknown(c, op)
    BY <1>3 DEF Unknown, Appendable, LogKept, Fitting
  <1> QED BY <1>1, <1>2, <1>3 DEF Commits

\* The oldest flush is one of those issued.
LEMMA OldestIn ==
    ASSUME EdgeInv, NEW c \in Consumers, issued[c] # << >>
    PROVE  /\ 1 \in 1..Len(issued[c]) /\ Oldest(c) \in Flush /\ Oldest(c).op \in EdgeOps
           /\ Accounts(Oldest(c).op) /\ Oldest(c).op.kind = "add"
           /\ Oldest(c).added => Oldest(c).op.through <= LogPoint
           /\ Oldest(c).op.through \in 0..dHead
  <1>1. issued[c] \in Seq(Flush) /\ ConsumerOK(c) /\ Typed
    BY Types DEF EdgeInv, ConsumerInv
  <1>2. Len(issued[c]) \in Nat /\ Len(issued[c]) # 0
    BY <1>1, EmptySeq, LenProperties
  <1>3. 1 \in 1..Len(issued[c])
    BY <1>2
  <1>4. Oldest(c) \in Flush
    BY <1>1, <1>3, ElementOfSeq DEF Oldest
  <1>5. Oldest(c).op \in EdgeOps
    BY <1>1, <1>3 DEF Typed, TypeOK, Oldest
  <1> QED BY <1>1, <1>3, <1>4, <1>5 DEF ConsumerOK, Accounts, Oldest

\* A step leaves the log alone, or extends it by an entry that fits.
LEMMA LogStep ==
    ASSUME EdgeInv, [Next]_vars
    PROVE  /\ dHead' \in Nat /\ dHead <= dHead' /\ dPurge' \in Int /\ dPurge <= dPurge' /\ decided \subseteq decided'
           /\ \/ LogKept
              \/ LogExtended /\ UNCHANGED <<dHead, dPurge, decided>>
  <1>0. dHead \in Nat /\ dPurge \in Int /\ dPurge <= dHead
    BY Types DEF EdgeInv
  <1>1. UNCHANGED <<log, late>> => LogKept
    BY DEF LogKept
  <1>2. CASE UNCHANGED vars
    BY <1>0, <1>1, <1>2 DEF vars, do, partLog
  <1>3. CASE Receive \/ SwitchMode \/ Purge \/ \E r \in strays : StrayCommit(r)
    BY <1>0, <1>1, <1>3 DEF Receive, SwitchMode, Purge, StrayCommit, partLog
  <1>4. ASSUME NEW op \in late, LateLand(op) PROVE LogExtended /\ UNCHANGED <<dHead, dPurge, decided>>
    <2>1. Fitting(op)
      BY DEF EdgeInv, LateInv, Typed, TypeOK, Fitting
    <2> QED BY <1>4, <2>1 DEF LateLand, LogExtended, do
  <1>5. ASSUME NEW c \in Consumers, CommitAdd(c) \/ AppendFloor(c) \/ AppendEnd(c)
        PROVE  (LogKept \/ LogExtended) /\ UNCHANGED <<dHead, dPurge, decided>>
    <2>1. UNCHANGED <<dHead, dPurge, decided>>
      BY <1>5 DEF CommitAdd, AppendFloor, AppendEnd, do
    <2>2. CASE CommitAdd(c)
      BY <2>1, <2>2, OldestIn, AppendStep DEF CommitAdd
    <2>3. CASE AppendFloor(c)
      BY <2>1, <2>3, FloorAccounts, AppendStep DEF AppendFloor
    <2>4. CASE AppendEnd(c)
      BY <2>1, <2>4, EndAccounts, AppendStep DEF AppendEnd
    <2> QED BY <1>5, <2>2, <2>3, <2>4
  <1>6. ASSUME NEW c \in Consumers, Settle(c) PROVE LogKept /\ UNCHANGED <<dHead, dPurge, decided>>
    BY <1>1, <1>6 DEF Settle, Adopts, partLog, do
  <1>7. ASSUME NEW c \in Consumers,
               \/ LoadPoint(c) \/ TakeLease(c) \/ Reconcile(c) \/ OpenWriter(c) \/ Pull(c)
               \/ \E S \in SUBSET pulled[c] : RangeForFlush(c, S)
               \/ Ack(c) \/ FloorAppended(c) \/ EndDue(c) \/ GiveUp(c) \/ Crash(c)
        PROVE  UNCHANGED <<log, late, dHead, dPurge, decided>>
    BY <1>7 DEF LoadPoint, TakeLease, Reconcile, OpenWriter, Pull, RangeForFlush, Ack, FloorAppended, EndDue,
                GiveUp, Crash, Restart, do, partLog
  <1>8. ASSUME NEW c \in Consumers, NEW s, AckSkipped(c, s)
        PROVE  UNCHANGED <<log, late, dHead, dPurge>> /\ decided \subseteq decided'
    BY <1>8 DEF AckSkipped, do, partLog
  <1>9. CASE UNCHANGED <<dHead, dPurge>> /\ decided \subseteq decided' /\ (LogKept \/ (LogExtended /\ UNCHANGED decided))
    BY <1>0, <1>9
  <1> QED BY <1>1, <1>2, <1>3, <1>4, <1>5, <1>6, <1>7, <1>8, <1>9 DEF Next, Turn

\* The log's types.
LEMMA LogTyped ==
    ASSUME EdgeInv, [Next]_vars
    PROVE  /\ log' \in Seq(Shape) /\ Len(log) <= Len(log') /\ Len(log') \in Nat /\ late' \subseteq EdgeOps'
           /\ \A i \in 1..Len(log') : log'[i] \in EdgeOps'
  <1>0. Typed /\ log \in Seq(Shape) /\ Len(log) \in Nat /\ dHead \in Nat
    BY Types DEF EdgeInv, Typed
  <1>1. dHead' \in Nat /\ dHead <= dHead'
    BY LogStep
  <1>2. EdgeOps \subseteq EdgeOps'
    BY <1>0, <1>1, TypesGrow
  <1>3. late \subseteq EdgeOps /\ \A i \in 1..Len(log) : log[i] \in EdgeOps
    BY <1>0 DEF Typed, TypeOK
  <1>4. CASE LogKept
    BY <1>0, <1>2, <1>3, <1>4 DEF LogKept, Fitting
  <1>5. CASE LogExtended
    <2>1. PICK op : Fitting(op) /\ log' = Append(log, op) /\ late' = {}
      BY <1>5 DEF LogExtended
    <2>2. op \in EdgeOps /\ op \in Shape
      BY <1>0, <2>1, OpsShaped DEF Fitting
    <2>3. /\ log' \in Seq(Shape) /\ Len(log') = Len(log) + 1 /\ log'[Len(log) + 1] = op
          /\ \A i \in 1..Len(log) : log'[i] = log[i]
      BY <1>0, <2>1, <2>2, AppendProperties
    <2>4. \A i \in 1..Len(log') : i \in 1..Len(log) \/ i = Len(log) + 1
      BY <1>0, <2>3
    <2> QED BY <1>0, <1>2, <1>3, <2>1, <2>2, <2>3, <2>4
  <1> QED BY <1>4, <1>5, LogStep

\* Every step keeps the log's order, and settles what it passes over.
LEMMA LogGrows ==
    ASSUME EdgeInv, Typed', [Next]_vars
    PROVE  Grown /\ LogInv' /\ LateInv' /\ ConsumedOnce' /\ NothingLost'
  <1>0. Typed /\ LogInv /\ LateInv /\ ConsumedOnce /\ NothingLost /\ LogPoint \in Nat
    BY PointIn, Types DEF EdgeInv
  <1>1. /\ dHead \in Nat /\ dHead' \in Nat /\ dHead <= dHead' /\ dPurge \in Int
        /\ dPurge' \in Int /\ dPurge <= dPurge' /\ decided \subseteq decided'
    BY <1>0, LogStep, Types
  <1>2. CASE LogKept
    <2>1. log' = log /\ LogPoint' = LogPoint /\ Consumed' = Consumed
      BY <1>2 DEF LogKept, LogPoint, Base, Consumed
    <2>2. Grown
      BY <1>0, <1>1, <2>1 DEF Grown
    <2>3. LogInv' /\ ConsumedOnce'
      BY <1>0, <2>1 DEF LogInv, ConsumedOnce
    <2>4. NothingLost'
      <3>1. SettledTo(LogPoint)
        BY <1>0 DEF NothingLost, SettledTo, Settled, LogPoint
      <3>2. \A t : t = LogPoint' => SettledTo(t)'
        BY <1>0, <2>1, <2>2, <3>1, StaysSettled
      <3> QED BY <3>2 DEF NothingLost, SettledTo, Settled, LogPoint
    <2>5. LateInv'
      <3>1. \A op : Fits(Len(log), op)' <=> Fits(Len(log), op)
        BY <2>1 DEF Fits, SetAfter
      <3>2. \A op \in late' : Accounts(op) /\ Fits(Len(log), op)
        BY <1>0, <1>2 DEF LogKept, Fitting, LateInv
      <3> QED BY <1>0, <2>2, <3>1, <3>2, StaysSettled DEF LateInv
    <2> QED BY <2>2, <2>3, <2>4, <2>5
  <1>3. CASE LogExtended /\ UNCHANGED <<dHead, dPurge, decided>>
    <2>1. PICK op : Fitting(op) /\ log' = Append(log, op) /\ late' = {}
      BY <1>3 DEF LogExtended
    <2>2. op \in Shape /\ Accounts(op) /\ Fits(Len(log), op)
      BY <1>0, <2>1, OpsShaped DEF Fitting
    <2>3. Grown /\ LogInv' /\ ConsumedOnce' /\ NothingLost'
      BY <1>0, <1>3, <2>1, <2>2, Landed
    <2> QED BY <2>1, <2>3 DEF LateInv
  <1> QED BY <1>2, <1>3, LogStep

-----------------------------------------------------------------------------
(* Every step keeps the types.                                             *)

\* What a writer's append does to its own state.
LEMMA WriterTyped ==
    ASSUME EdgeInv, NEW c \in Consumers, NEW op \in EdgeOps, Commits(c, op) \/ Unknown(c, op)
    PROVE  /\ head' \in [Consumers -> 0..Len(log')] /\ pend' \in [Consumers -> Shape]
           /\ \A v \in Consumers : pend'[v] \in EdgeOps
           /\ faults' \in 0..MaxFaults
  <1>0. /\ Typed /\ log \in Seq(Shape) /\ Len(log) \in Nat /\ head \in [Consumers -> 0..Len(log)]
        /\ pend \in [Consumers -> Shape] /\ faults \in 0..MaxFaults /\ MaxFaults \in Nat /\ op \in Shape
        /\ \A v \in Consumers : pend[v] \in EdgeOps
    BY Types, OpsShaped, EdgeIngestAssumption DEF EdgeInv, Typed, TypeOK
  <1>1. \A x \in EdgeOps : x \in Shape =>
            /\ [pend EXCEPT ![c] = x] \in [Consumers -> Shape]
            /\ \A v \in Consumers : [pend EXCEPT ![c] = x][v] \in EdgeOps
    BY <1>0
  <1>2. CASE Lands(c, op)
    <2>1. Len(log') = Len(log) + 1
      BY <1>0, <1>2, AppendProperties DEF Lands
    <2>2. head' = [head EXCEPT ![c] = @ + 1] /\ pend' = [pend EXCEPT ![c] = NoOp] /\ faults' = faults
      BY <1>2 DEF Lands
    <2>3. head' \in [Consumers -> 0..Len(log')]
      BY <1>0, <2>1, <2>2
    <2> QED BY <1>0, <1>1, <2>2, <2>3, OpTypes
  <1>3. CASE Adopts(c, op)
    <2>1. head' = [head EXCEPT ![c] = @ + 1] /\ pend' = [pend EXCEPT ![c] = NoOp] /\ faults' = faults
          /\ log' = log /\ head[c] < Len(log)
      BY <1>3 DEF Adopts, partLog
    <2>2. head' \in [Consumers -> 0..Len(log')]
      BY <1>0, <2>1
    <2> QED BY <1>0, <1>1, <2>1, <2>2, OpTypes
  <1>4. CASE Unknown(c, op)
    <2>1. head' = head /\ log' = log /\ pend' = [pend EXCEPT ![c] = op] /\ faults' = faults + 1 /\ faults < MaxFaults
      BY <1>4 DEF Unknown, Fault
    <2> QED BY <1>0, <1>1, <2>1
  <1> QED BY <1>2, <1>3, <1>4 DEF Commits

\* The steps of the DO and of requests in flight.
LEMMA DoTyped ==
    ASSUME EdgeInv, [Next]_vars,
           \/ Receive \/ SwitchMode \/ Purge \/ UNCHANGED vars
           \/ \E r \in strays : StrayCommit(r)
           \/ \E op \in late : LateLand(op)
    PROVE  Typed'
  <1>0. Typed /\ dHead \in Nat /\ dCommitted \in 0..dHead /\ MaxSeg \in Nat
    BY Types, EdgeIngestAssumption DEF EdgeInv
  <1>1. /\ log' \in Seq(Shape) /\ Len(log) <= Len(log') /\ Len(log') \in Nat /\ late' \subseteq EdgeOps'
        /\ \A i \in 1..Len(log') : log'[i] \in EdgeOps'
    BY LogTyped
  <1>2. dHead' \in Nat /\ dHead <= dHead'
    BY LogStep
  <1>3. Points \subseteq Points' /\ EdgeOps \subseteq EdgeOps'
    BY <1>0, <1>2, TypesGrow
  <1>4. 0..dHead \subseteq 0..dHead' /\ 1..dHead \subseteq 1..dHead'
    BY <1>0, <1>2
  <1>5. UNCHANGED <<phase, lease, through, lastPulled, pulled, skipped, issued, floor, point, head, pend, faults, decided>>
    BY DEF Receive, SwitchMode, Purge, StrayCommit, LateLand, vars, window, writer
  <1>6. /\ dHead' \in 0..MaxSeg /\ dCommitted' \in 0..dHead' /\ dPurge' \in Points'
        /\ dEpoch' \in 0..MaxLeases /\ dMode' \in {"do", "drain"}
        /\ strays' \subseteq [epoch : 1..MaxLeases, through : 0..dHead']
    <2>0. /\ dHead \in 0..MaxSeg /\ dPurge \in Points /\ dEpoch \in 0..MaxLeases /\ dMode \in {"do", "drain"}
          /\ strays \subseteq [epoch : 1..MaxLeases, through : 0..dHead]
      BY <1>0 DEF Typed, TypeOK
    <2>1. CASE Receive
      <3>1. strays' \subseteq [epoch : 1..MaxLeases, through : 0..dHead']
        BY <1>4, <2>0, <2>1 DEF Receive
      <3>2. dPurge' \in Points'
        BY <1>3, <2>0, <2>1 DEF Receive
      <3> QED BY <1>0, <2>0, <2>1, <3>1, <3>2 DEF Receive
    <2>2. CASE SwitchMode \/ UNCHANGED vars \/ \E op \in late : LateLand(op)
      BY <1>0, <2>0, <2>2 DEF SwitchMode, vars, LateLand, do, Points
    <2>3. CASE Purge
      <3>1. dPurge' \in Points' /\ dCommitted' \in 0..dHead'
        BY <1>0, <2>3 DEF Purge, Points
      <3> QED BY <2>0, <2>3, <3>1 DEF Purge
    <2>4. ASSUME NEW r \in strays, StrayCommit(r)
          PROVE  /\ dHead' \in 0..MaxSeg /\ dCommitted' \in 0..dHead' /\ dPurge' \in Points'
                 /\ dEpoch' \in 0..MaxLeases /\ dMode' \in {"do", "drain"}
                 /\ strays' \subseteq [epoch : 1..MaxLeases, through : 0..dHead']
      <3>1. r.through \in 0..dHead
        BY <2>0
      <3> QED BY <1>0, <2>0, <2>4, <3>1 DEF StrayCommit, Points
    <2> QED BY <2>1, <2>2, <2>3, <2>4
  <1>7. /\ phase' \in [Consumers -> Phases] /\ lease' \in [Consumers -> 0..MaxLeases]
        /\ through' \in [Consumers -> 0..dHead'] /\ lastPulled' \in [Consumers -> 0..dHead']
        /\ pulled' \in [Consumers -> SUBSET (1..dHead')] /\ skipped' \in [Consumers -> SUBSET (1..dHead')]
        /\ floor' \in [Consumers -> Points'] /\ point' \in [Consumers -> Points']
    BY <1>0, <1>3, <1>4, <1>5 DEF Typed, TypeOK
  <1>8. /\ head' \in [Consumers -> 0..Len(log')]
        /\ \A c \in Consumers : pend'[c] \in EdgeOps'
        /\ \A c \in Consumers : \A i \in 1..Len(issued'[c]) : issued'[c][i].op \in EdgeOps'
        /\ faults' \in 0..MaxFaults /\ decided' \subseteq 1..dHead'
    <2>1. 0..Len(log) \subseteq 0..Len(log')
      BY <1>0, <1>1, Types
    <2> QED BY <1>0, <1>3, <1>4, <1>5, <2>1 DEF Typed, TypeOK
  <1>9. issued' \in [Consumers -> Seq(Flush)] /\ pend' \in [Consumers -> Shape]
    BY <1>0, <1>5 DEF Typed
  <1> QED BY <1>1, <1>6, <1>7, <1>8, <1>9 DEF Typed, TypeOK

\* A consumer's flushes after one of its steps.
LEMMA IssuedTyped ==
    ASSUME EdgeInv, NEW c \in Consumers,
           \/ \E S \in SUBSET pulled[c] : RangeForFlush(c, S)
           \/ CommitAdd(c) \/ Ack(c)
    PROVE  /\ issued' \in [Consumers -> Seq(Flush)]
           /\ \A v \in Consumers : v # c => issued'[v] = issued[v]
           /\ \A i \in 1..Len(issued'[c]) :
                \/ \E j \in 1..Len(issued[c]) : issued'[c][i] = issued[c][j]
                \/ /\ issued'[c][i] \in Flush /\ issued'[c][i].op \in EdgeOps
                   /\ Accounts(issued'[c][i].op) /\ issued'[c][i].op.kind = "add"
                   /\ issued'[c][i].added => /\ issued[c] # << >> /\ issued'[c][i].op = Oldest(c).op
                                             /\ Commits(c, Oldest(c).op)
  <1>0. Typed /\ issued \in [Consumers -> Seq(Flush)] /\ issued[c] \in Seq(Flush)
    BY DEF EdgeInv, Typed
  <1>1. CASE \E S \in SUBSET pulled[c] : RangeForFlush(c, S)
    <2>1. PICK op \in EdgeOps : /\ Accounts(op) /\ op.kind = "add"
                                /\ issued' = [issued EXCEPT ![c] = Append(@, [op |-> op, added |-> FALSE])]
      BY <1>1, RangeAccounts
    <2> DEFINE x == [op |-> op, added |-> FALSE]
    <2>2. x \in Flush /\ x.op = op /\ ~x.added
      BY <1>0, OpsShaped DEF Flush
    <2>3. issued'[c] = Append(issued[c], x) /\ \A v \in Consumers : v # c => issued'[v] = issued[v]
      BY <1>0, <2>1
    <2> HIDE DEF x
    <2>4. /\ Append(issued[c], x) \in Seq(Flush)
          /\ \A i \in 1..Len(Append(issued[c], x)) :
                Append(issued[c], x)[i] = x \/ \E j \in 1..Len(issued[c]) : Append(issued[c], x)[i] = issued[c][j]
      BY <1>0, <2>2, FlushSeqs
    <2>5. issued' \in [Consumers -> Seq(Flush)]
      BY <1>0, <2>1, <2>4 DEF x
    <2>6. ASSUME NEW i \in 1..Len(issued'[c])
          PROVE  issued'[c][i] = x \/ \E j \in 1..Len(issued[c]) : issued'[c][i] = issued[c][j]
      BY <2>3, <2>4
    <2>7. ASSUME NEW y, y = x
          PROVE  y \in Flush /\ y.op \in EdgeOps /\ Accounts(y.op) /\ y.op.kind = "add" /\ ~y.added
      BY <2>1, <2>2, <2>7
    <2> QED BY <2>3, <2>5, <2>6, <2>7, Zenon
  <1>2. CASE CommitAdd(c) /\ UNCHANGED issued
    BY <1>0, <1>2
  <1>3. CASE CommitAdd(c) /\ ~UNCHANGED issued
    <2> DEFINE x == [op |-> Oldest(c).op, added |-> TRUE]
               q == <<x>> \o Tail(issued[c])
    <2>1. issued[c] # << >> /\ issued' = [issued EXCEPT ![c] = q] /\ Commits(c, Oldest(c).op)
      BY <1>3 DEF CommitAdd
    <2>2. x \in Flush /\ x.op = Oldest(c).op /\ Oldest(c).op \in EdgeOps /\ Accounts(Oldest(c).op)
          /\ Oldest(c).op.kind = "add"
      BY <2>1, OldestIn DEF Flush
    <2> HIDE DEF x
    <2>3. /\ q \in Seq(Flush)
          /\ \A i \in 1..Len(q) : q[i] = x \/ \E j \in 1..Len(issued[c]) : q[i] = issued[c][j]
      BY <1>0, <2>1, <2>2, FlushSeqs
    <2> HIDE DEF q
    <2>4. issued'[c] = q /\ (\A v \in Consumers : v # c => issued'[v] = issued[v])
          /\ issued' \in [Consumers -> Seq(Flush)]
      BY <1>0, <2>1, <2>3
    <2> QED BY <2>1, <2>2, <2>3, <2>4
  <1>4. CASE Ack(c)
    <2>1. issued[c] # << >> /\ (issued' = issued \/ issued' = [issued EXCEPT ![c] = Tail(issued[c])])
      BY <1>4 DEF Ack, window
    <2>2. \A x \in Flush : /\ Tail(issued[c]) \in Seq(Flush)
                           /\ \A i \in 1..Len(Tail(issued[c])) :
                                \E j \in 1..Len(issued[c]) : Tail(issued[c])[i] = issued[c][j]
      BY <1>0, <2>1, FlushSeqs
    <2>3. Oldest(c) \in Flush
      BY <2>1, OldestIn
    <2> QED BY <1>0, <2>1, <2>2, <2>3
  <1> QED BY <1>1, <1>2, <1>3, <1>4

\* The steps of a consumer.
LEMMA TurnTyped ==
    ASSUME EdgeInv, [Next]_vars, NEW c \in Consumers, Turn(c) \/ Crash(c)
    PROVE  Typed'
  <1>0. /\ Typed /\ TypeOK /\ dHead \in Nat /\ dCommitted \in 0..dHead /\ MaxLeases \in Nat /\ dEpoch \in Nat
        /\ ConsumerOK(c) /\ LogPoint \in 0..dHead /\ through[c] \in 0..dHead /\ lastPulled[c] \in 0..dHead
        /\ Len(log) \in Nat /\ MaxFaults \in Nat /\ NoPoint \in Points
    BY Types, PointIn, EdgeIngestAssumption DEF EdgeInv, ConsumerInv, Typed, Points
  <1>1. /\ log' \in Seq(Shape) /\ Len(log) <= Len(log') /\ Len(log') \in Nat /\ late' \subseteq EdgeOps'
        /\ \A i \in 1..Len(log') : log'[i] \in EdgeOps'
    BY LogTyped
  <1>2. UNCHANGED <<dHead, dMode, dPurge>>
    BY DEF Turn, LoadPoint, TakeLease, Reconcile, OpenWriter, Pull, AckSkipped, RangeForFlush, Settle, CommitAdd, Ack,
           AppendFloor, FloorAppended, EndDue, AppendEnd, GiveUp, Crash, Restart, do
  <1>3. Points' = Points /\ EdgeOps' = EdgeOps /\ 0..dHead \subseteq Points
    BY <1>2 DEF Points, EdgeOps
  <1>4. /\ dEpoch' \in 0..MaxLeases /\ dCommitted' \in 0..dHead
        /\ strays' \subseteq [epoch : 1..MaxLeases, through : 0..dHead]
    <2>1. CASE TakeLease(c)
      BY <1>0, <2>1 DEF TakeLease, TypeOK
    <2>2. CASE Reconcile(c)
      BY <1>0, <2>2 DEF Reconcile, TypeOK
    <2>3. CASE Ack(c)
      <3>1. Oldest(c).op.through \in 0..dHead /\ lease[c] \in 1..MaxLeases
        BY <1>0, <2>3, OldestIn, Types DEF Ack, ConsumerOK
      <3>2. [epoch |-> lease[c], through |-> Oldest(c).op.through] \in [epoch : 1..MaxLeases, through : 0..dHead]
        BY <3>1
      <3> QED BY <1>0, <2>3, <3>1, <3>2 DEF Ack, TypeOK
    <2>4. CASE FloorAppended(c)
      <3>1. point[c] \in 0..dHead /\ lease[c] \in 1..MaxLeases
        BY <1>0, <2>4, Types DEF FloorAppended, ConsumerOK
      <3>2. [epoch |-> lease[c], through |-> point[c]] \in [epoch : 1..MaxLeases, through : 0..dHead]
        BY <3>1
      <3> QED BY <1>0, <2>4, <3>1, <3>2 DEF FloorAppended, TypeOK
    <2>5. CASE Crash(c)
      <3>1. CASE phase[c] = "reconciling"
        <4>1. lease[c] \in 1..MaxLeases
          BY <1>0, <3>1, Types DEF ConsumerOK
        <4>2. [epoch |-> lease[c], through |-> through[c]] \in [epoch : 1..MaxLeases, through : 0..dHead]
          BY <1>0, <4>1
        <4> QED BY <1>0, <2>5, <4>2 DEF Crash, Restart, TypeOK
      <3>2. CASE phase[c] # "reconciling"
        BY <1>0, <2>5, <3>2 DEF Crash, Restart, TypeOK
      <3> QED BY <3>1, <3>2
    <2>6. CASE UNCHANGED <<dEpoch, dCommitted, strays>>
      BY <1>0, <2>6 DEF TypeOK
    <2>7. ASSUME \/ LoadPoint(c) \/ OpenWriter(c) \/ Pull(c)
                 \/ \E s \in pulled[c] : AckSkipped(c, s)
                 \/ \E S \in SUBSET pulled[c] : RangeForFlush(c, S)
                 \/ Settle(c) \/ CommitAdd(c) \/ AppendFloor(c) \/ EndDue(c) \/ AppendEnd(c) \/ GiveUp(c)
          PROVE  UNCHANGED <<dEpoch, dCommitted, strays>>
      BY <2>7 DEF LoadPoint, OpenWriter, Pull, AckSkipped, RangeForFlush, Settle, CommitAdd, AppendFloor, EndDue,
                  AppendEnd, GiveUp, Restart, do
    <2> QED BY <2>1, <2>2, <2>3, <2>4, <2>5, <2>6, <2>7 DEF Turn
  <1>5. /\ phase' \in [Consumers -> Phases] /\ lease' \in [Consumers -> 0..MaxLeases]
        /\ floor' \in [Consumers -> Points] /\ point' \in [Consumers -> Points]
    <2>1. CASE TakeLease(c)
      <3>1. dCommitted \in Points /\ dEpoch + 1 \in 0..MaxLeases
        BY <1>0, <1>3, <2>1 DEF TakeLease
      <3>2. phase' \in [Consumers -> Phases]
        BY <1>0, <2>1 DEF TakeLease, TypeOK, Phases
      <3>3. floor' \in [Consumers -> Points]
        BY <1>0, <2>1, <3>1 DEF TakeLease, TypeOK
      <3> QED BY <1>0, <2>1, <3>1, <3>2, <3>3 DEF TakeLease, TypeOK
    <2>2. CASE LoadPoint(c) \/ Reconcile(c) \/ OpenWriter(c)
      BY <1>0, <2>2 DEF LoadPoint, Reconcile, OpenWriter, TypeOK, Phases
    <2>3. CASE GiveUp(c) \/ Crash(c)
      <3>1. /\ phase' = [phase EXCEPT ![c] = "down"] /\ lease' = [lease EXCEPT ![c] = 0]
            /\ floor' = [floor EXCEPT ![c] = NoPoint] /\ point' = [point EXCEPT ![c] = NoPoint]
        BY <2>3 DEF GiveUp, Crash, Restart
      <3>2. phase' \in [Consumers -> Phases] /\ lease' \in [Consumers -> 0..MaxLeases]
        BY <1>0, <3>1 DEF TypeOK, Phases
      <3> QED BY <1>0, <3>1, <3>2 DEF TypeOK
    <2>4. CASE AppendFloor(c)
      <3>1. FloorDue(c) \in Points
        BY <1>3, <2>4, FloorAccounts DEF AppendFloor
      <3> QED BY <1>0, <2>4, <3>1 DEF AppendFloor, TypeOK, Phases
    <2>5. CASE FloorAppended(c) \/ AppendEnd(c)
      BY <1>0, <2>5 DEF FloorAppended, AppendEnd, TypeOK, Phases
    <2>6. CASE EndDue(c)
      <3>1. through[c] \in Points
        BY <1>0, <1>3
      <3> QED BY <1>0, <2>6, <3>1 DEF EndDue, TypeOK, Phases
    <2>7. CASE UNCHANGED <<phase, lease, floor, point>>
      BY <1>0, <2>7 DEF TypeOK
    <2>8. ASSUME \/ Pull(c) \/ Settle(c) \/ CommitAdd(c) \/ Ack(c)
                 \/ \E s \in pulled[c] : AckSkipped(c, s)
                 \/ \E S \in SUBSET pulled[c] : RangeForFlush(c, S)
          PROVE  UNCHANGED <<phase, lease, floor, point>>
      BY <2>8 DEF Pull, Settle, CommitAdd, Ack, AckSkipped, RangeForFlush
    <2> QED BY <2>1, <2>2, <2>3, <2>4, <2>5, <2>6, <2>7, <2>8 DEF Turn
  <1>6. /\ through' \in [Consumers -> 0..dHead] /\ lastPulled' \in [Consumers -> 0..dHead]
        /\ pulled' \in [Consumers -> SUBSET (1..dHead)] /\ skipped' \in [Consumers -> SUBSET (1..dHead)]
    <2>0. /\ through \in [Consumers -> 0..dHead] /\ lastPulled \in [Consumers -> 0..dHead]
          /\ pulled \in [Consumers -> SUBSET (1..dHead)] /\ skipped \in [Consumers -> SUBSET (1..dHead)]
      BY <1>0 DEF TypeOK
    <2>1. CASE LoadPoint(c) \/ TakeLease(c)
      <3>1. CASE LoadPoint(c)
        BY <1>0, <2>0, <3>1 DEF LoadPoint, LogPoint
      <3>2. CASE TakeLease(c)
        <4>1. through' \in [Consumers -> 0..dHead]
          BY <1>0, <2>0, <3>2 DEF TakeLease
        <4>2. lastPulled' \in [Consumers -> 0..dHead]
          BY <1>0, <2>0, <3>2 DEF TakeLease
        <4> QED BY <2>0, <3>2, <4>1, <4>2 DEF TakeLease
      <3> QED BY <2>1, <3>1, <3>2
    <2>2. CASE Pull(c)
      <3>1. lastPulled[c] + 1 \in 1..dHead
        BY <1>0, <2>2 DEF Pull
      <3> QED BY <1>0, <2>2, <3>1 DEF Pull, TypeOK
    <2>3. CASE \E s \in pulled[c] : AckSkipped(c, s)
      BY <1>0, <2>3 DEF AckSkipped, TypeOK
    <2>4. ASSUME NEW t \in 0..dHead, Forget(c, t)
          PROVE  /\ through' \in [Consumers -> 0..dHead] /\ lastPulled' \in [Consumers -> 0..dHead]
                 /\ pulled' \in [Consumers -> SUBSET (1..dHead)] /\ skipped' \in [Consumers -> SUBSET (1..dHead)]
      BY <1>0, <2>4 DEF Forget, TypeOK
    <2>5. CASE Ack(c)
      <3>1. Oldest(c).op.through \in 0..dHead
        BY <2>5, OldestIn DEF Ack
      <3> QED BY <1>0, <2>4, <2>5, <3>1 DEF Ack, TypeOK, window
    <2>6. CASE FloorAppended(c)
      <3>1. point[c] \in 0..dHead
        BY <1>0, <2>6 DEF FloorAppended, ConsumerOK
      <3> QED BY <1>0, <2>4, <2>6, <3>1 DEF FloorAppended, TypeOK, window
    <2>7. CASE GiveUp(c) \/ Crash(c)
      <3>1. /\ through' = [through EXCEPT ![c] = 0] /\ lastPulled' = [lastPulled EXCEPT ![c] = 0]
            /\ pulled' = [pulled EXCEPT ![c] = {}] /\ skipped' = [skipped EXCEPT ![c] = {}]
        BY <2>7 DEF GiveUp, Crash, Restart
      <3> QED BY <1>0, <2>0, <3>1
    <2>8. CASE UNCHANGED <<through, lastPulled, pulled, skipped>>
      BY <1>0, <2>8 DEF TypeOK
    <2>9. ASSUME \/ Reconcile(c) \/ OpenWriter(c) \/ Settle(c) \/ CommitAdd(c) \/ AppendFloor(c) \/ EndDue(c)
                 \/ AppendEnd(c) \/ \E S \in SUBSET pulled[c] : RangeForFlush(c, S)
          PROVE  UNCHANGED <<through, lastPulled, pulled, skipped>>
      BY <2>9 DEF Reconcile, OpenWriter, Settle, CommitAdd, AppendFloor, EndDue, AppendEnd, RangeForFlush, window
    <2> QED BY <2>1, <2>2, <2>3, <2>5, <2>6, <2>7, <2>8, <2>9 DEF Turn
  <1>7. /\ issued' \in [Consumers -> Seq(Flush)]
        /\ \A v \in Consumers : \A i \in 1..Len(issued'[v]) : issued'[v][i].op \in EdgeOps
    <2>1. CASE UNCHANGED issued
      BY <1>0, <2>1 DEF Typed, TypeOK
    <2>2. CASE (\E S \in SUBSET pulled[c] : RangeForFlush(c, S)) \/ CommitAdd(c) \/ Ack(c)
      <3>1. /\ issued' \in [Consumers -> Seq(Flush)]
            /\ \A v \in Consumers : v # c => issued'[v] = issued[v]
            /\ \A i \in 1..Len(issued'[c]) : \/ \E j \in 1..Len(issued[c]) : issued'[c][i] = issued[c][j]
                                             \/ issued'[c][i].op \in EdgeOps
        BY <2>2, IssuedTyped
      <3>2. \A v \in Consumers : \A i \in 1..Len(issued[v]) : issued[v][i].op \in EdgeOps
        BY <1>0 DEF TypeOK
      <3> QED BY <3>1, <3>2
    <2>3. CASE GiveUp(c) \/ Crash(c)
      <3>1. issued' = [issued EXCEPT ![c] = << >>]
        BY <2>3 DEF GiveUp, Crash, Restart
      <3>2. << >> \in Seq(Flush) /\ Len(<< >>) = 0
        BY EmptySeq
      <3>3. issued' \in [Consumers -> Seq(Flush)] /\ issued'[c] = << >>
            /\ \A v \in Consumers : v # c => issued'[v] = issued[v]
        BY <1>0, <3>1, <3>2 DEF Typed
      <3>4. \A v \in Consumers : \A i \in 1..Len(issued[v]) : issued[v][i].op \in EdgeOps
        BY <1>0 DEF TypeOK
      <3>5. 1..Len(issued'[c]) = {}
        BY <3>2, <3>3
      <3> QED BY <3>3, <3>4, <3>5
    <2>4. ASSUME \/ LoadPoint(c) \/ TakeLease(c) \/ Reconcile(c) \/ OpenWriter(c) \/ Pull(c)
                 \/ \E s \in pulled[c] : AckSkipped(c, s)
                 \/ Settle(c) \/ AppendFloor(c) \/ FloorAppended(c) \/ EndDue(c) \/ AppendEnd(c)
          PROVE  UNCHANGED issued
      BY <2>4 DEF LoadPoint, TakeLease, Reconcile, OpenWriter, Pull, AckSkipped, Settle, AppendFloor, FloorAppended,
                  EndDue, AppendEnd, window
    <2> QED BY <2>1, <2>2, <2>3, <2>4 DEF Turn
  <1>8. /\ head' \in [Consumers -> 0..Len(log')] /\ pend' \in [Consumers -> Shape]
        /\ \A v \in Consumers : pend'[v] \in EdgeOps
        /\ faults' \in 0..MaxFaults
    <2>0. /\ head \in [Consumers -> 0..Len(log)] /\ pend \in [Consumers -> Shape]
          /\ \A v \in Consumers : pend[v] \in EdgeOps
          /\ faults \in 0..MaxFaults /\ 0..Len(log) \subseteq 0..Len(log')
      BY <1>0, <1>1 DEF Typed, TypeOK
    <2>1. CASE CommitAdd(c)
      BY <2>1, OldestIn, WriterTyped DEF CommitAdd
    <2>2. CASE AppendFloor(c)
      BY <2>2, FloorAccounts, WriterTyped DEF AppendFloor
    <2>3. CASE AppendEnd(c)
      BY <2>3, EndAccounts, WriterTyped DEF AppendEnd
    <2>4. CASE Settle(c)
      BY <2>0, <2>4, WriterTyped DEF Settle, Commits
    <2>5. CASE OpenWriter(c)
      BY <1>0, <1>1, <2>0, <2>5 DEF OpenWriter, partLog
    <2>6. CASE GiveUp(c) \/ Crash(c)
      <3>1. head' \in [Consumers -> 0..Len(log')]
        BY <1>1, <2>0, <2>6 DEF GiveUp, Crash, Restart
      <3>2. pend' = [pend EXCEPT ![c] = NoOp]
        BY <2>6 DEF GiveUp, Crash, Restart
      <3>3. faults' \in 0..MaxFaults
        BY <1>0, <2>0, <2>6 DEF GiveUp, Crash, Fault
      <3>4. pend' \in [Consumers -> Shape] /\ \A v \in Consumers : pend'[v] \in EdgeOps
        BY <2>0, <3>2, OpTypes
      <3> QED BY <3>1, <3>3, <3>4
    <2>7. CASE Ack(c) \/ FloorAppended(c)
      <3>1. faults' \in 0..MaxFaults
        BY <1>0, <2>0, <2>7 DEF Ack, FloorAppended, Fault
      <3> QED BY <2>0, <2>7, <3>1 DEF Ack, FloorAppended, writer
    <2>8. CASE UNCHANGED <<head, pend, faults>>
      BY <2>0, <2>8
    <2>9. ASSUME \/ LoadPoint(c) \/ TakeLease(c) \/ Reconcile(c) \/ Pull(c) \/ EndDue(c)
                 \/ \E s \in pulled[c] : AckSkipped(c, s)
                 \/ \E S \in SUBSET pulled[c] : RangeForFlush(c, S)
          PROVE  UNCHANGED <<head, pend, faults>>
      BY <2>9 DEF LoadPoint, TakeLease, Reconcile, Pull, EndDue, AckSkipped, RangeForFlush, writer
    <2> QED BY <2>1, <2>2, <2>3, <2>4, <2>5, <2>6, <2>7, <2>8, <2>9 DEF Turn
  <1>9. decided' \subseteq 1..dHead
    <2>1. CASE \E s \in pulled[c] : AckSkipped(c, s)
      BY <1>0, <2>1 DEF AckSkipped, TypeOK
    <2>2. CASE UNCHANGED decided
      BY <1>0, <2>2 DEF TypeOK
    <2>3. ASSUME ~\E s \in pulled[c] : AckSkipped(c, s) PROVE UNCHANGED decided
      BY <2>3 DEF Turn, LoadPoint, TakeLease, Reconcile, OpenWriter, Pull, RangeForFlush, Settle, CommitAdd, Ack,
             AppendFloor, FloorAppended, EndDue, AppendEnd, GiveUp, Crash, Restart
    <2> QED BY <2>1, <2>2, <2>3
  <1>10. dHead' \in 0..MaxSeg /\ dMode' \in {"do", "drain"} /\ dPurge' \in Points
    BY <1>0, <1>2 DEF TypeOK
  <1>11. dHead' = dHead
    BY <1>2
  <1> QED BY <1>1, <1>3, <1>4, <1>5, <1>6, <1>7, <1>8, <1>9, <1>10, <1>11 DEF Typed, TypeOK

\* Every step keeps the types.
LEMMA TypedNext == ASSUME EdgeInv, [Next]_vars PROVE Typed'
  BY DoTyped, TurnTyped DEF Next

-----------------------------------------------------------------------------
(* The consumers.                                                          *)

\* What was committed to the log is at or below its point.
LEMMA CommitsReached ==
    ASSUME EdgeInv, NEW c \in Consumers, NEW op \in EdgeOps, Commits(c, op)
    PROVE  op.through <= LogPoint'
  <1>0. Typed /\ LogInv /\ log \in Seq(Shape) /\ Len(log) \in Nat /\ op \in Shape /\ LogPoint \in 0..dHead
    BY Types, OpsShaped, PointIn DEF EdgeInv, Typed
  <1>1. op.through \in Int
    BY <1>0 DEF Shape
  <1>2. CASE Lands(c, op)
    <2>1. log' = Append(log, op)
      BY <1>2 DEF Lands
    <2>2. Len(log') = Len(log) + 1 /\ log'[Len(log) + 1] = op
      BY <1>0, <2>1, AppendProperties
    <2>3. Len(log') # 0 /\ log'[Len(log')].through = op.through
      BY <1>0, <2>2
    <2>4. LogPoint' = op.through
      BY <2>3 DEF LogPoint, Base
    <2> QED BY <1>1, <2>4
  <1>3. CASE Adopts(c, op)
    <2>1. head[c] < Len(log) /\ log[head[c] + 1] = op /\ log' = log
      BY <1>3 DEF Adopts, partLog
    <2>2. head[c] + 1 \in 1..Len(log)
      BY <1>0, <2>1, Types
    <2>3. op.through \in 0..LogPoint
      BY <1>0, <2>1, <2>2 DEF LogInv
    <2>4. LogPoint' = LogPoint
      BY <2>1 DEF LogPoint, Base
    <2> QED BY <1>0, <2>3, <2>4
  <1> QED BY <1>2, <1>3 DEF Commits

\* Consumer c's own state.
Own(c) == <<phase[c], lease[c], through[c], skipped[c], floor[c], point[c], issued[c]>>

\* A consumer's state matters only to itself.
LEMMA OthersIdle ==
    ASSUME EdgeInv, NEW c \in Consumers, Turn(c) \/ Crash(c), NEW v \in Consumers, v # c
    PROVE  UNCHANGED Own(v)
  <1>0. /\ DOMAIN phase = Consumers /\ DOMAIN lease = Consumers /\ DOMAIN through = Consumers
        /\ DOMAIN skipped = Consumers /\ DOMAIN floor = Consumers /\ DOMAIN point = Consumers
        /\ DOMAIN issued = Consumers
    BY DEF EdgeInv, Typed, TypeOK
  <1>1. phase'[v] = phase[v]
    BY <1>0 DEF Turn, LoadPoint, TakeLease, Reconcile, OpenWriter, Pull, AckSkipped, RangeForFlush, Settle, CommitAdd,
           Ack, AppendFloor, FloorAppended, EndDue, AppendEnd, GiveUp, Crash, Restart
  <1>2. lease'[v] = lease[v]
    BY <1>0 DEF Turn, LoadPoint, TakeLease, Reconcile, OpenWriter, Pull, AckSkipped, RangeForFlush, Settle, CommitAdd,
           Ack, AppendFloor, FloorAppended, EndDue, AppendEnd, GiveUp, Crash, Restart
  <1>3. floor'[v] = floor[v]
    BY <1>0 DEF Turn, LoadPoint, TakeLease, Reconcile, OpenWriter, Pull, AckSkipped, RangeForFlush, Settle, CommitAdd,
           Ack, AppendFloor, FloorAppended, EndDue, AppendEnd, GiveUp, Crash, Restart
  <1>4. point'[v] = point[v]
    BY <1>0 DEF Turn, LoadPoint, TakeLease, Reconcile, OpenWriter, Pull, AckSkipped, RangeForFlush, Settle, CommitAdd,
           Ack, AppendFloor, FloorAppended, EndDue, AppendEnd, GiveUp, Crash, Restart
  <1>5. through'[v] = through[v]
    BY <1>0 DEF Turn, LoadPoint, TakeLease, Reconcile, OpenWriter, Pull, AckSkipped, RangeForFlush, Settle, CommitAdd,
           Ack, AppendFloor, FloorAppended, EndDue, AppendEnd, GiveUp, Crash, Restart, window, Forget
  <1>6. skipped'[v] = skipped[v]
    BY <1>0 DEF Turn, LoadPoint, TakeLease, Reconcile, OpenWriter, Pull, AckSkipped, RangeForFlush, Settle, CommitAdd,
           Ack, AppendFloor, FloorAppended, EndDue, AppendEnd, GiveUp, Crash, Restart, window, Forget
  <1>7. issued'[v] = issued[v]
    BY <1>0 DEF Turn, LoadPoint, TakeLease, Reconcile, OpenWriter, Pull, AckSkipped, RangeForFlush, Settle, CommitAdd,
           Ack, AppendFloor, FloorAppended, EndDue, AppendEnd, GiveUp, Crash, Restart, window, Issue
  <1> QED BY <1>1, <1>2, <1>3, <1>4, <1>5, <1>6, <1>7 DEF Own

\* The parts of ConsumerOK: where c stands, what is behind it, what it has
\* issued.
Stands(c) ==
    /\ phase[c] \notin {"down", "loaded"} => lease[c] # 0
    /\ phase[c] \in {"loaded", "reconciling"} => through[c] <= LogPoint
    /\ phase[c] = "floored" => point[c] \in 0..LogPoint
    /\ phase[c] = "ending" => point[c] # NoPoint

Behind(c) == SettledTo(through[c]) /\ skipped[c] \subseteq decided /\ floor[c] <= dPurge

Issues(c) ==
    \A i \in 1..Len(issued[c]) :
        /\ Accounts(issued[c][i].op) /\ issued[c][i].op.kind = "add"
        /\ issued[c][i].added => issued[c][i].op.through <= LogPoint

\* What a step leaves alone of consumer c still holds; a flush may be new.
LEMMA PartsKept ==
    ASSUME EdgeInv, Typed', Grown, NEW c \in Consumers
    PROVE  /\ Stands(c) /\ Behind(c) /\ Issues(c)
           /\ UNCHANGED <<phase[c], lease[c], through[c], point[c]>> => Stands(c)'
           /\ UNCHANGED <<through[c], skipped[c], floor[c]>> => Behind(c)'
           /\ (\A i \in 1..Len(issued'[c]) :
                 \/ \E j \in 1..Len(issued[c]) : issued'[c][i] = issued[c][j]
                 \/ /\ Accounts(issued'[c][i].op) /\ issued'[c][i].op.kind = "add"
                    /\ issued'[c][i].added => issued'[c][i].op.through <= LogPoint')
              => Issues(c)'
  <1>0. /\ Typed /\ LogInv /\ LogPoint \in Nat /\ dPurge \in Int /\ dPurge' \in Int /\ through[c] \in Nat
        /\ floor[c] \in Int /\ point[c] \in Int /\ dPurge <= dPurge' /\ LogPoint <= LogPoint'
    <2>1. Typed /\ LogInv
      BY DEF EdgeInv
    <2>2. LogPoint \in Nat /\ dPurge \in Int /\ through[c] \in Nat /\ floor[c] \in Points /\ point[c] \in Points
      BY <2>1, PointIn, Types
    <2>3. dHead' \in Int /\ dPurge' \in Points'
      BY EdgeIngestAssumption DEF Typed, TypeOK
    <2>4. Points \subseteq Int /\ dPurge' \in Int
      BY <2>1, <2>3, Types DEF Points, NoPoint
    <2> QED BY <2>1, <2>2, <2>4 DEF Grown
  <1>1. LogPoint' \in Int
    <2>1. Len(log') \in Nat /\ \A i \in 1..Len(log') : log'[i].through \in Int
      <3>1. log' \in Seq(Shape)
        BY DEF Typed
      <3>2. \A op \in Shape : op.through \in Int
        BY DEF Shape
      <3> QED BY <3>1, <3>2, LenProperties, ElementOfSeq
    <2> QED BY <2>1 DEF LogPoint, Base
  <1>2. Stands(c) /\ Behind(c) /\ Issues(c)
    BY DEF EdgeInv, ConsumerInv, ConsumerOK, Stands, Behind, Issues
  <1>3. ASSUME UNCHANGED <<phase[c], lease[c], through[c], point[c]>> PROVE Stands(c)'
    BY <1>0, <1>1, <1>2, <1>3 DEF Stands
  <1>4. ASSUME UNCHANGED <<through[c], skipped[c], floor[c]>> PROVE Behind(c)'
    <2>1. \A t : SettledTo(t) => SettledTo(t)'
      BY <1>0, StaysSettled
    <2>2. SettledTo(through[c])'
      BY <1>2, <1>4, <2>1 DEF Behind
    <2> QED BY <1>0, <1>2, <1>4, <2>2 DEF Behind, Grown
  <1>5. ASSUME \A i \in 1..Len(issued'[c]) :
                 \/ \E j \in 1..Len(issued[c]) : issued'[c][i] = issued[c][j]
                 \/ /\ Accounts(issued'[c][i].op) /\ issued'[c][i].op.kind = "add"
                    /\ issued'[c][i].added => issued'[c][i].op.through <= LogPoint'
        PROVE  Issues(c)'
    <2>1. \A op : Accounts(op) => Accounts(op)'
      BY <1>0, StaysSettled
    <2>2. \A op : Accounts(op) => op.through \in Int
      BY DEF Accounts
    <2>3. ASSUME NEW i \in 1..Len(issued'[c])
          PROVE  /\ Accounts(issued'[c][i].op) /\ issued'[c][i].op.kind = "add"
                 /\ issued'[c][i].added => issued'[c][i].op.through <= LogPoint'
      <3>1. CASE \E j \in 1..Len(issued[c]) : issued'[c][i] = issued[c][j]
        BY <1>0, <1>1, <1>2, <2>2, <3>1 DEF Issues
      <3> QED BY <1>5, <3>1
    <2> QED BY <2>1, <2>3 DEF Issues
  <1> QED BY <1>2, <1>3, <1>4, <1>5

\* The flushes of the consumer that takes the step.
LEMMA IssuesTurn ==
    ASSUME EdgeInv, Typed', Grown, NEW c \in Consumers, Turn(c) \/ Crash(c)
    PROVE  Issues(c)'
  <1>0. issued \in [Consumers -> Seq(Flush)]
    BY DEF EdgeInv, Typed
  <1>1. CASE UNCHANGED issued
    BY <1>1, PartsKept
  <1>2. CASE (\E S \in SUBSET pulled[c] : RangeForFlush(c, S)) \/ CommitAdd(c) \/ Ack(c)
    <2> SUFFICES ASSUME NEW i \in 1..Len(issued'[c])
                 PROVE  \/ \E j \in 1..Len(issued[c]) : issued'[c][i] = issued[c][j]
                        \/ /\ Accounts(issued'[c][i].op) /\ issued'[c][i].op.kind = "add"
                           /\ issued'[c][i].added => issued'[c][i].op.through <= LogPoint'
      BY PartsKept
    <2>1. \/ \E j \in 1..Len(issued[c]) : issued'[c][i] = issued[c][j]
          \/ /\ Accounts(issued'[c][i].op) /\ issued'[c][i].op.kind = "add"
             /\ issued'[c][i].added => /\ issued[c] # << >> /\ issued'[c][i].op = Oldest(c).op
                                       /\ Commits(c, Oldest(c).op)
      BY <1>2, IssuedTyped
    <2>2. ASSUME issued[c] # << >>, Commits(c, Oldest(c).op) PROVE Oldest(c).op.through <= LogPoint'
      BY <2>2, OldestIn, CommitsReached
    <2> QED BY <2>1, <2>2
  <1>3. CASE GiveUp(c) \/ Crash(c)
    <2>1. issued' = [issued EXCEPT ![c] = << >>]
      BY <1>3 DEF GiveUp, Crash, Restart
    <2>2. issued'[c] = << >> /\ Len(<< >>) = 0
      BY <1>0, <2>1
    <2>3. 1..Len(issued'[c]) = {}
      BY <2>2
    <2> QED BY <2>3 DEF Issues
  <1>4. ASSUME \/ LoadPoint(c) \/ TakeLease(c) \/ Reconcile(c) \/ OpenWriter(c) \/ Pull(c)
               \/ \E s \in pulled[c] : AckSkipped(c, s)
               \/ Settle(c) \/ AppendFloor(c) \/ FloorAppended(c) \/ EndDue(c) \/ AppendEnd(c)
        PROVE  UNCHANGED issued
    BY <1>4 DEF LoadPoint, TakeLease, Reconcile, OpenWriter, Pull, AckSkipped, Settle, AppendFloor, FloorAppended,
                EndDue, AppendEnd, window
  <1> QED BY <1>1, <1>2, <1>3, <1>4 DEF Turn

\* What is behind the consumer that takes the step.
LEMMA BehindTurn ==
    ASSUME EdgeInv, Typed', Grown, NothingLost', NEW c \in Consumers, Turn(c) \/ Crash(c)
    PROVE  Behind(c)'
  <1>0. /\ Typed /\ LogPoint \in Nat /\ dPurge \in Int /\ dPurge' \in Int /\ dPurge <= dPurge' /\ dPurge >= NoPoint
        /\ LogPoint <= LogPoint' /\ Behind(c) /\ through[c] \in Nat /\ decided \subseteq decided'
    <2>1. Typed /\ LogInv
      BY DEF EdgeInv
    <2>2. dHead' \in Int /\ dPurge' \in Points'
      BY EdgeIngestAssumption DEF Typed, TypeOK
    <2>3. dPurge' \in Int
      BY <2>2 DEF Points, NoPoint
    <2> QED BY <2>1, <2>3, Types, PointIn, PartsKept DEF Grown
  <1>1. /\ through \in [Consumers -> 0..dHead] /\ skipped \in [Consumers -> SUBSET (1..dHead)]
        /\ floor \in [Consumers -> Points]
    BY <1>0 DEF Typed, TypeOK
  <1>2. \A t : SettledTo(t) => SettledTo(t)'
    BY <1>0, StaysSettled
  <1>3. \A t \in Nat : t <= LogPoint => SettledTo(t)
    BY <1>0 DEF SettledTo, Settled, EdgeInv, NothingLost, LogPoint
  <1>4. \A t \in Int : t <= dPurge => SettledTo(t)
    BY <1>0 DEF SettledTo, Settled
  <1>5. SettledTo(through[c]) /\ skipped[c] \subseteq decided /\ floor[c] <= dPurge /\ floor[c] \in Int
    BY <1>0, <1>1, Types DEF Behind, Points, NoPoint
  <1>6. CASE UNCHANGED <<through[c], skipped[c], floor[c]>>
    BY <1>6, PartsKept
  <1>7. CASE LoadPoint(c)
    <2>1. through'[c] = LogPoint /\ skipped' = skipped /\ floor' = floor
      BY <1>1, <1>7 DEF LoadPoint, LogPoint
    <2>2. SettledTo(through[c])'
      BY <1>0, <1>2, <1>3, <2>1
    <2> QED BY <1>0, <1>5, <2>1, <2>2 DEF Behind
  <1>8. CASE TakeLease(c)
    <2>1. skipped' = skipped /\ (\/ through' = through /\ floor' = floor
                                 \/ through'[c] = dCommitted /\ floor'[c] = dCommitted /\ dPurge = dCommitted)
      BY <1>1, <1>8 DEF TakeLease
    <2>2. SettledTo(through[c])'
      BY <1>0, <1>2, <1>4, <1>5, <2>1
    <2> QED BY <1>0, <1>5, <2>1, <2>2 DEF Behind
  <1>9. CASE \E s \in pulled[c] : AckSkipped(c, s)
    <2>1. PICK s \in pulled[c] : AckSkipped(c, s)
      BY <1>9
    <2>2. /\ through' = through /\ floor' = floor /\ skipped'[c] = skipped[c] \cup {s} /\ decided' = decided \cup {s}
      BY <1>1, <2>1 DEF AckSkipped
    <2>3. SettledTo(through[c])'
      BY <1>2, <1>5, <2>2
    <2> QED BY <1>0, <1>5, <2>2, <2>3 DEF Behind
  <1>10. ASSUME NEW t \in Nat, t <= LogPoint, Forget(c, t), floor'[c] = floor[c] PROVE Behind(c)'
    <2>1. through'[c] = t /\ skipped'[c] \subseteq skipped[c]
      BY <1>1, <1>10 DEF Forget
    <2>2. SettledTo(through[c])'
      BY <1>2, <1>3, <1>10, <2>1
    <2> QED BY <1>0, <1>5, <1>10, <2>1, <2>2 DEF Behind
  <1>11. CASE Ack(c)
    <2> DEFINE t == Oldest(c).op.through
    <2>1. t \in Nat /\ t <= LogPoint
      BY <1>11, <1>0, Types, OldestIn DEF Ack
    <2>2. floor' = floor /\ (Forget(c, t) \/ UNCHANGED window)
      BY <1>11 DEF Ack
    <2> HIDE DEF t
    <2> QED BY <1>6, <1>10, <2>1, <2>2 DEF window
  <1>12. CASE FloorAppended(c)
    <2>1. point[c] \in Nat /\ point[c] <= LogPoint
      BY <1>0, <1>12, PartsKept DEF FloorAppended, Stands
    <2>2. \/ Forget(c, point[c]) /\ floor' = floor
          \/ UNCHANGED window /\ (floor' = floor \/ floor' = [floor EXCEPT ![c] = NoPoint])
      BY <1>12 DEF FloorAppended
    <2>3. CASE Forget(c, point[c]) /\ floor' = floor
      BY <1>10, <2>1, <2>3
    <2>4. CASE UNCHANGED window /\ floor' = floor
      BY <1>6, <2>4 DEF window
    <2>5. CASE UNCHANGED window /\ floor' = [floor EXCEPT ![c] = NoPoint]
      <3>1. through' = through /\ skipped' = skipped /\ floor'[c] = NoPoint
        BY <1>1, <2>5 DEF window
      <3>2. SettledTo(through[c])'
        BY <1>2, <1>5, <3>1
      <3> QED BY <1>0, <1>5, <3>1, <3>2 DEF Behind, NoPoint
    <2> QED BY <2>2, <2>3, <2>4, <2>5
  <1>13. CASE GiveUp(c) \/ Crash(c)
    <2>1. /\ through' = [through EXCEPT ![c] = 0] /\ skipped' = [skipped EXCEPT ![c] = {}]
          /\ floor' = [floor EXCEPT ![c] = NoPoint]
      BY <1>13 DEF GiveUp, Crash, Restart
    <2>2. through'[c] = 0 /\ skipped'[c] = {} /\ floor'[c] = NoPoint
      BY <1>1, <2>1
    <2>3. SettledTo(through[c])'
      BY <1>0, <1>2, <1>3, <2>2
    <2> QED BY <1>0, <2>2, <2>3 DEF Behind, NoPoint
  <1>14. ASSUME \/ Reconcile(c) \/ OpenWriter(c) \/ Pull(c) \/ Settle(c) \/ CommitAdd(c) \/ AppendFloor(c)
                \/ EndDue(c) \/ AppendEnd(c) \/ \E S \in SUBSET pulled[c] : RangeForFlush(c, S)
         PROVE  UNCHANGED <<through, skipped, floor>>
    BY <1>14 DEF Reconcile, OpenWriter, Pull, Settle, CommitAdd, AppendFloor, EndDue, AppendEnd, RangeForFlush, window
  <1> QED BY <1>6, <1>7, <1>8, <1>9, <1>11, <1>12, <1>13, <1>14 DEF Turn

\* Where the consumer that takes the step stands.
LEMMA StandsTurn ==
    ASSUME EdgeInv, Typed', Grown, NEW c \in Consumers, Turn(c) \/ Crash(c)
    PROVE  Stands(c)'
  <1>0. /\ Typed /\ LogPoint \in Nat /\ LogPoint' \in Int /\ LogPoint <= LogPoint' /\ Stands(c) /\ through[c] \in Nat
        /\ dEpoch \in Nat /\ point[c] \in Int
    <2>1. Typed /\ LogInv
      BY DEF EdgeInv
    <2>2. Len(log') \in Nat /\ \A i \in 1..Len(log') : log'[i].through \in Int
      <3>1. log' \in Seq(Shape)
        BY DEF Typed
      <3>2. \A op \in Shape : op.through \in Int
        BY DEF Shape
      <3> QED BY <3>1, <3>2, LenProperties, ElementOfSeq
    <2>3. LogPoint' \in Int
      BY <2>2 DEF LogPoint, Base
    <2>4. point[c] \in Int
      BY <2>1, Types DEF Points, NoPoint
    <2> QED BY <2>1, <2>3, <2>4, Types, PointIn, PartsKept DEF Grown
  <1>1. /\ through \in [Consumers -> 0..dHead] /\ phase \in [Consumers -> Phases]
        /\ lease \in [Consumers -> 0..MaxLeases] /\ point \in [Consumers -> Points]
    BY <1>0 DEF Typed, TypeOK
  <1>2. CASE UNCHANGED <<phase[c], lease[c], through[c], point[c]>>
    BY <1>2, PartsKept
  <1>3. CASE LoadPoint(c)
    <2>1. through'[c] = LogPoint /\ phase'[c] = "loaded" /\ log' = log
      BY <1>1, <1>3 DEF LoadPoint, LogPoint, partLog
    <2>2. LogPoint' = LogPoint
      BY <2>1 DEF LogPoint, Base
    <2> QED BY <1>0, <2>1, <2>2 DEF Stands
  <1>4. CASE TakeLease(c)
    <2>1. /\ lease'[c] = dEpoch + 1
          /\ phase'[c] = "leased" \/ (phase'[c] = "reconciling" /\ through' = through)
          /\ phase[c] = "loaded"
      BY <1>1, <1>4 DEF TakeLease
    <2>2. through[c] <= LogPoint
      BY <1>0, <2>1 DEF Stands
    <2> QED BY <1>0, <2>1, <2>2 DEF Stands
  <1>5. CASE Reconcile(c) \/ OpenWriter(c)
    <2>1. /\ lease' = lease /\ phase[c] \in {"reconciling", "leased"} /\ phase'[c] \in {"leased", "running"}
      BY <1>1, <1>5 DEF Reconcile, OpenWriter
    <2> QED BY <1>0, <2>1 DEF Stands
  <1>6. CASE GiveUp(c) \/ Crash(c)
    <2>1. phase'[c] = "down"
      BY <1>1, <1>6 DEF GiveUp, Crash, Restart
    <2> QED BY <2>1 DEF Stands
  <1>7. CASE AppendFloor(c)
    <2>1. CASE UNCHANGED <<phase, point>>
      BY <1>2, <1>7, <2>1 DEF AppendFloor, window
    <2>2. CASE ~UNCHANGED <<phase, point>>
      <3> DEFINE p == FloorDue(c)
      <3>1. /\ Commits(c, EdgeFloor(p)) /\ phase'[c] = "floored" /\ point'[c] = p /\ lease' = lease
            /\ phase[c] = "running" /\ p # NoPoint
        BY <1>1, <1>7, <2>2 DEF AppendFloor
      <3>2. p \in 0..dHead /\ EdgeFloor(p) \in EdgeOps
        BY <3>1, FloorAccounts
      <3>3. EdgeFloor(p).through = p
        BY DEF EdgeFloor, Op
      <3>4. p <= LogPoint'
        BY <3>1, <3>2, <3>3, CommitsReached
      <3> HIDE DEF p
      <3>5. p \in 0..LogPoint'
        BY <1>0, <3>2, <3>4
      <3> QED BY <1>0, <3>1, <3>5 DEF Stands
    <2> QED BY <2>1, <2>2
  <1>8. CASE FloorAppended(c)
    <2>1. phase'[c] = "running" /\ phase[c] = "floored" /\ lease' = lease
      BY <1>1, <1>8 DEF FloorAppended
    <2> QED BY <1>0, <2>1 DEF Stands
  <1>9. CASE EndDue(c)
    <2>1. phase'[c] = "ending" /\ phase[c] = "running" /\ lease' = lease /\ point'[c] = through[c]
      BY <1>1, <1>9 DEF EndDue
    <2> QED BY <1>0, <2>1 DEF Stands, NoPoint
  <1>10. CASE AppendEnd(c)
    <2>1. phase'[c] \in {"ended", "running"} /\ phase[c] = "ending" /\ lease' = lease
      BY <1>1, <1>10 DEF AppendEnd
    <2> QED BY <1>0, <2>1 DEF Stands
  <1>11. CASE Ack(c)
    <2>1. phase[c] = "running" /\ phase' = phase /\ lease' = lease
      BY <1>11 DEF Ack
    <2> QED BY <1>0, <2>1 DEF Stands
  <1>12. ASSUME \/ Pull(c) \/ Settle(c) \/ CommitAdd(c)
                \/ \E s \in pulled[c] : AckSkipped(c, s)
                \/ \E S \in SUBSET pulled[c] : RangeForFlush(c, S)
         PROVE  UNCHANGED <<phase, lease, through, point>>
    BY <1>12 DEF Pull, Settle, CommitAdd, AckSkipped, RangeForFlush, window
  <1> QED BY <1>2, <1>3, <1>4, <1>5, <1>6, <1>7, <1>8, <1>9, <1>10, <1>11, <1>12 DEF Turn

\* Every step keeps what the consumers rely on.
LEMMA ConsumersNext ==
    ASSUME EdgeInv, Typed', Grown, NothingLost', [Next]_vars
    PROVE  ConsumerInv'
  <1> SUFFICES ASSUME NEW v \in Consumers PROVE Stands(v)' /\ Behind(v)' /\ Issues(v)'
    BY DEF ConsumerInv, ConsumerOK, Stands, Behind, Issues
  <1>1. CASE UNCHANGED Own(v)
    BY <1>1, PartsKept DEF Own
  <1>2. CASE Turn(v) \/ Crash(v)
    BY <1>2, IssuesTurn, BehindTurn, StandsTurn
  <1>3. ASSUME NEW c \in Consumers, Turn(c) \/ Crash(c), v # c PROVE UNCHANGED Own(v)
    BY <1>3, OthersIdle
  <1>4. ASSUME \/ Receive \/ SwitchMode \/ Purge \/ UNCHANGED vars
               \/ \E r \in strays : StrayCommit(r)
               \/ \E op \in late : LateLand(op)
        PROVE  UNCHANGED Own(v)
    BY <1>4 DEF Receive, SwitchMode, Purge, StrayCommit, LateLand, vars, window, Own
  <1> QED BY <1>1, <1>2, <1>3, <1>4 DEF Next

-----------------------------------------------------------------------------
(* The DO.                                                                 *)

\* A commit, made or left behind, is of a point the log has reached; a purge
\* is attested.
LEMMA DoNext ==
    ASSUME EdgeInv, Typed', Grown, [Next]_vars
    PROVE  StrayInv' /\ DoNeverAhead'
  <1>0. /\ Typed /\ LogPoint \in Nat /\ LogPoint' \in Int /\ LogPoint <= LogPoint'
        /\ StrayInv /\ (dCommitted <= LogPoint \/ dCommitted = dPurge)
        /\ dCommitted \in Nat /\ strays \subseteq [epoch : 1..MaxLeases, through : 0..dHead]
    <2>1. Typed /\ LogInv /\ StrayInv /\ (dCommitted <= LogPoint \/ dCommitted = dPurge)
      BY DEF EdgeInv, DoNeverAhead, LogPoint
    <2>2. Len(log') \in Nat /\ \A i \in 1..Len(log') : log'[i].through \in Int
      <3>1. log' \in Seq(Shape)
        BY DEF Typed
      <3>2. \A op \in Shape : op.through \in Int
        BY DEF Shape
      <3> QED BY <3>1, <3>2, LenProperties, ElementOfSeq
    <2>3. LogPoint' \in Int
      BY <2>2 DEF LogPoint, Base
    <2>4. strays \subseteq [epoch : 1..MaxLeases, through : 0..dHead]
      BY <2>1 DEF Typed, TypeOK
    <2> QED BY <2>1, <2>3, <2>4, Types, PointIn DEF Grown
  <1>1. \A r \in strays : r.through \in Nat /\ r.through <= LogPoint /\ r.through <= LogPoint'
    BY <1>0, Types DEF StrayInv
  <1>2. ASSUME NEW t \in Nat, t <= LogPoint, NEW e,
               \/ dCommitted' = t \/ dCommitted' = dCommitted,
               strays' \subseteq strays \cup {[epoch |-> e, through |-> t]}, dPurge' = dPurge
        PROVE  StrayInv' /\ DoNeverAhead'
    <2>1. \A r \in strays' : r \in strays \/ r.through = t
      BY <1>2
    <2>2. StrayInv'
      BY <1>0, <1>1, <1>2, <2>1 DEF StrayInv
    <2>3. dCommitted' <= LogPoint' \/ dCommitted' = dPurge'
      BY <1>0, <1>2
    <2> QED BY <2>2, <2>3 DEF DoNeverAhead, LogPoint
  <1>3. CASE UNCHANGED <<dCommitted, dPurge, strays>>
    BY <1>0, <1>2, <1>3
  <1>4. CASE Purge
    <2>1. strays' = strays /\ dCommitted' = dPurge'
      BY <1>4 DEF Purge
    <2> QED BY <1>0, <1>1, <2>1 DEF StrayInv, DoNeverAhead
  <1>5. ASSUME NEW r \in strays, StrayCommit(r) PROVE StrayInv' /\ DoNeverAhead'
    <2>1. /\ dCommitted' = r.through \/ dCommitted' = dCommitted
          /\ strays' \subseteq strays /\ dPurge' = dPurge
      BY <1>5 DEF StrayCommit
    <2>2. r.through \in Nat /\ r.through <= LogPoint
      BY <1>1
    <2> QED BY <1>2, <2>1, <2>2
  <1>6. ASSUME NEW c \in Consumers, Reconcile(c) PROVE StrayInv' /\ DoNeverAhead'
    <2>1. through[c] \in Nat /\ through[c] <= LogPoint
      BY <1>0, <1>6, Types, PartsKept DEF Reconcile, Stands
    <2> QED BY <1>2, <1>6, <2>1 DEF Reconcile
  <1>7. ASSUME NEW c \in Consumers, Ack(c) PROVE StrayInv' /\ DoNeverAhead'
    <2> DEFINE t == Oldest(c).op.through
    <2>1. t \in Nat /\ t <= LogPoint
      BY <1>0, <1>7, Types, OldestIn DEF Ack
    <2>2. /\ dPurge' = dPurge
          /\ \/ dCommitted' = t /\ strays' = strays
             \/ dCommitted' = dCommitted /\ strays' = strays \cup {[epoch |-> lease[c], through |-> t]}
      BY <1>7 DEF Ack
    <2> HIDE DEF t
    <2> QED BY <1>2, <2>1, <2>2
  <1>8. ASSUME NEW c \in Consumers, FloorAppended(c) PROVE StrayInv' /\ DoNeverAhead'
    <2>1. point[c] \in Nat /\ point[c] <= LogPoint
      BY <1>0, <1>8, PartsKept DEF FloorAppended, Stands
    <2>2. /\ dPurge' = dPurge
          /\ \/ dCommitted' \in {point[c], dCommitted} /\ strays' = strays
             \/ dCommitted' = dCommitted /\ strays' = strays \cup {[epoch |-> lease[c], through |-> point[c]]}
      BY <1>8 DEF FloorAppended
    <2> QED BY <1>2, <2>1, <2>2
  <1>9. ASSUME NEW c \in Consumers, Crash(c) PROVE StrayInv' /\ DoNeverAhead'
    <2>1. dCommitted' = dCommitted /\ dPurge' = dPurge
      BY <1>9 DEF Crash, Restart
    <2>2. CASE strays' = strays
      BY <1>3, <2>1, <2>2
    <2>3. CASE strays' # strays
      <3>1. phase[c] = "reconciling" /\ strays' = strays \cup {[epoch |-> lease[c], through |-> through[c]]}
        BY <1>9, <2>3 DEF Crash
      <3>2. through[c] \in Nat /\ through[c] <= LogPoint
        BY <1>0, <3>1, Types, PartsKept DEF Stands
      <3> QED BY <1>2, <2>1, <3>1, <3>2
    <2> QED BY <2>2, <2>3
  <1>10. ASSUME \/ Receive \/ SwitchMode \/ UNCHANGED vars \/ \E op \in late : LateLand(op)
         PROVE  UNCHANGED <<dCommitted, dPurge, strays>>
    BY <1>10 DEF Receive, SwitchMode, LateLand, vars, do
  <1>11. ASSUME NEW c \in Consumers,
                \/ LoadPoint(c) \/ TakeLease(c) \/ OpenWriter(c) \/ Pull(c)
                \/ \E s \in pulled[c] : AckSkipped(c, s)
                \/ \E S \in SUBSET pulled[c] : RangeForFlush(c, S)
                \/ Settle(c) \/ CommitAdd(c) \/ AppendFloor(c) \/ EndDue(c) \/ AppendEnd(c) \/ GiveUp(c)
         PROVE  UNCHANGED <<dCommitted, dPurge, strays>>
    BY <1>11 DEF LoadPoint, TakeLease, OpenWriter, Pull, AckSkipped, RangeForFlush, Settle, CommitAdd, AppendFloor,
                 EndDue, AppendEnd, GiveUp, Restart, do
  <1> QED BY <1>3, <1>4, <1>5, <1>6, <1>7, <1>8, <1>9, <1>10, <1>11 DEF Next, Turn

-----------------------------------------------------------------------------
(* The theorems.                                                           *)

\* Nothing has been received, pulled or recorded.
LEMMA InitInv == ASSUME Init PROVE EdgeInv
  <1>0. /\ NoPoint \in Points /\ MaxSeg \in Nat /\ MaxLeases \in Nat /\ MaxFaults \in Nat
        /\ Len(<< >>) = 0 /\ << >> \in Seq(Shape) /\ << >> \in Seq(Flush) /\ Len(log) = 0 /\ 1..Len(log) = {}
    BY EdgeIngestAssumption, EmptySeq DEF Points, Init
  <1>1. LogPoint = 0 /\ Base(Len(log)) = 0
    BY <1>0 DEF LogPoint, Base
  <1>2. \A c \in Consumers : issued[c] = << >> /\ Len(issued[c]) = 0 /\ 1..Len(issued[c]) = {}
    <2>1. \A c \in Consumers : issued[c] = << >> /\ Len(issued[c]) = 0
      BY <1>0 DEF Init
    <2> QED BY <2>1
  <1>3. TypeOK
    <2>1. \A c \in Consumers : pend[c] \in EdgeOps
      BY OpTypes DEF Init
    <2>2. /\ phase \in [Consumers -> Phases] /\ lease \in [Consumers -> 0..MaxLeases]
          /\ through \in [Consumers -> 0..dHead] /\ lastPulled \in [Consumers -> 0..dHead]
          /\ pulled \in [Consumers -> SUBSET (1..dHead)] /\ skipped \in [Consumers -> SUBSET (1..dHead)]
      BY <1>0 DEF Init, Phases
    <2>3. floor \in [Consumers -> Points] /\ point \in [Consumers -> Points] /\ head \in [Consumers -> 0..Len(log)]
      BY <1>0 DEF Init
    <2>4. /\ dHead \in 0..MaxSeg /\ dCommitted \in 0..dHead /\ dPurge \in Points
          /\ dEpoch \in 0..MaxLeases /\ dMode \in {"do", "drain"}
          /\ strays = {} /\ late = {} /\ faults \in 0..MaxFaults /\ decided = {}
      BY <1>0 DEF Init
    <2> QED BY <1>0, <1>2, <2>1, <2>2, <2>3, <2>4 DEF TypeOK
  <1>4. log \in Seq(Shape) /\ issued \in [Consumers -> Seq(Flush)] /\ pend \in [Consumers -> Shape]
    BY <1>0, OpTypes DEF Init
  <1>5. LogInv /\ LateInv /\ StrayInv /\ ConsumedOnce /\ NothingLost
    BY <1>0, <1>1 DEF LogInv, LateInv, StrayInv, ConsumedOnce, NothingLost, Init
  <1>6. DoNeverAhead
    BY <1>1 DEF DoNeverAhead, Init
  <1>7. ConsumerInv
    <2> SUFFICES ASSUME NEW c \in Consumers PROVE ConsumerOK(c)
      BY DEF ConsumerInv
    <2>1. phase[c] = "down" /\ through[c] = 0 /\ skipped[c] = {} /\ floor[c] = NoPoint /\ dPurge = NoPoint
      BY DEF Init
    <2>2. SettledTo(through[c])
      BY <2>1 DEF SettledTo
    <2> QED BY <1>2, <2>1, <2>2 DEF ConsumerOK, NoPoint
  <1> QED BY <1>3, <1>4, <1>5, <1>6, <1>7 DEF EdgeInv, Typed

\* The inductive invariant: log, appends in flight, consumers and requests
\* agree on what is settled, for any number of consumers, segments and faults.
THEOREM EdgeInvariant == Spec => []EdgeInv
  <1>1. Init => EdgeInv
    BY InitInv
  <1>2. EdgeInv /\ [Next]_vars => EdgeInv'
    <2> SUFFICES ASSUME EdgeInv, [Next]_vars PROVE EdgeInv'
      OBVIOUS
    <2>1. Typed'
      BY TypedNext
    <2>2. Grown /\ LogInv' /\ LateInv' /\ ConsumedOnce' /\ NothingLost'
      BY <2>1, LogGrows
    <2>3. ConsumerInv'
      BY <2>1, <2>2, ConsumersNext
    <2>4. StrayInv' /\ DoNeverAhead'
      BY <2>1, <2>2, DoNext
    <2> QED BY <2>1, <2>2, <2>3, <2>4 DEF EdgeInv
  <1> QED BY <1>1, <1>2, PTL DEF Spec

\* No point of a consumer, of an entry or of a request is past what the DO
\* has received.
THEOREM EdgeTyped == Spec => []TypeOK
  <1>1. EdgeInv => TypeOK
    BY DEF EdgeInv, Typed
  <1> QED BY <1>1, EdgeInvariant, PTL

\* Exactly once, one half: no segment's rows are added twice, whichever
\* consumers run at once, crash, or have appends land late.
THEOREM NeverConsumedTwice == Spec => []ConsumedOnce
  <1>1. EdgeInv => ConsumedOnce
    BY DEF EdgeInv
  <1> QED BY <1>1, EdgeInvariant, PTL

\* Exactly once, the other half: every segment at or below the log's point
\* was added, was found to be without rows, or was purged at the DO.
THEOREM NeverLost == Spec => []NothingLost
  <1>1. EdgeInv => NothingLost
    BY DEF EdgeInv
  <1> QED BY <1>1, EdgeInvariant, PTL

\* The DO is committed only after the entry that records the range landed
\* (source.rs), lost answers and late requests included; otherwise a purge.
THEOREM CommitFollowsLog == Spec => []DoNeverAhead
  <1>1. EdgeInv => DoNeverAhead
    BY DEF EdgeInv
  <1> QED BY <1>1, EdgeInvariant, PTL
=============================================================================
