---------------------------- MODULE PartLogProofs ----------------------------
(***************************************************************************)
(* Proofs about the part log.  Whoever sends an entry has validated it     *)
(* against a set that agrees with a reader's at the same head, except that *)
(* it may know fewer removed parts and consumed sources.  A reader's set   *)
(* at a head never changes once the log is that long, so the entry fits    *)
(* there for as long as its PUT is in flight, and its parts are new there  *)
(* because their ids are made once and an operation is retried only at the *)
(* head where it was first sent.                                           *)
(***************************************************************************)
EXTENDS PartLog, SequenceTheorems, FiniteSetTheorems, TLAPS

\* The operations of the writers modelled here.
LogOps == {op \in Ops : /\ op.kind \in {"none", "genesis", "add", "merge", "retire", "reject"}
                        /\ op.kind \notin {"add", "merge"} => op.adds = {}
                        /\ op.kind \notin {"merge", "retire"} => op.removes = {}}
LogEntries == {e \in Entries : e.op \in LogOps}

\* TypeOK with the operations spelled out.
Typed ==
    /\ log \in Seq(LogEntries) /\ folds \in Seq(Sets)
    /\ late \subseteq LogEntries /\ ckpts \subseteq Checkpoints
    /\ built \in Nat /\ made \in Nat
    /\ phase \in [Writers -> Phases]
    /\ epoch \in [Writers -> Nat]
    /\ set \in [Writers -> Sets]
    /\ pending \in [Writers -> LogEntries]
    /\ want \in [Writers -> LogOps]
    /\ mine \in [Writers -> SUBSET Nat]
    /\ ackAdded \subseteq Nat /\ ackRemoved \subseteq Nat

\* A reader's set when it has folded n entries.
FoldAt(n) == IF n = 0 THEN EmptySet ELSE folds[n]

\* A set at a reader's head: it may only know less of the past.
Matches(s, r) ==
    /\ s.next = r.next /\ s.sha = r.sha /\ s.epoch = r.epoch
    /\ s.live = r.live /\ s.edge = r.edge /\ s.ended = r.ended
    /\ s.seen \subseteq r.seen /\ s.consumed \subseteq r.consumed

\* A checkpoint lies between entry k and a head at n.
Forgotten(k, n) == \E c \in ckpts : k <= c.seq + 1 /\ c.seq + 1 <= n

\* Every entry of the log was accepted by the reader and folded.
StoreInv ==
    /\ Len(folds) = Len(log)
    /\ \A i \in 1..Len(log) :
         /\ Accepts(FoldAt(i - 1), log[i])
         /\ folds[i] = Applied(FoldAt(i - 1), log[i])
    /\ \A n \in 0..Len(log) :
         /\ FoldAt(n).next = n
         /\ FoldAt(n).live \subseteq FoldAt(n).seen /\ FoldAt(n).seen \subseteq 1..made

\* An entry sent at some head fits there.
FitsAt(e) ==
    /\ e.seq \in 0..Len(log)
    /\ Accepts(FoldAt(e.seq), e)
    /\ e.op.adds \subseteq 1..made
    /\ \A k \in 1..e.seq : e.op.consumes \cap log[k].op.consumes = {} \/ Forgotten(k, e.seq)

FlightInv ==
    /\ \A e \in late : FitsAt(e)
    /\ \A w \in Writers : phase[w] = "put" => FitsAt(pending[w])

\* Checkpoints agree with the reader, and there is a newest one.
CkptInv ==
    /\ \A c \in ckpts : /\ c.seq + 1 <= Len(log)
                        /\ Matches(FromCheckpoint(c), FoldAt(c.seq + 1))
    /\ ckpts # {} => \E c \in ckpts : \A d \in ckpts : d.seq <= c.seq

\* The parts of a writer's operations.
PartsOf(w) == want[w].adds \cup pending[w].op.adds

\* The set s of a writer agrees with a reader's at its head.
Knows(s) ==
    /\ s.next \in 0..Len(log)
    /\ Matches(s, FoldAt(s.next))
    /\ \A k \in 1..s.next : log[k].op.consumes \subseteq s.consumed \/ Forgotten(k, s.next)

\* An unresolved entry was built by this process for its head, and of another
\* operation than the one now wanted nothing is shared.
Unresolved(w) ==
    pending[w] # NoEntry =>
        /\ pending[w].seq = set[w].next /\ pending[w].prev = set[w].sha
        /\ pending[w].ms \in mine[w]
        /\ pending[w].op = want[w] \/ pending[w].op.adds \cap want[w].adds = {}

\* What a writer knows and what it is about to send.
WriterOK(w) ==
    /\ Knows(set[w])
    /\ phase[w] \in {"down", "loading"} => want[w] = NoOp /\ pending[w] = NoEntry
    /\ phase[w] = "put" => pending[w] # NoEntry /\ pending[w].op = want[w]
    /\ Unresolved(w)
    /\ want[w].adds \cap FoldAt(set[w].next).seen = {}
    /\ PartsOf(w) \subseteq 1..made

WriterInv == \A w \in Writers : WriterOK(w)

\* They are in no other writer's entries.
OwnInv ==
    /\ \A w, v \in Writers : w # v => PartsOf(w) \cap PartsOf(v) = {}
    /\ \A w \in Writers :
         /\ \A e \in late : e.op.adds \cap PartsOf(w) # {} => e.ms \in mine[w]
         /\ \A i \in 1..Len(log) : log[i].op.adds \cap PartsOf(w) # {} => log[i].ms \in mine[w]

\* What was added is live or removed, and what was reported has happened.
AckInv ==
    /\ Removed \subseteq ReaderSet.seen
    /\ \A i \in 1..Len(log) : log[i].op.adds \subseteq ReaderSet.live \cup Removed
    /\ ackAdded \subseteq ReaderSet.live \cup Removed
    /\ ackRemoved \subseteq Removed

LogInv == Typed /\ StoreInv /\ FlightInv /\ CkptInv /\ WriterInv /\ OwnInv
          /\ ConsumedOncePerCheckpoint /\ AckInv

-----------------------------------------------------------------------------
(* Facts about operations, entries and sets.                               *)

\* The constant operations, the empty entry and the empty set are typed.
LEMMA Blank ==
    /\ NoOp \in LogOps /\ Genesis \in LogOps /\ Reject \in LogOps
    /\ NoEntry \in LogEntries /\ EmptySet \in Sets
    /\ NoOp.adds = {} /\ NoOp.removes = {} /\ NoEntry.op = NoOp /\ NoEntry.ms = 0
    /\ Genesis.adds = {} /\ Genesis # NoOp
    /\ EmptySet.next = 0 /\ EmptySet.seen = {} /\ EmptySet.live = {}
  <1>1. NoOp \in LogOps /\ Genesis \in LogOps /\ Reject \in LogOps
    BY DEF NoOp, Genesis, Reject, Op, LogOps, Ops, NoPoint
  <1>2. NoEntry \in LogEntries
    BY <1>1 DEF NoEntry, Entry, LogEntries, Entries, LogOps
  <1>3. EmptySet \in Sets
    BY DEF EmptySet, Set, Sets, NoPoint
  <1> QED BY <1>1, <1>2, <1>3 DEF NoOp, Genesis, Op, NoEntry, Entry, EmptySet, Set

\* The parts of an entry's type.
LEMMA EntryFields ==
    ASSUME NEW e \in LogEntries
    PROVE  /\ e.seq \in Nat /\ e.prev \in Nat /\ e.epoch \in Nat /\ e.ms \in Nat /\ e.op \in LogOps
           /\ e.op.adds \subseteq Nat /\ e.op.removes \subseteq Nat /\ e.op.consumes \subseteq Sources
           /\ e.op.through \in Int
  BY DEF LogEntries, LogOps, Entries, Ops

\* What folding an entry does.
LEMMA AppliedSet ==
    ASSUME NEW s \in Sets, NEW e \in LogEntries
    PROVE  /\ Applied(s, e) \in Sets
           /\ Applied(s, e).next = s.next + 1
           /\ Applied(s, e).sha = e.ms /\ Applied(s, e).epoch = e.epoch
           /\ Applied(s, e).live = (s.live \ e.op.removes) \cup e.op.adds
           /\ Applied(s, e).seen = s.seen \cup e.op.adds
           /\ Applied(s, e).consumed = s.consumed \cup e.op.consumes
  BY EntryFields DEF Applied, Set, Sets, NoPoint

\* Sets that agree still do after the same entry.
LEMMA AppliedMatches ==
    ASSUME NEW s, NEW r, NEW e, Matches(s, r)
    PROVE  Matches(Applied(s, e), Applied(r, e))
  BY DEF Matches, Applied, Set

\* What a writer accepts with parts new to the reader, the reader accepts.
LEMMA AcceptsMatches ==
    ASSUME NEW s, NEW r, NEW e, Matches(s, r), Accepts(s, e), e.op.adds \cap r.seen = {}
    PROVE  Accepts(r, e)
  BY DEF Matches, Accepts, OpFits, AddFitsEdge, EdgeBase

\* An accepted entry adds parts never seen and removes live ones.
LEMMA AcceptsParts ==
    ASSUME NEW r, NEW e \in LogEntries, Accepts(r, e)
    PROVE  e.op.adds \cap r.seen = {} /\ e.op.removes \subseteq r.live
  BY EntryFields DEF Accepts, OpFits, LogOps

\* Types of the log and its folds.
LEMMA LogTypes ==
    ASSUME Typed
    PROVE  /\ Len(log) \in Nat /\ DOMAIN log = 1..Len(log)
           /\ Len(folds) \in Nat /\ DOMAIN folds = 1..Len(folds)
           /\ \A i \in 1..Len(log) : log[i] \in LogEntries
           /\ \A n \in 0..Len(folds) : FoldAt(n) \in Sets
  BY LenProperties, ElementOfSeq, Blank DEF Typed, FoldAt

\* The reader's set is the last fold.
LEMMA ReaderIsLast ==
    ASSUME Typed, StoreInv
    PROVE  ReaderSet = FoldAt(Len(log)) /\ ReaderSet \in Sets
  <1>1. Len(folds) = Len(log) /\ Len(log) \in Nat
    BY LogTypes DEF StoreInv
  <1>2. folds = << >> <=> Len(folds) = 0
    BY EmptySeq DEF Typed
  <1> QED BY <1>1, <1>2, LogTypes DEF ReaderSet, FoldAt

-----------------------------------------------------------------------------
(* The log only grows: what was known of it stays true.                    *)

\* The log and its folds are extended, no checkpoint is lost.
Extended ==
    /\ Len(log) <= Len(log') /\ made <= made' /\ ckpts \subseteq ckpts'
    /\ \A i \in 1..Len(log) : log'[i] = log[i] /\ folds'[i] = folds[i]

\* A reader's set at a head, and what fits there, never changes.
LEMMA Kept ==
    ASSUME Typed, Typed', StoreInv, Extended
    PROVE  /\ \A n \in 0..Len(log) : n \in 0..Len(log') /\ FoldAt(n)' = FoldAt(n)
           /\ \A k, n : Forgotten(k, n) => Forgotten(k, n)'
           /\ \A e \in LogEntries : FitsAt(e) => FitsAt(e)'
           /\ \A s : Knows(s) => Knows(s)'
  <1>1. Len(log) \in Nat /\ Len(log') \in Nat /\ made \in Nat /\ made' \in Nat
    BY LogTypes, LenProperties DEF Typed
  <1>2. \A n \in 0..Len(log) : n \in 0..Len(log') /\ FoldAt(n)' = FoldAt(n)
    BY <1>1 DEF Extended, FoldAt
  <1>3. \A k, n : Forgotten(k, n) => Forgotten(k, n)'
    BY DEF Forgotten, Extended
  <1>4. ASSUME NEW e \in LogEntries, FitsAt(e) PROVE FitsAt(e)'
    <2>1. e.seq \in 0..Len(log) /\ \A k \in 1..e.seq : k \in 1..Len(log)
      BY <1>1, <1>4 DEF FitsAt
    <2>2. e.op.adds \subseteq 1..made'
      BY <1>1, <1>4 DEF FitsAt, Extended
    <2>3. Accepts(FoldAt(e.seq), e)'
      BY <1>2, <1>4, <2>1 DEF FitsAt
    <2>4. \A k \in 1..e.seq : e.op.consumes \cap log'[k].op.consumes = {} \/ Forgotten(k, e.seq)'
      BY <1>3, <1>4, <2>1 DEF FitsAt, Extended
    <2> QED BY <1>2, <2>1, <2>2, <2>3, <2>4 DEF FitsAt
  <1>5. ASSUME NEW s, Knows(s) PROVE Knows(s)'
    <2>1. s.next \in 0..Len(log) /\ \A k \in 1..s.next : k \in 1..Len(log)
      BY <1>1, <1>5 DEF Knows
    <2>2. Matches(s, FoldAt(s.next))'
      BY <1>2, <1>5, <2>1 DEF Knows, Matches
    <2>3. \A k \in 1..s.next : log'[k].op.consumes \subseteq s.consumed \/ Forgotten(k, s.next)'
      BY <1>3, <1>5, <2>1 DEF Knows, Extended
    <2> QED BY <1>2, <2>1, <2>2, <2>3 DEF Knows
  <1> QED BY <1>2, <1>3, <1>4, <1>5

-----------------------------------------------------------------------------
(* An entry that fits lands.                                               *)

\* The shape of the log after it.
LEMMA LandShape ==
    ASSUME Typed, StoreInv, NEW e \in LogEntries, FitsAt(e), KeyFree(e.seq), Land(e)
    PROVE  /\ log' \in Seq(LogEntries) /\ folds' \in Seq(Sets)
           /\ Len(log') = Len(log) + 1 /\ Len(folds') = Len(log) + 1
           /\ \A i \in 1..Len(log) : log'[i] = log[i] /\ folds'[i] = folds[i]
           /\ log'[Len(log) + 1] = e
           /\ folds'[Len(log) + 1] = Applied(FoldAt(Len(log)), e)
           /\ FoldAt(Len(log)) \in Sets /\ Accepts(FoldAt(Len(log)), e)
           /\ e.seq = Len(log) /\ Len(log) \in Nat
  <1>1. Len(folds) = Len(log) /\ Len(log) \in Nat /\ e.seq = Len(log)
    BY LogTypes DEF StoreInv, KeyFree
  <1>2. ReaderSet = FoldAt(Len(log)) /\ FoldAt(Len(log)) \in Sets
    BY ReaderIsLast
  <1>3. Accepts(FoldAt(Len(log)), e)
    BY <1>1 DEF FitsAt
  <1>4. log' = Append(log, e) /\ folds' = Append(folds, Applied(FoldAt(Len(log)), e))
    BY <1>1, <1>2, <1>3 DEF Land
  <1>5. Applied(FoldAt(Len(log)), e) \in Sets
    BY <1>2, AppliedSet
  <1>6. log \in Seq(LogEntries) /\ folds \in Seq(Sets)
    BY DEF Typed
  <1>7. /\ log' \in Seq(LogEntries) /\ Len(log') = Len(log) + 1
        /\ \A i \in 1..Len(log) : log'[i] = log[i]
        /\ log'[Len(log) + 1] = e
    BY <1>4, <1>6, AppendProperties
  <1>8. /\ folds' \in Seq(Sets) /\ Len(folds') = Len(folds) + 1
        /\ \A i \in 1..Len(folds) : folds'[i] = folds[i]
        /\ folds'[Len(folds) + 1] = Applied(FoldAt(Len(log)), e)
    BY <1>4, <1>5, <1>6, AppendProperties
  <1> QED BY <1>1, <1>2, <1>3, <1>7, <1>8

\* The reader folds it, and no source is consumed twice by it.
LEMMA Landed ==
    ASSUME Typed, Typed', StoreInv, ConsumedOncePerCheckpoint,
           NEW e \in LogEntries, FitsAt(e), KeyFree(e.seq), Land(e), made' = made, ckpts \subseteq ckpts'
    PROVE  /\ Extended /\ StoreInv' /\ ConsumedOncePerCheckpoint'
           /\ FoldAt(e.seq + 1)' = Applied(FoldAt(e.seq), e)
  <1>1. /\ Len(log') = Len(log) + 1 /\ Len(folds') = Len(log) + 1
        /\ \A i \in 1..Len(log) : log'[i] = log[i] /\ folds'[i] = folds[i]
        /\ log'[Len(log) + 1] = e
        /\ folds'[Len(log) + 1] = Applied(FoldAt(Len(log)), e)
        /\ FoldAt(Len(log)) \in Sets /\ Accepts(FoldAt(Len(log)), e)
        /\ e.seq = Len(log) /\ Len(log) \in Nat
    BY LandShape
  <1>2. Extended
    BY <1>1 DEF Extended, Typed
  <1>3. FoldAt(e.seq + 1)' = Applied(FoldAt(e.seq), e)
    <2>1. e.seq + 1 # 0 /\ folds'[e.seq + 1] = Applied(FoldAt(e.seq), e)
      BY <1>1
    <2>2. \A n : n # 0 => FoldAt(n)' = folds'[n]
      BY DEF FoldAt
    <2> QED BY <2>1, <2>2
  <1>4. \A n \in 0..Len(log) : FoldAt(n)' = FoldAt(n)
    BY <1>2, Kept
  <1>5. StoreInv'
    <2>1. ASSUME NEW i \in 1..Len(log')
          PROVE  Accepts(FoldAt(i - 1), log[i])' /\ (folds[i] = Applied(FoldAt(i - 1), log[i]))'
      <3>1. CASE i \in 1..Len(log)
        <4>1. i - 1 \in 0..Len(log)
          BY <1>1, <3>1
        <4>2. Accepts(FoldAt(i - 1), log[i]) /\ folds[i] = Applied(FoldAt(i - 1), log[i])
          BY <3>1 DEF StoreInv
        <4> QED BY <1>1, <1>4, <3>1, <4>1, <4>2
      <3>2. CASE i = Len(log) + 1
        <4>1. i - 1 = Len(log) /\ Len(log) \in 0..Len(log)
          BY <1>1, <3>2
        <4> QED BY <1>1, <1>4, <3>2, <4>1
      <3> QED BY <1>1, <3>1, <3>2
    <2>2. ASSUME NEW n \in 0..Len(log')
          PROVE  (/\ FoldAt(n).next = n
                  /\ FoldAt(n).live \subseteq FoldAt(n).seen /\ FoldAt(n).seen \subseteq 1..made)'
      <3>1. CASE n \in 0..Len(log)
        BY <1>4, <3>1 DEF StoreInv
      <3>2. CASE n = Len(log) + 1
        <4> DEFINE f == FoldAt(e.seq)
        <4>1. f.next = Len(log) /\ f.live \subseteq f.seen /\ f.seen \subseteq 1..made
          BY <1>1 DEF StoreInv
        <4>2. /\ Applied(f, e).next = f.next + 1
              /\ Applied(f, e).live = (f.live \ e.op.removes) \cup e.op.adds
              /\ Applied(f, e).seen = f.seen \cup e.op.adds
          BY <1>1, AppliedSet
        <4>3. e.op.adds \subseteq 1..made
          BY DEF FitsAt
        <4>4. FoldAt(n)' = Applied(f, e)
          BY <1>1, <1>3, <3>2
        <4> HIDE DEF f
        <4> QED BY <1>1, <3>2, <4>1, <4>2, <4>3, <4>4
      <3> QED BY <1>1, <3>1, <3>2
    <2>3. Len(folds') = Len(log')
      BY <1>1
    <2> QED BY <2>1, <2>2, <2>3 DEF StoreInv
  <1>6. ConsumedOncePerCheckpoint'
    <2> SUFFICES ASSUME NEW i \in 1..Len(log'), NEW j \in 1..Len(log'), i < j,
                        log'[i].op.consumes \cap log'[j].op.consumes # {}
                 PROVE  \E c \in ckpts' : i <= c.seq + 1 /\ c.seq + 1 < j
      BY DEF ConsumedOncePerCheckpoint
    <2>1. CASE j \in 1..Len(log)
      BY <1>1, <2>1 DEF ConsumedOncePerCheckpoint
    <2>2. CASE j = Len(log) + 1
      <3>1. i \in 1..e.seq /\ log'[i] = log[i] /\ log'[j] = e
        BY <1>1, <2>2
      <3>2. PICK c \in ckpts : i <= c.seq + 1 /\ c.seq + 1 <= e.seq
        BY <3>1 DEF FitsAt, Forgotten
      <3>3. c.seq \in Nat
        BY DEF Typed, Checkpoints
      <3> QED BY <1>1, <2>2, <3>2, <3>3
    <2> QED BY <1>1, <2>1, <2>2
  <1> QED BY <1>2, <1>3, <1>5, <1>6

-----------------------------------------------------------------------------
(* Every step keeps the types.                                             *)

\* A new operation adds at most the part made for it.
LEMMA NewOp ==
    ASSUME Typed, NEW w \in Writers, NEW op \in NewOps(w)
    PROVE  /\ op \in LogOps
           /\ op.adds = {} \/ op.adds = {made + 1}
           /\ made + Cardinality(op.adds) = IF op.adds = {} THEN made ELSE made + 1
  <1>1. made \in Nat /\ set[w].live \subseteq Nat
    BY DEF Typed, Sets
  <1>2. op \in LogOps /\ (op.adds = {} \/ op.adds = {made + 1})
    BY <1>1 DEF NewOps, LogOps, Ops, Op, Add, Merge, Retire, Reject, NoPoint
  <1>3. op.adds = {} => Cardinality(op.adds) = 0
    BY FS_EmptySet
  <1>4. op.adds = {made + 1} => Cardinality(op.adds) = 1 /\ op.adds # {}
    BY FS_Singleton
  <1> QED BY <1>1, <1>2, <1>3, <1>4

\* A commit applies an entry, and may write a checkpoint.
LEMMA CommittedTyped ==
    ASSUME Typed, NEW w \in Writers, NEW e \in LogEntries, Committed(w, e)
    PROVE  /\ set' \in [Writers -> Sets] /\ ckpts' \subseteq Checkpoints
           /\ pending' \in [Writers -> LogEntries]
  <1>1. set[w] \in Sets /\ Applied(set[w], e) \in Sets /\ Applied(set[w], e).next = set[w].next + 1
    BY AppliedSet DEF Typed
  <1>2. Checkpoint(Applied(set[w], e)) \in Checkpoints
    BY <1>1 DEF Checkpoint, Checkpoints, Sets
  <1> QED BY <1>1, <1>2, Blank DEF Committed, Typed

\* An entry is sent or refused.
LEMMA CreateTyped ==
    ASSUME Typed, NEW w \in Writers, NEW e \in LogEntries, Create(w, e)
    PROVE  /\ pending' \in [Writers -> LogEntries] /\ phase' \in [Writers -> Phases]
           /\ want' \in [Writers -> LogOps]
  BY Blank DEF Create, Typed, Phases

\* The actions that leave the log alone.
LEMMA QuietTyped ==
    ASSUME Typed, CkptInv, NEW w \in Writers,
           \/ Open(w) \/ CatchUp(w) \/ Opened(w) \/ BeginNew(w) \/ BeginAgain(w) \/ SendNew(w) \/ Resend(w)
           \/ PutConflictBlind(w) \/ PutUnknown(w) \/ PutUnresolved(w)
           \/ SettleEmpty(w) \/ SettleFails(w) \/ Exit(w)
    PROVE  Typed'
  <1> USE Blank
  <1>1. CASE Open(w)
    <2>1. LoadFrom \in Sets
      <3>1. ckpts # {} => Newest \in ckpts
        BY DEF CkptInv, Newest
      <3>2. \A c \in Checkpoints : FromCheckpoint(c) \in Sets
        BY DEF FromCheckpoint, Set, Sets, Checkpoints
      <3> QED BY <3>1, <3>2 DEF LoadFrom, Typed
    <2> QED BY <1>1, <2>1, PartLogAssumption DEF Open, Typed, Phases, store, fresh, acked
  <1>2. CASE CatchUp(w)
    <2>1. Stored(set[w].next) \in LogEntries
      <3>1. set[w].next \in Nat /\ set[w].next < Len(log)
        BY <1>2 DEF CatchUp, Typed, Sets
      <3>2. set[w].next + 1 \in 1..Len(log)
        BY <3>1, LogTypes
      <3> QED BY <3>2, LogTypes DEF Stored
    <2>2. Applied(set[w], Stored(set[w].next)) \in Sets
      BY <2>1, AppliedSet DEF Typed
    <2> QED BY <1>2, <2>2 DEF CatchUp, Typed, store, fresh, acked
  <1>3. CASE Opened(w)
    BY <1>3 DEF Opened, Typed, Phases, store, fresh, acked
  <1>4. CASE BeginNew(w)
    <2>1. PICK op \in NewOps(w) : Begin(w, op) /\ made' = made + Cardinality(op.adds)
      BY <1>4 DEF BeginNew
    <2>2. op \in LogOps /\ made' \in Nat
      <3>1. made \in Nat
        BY DEF Typed
      <3> QED BY <2>1, <3>1, NewOp
    <2> QED BY <2>1, <2>2 DEF Begin, Typed, Phases, store, acked
  <1>5. CASE BeginAgain(w)
    BY <1>5 DEF BeginAgain, Begin, Typed, Phases, store, acked
  <1>6. CASE SendNew(w)
    <2>1. Entry(set[w].next, set[w].sha, epoch[w], built + 1, want[w]) \in LogEntries
      <3>1. /\ set[w].next \in Nat /\ set[w].sha \in Nat /\ epoch[w] \in Nat /\ built + 1 \in Nat
            /\ want[w] \in LogOps
        BY DEF Typed, Sets
      <3> QED BY <3>1 DEF Entry, LogEntries, Entries, LogOps
    <2>2. /\ pending' \in [Writers -> LogEntries] /\ phase' \in [Writers -> Phases]
          /\ want' \in [Writers -> LogOps]
      BY <1>6, <2>1, CreateTyped DEF SendNew
    <2>3. built' \in Nat /\ mine' \in [Writers -> SUBSET Nat]
      BY <1>6 DEF SendNew, Typed
    <2> QED BY <1>6, <2>2, <2>3 DEF SendNew, Typed, store, acked
  <1>7. CASE Resend(w)
    <2>1. /\ pending' \in [Writers -> LogEntries] /\ phase' \in [Writers -> Phases]
          /\ want' \in [Writers -> LogOps]
      BY <1>7, CreateTyped DEF Resend, Typed
    <2> QED BY <1>7, <2>1 DEF Resend, Typed, store, fresh, acked
  <1>8. CASE PutConflictBlind(w) \/ SettleEmpty(w) \/ SettleFails(w)
    <2>1. pending' \in [Writers -> LogEntries] /\ phase' \in [Writers -> Phases]
      <3>1. \A x \in {pending[w], NoEntry} : [pending EXCEPT ![w] = x] \in [Writers -> LogEntries]
        BY DEF Typed
      <3>2. pending' \in [Writers -> LogEntries]
        BY <1>8, <3>1 DEF PutConflictBlind, Fence, SettleEmpty, SettleFails
      <3>3. phase' \in [Writers -> Phases]
        BY <1>8 DEF PutConflictBlind, Fence, SettleEmpty, SettleFails, Typed, Phases
      <3> QED BY <3>2, <3>3
    <2> QED BY <1>8, <2>1 DEF PutConflictBlind, Fence, SettleEmpty, SettleFails, Typed, store, fresh, acked
  <1>9. CASE PutUnknown(w) \/ PutUnresolved(w)
    <2>1. late' \subseteq LogEntries
      BY <1>9 DEF PutUnknown, PutUnresolved, LeftBehind, Typed
    <2>2. pending' \in [Writers -> LogEntries] /\ phase' \in [Writers -> Phases]
      BY <1>9 DEF PutUnknown, PutUnresolved, Typed, Phases
    <2> QED BY <1>9, <2>1, <2>2 DEF PutUnknown, PutUnresolved, Typed, fresh, acked
  <1>10. CASE Exit(w)
    <2>1. late' \subseteq LogEntries
      BY <1>10 DEF Exit, LeftBehind, Typed
    <2> QED BY <1>10, <2>1 DEF Exit, Typed, Phases, fresh, acked
  <1> QED BY <1>1, <1>2, <1>3, <1>4, <1>5, <1>6, <1>7, <1>8, <1>9, <1>10

\* The log's own steps and outcomes of a PUT.
LEMMA LandTyped ==
    ASSUME LogInv, \/ \E e \in late : LateLand(e)
                   \/ \E w \in Writers : PutCreated(w) \/ PutMeets(w) \/ SettleMeets(w)
    PROVE  Typed'
  <1> USE Blank
  <1>1. ASSUME NEW e \in late, LateLand(e) PROVE Typed'
    <2>1. e \in LogEntries /\ FitsAt(e) /\ KeyFree(e.seq) /\ Land(e)
      BY <1>1 DEF LogInv, FlightInv, Typed, LateLand
    <2>2. log' \in Seq(LogEntries) /\ folds' \in Seq(Sets)
      BY <2>1, LandShape DEF LogInv
    <2>3. late' \subseteq LogEntries
      BY <2>1 DEF Land, LogInv, Typed
    <2> QED BY <1>1, <2>2, <2>3 DEF LateLand, LogInv, Typed, fresh, acked
  <1>2. ASSUME NEW w \in Writers, PutCreated(w) PROVE Typed'
    <2>1. pending[w] \in LogEntries /\ FitsAt(pending[w]) /\ KeyFree(pending[w].seq) /\ Land(pending[w])
      BY <1>2 DEF LogInv, FlightInv, Typed, PutCreated
    <2>2. log' \in Seq(LogEntries) /\ folds' \in Seq(Sets)
      BY <2>1, LandShape DEF LogInv
    <2>3. late' \subseteq LogEntries
      BY <2>1 DEF Land, LogInv, Typed
    <2>4. set' \in [Writers -> Sets] /\ ckpts' \subseteq Checkpoints /\ pending' \in [Writers -> LogEntries]
      BY <1>2, <2>1, CommittedTyped DEF PutCreated, LogInv
    <2>5. want[w].adds \subseteq Nat /\ want[w].removes \subseteq Nat
      BY DEF LogInv, Typed, LogOps, Ops
    <2> QED BY <1>2, <2>2, <2>3, <2>4, <2>5 DEF PutCreated, Acknowledge, LogInv, Typed, Phases, fresh
  <1>3. ASSUME NEW w \in Writers, PutMeets(w) \/ SettleMeets(w) PROVE Typed'
    <2> DEFINE x == Stored(pending[w].seq)
    <2>1. pending[w].seq \in 0..Len(log) /\ ~KeyFree(pending[w].seq)
      BY <1>3 DEF PutMeets, SettleMeets, Settling, LogInv, WriterInv, WriterOK, Unresolved, Knows
    <2>2. x \in LogEntries
      BY <2>1, LogTypes DEF Stored, KeyFree, LogInv
    <2>3. CASE Fence(w) /\ UNCHANGED <<fresh, epoch, mine>>
      BY <2>3 DEF Fence, LogInv, Typed, Phases, store, fresh, acked
    <2>4. CASE Committed(w, x) /\ UNCHANGED <<log, late, folds, fresh, epoch, mine>>
               /\ (Acknowledge(w) \/ UNCHANGED <<phase, want, acked>>)
      <3>1. set' \in [Writers -> Sets] /\ ckpts' \subseteq Checkpoints /\ pending' \in [Writers -> LogEntries]
        BY <2>2, <2>4, CommittedTyped DEF LogInv
      <3>2. want[w].adds \subseteq Nat /\ want[w].removes \subseteq Nat
        BY DEF LogInv, Typed, LogOps, Ops
      <3> HIDE DEF x
      <3> QED BY <2>4, <3>1, <3>2 DEF Acknowledge, LogInv, Typed, Phases, fresh, acked
    <2> QED BY <1>3, <2>3, <2>4 DEF PutMeets, SettleMeets
  <1> QED BY <1>1, <1>2, <1>3

\* Every step keeps the types.
LEMMA TypedNext == ASSUME LogInv, [Next]_vars PROVE Typed'
  <1>1. CASE UNCHANGED vars
    BY <1>1 DEF LogInv, Typed, vars, store, fresh, acked
  <1> QED BY <1>1, QuietTyped, LandTyped DEF Next, LogInv

-----------------------------------------------------------------------------
(* The log, its folds and its checkpoints.                                 *)

\* A step leaves the log alone, or an entry lands that fits at its end.
LEMMA LogStep ==
    ASSUME LogInv, [Next]_vars
    PROVE  /\ ckpts \subseteq ckpts' /\ made <= made' /\ made' \in Nat
           /\ \/ UNCHANGED <<log, folds>>
              \/ \E e \in LogEntries : FitsAt(e) /\ KeyFree(e.seq) /\ Land(e) /\ made' = made
  <1>0. made \in Nat
    BY DEF LogInv, Typed
  <1>1. ASSUME NEW e \in late, LateLand(e)
        PROVE  /\ e \in LogEntries /\ FitsAt(e) /\ KeyFree(e.seq) /\ Land(e) /\ UNCHANGED <<made, ckpts>>
    BY <1>1 DEF LateLand, LogInv, FlightInv, Typed, fresh
  <1>2. ASSUME NEW w \in Writers, PutCreated(w)
        PROVE  /\ pending[w] \in LogEntries /\ FitsAt(pending[w]) /\ KeyFree(pending[w].seq) /\ Land(pending[w])
               /\ made' = made /\ ckpts \subseteq ckpts'
    BY <1>2 DEF PutCreated, Committed, LogInv, FlightInv, Typed, fresh
  <1>3. ASSUME NEW w \in Writers, PutMeets(w) \/ SettleMeets(w)
        PROVE  UNCHANGED <<log, folds, made>> /\ ckpts \subseteq ckpts'
    BY <1>3 DEF PutMeets, SettleMeets, Committed, Fence, fresh, store
  <1>4. ASSUME NEW w \in Writers, BeginNew(w)
        PROVE  UNCHANGED <<log, folds, ckpts>> /\ made <= made' /\ made' \in Nat
    <2>1. PICK op \in NewOps(w) : Begin(w, op) /\ made' = made + Cardinality(op.adds)
      BY <1>4 DEF BeginNew
    <2>2. made' = IF op.adds = {} THEN made ELSE made + 1
      BY <2>1, NewOp DEF LogInv
    <2> QED BY <1>0, <2>1, <2>2 DEF Begin, store
  <1>5. ASSUME NEW w \in Writers, \/ Open(w) \/ CatchUp(w) \/ Opened(w) \/ BeginAgain(w) \/ SendNew(w) \/ Resend(w)
                                  \/ PutConflictBlind(w) \/ PutUnknown(w) \/ PutUnresolved(w)
                                  \/ SettleEmpty(w) \/ SettleFails(w) \/ Exit(w)
        PROVE  UNCHANGED <<log, folds, ckpts, made>>
    BY <1>5 DEF Open, CatchUp, Opened, BeginAgain, Begin, SendNew, Resend, PutConflictBlind, Fence, PutUnknown,
                PutUnresolved, SettleEmpty, SettleFails, Exit, store, fresh
  <1>6. CASE UNCHANGED vars
    BY <1>0, <1>6 DEF vars, store, fresh
  <1>7. CASE \E e \in late : LateLand(e)
    BY <1>0, <1>1, <1>7
  <1>8. CASE \E w \in Writers : PutCreated(w)
    BY <1>0, <1>2, <1>8
  <1> QED BY <1>0, <1>3, <1>4, <1>5, <1>6, <1>7, <1>8 DEF Next

\* So the log is extended, every entry of it is folded, and no source is
\* consumed twice without a checkpoint in between.
LEMMA LogGrows ==
    ASSUME LogInv, Typed', [Next]_vars
    PROVE  Extended /\ StoreInv' /\ ConsumedOncePerCheckpoint'
  <1>1. CASE UNCHANGED <<log, folds>>
    <2>1. Len(log) \in Nat /\ made \in Nat /\ made' \in Nat /\ made <= made' /\ ckpts \subseteq ckpts'
      BY LogStep, LogTypes DEF LogInv, Typed
    <2>2. Extended
      BY <1>1, <2>1 DEF Extended
    <2>3. \A n : FoldAt(n)' = FoldAt(n)
      BY <1>1 DEF FoldAt
    <2>4. StoreInv'
      <3>1. \A n \in 0..Len(log) : FoldAt(n).seen \subseteq 1..made'
        BY <2>1 DEF LogInv, StoreInv
      <3> QED BY <1>1, <2>3, <3>1 DEF LogInv, StoreInv
    <2>5. ConsumedOncePerCheckpoint'
      BY <1>1, <2>1 DEF LogInv, ConsumedOncePerCheckpoint
    <2> QED BY <2>2, <2>4, <2>5
  <1>2. ASSUME NEW e \in LogEntries, FitsAt(e), KeyFree(e.seq), Land(e), made' = made
        PROVE  Extended /\ StoreInv' /\ ConsumedOncePerCheckpoint'
    BY <1>2, LogStep, Landed DEF LogInv
  <1> QED BY <1>1, <1>2, LogStep

\* A writer that applies the next entry of the log still agrees with it.
LEMMA KnowsMore ==
    ASSUME Typed, Typed', StoreInv, StoreInv', Extended,
           NEW s \in Sets, Knows(s), s.next < Len(log'), NEW t, t = Applied(s, log'[s.next + 1])
    PROVE  Knows(t)'
  <1> DEFINE n == s.next
             e == log'[n + 1]
  <1>1. n \in Nat /\ Len(log') \in Nat /\ Len(log) \in Nat /\ n \in 0..Len(log) /\ n + 1 \in 1..Len(log')
    <2>1. Len(log') \in Nat /\ Len(log) \in Nat
      BY LenProperties DEF Typed
    <2> QED BY <2>1 DEF Sets, Knows
  <1>2. e \in LogEntries
    BY <1>1, ElementOfSeq DEF Typed
  <1>3. /\ Matches(s, FoldAt(n)) /\ FoldAt(n)' = FoldAt(n)
        /\ \A k \in 1..n : log'[k].op.consumes \subseteq s.consumed \/ Forgotten(k, n)'
    BY <1>1, Kept DEF Knows, Extended
  <1>4. folds'[n + 1] = Applied(FoldAt(n), e)
    <2>1. (folds[n + 1] = Applied(FoldAt(n + 1 - 1), log[n + 1]))'
      BY <1>1 DEF StoreInv
    <2>2. n + 1 - 1 = n
      BY <1>1
    <2> QED BY <1>3, <2>1, <2>2
  <1>5. \A m : m # 0 => FoldAt(m)' = folds'[m]
    BY DEF FoldAt
  <1>6. /\ Applied(s, e).next = n + 1 /\ n + 1 # 0
        /\ Applied(s, e).consumed = s.consumed \cup e.op.consumes
    BY <1>1, <1>2, AppliedSet
  <1>7. FoldAt(n + 1)' = Applied(FoldAt(n), e)
    BY <1>4, <1>5, <1>6
  <1>8. Matches(Applied(s, e), Applied(FoldAt(n), e))
    BY <1>3, AppliedMatches
  <1>9. \A k : Forgotten(k, n)' => Forgotten(k, n + 1)'
    <2>1. \A c \in ckpts' : c.seq \in Nat
      BY DEF Typed, Checkpoints
    <2> QED BY <1>1, <2>1 DEF Forgotten
  <1>10. \A k \in 1..(n + 1) : log'[k].op.consumes \subseteq Applied(s, e).consumed \/ Forgotten(k, n + 1)'
    BY <1>1, <1>3, <1>6, <1>9
  <1> HIDE DEF n, e
  <1>11. t = Applied(s, e)
    BY DEF n, e
  <1> QED BY <1>1, <1>6, <1>7, <1>8, <1>10, <1>11 DEF Knows

\* A checkpoint written at the head of such a writer agrees with the log.
LEMMA CkptNext ==
    ASSUME Typed, Typed', StoreInv, StoreInv', Extended, CkptInv,
           \/ UNCHANGED ckpts
           \/ \E s \in Sets : Knows(s)' /\ s.next > 0 /\ ckpts' = ckpts \cup {Checkpoint(s)}
    PROVE  CkptInv'
  <1>0. \A c \in ckpts : c.seq \in Nat
    BY DEF Typed, Checkpoints
  <1>1. \A c \in ckpts : c.seq + 1 <= Len(log') /\ Matches(FromCheckpoint(c), FoldAt(c.seq + 1))'
    <2>1. Len(log) \in Nat /\ Len(log') \in Nat
      BY LogTypes, LenProperties DEF Typed
    <2>2. \A c \in ckpts : c.seq + 1 \in 0..Len(log) /\ Matches(FromCheckpoint(c), FoldAt(c.seq + 1))
      BY <1>0, <2>1 DEF CkptInv
    <2> QED BY <2>1, <2>2, Kept DEF Extended
  <1>2. CASE UNCHANGED ckpts
    BY <1>1, <1>2 DEF CkptInv
  <1>3. ASSUME NEW s \in Sets, Knows(s)', s.next > 0, ckpts' = ckpts \cup {Checkpoint(s)} PROVE CkptInv'
    <2> DEFINE c == Checkpoint(s)
    <2>1. c.seq = s.next - 1 /\ c.seq \in Nat /\ c.seq + 1 = s.next /\ s.next \in 0..Len(log')
      BY <1>3 DEF Checkpoint, Sets, Knows
    <2>2. Matches(s, FoldAt(s.next))' /\ FoldAt(s.next)'.live \subseteq FoldAt(s.next)'.seen
      BY <1>3, <2>1 DEF Knows, StoreInv
    <2>3. Matches(FromCheckpoint(c), FoldAt(s.next)')
      BY <2>1, <2>2 DEF Matches, FromCheckpoint, Checkpoint, Set
    <2>4. c.seq + 1 <= Len(log') /\ Matches(FromCheckpoint(c), FoldAt(c.seq + 1))'
      BY <2>1, <2>3, LenProperties DEF Typed
    <2> HIDE DEF c
    <2>5. \E m \in ckpts' : \A d \in ckpts' : d.seq <= m.seq
      <3>1. CASE ckpts = {}
        BY <1>3, <2>1, <3>1 DEF c
      <3>2. CASE ckpts # {}
        <4>1. PICK m \in ckpts : \A d \in ckpts : d.seq <= m.seq
          BY <3>2 DEF CkptInv
        <4>2. CASE c.seq <= m.seq
          BY <1>3, <4>1, <4>2 DEF c
        <4>3. CASE ~(c.seq <= m.seq)
          <5>1. \A d \in ckpts' : d.seq <= c.seq
            BY <1>0, <1>3, <2>1, <4>1, <4>3 DEF c
          <5> QED BY <1>3, <5>1 DEF c
        <4> QED BY <4>2, <4>3
      <3> QED BY <3>1, <3>2
    <2> QED BY <1>1, <1>3, <2>4, <2>5 DEF CkptInv, c
  <1> QED BY <1>2, <1>3

-----------------------------------------------------------------------------
(* The writers.                                                            *)

\* A writer that does not move its head still agrees with the log there.
LEMMA SameHead ==
    ASSUME LogInv, Typed', StoreInv', Extended, NEW v \in Writers, set'[v] = set[v]
    PROVE  /\ Knows(set[v])' /\ FoldAt(set[v].next)'.seen = FoldAt(set[v].next).seen
           /\ PartsOf(v) \subseteq 1..made'
  <1> DEFINE t == set[v]
  <1>1. Knows(t) /\ t.next \in 0..Len(log)
    BY DEF LogInv, WriterInv, WriterOK, Knows
  <1>2. made \in Nat /\ made' \in Nat /\ made <= made'
    BY DEF LogInv, Typed, Extended
  <1>3. PartsOf(v) \subseteq 1..made'
    BY <1>2 DEF LogInv, WriterInv, WriterOK
  <1>4. (\A x : Knows(x) => Knows(x)') /\ \A n \in 0..Len(log) : FoldAt(n)' = FoldAt(n)
    BY Kept DEF LogInv
  <1>5. Knows(set[v])'
    BY <1>1, <1>4 DEF Knows
  <1>6. FoldAt(set[v].next)'.seen = FoldAt(set[v].next).seen
    BY <1>1, <1>4 DEF FoldAt
  <1> QED BY <1>3, <1>5, <1>6

\* The writers that do not act.
LEMMA OtherWriter ==
    ASSUME LogInv, Typed', StoreInv', Extended, NEW v \in Writers, set'[v] = set[v],
           pending'[v] = pending[v], want'[v] = want[v], mine'[v] = mine[v], phase'[v] = phase[v]
    PROVE  WriterOK(v)'
  <1>1. WriterOK(v)
    BY DEF LogInv, WriterInv
  <1> QED BY <1>1, SameHead DEF WriterOK, Unresolved, PartsOf

\* A writer that keeps its head, and forgets or keeps what is unresolved.
LEMMA SettledWriter ==
    ASSUME LogInv, Typed', StoreInv', Extended, NEW w \in Writers, set'[w] = set[w], mine'[w] = mine[w],
           pending'[w] \in {pending[w], NoEntry}, want'[w] = want[w] \/ (want'[w].adds = {} /\ pending'[w] = NoEntry),
           phase'[w] \in {"open", "append", "fenced"}
    PROVE  WriterOK(w)'
  <1>1. WriterOK(w)
    BY DEF LogInv, WriterInv
  <1>2. PartsOf(w)' \subseteq PartsOf(w)
    BY Blank DEF PartsOf
  <1>3. Unresolved(w)'
    BY <1>1 DEF WriterOK, Unresolved
  <1>4. (want[w].adds \cap FoldAt(set[w].next).seen = {})'
    BY <1>1, SameHead DEF WriterOK
  <1> QED BY <1>2, <1>3, <1>4, SameHead DEF WriterOK

\* A writer whose head moves to the next entry of the log.
LEMMA MovedWriter ==
    ASSUME LogInv, Typed', StoreInv', Extended, NEW w \in Writers, NEW x \in LogEntries,
           set[w].next < Len(log'), x = log'[set[w].next + 1], set'[w] = Applied(set[w], x),
           pending'[w] = NoEntry, phase'[w] \in {"loading", "open", "append"},
           want'[w] = NoOp \/ (want'[w] = want[w] /\ want[w].adds \cap x.op.adds = {} /\ phase'[w] = "append")
    PROVE  WriterOK(w)'
  <1>1. WriterOK(w) /\ set[w] \in Sets /\ Knows(set[w])
    BY DEF LogInv, WriterInv, WriterOK, Typed
  <1>2. Knows(set[w])'
    <2> DEFINE t == Applied(set[w], x)
    <2>1. \A u : u = t => Knows(u)'
      BY <1>1, KnowsMore DEF LogInv
    <2>2. t = set'[w]
      OBVIOUS
    <2> HIDE DEF t
    <2> QED BY <2>1, <2>2 DEF Knows
  <1>3. PartsOf(w)' \subseteq 1..made'
    <2>1. PartsOf(w)' \subseteq PartsOf(w) /\ made <= made' /\ made \in Nat /\ made' \in Nat
      BY Blank DEF PartsOf, Extended, LogInv, Typed
    <2> QED BY <1>1, <2>1 DEF WriterOK
  <1>4. (want[w].adds \cap FoldAt(set[w].next).seen = {})'
    <2>1. CASE want'[w] = NoOp
      BY <2>1, Blank
    <2>2. CASE want'[w] = want[w] /\ want[w].adds \cap x.op.adds = {}
      <3> DEFINE n == set[w].next
      <3>1. n \in 0..Len(log) /\ n \in Nat /\ Len(log') \in Nat /\ n + 1 \in 1..Len(log')
        <4>1. Len(log) \in Nat /\ Len(log') \in Nat
          BY LenProperties DEF Typed, LogInv
        <4> QED BY <1>1, <4>1 DEF Knows, Sets
      <3>2. \A i : i = n + 1 => folds'[i] = Applied(FoldAt(n), x)
        <4>1. \A i \in 1..Len(log') : folds'[i] = Applied(FoldAt(i - 1)', log'[i])
          BY DEF StoreInv
        <4>2. \A i : i = n + 1 => i \in 1..Len(log') /\ i - 1 = n /\ log'[i] = x
          BY <3>1
        <4>3. \A m \in 0..Len(log) : FoldAt(m)' = FoldAt(m)
          BY Kept DEF LogInv
        <4> QED BY <3>1, <4>1, <4>2, <4>3
      <3>3. FoldAt(n) \in Sets
        BY <3>1, LogTypes DEF LogInv, StoreInv
      <3>4. set'[w].next = n + 1 /\ set'[w].next # 0
        BY <1>1, <3>1, AppliedSet
      <3>5. FoldAt(set[w].next)' = Applied(FoldAt(n), x)
        BY <3>2, <3>4 DEF FoldAt
      <3>6. FoldAt(set[w].next)'.seen = FoldAt(n).seen \cup x.op.adds
        BY <3>3, <3>5, AppliedSet
      <3> QED BY <1>1, <2>2, <3>6 DEF WriterOK
    <2> QED BY <2>1, <2>2
  <1>5. Unresolved(w)'
    BY DEF Unresolved
  <1>6. phase'[w] \in {"down", "loading"} => want'[w] = NoOp /\ pending'[w] = NoEntry
    OBVIOUS
  <1> QED BY <1>2, <1>3, <1>4, <1>5, <1>6 DEF WriterOK

\* The entry an outcome commits is at the writer's head in the log, and is of
\* the pending operation.
LEMMA CommitStep ==
    ASSUME LogInv, Typed', NEW w \in Writers, PutCreated(w) \/ PutMeets(w) \/ SettleMeets(w)
    PROVE  \/ Fence(w)
           \/ \E x \in LogEntries :
                /\ Committed(w, x) /\ x = log'[set[w].next + 1]
                /\ set[w].next < Len(log') /\ x.seq = set[w].next
                /\ x.op = pending[w].op /\ pending[w] # NoEntry
                /\ x = pending[w] \/ log' = log
                /\ \/ phase[w] = "put" /\ pending[w].op = want[w] /\ Acknowledge(w)
                   \/ phase[w] = "append" /\ pending[w].op # want[w] /\ UNCHANGED <<phase, want, acked>>
  <1>1. pending[w] \in LogEntries /\ WriterOK(w) /\ Len(log) \in Nat /\ set[w].next \in Nat
    BY LogTypes DEF LogInv, Typed, WriterInv, Sets
  <1>2. CASE PutCreated(w)
    <2>1. pending[w] # NoEntry /\ pending[w].op = want[w] /\ pending[w].seq = set[w].next
      BY <1>1, <1>2 DEF PutCreated, WriterOK, Unresolved
    <2>2. FitsAt(pending[w]) /\ KeyFree(pending[w].seq) /\ Land(pending[w])
      BY <1>2 DEF PutCreated, LogInv, FlightInv
    <2>3. Len(log') = Len(log) + 1 /\ log'[Len(log) + 1] = pending[w] /\ set[w].next = Len(log)
      BY <1>1, <2>1, <2>2, LandShape DEF LogInv
    <2>4. set[w].next < Len(log') /\ pending[w] = log'[set[w].next + 1]
      BY <1>1, <2>3
    <2> QED BY <1>1, <1>2, <2>1, <2>4 DEF PutCreated
  <1>3. CASE PutMeets(w) \/ SettleMeets(w)
    <2> DEFINE x == Stored(pending[w].seq)
    <2>1. pending[w] # NoEntry /\ pending[w].seq = set[w].next /\ set[w].next \in 0..Len(log)
      BY <1>1, <1>3 DEF PutMeets, SettleMeets, Settling, WriterOK, Unresolved, Knows
    <2>2. set[w].next < Len(log) /\ x = log[set[w].next + 1] /\ x \in LogEntries
      <3>1. set[w].next < Len(log) /\ set[w].next + 1 \in 1..Len(log) /\ x = log[set[w].next + 1]
        BY <1>1, <1>3, <2>1 DEF PutMeets, SettleMeets, KeyFree, Stored
      <3> QED BY <3>1, LogTypes DEF LogInv
    <2>3. CASE ~Fence(w)
      <3>1. /\ x = pending[w] \/ IsOwnEntry(x, pending[w])
            /\ Committed(w, x) /\ log' = log
            /\ \/ phase[w] = "put" /\ Acknowledge(w)
               \/ phase[w] = "append" /\ pending[w].op # want[w] /\ UNCHANGED <<phase, want, acked>>
        BY <1>3, <2>3 DEF PutMeets, SettleMeets, Settling
      <3>2. x.op = pending[w].op /\ x.seq = set[w].next
        BY <2>1, <3>1 DEF IsOwnEntry
      <3>3. phase[w] = "put" => pending[w].op = want[w]
        BY <1>1 DEF WriterOK
      <3> HIDE DEF x
      <3> QED BY <2>1, <2>2, <3>1, <3>2, <3>3
    <2> QED BY <2>3
  <1> QED BY <1>2, <1>3

\* The writer that sends an entry, or is refused.
LEMMA SendingWriter ==
    ASSUME LogInv, Typed', StoreInv', Extended, NEW w \in Writers, NEW e, Create(w, e),
           set'[w] = set[w], mine[w] \subseteq mine'[w],
           e.seq = set[w].next, e.prev = set[w].sha, e.op = want[w], e # NoEntry, e.ms \in mine'[w]
    PROVE  WriterOK(w)'
  <1>1. WriterOK(w)
    BY DEF LogInv, WriterInv
  <1>2. CASE pending'[w] = e /\ phase'[w] = "put" /\ want'[w] = want[w]
    <2>1. PartsOf(w)' \subseteq PartsOf(w)
      BY <1>2 DEF PartsOf
    <2>2. Unresolved(w)'
      BY <1>2 DEF Unresolved
    <2>3. (want[w].adds \cap FoldAt(set[w].next).seen = {})'
      BY <1>1, <1>2, SameHead DEF WriterOK
    <2> QED BY <1>2, <2>1, <2>2, <2>3, SameHead DEF WriterOK
  <1>3. CASE pending'[w] = NoEntry /\ phase'[w] = "open" /\ want'[w] = NoOp
    <2>1. PartsOf(w)' = {}
      BY <1>3, Blank DEF PartsOf
    <2>2. Unresolved(w)'
      BY <1>3 DEF Unresolved
    <2>3. (want[w].adds \cap FoldAt(set[w].next).seen = {})'
      BY <1>3, Blank
    <2> QED BY <1>3, <2>1, <2>2, <2>3, SameHead DEF WriterOK
  <1> QED BY <1>2, <1>3 DEF Create, LogInv, Typed

\* A step of one writer leaves the others alone.
LEMMA Idle ==
    ASSUME Typed, NEW w \in Writers,
           \/ Open(w) \/ CatchUp(w) \/ Opened(w)
           \/ BeginNew(w) \/ BeginAgain(w) \/ SendNew(w) \/ Resend(w)
           \/ PutCreated(w) \/ PutMeets(w) \/ PutConflictBlind(w)
           \/ PutUnknown(w) \/ PutUnresolved(w)
           \/ SettleEmpty(w) \/ SettleMeets(w) \/ SettleFails(w)
           \/ Exit(w),
           NEW v \in Writers \ {w}
    PROVE  /\ set'[v] = set[v] /\ pending'[v] = pending[v] /\ want'[v] = want[v]
           /\ mine'[v] = mine[v] /\ phase'[v] = phase[v]
  <1> USE DEF Typed, store, fresh, acked
  <1>1. CASE Open(w) \/ CatchUp(w) \/ Opened(w)
    BY <1>1 DEF Open, CatchUp, Opened
  <1>2. CASE BeginNew(w) \/ BeginAgain(w)
    BY <1>2 DEF BeginNew, BeginAgain, Begin
  <1>3. CASE SendNew(w) \/ Resend(w)
    BY <1>3 DEF SendNew, Resend, Create
  <1>4. CASE PutCreated(w) \/ PutMeets(w) \/ SettleMeets(w)
    BY <1>4 DEF PutCreated, PutMeets, SettleMeets, Committed, Acknowledge, Fence
  <1>5. CASE PutConflictBlind(w) \/ PutUnknown(w) \/ PutUnresolved(w)
    BY <1>5 DEF PutConflictBlind, Fence, PutUnknown, PutUnresolved
  <1>6. CASE SettleEmpty(w) \/ SettleFails(w) \/ Exit(w)
    BY <1>6 DEF SettleEmpty, SettleFails, Exit
  <1> QED BY <1>1, <1>2, <1>3, <1>4, <1>5, <1>6

\* What load_log starts from agrees with the log.
LEMMA LoadKnows ==
    ASSUME LogInv
    PROVE  Knows(LoadFrom)
  <1>1. Len(log) \in Nat
    BY LogTypes DEF LogInv
  <1>2. CASE ckpts = {}
    <2>1. LoadFrom = EmptySet /\ EmptySet.next = 0 /\ FoldAt(0) = EmptySet
      BY <1>2, Blank DEF LoadFrom, FoldAt
    <2>2. Matches(EmptySet, EmptySet)
      BY DEF Matches
    <2> QED BY <1>1, <2>1, <2>2 DEF Knows
  <1>3. CASE ckpts # {}
    <2> DEFINE c == Newest
               s == FromCheckpoint(c)
    <2>1. c \in ckpts
      BY <1>3 DEF LogInv, CkptInv, Newest
    <2>2. s.next = c.seq + 1 /\ LoadFrom = s
      BY <1>3 DEF LoadFrom, FromCheckpoint, Set
    <2>3. c.seq \in Nat /\ c.seq + 1 <= Len(log) /\ Matches(s, FoldAt(c.seq + 1))
      BY <2>1 DEF LogInv, CkptInv, Typed, Checkpoints
    <2>4. \A k \in 1..(c.seq + 1) : Forgotten(k, c.seq + 1)
      BY <2>1, <2>3 DEF Forgotten
    <2> HIDE DEF c, s
    <2> QED BY <1>1, <2>2, <2>3, <2>4 DEF Knows
  <1> QED BY <1>2, <1>3

\* A writer that starts or stops.
LEMMA ResetWriter ==
    ASSUME LogInv, Typed', StoreInv', Extended, NEW w \in Writers,
           set'[w] \in {LoadFrom, EmptySet}, pending'[w] = NoEntry, want'[w] = NoOp, phase'[w] # "put"
    PROVE  WriterOK(w)'
  <1>1. Knows(LoadFrom) /\ Knows(EmptySet)
    <2>1. Knows(EmptySet)
      <3>1. EmptySet.next = 0 /\ FoldAt(0) = EmptySet /\ Len(log) \in Nat
        BY Blank, LogTypes DEF FoldAt, LogInv
      <3>2. Matches(EmptySet, EmptySet)
        BY DEF Matches
      <3> QED BY <3>1, <3>2 DEF Knows
    <2> QED BY <2>1, LoadKnows
  <1>2. Knows(set[w])'
    <2>1. \A x : Knows(x) => Knows(x)'
      BY Kept DEF LogInv
    <2>2. \A x : x = set'[w] => Knows(x)'
      BY <1>1, <2>1
    <2> QED BY <2>2 DEF Knows
  <1>3. PartsOf(w)' = {} /\ want'[w].adds = {}
    BY Blank DEF PartsOf
  <1>4. Unresolved(w)'
    BY DEF Unresolved
  <1> QED BY <1>2, <1>3, <1>4 DEF WriterOK

\* A writer that takes up a new operation.
LEMMA NewWriter ==
    ASSUME LogInv, Typed', StoreInv', Extended, NEW w \in Writers, BeginNew(w)
    PROVE  /\ WriterOK(w)'
           /\ PartsOf(w)' \subseteq PartsOf(w) \cup {made + 1}
  <1>1. WriterOK(w) /\ made \in Nat /\ made' \in Nat /\ set[w] \in Sets
    BY DEF LogInv, WriterInv, Typed
  <1>2. PICK op \in NewOps(w) : Begin(w, op) /\ made' = made + Cardinality(op.adds)
    BY DEF BeginNew
  <1>3. op.adds = {} \/ (op.adds = {made + 1} /\ made' = made + 1)
    BY <1>2, NewOp DEF LogInv
  <1>4. /\ want'[w] = op /\ phase'[w] = "append" /\ set'[w] = set[w] /\ mine'[w] = mine[w]
        /\ pending'[w] = NoEntry \/ pending'[w] = pending[w]
    BY <1>2 DEF Begin, LogInv, Typed
  <1>5. PartsOf(w)' \subseteq PartsOf(w) \cup op.adds
    BY <1>4, Blank DEF PartsOf
  <1>6. PartsOf(w) \subseteq 1..made
    BY <1>1 DEF WriterOK
  <1>7. PartsOf(w)' \subseteq 1..made' /\ op.adds \cap PartsOf(w) = {}
    <2>1. made + 1 \notin 1..made
      BY <1>1
    <2>2. op.adds \subseteq 1..made'
      BY <1>1, <1>3
    <2>3. PartsOf(w) \subseteq 1..made'
      BY <1>6, SameHead, <1>4
    <2> QED BY <1>3, <1>5, <1>6, <2>1, <2>2, <2>3
  <1>8. Unresolved(w)'
    BY <1>1, <1>4, <1>7 DEF WriterOK, Unresolved, PartsOf
  <1>9. (want[w].adds \cap FoldAt(set[w].next).seen = {})'
    <2>1. FoldAt(set[w].next)'.seen = FoldAt(set[w].next).seen
      BY <1>4, SameHead
    <2>2. FoldAt(set[w].next).seen \subseteq 1..made
      BY <1>1 DEF WriterOK, Knows, LogInv, StoreInv
    <2>3. made + 1 \notin 1..made
      BY <1>1
    <2> QED BY <1>3, <1>4, <2>1, <2>2, <2>3
  <1>10. PartsOf(w)' \subseteq PartsOf(w) \cup {made + 1}
    BY <1>3, <1>5
  <1> QED BY <1>4, <1>7, <1>8, <1>9, <1>10, SameHead DEF WriterOK

\* The writer that acts.
LEMMA ActingWriter ==
    ASSUME LogInv, Typed', StoreInv', Extended, NEW w \in Writers,
           \/ Open(w) \/ CatchUp(w) \/ Opened(w)
           \/ BeginNew(w) \/ BeginAgain(w) \/ SendNew(w) \/ Resend(w)
           \/ PutCreated(w) \/ PutMeets(w) \/ PutConflictBlind(w)
           \/ PutUnknown(w) \/ PutUnresolved(w)
           \/ SettleEmpty(w) \/ SettleMeets(w) \/ SettleFails(w)
           \/ Exit(w)
    PROVE  WriterOK(w)'
  <1>0. WriterOK(w) /\ set[w] \in Sets /\ pending[w] \in LogEntries /\ Typed
    BY DEF LogInv, WriterInv, Typed
  <1>1. CASE Open(w) \/ Exit(w)
    <2>1. /\ set'[w] \in {LoadFrom, EmptySet} /\ pending'[w] = NoEntry /\ want'[w] = NoOp
          /\ phase'[w] # "put"
      BY <1>0, <1>1 DEF Open, Exit, WriterOK, Typed
    <2> QED BY <2>1, ResetWriter
  <1>2. CASE CatchUp(w)
    <2> DEFINE x == log'[set[w].next + 1]
    <2>1. /\ set[w].next < Len(log') /\ set'[w] = Applied(set[w], x)
          /\ phase'[w] = "loading" /\ pending'[w] = NoEntry /\ want'[w] = NoOp
      BY <1>0, <1>2 DEF CatchUp, Stored, WriterOK, Typed, store
    <2>2. x \in LogEntries
      <3>1. Len(log') \in Nat /\ set[w].next \in Nat
        BY <1>0, LenProperties DEF Typed, Sets
      <3>2. set[w].next + 1 \in 1..Len(log')
        BY <2>1, <3>1
      <3> QED BY <3>2, ElementOfSeq DEF Typed
    <2> HIDE DEF x
    <2> QED BY <2>1, <2>2, MovedWriter DEF x
  <1>3. CASE BeginNew(w)
    BY <1>3, NewWriter
  <1>4. CASE SendNew(w)
    <2> DEFINE e == Entry(set[w].next, set[w].sha, epoch[w], built + 1, want[w])
    <2>1. /\ e.seq = set[w].next /\ e.prev = set[w].sha /\ e.op = want[w] /\ e.ms = built + 1
      BY DEF Entry
    <2>2. e # NoEntry
      BY <1>0, <2>1, Blank DEF Typed
    <2>3. Create(w, e) /\ set'[w] = set[w] /\ mine'[w] = mine[w] \cup {built + 1}
      BY <1>0, <1>4 DEF SendNew, Typed
    <2> HIDE DEF e
    <2> QED BY <2>1, <2>2, <2>3, SendingWriter
  <1>5. CASE Resend(w)
    <2>1. /\ Create(w, pending[w]) /\ set'[w] = set[w] /\ mine'[w] = mine[w]
          /\ pending[w] # NoEntry /\ pending[w].op = want[w]
      BY <1>5 DEF Resend
    <2>2. pending[w].seq = set[w].next /\ pending[w].prev = set[w].sha /\ pending[w].ms \in mine[w]
      BY <1>0, <2>1 DEF WriterOK, Unresolved
    <2> QED BY <2>1, <2>2, SendingWriter
  <1>6. CASE PutCreated(w) \/ PutMeets(w) \/ SettleMeets(w)
    <2>1. mine'[w] = mine[w]
      BY <1>6 DEF PutCreated, PutMeets, SettleMeets
    <2>2. CASE Fence(w)
      <3>1. set'[w] = set[w] /\ pending'[w] = NoEntry /\ want'[w] = want[w] /\ phase'[w] = "fenced"
        BY <1>0, <2>2 DEF Fence, Typed
      <3> QED BY <2>1, <3>1, SettledWriter
    <2>3. ASSUME NEW x \in LogEntries, Committed(w, x), x = log'[set[w].next + 1],
                 set[w].next < Len(log'), x.op = pending[w].op, pending[w] # NoEntry,
                 \/ phase[w] = "put" /\ pending[w].op = want[w] /\ Acknowledge(w)
                 \/ phase[w] = "append" /\ pending[w].op # want[w] /\ UNCHANGED <<phase, want, acked>>
          PROVE  WriterOK(w)'
      <3>1. set'[w] = Applied(set[w], x) /\ pending'[w] = NoEntry
        BY <1>0, <2>3 DEF Committed, Typed
      <3>2. CASE Acknowledge(w)
        <4>1. want'[w] = NoOp /\ phase'[w] = "open"
          BY <1>0, <3>2 DEF Acknowledge, Typed
        <4> QED BY <2>3, <3>1, <4>1, MovedWriter
      <3>3. CASE phase[w] = "append" /\ pending[w].op # want[w] /\ UNCHANGED <<phase, want, acked>>
        <4>1. want[w].adds \cap x.op.adds = {}
          BY <1>0, <2>3, <3>3 DEF WriterOK, Unresolved
        <4> QED BY <2>3, <3>1, <3>3, <4>1, MovedWriter
      <3> QED BY <2>3, <3>2, <3>3
    <2> QED BY <1>6, <2>2, <2>3, CommitStep
  <1>7. CASE \/ Opened(w) \/ BeginAgain(w) \/ PutConflictBlind(w)
             \/ PutUnknown(w) \/ PutUnresolved(w) \/ SettleEmpty(w) \/ SettleFails(w)
    <2>1. /\ set'[w] = set[w] /\ mine'[w] = mine[w] /\ pending'[w] \in {pending[w], NoEntry}
          /\ want'[w] = want[w] \/ (want'[w].adds = {} /\ pending'[w] = NoEntry)
          /\ phase'[w] \in {"open", "append", "fenced"}
      <3>1. CASE Opened(w)
        BY <1>0, <3>1, Blank DEF Opened, WriterOK, Typed
      <3>2. CASE BeginAgain(w)
        BY <1>0, <3>2 DEF BeginAgain, Begin, Typed
      <3>3. CASE PutConflictBlind(w) \/ PutUnknown(w) \/ PutUnresolved(w)
        BY <1>0, <3>3 DEF PutConflictBlind, Fence, PutUnknown, PutUnresolved, Typed
      <3>4. CASE SettleEmpty(w) \/ SettleFails(w)
        BY <1>0, <3>4 DEF SettleEmpty, SettleFails, Settling, Typed
      <3> QED BY <1>7, <3>1, <3>2, <3>3, <3>4
    <2> QED BY <2>1, SettledWriter
  <1> QED BY <1>1, <1>2, <1>3, <1>4, <1>5, <1>6, <1>7

\* Every step keeps what the writers know.
LEMMA WriterNext ==
    ASSUME LogInv, Typed', StoreInv', Extended, [Next]_vars
    PROVE  WriterInv'
  <1> SUFFICES ASSUME NEW v \in Writers PROVE WriterOK(v)'
    BY DEF WriterInv
  <1>1. CASE UNCHANGED vars \/ \E e \in late : LateLand(e)
    BY <1>1, OtherWriter DEF vars, LateLand
  <1>2. ASSUME NEW w \in Writers,
           \/ Open(w) \/ CatchUp(w) \/ Opened(w)
           \/ BeginNew(w) \/ BeginAgain(w) \/ SendNew(w) \/ Resend(w)
           \/ PutCreated(w) \/ PutMeets(w) \/ PutConflictBlind(w)
           \/ PutUnknown(w) \/ PutUnresolved(w)
           \/ SettleEmpty(w) \/ SettleMeets(w) \/ SettleFails(w)
           \/ Exit(w)
        PROVE  WriterOK(v)'
    <2>1. CASE v = w
      BY <1>2, <2>1, ActingWriter
    <2>2. CASE v # w
      <3>1. /\ set'[v] = set[v] /\ pending'[v] = pending[v] /\ want'[v] = want[v]
            /\ mine'[v] = mine[v] /\ phase'[v] = phase[v]
        BY <1>2, <2>2, Idle DEF LogInv
      <3> QED BY <3>1, OtherWriter
    <2> QED BY <2>1, <2>2
  <1> QED BY <1>1, <1>2 DEF Next

-----------------------------------------------------------------------------
(* The PUTs in flight.                                                     *)

\* An entry sent: nobody waits for it, or its writer does.
Sent(e) == e \in late \/ \E w \in Writers : phase[w] = "put" /\ e = pending[w]

\* What a writer validates against its own set fits in the log: create and
\* the double-consume guard are enough.
LEMMA CreateFits ==
    ASSUME LogInv, NEW w \in Writers, NEW e \in LogEntries, e.seq = set[w].next, e.op = want[w],
           CheckConsumes(set[w], e.op), Accepts(set[w], e)
    PROVE  FitsAt(e)
  <1>1. WriterOK(w) /\ Knows(set[w])
    BY DEF LogInv, WriterInv, WriterOK
  <1>2. Accepts(FoldAt(e.seq), e)
    BY <1>1, AcceptsMatches DEF WriterOK, Knows
  <1>3. e.op.adds \subseteq 1..made
    BY <1>1 DEF WriterOK, PartsOf
  <1>4. \A k \in 1..e.seq : e.op.consumes \cap log[k].op.consumes = {} \/ Forgotten(k, e.seq)
    BY <1>1 DEF Knows, CheckConsumes
  <1> QED BY <1>1, <1>2, <1>3, <1>4 DEF FitsAt, Knows

\* What was sent is typed and fits.
LEMMA SentFits ==
    ASSUME LogInv, NEW e, Sent(e)
    PROVE  e \in LogEntries /\ FitsAt(e)
  BY DEF Sent, LogInv, Typed, FlightInv

\* What is in flight, or lands, was sent before.
LEMMA OnlySent ==
    ASSUME LogInv, [Next]_vars
    PROVE  /\ \A e \in late' : Sent(e)
           /\ \A i \in 1..Len(log') : (i \in 1..Len(log) /\ log'[i] = log[i]) \/ Sent(log'[i])
  <1>1. ASSUME NEW e, Sent(e), KeyFree(e.seq), Land(e)
        PROVE  /\ \A l \in late' : Sent(l)
               /\ \A i \in 1..Len(log') : (i \in 1..Len(log) /\ log'[i] = log[i]) \/ Sent(log'[i])
    <2>1. e \in LogEntries /\ FitsAt(e)
      BY <1>1, SentFits
    <2>2. /\ Len(log') = Len(log) + 1 /\ Len(log) \in Nat /\ log'[Len(log) + 1] = e
          /\ \A i \in 1..Len(log) : log'[i] = log[i]
      BY <1>1, <2>1, LandShape DEF LogInv
    <2>3. \A i \in 1..Len(log') : i \in 1..Len(log) \/ i = Len(log) + 1
      BY <2>2
    <2>4. \A l \in late' : Sent(l)
      BY <1>1 DEF Land, Sent
    <2> QED BY <1>1, <2>2, <2>3, <2>4
  <1>2. CASE \E e \in late : LateLand(e)
    BY <1>1, <1>2 DEF LateLand, Sent
  <1>3. CASE \E w \in Writers : PutCreated(w)
    BY <1>1, <1>3 DEF PutCreated, Sent
  <1>4. CASE log' = log /\ \A e \in late' : Sent(e)
    BY <1>4
  <1>5. ASSUME UNCHANGED <<log, late>> PROVE log' = log /\ \A e \in late' : Sent(e)
    BY <1>5 DEF Sent
  <1>6. ASSUME NEW w \in Writers, PutUnknown(w) \/ PutUnresolved(w) \/ Exit(w)
        PROVE  log' = log /\ \A e \in late' : Sent(e)
    BY <1>6 DEF PutUnknown, PutUnresolved, Exit, LeftBehind, Sent
  <1>7. ASSUME NEW w \in Writers,
               \/ Open(w) \/ CatchUp(w) \/ Opened(w) \/ BeginNew(w) \/ BeginAgain(w) \/ SendNew(w) \/ Resend(w)
               \/ PutMeets(w) \/ PutConflictBlind(w) \/ SettleEmpty(w) \/ SettleMeets(w) \/ SettleFails(w)
        PROVE  UNCHANGED <<log, late>>
    BY <1>7 DEF Open, CatchUp, Opened, BeginNew, BeginAgain, Begin, SendNew, Resend, PutMeets, PutConflictBlind,
                SettleEmpty, SettleMeets, SettleFails, Fence, store
  <1>8. CASE UNCHANGED vars
    BY <1>4, <1>5, <1>8 DEF vars, store
  <1> QED BY <1>2, <1>3, <1>4, <1>5, <1>6, <1>7, <1>8 DEF Next

\* A writer that waits for a PUT sent an entry that fits.
LEMMA AwaitedFits ==
    ASSUME LogInv, Typed', [Next]_vars, NEW v \in Writers, phase'[v] = "put"
    PROVE  pending'[v] \in LogEntries /\ FitsAt(pending'[v])
  <1>0. Typed /\ pending[v] \in LogEntries
    BY DEF LogInv, Typed
  <1>1. CASE phase[v] = "put" /\ pending'[v] = pending[v]
    BY <1>0, <1>1 DEF LogInv, FlightInv
  <1>2. CASE UNCHANGED vars \/ \E e \in late : LateLand(e)
    BY <1>1, <1>2 DEF vars, LateLand
  <1>3. ASSUME NEW w \in Writers, w # v,
           \/ Open(w) \/ CatchUp(w) \/ Opened(w)
           \/ BeginNew(w) \/ BeginAgain(w) \/ SendNew(w) \/ Resend(w)
           \/ PutCreated(w) \/ PutMeets(w) \/ PutConflictBlind(w)
           \/ PutUnknown(w) \/ PutUnresolved(w)
           \/ SettleEmpty(w) \/ SettleMeets(w) \/ SettleFails(w)
           \/ Exit(w)
        PROVE  phase[v] = "put" /\ pending'[v] = pending[v]
    BY <1>0, <1>3, Idle
  <1>4. CASE SendNew(v)
    <2> DEFINE e == Entry(set[v].next, set[v].sha, epoch[v], built + 1, want[v])
    <2>1. Create(v, e) /\ e.seq = set[v].next /\ e.op = want[v]
      BY <1>4 DEF SendNew, Entry
    <2> HIDE DEF e
    <2>2. CheckConsumes(set[v], e.op) /\ Accepts(set[v], e) /\ pending'[v] = e
      BY <1>0, <2>1 DEF Create, Typed
    <2>3. e \in LogEntries
      BY <2>2 DEF Typed
    <2> QED BY <2>1, <2>2, <2>3, CreateFits
  <1>5. CASE Resend(v)
    <2>1. Create(v, pending[v]) /\ pending[v].op = want[v] /\ pending[v] # NoEntry
      BY <1>5 DEF Resend
    <2>2. pending[v].seq = set[v].next
      BY <2>1 DEF LogInv, WriterInv, WriterOK, Unresolved
    <2>3. CheckConsumes(set[v], pending[v].op) /\ Accepts(set[v], pending[v]) /\ pending'[v] = pending[v]
      BY <1>0, <2>1 DEF Create, Typed
    <2> QED BY <1>0, <2>1, <2>2, <2>3, CreateFits
  <1>6. CASE Open(v) \/ Opened(v) \/ BeginNew(v) \/ BeginAgain(v) \/ Exit(v)
    BY <1>0, <1>6 DEF Open, Opened, BeginNew, BeginAgain, Begin, Exit, Typed
  <1>7. CASE CatchUp(v) \/ SettleEmpty(v) \/ SettleFails(v)
    BY <1>0, <1>7 DEF CatchUp, SettleEmpty, SettleFails, Settling, Typed
  <1>8. CASE PutConflictBlind(v) \/ PutUnknown(v) \/ PutUnresolved(v)
    BY <1>0, <1>8 DEF PutConflictBlind, Fence, PutUnknown, PutUnresolved, Typed
  <1>9. CASE PutCreated(v) \/ PutMeets(v) \/ SettleMeets(v)
    BY <1>0, <1>9 DEF PutCreated, PutMeets, SettleMeets, Settling, Acknowledge, Fence, Typed
  <1>10. \A w \in Writers : w = v \/ w # v
    OBVIOUS
  <1> QED BY <1>1, <1>2, <1>3, <1>4, <1>5, <1>6, <1>7, <1>8, <1>9, <1>10 DEF Next

\* Every step keeps what is in flight fitting.
LEMMA FlightNext ==
    ASSUME LogInv, Typed', StoreInv', Extended, [Next]_vars
    PROVE  FlightInv'
  <1>1. \A e \in LogEntries : FitsAt(e) => FitsAt(e)'
    BY Kept DEF LogInv
  <1>2. \A e \in late' : FitsAt(e)'
    BY <1>1, OnlySent, SentFits
  <1>3. ASSUME NEW w \in Writers, phase'[w] = "put" PROVE FitsAt(pending[w])'
    <2>1. \A e : e = pending'[w] => FitsAt(e)'
      BY <1>1, <1>3, AwaitedFits
    <2> QED BY <2>1 DEF FitsAt
  <1> QED BY <1>2, <1>3 DEF FlightInv

\* Every step keeps the checkpoints in agreement.
LEMMA CheckpointsNext ==
    ASSUME LogInv, Typed', StoreInv', Extended, [Next]_vars
    PROVE  CkptInv'
  <1>1. ASSUME NEW w \in Writers, PutCreated(w) \/ PutMeets(w) \/ SettleMeets(w) PROVE CkptInv'
    <2>1. CASE Fence(w)
      BY <2>1, CkptNext DEF Fence, store, LogInv
    <2>2. ASSUME NEW x \in LogEntries, Committed(w, x), x = log'[set[w].next + 1], set[w].next < Len(log')
          PROVE  CkptInv'
      <3> DEFINE t == Applied(set[w], x)
      <3>1. set[w] \in Sets /\ Knows(set[w])
        BY DEF LogInv, WriterInv, WriterOK, Typed
      <3>2. t \in Sets /\ t.next > 0
        BY <3>1, AppliedSet DEF Sets
      <3>3. \A u : u = t => Knows(u)'
        BY <2>2, <3>1, KnowsMore DEF LogInv
      <3>4. ckpts' = ckpts \/ ckpts' = ckpts \cup {Checkpoint(t)}
        BY <2>2 DEF Committed
      <3> HIDE DEF t
      <3>5. UNCHANGED ckpts \/ \E u \in Sets : Knows(u)' /\ u.next > 0 /\ ckpts' = ckpts \cup {Checkpoint(u)}
        BY <3>2, <3>3, <3>4
      <3> QED BY <3>5, CkptNext DEF LogInv
    <2> QED BY <1>1, <2>1, <2>2, CommitStep
  <1>2. ASSUME NEW w \in Writers,
               \/ Open(w) \/ CatchUp(w) \/ Opened(w) \/ BeginNew(w) \/ BeginAgain(w) \/ SendNew(w) \/ Resend(w)
               \/ PutConflictBlind(w) \/ PutUnknown(w) \/ PutUnresolved(w)
               \/ SettleEmpty(w) \/ SettleFails(w) \/ Exit(w)
        PROVE  UNCHANGED ckpts
    BY <1>2 DEF Open, CatchUp, Opened, BeginNew, BeginAgain, Begin, SendNew, Resend, PutConflictBlind, Fence,
                PutUnknown, PutUnresolved, SettleEmpty, SettleFails, Exit, store
  <1>3. CASE UNCHANGED ckpts
    BY <1>3, CkptNext DEF LogInv
  <1> QED BY <1>1, <1>2, <1>3 DEF Next, LateLand, vars, store

-----------------------------------------------------------------------------
(* Whose parts they are.                                                   *)

\* A step gives at most one writer a part, a new one; a writer that forgets
\* which entries it built has no parts left.
LEMMA PartsStep ==
    ASSUME LogInv, Typed', StoreInv', Extended, [Next]_vars
    PROVE  /\ \A v \in Writers : PartsOf(v)' \subseteq PartsOf(v) \cup {made + 1}
           /\ \A v \in Writers : PartsOf(v)' = {} \/ mine[v] \subseteq mine'[v]
           /\ \A v, u \in Writers :
                v # u => PartsOf(v)' \subseteq PartsOf(v) \/ PartsOf(u)' \subseteq PartsOf(u)
  <1>0. Typed
    BY DEF LogInv
  <1>1. ASSUME NEW w \in Writers,
           \/ Open(w) \/ CatchUp(w) \/ Opened(w)
           \/ BeginNew(w) \/ BeginAgain(w) \/ SendNew(w) \/ Resend(w)
           \/ PutCreated(w) \/ PutMeets(w) \/ PutConflictBlind(w)
           \/ PutUnknown(w) \/ PutUnresolved(w)
           \/ SettleEmpty(w) \/ SettleMeets(w) \/ SettleFails(w)
           \/ Exit(w)
        PROVE  /\ PartsOf(w)' \subseteq PartsOf(w) \cup {made + 1}
               /\ PartsOf(w)' = {} \/ mine[w] \subseteq mine'[w]
    <2>1. CASE BeginNew(w)
      <3>1. mine'[w] = mine[w]
        BY <2>1 DEF BeginNew, Begin
      <3> QED BY <2>1, <3>1, NewWriter
    <2>2. CASE Exit(w)
      <3>1. pending'[w] = NoEntry /\ want'[w] = NoOp
        BY <1>0, <2>2 DEF Exit, Typed
      <3> QED BY <3>1, Blank DEF PartsOf
    <2>3. CASE SendNew(w) \/ Resend(w)
      <3>1. mine[w] \subseteq mine'[w]
        BY <1>0, <2>3 DEF SendNew, Resend, Typed
      <3>2. PICK e : Create(w, e) /\ e.op = want[w]
        BY <2>3 DEF SendNew, Resend, Entry
      <3>3. (pending'[w] = e /\ want'[w] = want[w]) \/ (pending'[w] = NoEntry /\ want'[w] = NoOp)
        BY <1>0, <3>2 DEF Create, Typed
      <3> QED BY <3>1, <3>2, <3>3, Blank DEF PartsOf
    <2>4. CASE \/ Open(w) \/ CatchUp(w) \/ Opened(w) \/ BeginAgain(w) \/ PutConflictBlind(w)
               \/ PutUnknown(w) \/ PutUnresolved(w) \/ SettleEmpty(w) \/ SettleFails(w)
               \/ PutCreated(w) \/ PutMeets(w) \/ SettleMeets(w)
      <3>1. mine'[w] = mine[w]
        BY <2>4 DEF Open, CatchUp, Opened, BeginAgain, Begin, PutConflictBlind, PutUnknown, PutUnresolved,
                    SettleEmpty, SettleFails, PutCreated, PutMeets, SettleMeets
      <3>2. pending'[w] \in {pending[w], NoEntry}
        <4>1. CASE Open(w) \/ CatchUp(w) \/ Opened(w) \/ BeginAgain(w)
          BY <1>0, <4>1 DEF Open, CatchUp, Opened, BeginAgain, Begin, Typed
        <4>2. CASE PutConflictBlind(w) \/ PutUnknown(w) \/ PutUnresolved(w) \/ SettleEmpty(w) \/ SettleFails(w)
          BY <1>0, <4>2 DEF PutConflictBlind, Fence, PutUnknown, PutUnresolved, SettleEmpty, SettleFails, Typed
        <4>3. CASE PutCreated(w) \/ PutMeets(w) \/ SettleMeets(w)
          BY <1>0, <4>3 DEF PutCreated, PutMeets, SettleMeets, Committed, Fence, Typed
        <4> QED BY <2>4, <4>1, <4>2, <4>3
      <3>3. want'[w] \in {want[w], NoOp, Genesis}
        <4>1. CASE Open(w) \/ CatchUp(w) \/ Opened(w) \/ BeginAgain(w)
          BY <1>0, <4>1 DEF Open, CatchUp, Opened, BeginAgain, Begin, Typed
        <4>2. CASE PutConflictBlind(w) \/ PutUnknown(w) \/ PutUnresolved(w) \/ SettleEmpty(w) \/ SettleFails(w)
          BY <1>0, <4>2 DEF PutConflictBlind, Fence, PutUnknown, PutUnresolved, SettleEmpty, SettleFails, Typed
        <4>3. CASE PutCreated(w) \/ PutMeets(w) \/ SettleMeets(w)
          BY <1>0, <4>3 DEF PutCreated, PutMeets, SettleMeets, Acknowledge, Fence, Typed
        <4> QED BY <2>4, <4>1, <4>2, <4>3
      <3> QED BY <3>1, <3>2, <3>3, Blank DEF PartsOf
    <2> QED BY <1>1, <2>1, <2>2, <2>3, <2>4
  <1>2. ASSUME NEW w \in Writers,
           \/ Open(w) \/ CatchUp(w) \/ Opened(w)
           \/ BeginNew(w) \/ BeginAgain(w) \/ SendNew(w) \/ Resend(w)
           \/ PutCreated(w) \/ PutMeets(w) \/ PutConflictBlind(w)
           \/ PutUnknown(w) \/ PutUnresolved(w)
           \/ SettleEmpty(w) \/ SettleMeets(w) \/ SettleFails(w)
           \/ Exit(w),
           NEW v \in Writers \ {w}
        PROVE  PartsOf(v)' = PartsOf(v) /\ mine'[v] = mine[v]
    BY <1>0, <1>2, Idle DEF PartsOf
  <1>3. CASE UNCHANGED vars \/ \E e \in late : LateLand(e)
    BY <1>3 DEF vars, LateLand, PartsOf
  <1>4. ASSUME NEW w \in Writers,
               PartsOf(w)' \subseteq PartsOf(w) \cup {made + 1}, PartsOf(w)' = {} \/ mine[w] \subseteq mine'[w],
               \A v \in Writers \ {w} : PartsOf(v)' = PartsOf(v) /\ mine'[v] = mine[v]
        PROVE  /\ \A v \in Writers : PartsOf(v)' \subseteq PartsOf(v) \cup {made + 1}
               /\ \A v \in Writers : PartsOf(v)' = {} \/ mine[v] \subseteq mine'[v]
               /\ \A v, u \in Writers :
                    v # u => PartsOf(v)' \subseteq PartsOf(v) \/ PartsOf(u)' \subseteq PartsOf(u)
    BY <1>4
  <1> QED BY <1>1, <1>2, <1>3, <1>4 DEF Next

\* The parts of an entry in the log were made.
LEMMA LoggedParts ==
    ASSUME LogInv, NEW i \in 1..Len(log)
    PROVE  log[i].op.adds \subseteq 1..made
  <1>1. Len(log) \in Nat /\ log[i] \in LogEntries /\ i - 1 \in 0..Len(log) /\ i \in 0..Len(log) /\ i # 0
    BY LogTypes DEF LogInv
  <1>2. FoldAt(i - 1) \in Sets
    BY <1>1, LogTypes DEF LogInv, StoreInv
  <1>3. FoldAt(i) = Applied(FoldAt(i - 1), log[i])
    BY <1>1 DEF LogInv, StoreInv, FoldAt
  <1>4. log[i].op.adds \subseteq FoldAt(i).seen
    BY <1>1, <1>2, <1>3, AppliedSet
  <1> QED BY <1>1, <1>4 DEF LogInv, StoreInv

\* Every step keeps a writer's parts its own.
LEMMA OwnNext ==
    ASSUME LogInv, Typed', StoreInv', Extended, [Next]_vars
    PROVE  OwnInv'
  <1>1. made \in Nat /\ made + 1 \notin 1..made /\ OwnInv
    BY DEF LogInv, Typed
  <1>2. \A w \in Writers : PartsOf(w) \subseteq 1..made
    BY DEF LogInv, WriterInv, WriterOK
  <1>3. ASSUME NEW w \in Writers, NEW v \in Writers, w # v PROVE PartsOf(w)' \cap PartsOf(v)' = {}
    <2>1. PartsOf(w) \cap PartsOf(v) = {}
      BY <1>1, <1>3 DEF OwnInv
    <2> QED BY <1>1, <1>2, <1>3, <2>1, PartsStep
  <1>4. ASSUME NEW w \in Writers, NEW e, e.op.adds \cap PartsOf(w)' # {}, e.op.adds \subseteq 1..made,
               e.op.adds \cap PartsOf(w) # {} => e.ms \in mine[w]
        PROVE  e.ms \in mine'[w]
    <2>1. PartsOf(w)' \subseteq PartsOf(w) \cup {made + 1} /\ mine[w] \subseteq mine'[w]
      BY <1>4, PartsStep
    <2> QED BY <1>1, <1>4, <2>1
  <1>5. ASSUME NEW w \in Writers, NEW e, Sent(e), e.op.adds \cap PartsOf(w)' # {}
        PROVE  e.ms \in mine'[w]
    <2>1. e.op.adds \subseteq 1..made
      BY <1>5, SentFits DEF FitsAt
    <2>2. ASSUME e.op.adds \cap PartsOf(w) # {} PROVE e.ms \in mine[w]
      <3>1. CASE e \in late
        BY <1>1, <2>2, <3>1 DEF OwnInv
      <3>2. ASSUME NEW v \in Writers, phase[v] = "put", e = pending[v] PROVE e.ms \in mine[w]
        <4>1. v = w
          BY <1>1, <2>2, <3>2 DEF OwnInv, PartsOf
        <4> QED BY <3>2, <4>1 DEF LogInv, WriterInv, WriterOK, Unresolved
      <3> QED BY <1>5, <3>1, <3>2 DEF Sent
    <2> QED BY <1>4, <1>5, <2>1, <2>2
  <1>6. \A w \in Writers : \A e \in late' : e.op.adds \cap PartsOf(w)' # {} => e.ms \in mine'[w]
    BY <1>5, OnlySent
  <1>7. ASSUME NEW w \in Writers, NEW i \in 1..Len(log'), log'[i].op.adds \cap PartsOf(w)' # {}
        PROVE  log'[i].ms \in mine'[w]
    <2>1. CASE Sent(log'[i])
      BY <1>5, <1>7, <2>1
    <2>2. CASE i \in 1..Len(log) /\ log'[i] = log[i]
      <3>1. log[i].op.adds \subseteq 1..made
        BY <2>2, LoggedParts
      <3>2. log[i].op.adds \cap PartsOf(w) # {} => log[i].ms \in mine[w]
        BY <1>1, <2>2 DEF OwnInv
      <3> QED BY <1>4, <1>7, <2>2, <3>1, <3>2
    <2> QED BY <2>1, <2>2, OnlySent
  <1> QED BY <1>3, <1>6, <1>7 DEF OwnInv

-----------------------------------------------------------------------------
(* What a reader sees, and what was reported.                              *)

\* A reader sees nothing new, or one entry it accepts.
LEMMA ReaderStep ==
    ASSUME LogInv, Typed', StoreInv', [Next]_vars
    PROVE  \/ log' = log /\ ReaderSet' = ReaderSet /\ Removed' = Removed
           \/ \E e \in LogEntries :
                /\ Accepts(ReaderSet, e)
                /\ ReaderSet' = Applied(ReaderSet, e) /\ Removed' = Removed \cup e.op.removes
                /\ \A i \in 1..Len(log') : (i \in 1..Len(log) /\ log'[i] = log[i]) \/ log'[i] = e
  <1>1. CASE UNCHANGED <<log, folds>>
    BY <1>1 DEF ReaderSet, Removed
  <1>2. ASSUME NEW e \in LogEntries, FitsAt(e), KeyFree(e.seq), Land(e)
        PROVE  /\ Accepts(ReaderSet, e)
               /\ ReaderSet' = Applied(ReaderSet, e) /\ Removed' = Removed \cup e.op.removes
               /\ \A i \in 1..Len(log') : (i \in 1..Len(log) /\ log'[i] = log[i]) \/ log'[i] = e
    <2> DEFINE n == Len(log)
    <2>1. /\ Len(log') = n + 1 /\ n \in Nat /\ log'[n + 1] = e
          /\ \A i \in 1..n : log'[i] = log[i]
          /\ folds'[n + 1] = Applied(FoldAt(n), e) /\ Len(folds') = n + 1 /\ Accepts(FoldAt(n), e)
      BY <1>2, LandShape DEF LogInv
    <2>2. ReaderSet = FoldAt(n)
      BY ReaderIsLast DEF LogInv
    <2>3. folds' # << >>
      BY <2>1, EmptySeq DEF Typed
    <2>4. ReaderSet' = Applied(ReaderSet, e)
      BY <2>1, <2>2, <2>3 DEF ReaderSet
    <2>5. \A i \in 1..Len(log') : i \in 1..n \/ i = n + 1
      BY <2>1
    <2>6. n + 1 \in 1..Len(log') /\ \A i \in 1..n : i \in 1..Len(log')
      BY <2>1
    <2>7. Removed' = Removed \cup e.op.removes
      <3>1. Removed' = UNION {log'[i].op.removes : i \in 1..Len(log')}
        BY DEF Removed
      <3>2. Removed = UNION {log[i].op.removes : i \in 1..n}
        BY DEF Removed
      <3> HIDE DEF n
      <3>3. ASSUME NEW p \in Removed' PROVE p \in Removed \cup e.op.removes
        BY <2>1, <2>5, <3>1, <3>2, <3>3
      <3>4. ASSUME NEW p \in Removed \cup e.op.removes PROVE p \in Removed'
        BY <2>1, <2>6, <3>1, <3>2, <3>4
      <3> QED BY <3>3, <3>4
    <2> QED BY <2>1, <2>2, <2>4, <2>5, <2>7
  <1> QED BY <1>1, <1>2, LogStep

\* What is reported is what an entry of the log does.
LEMMA AckStep ==
    ASSUME LogInv, Typed', [Next]_vars
    PROVE  \/ UNCHANGED <<ackAdded, ackRemoved>>
           \/ \E i \in 1..Len(log') : /\ ackAdded' = ackAdded \cup log'[i].op.adds
                                      /\ ackRemoved' = ackRemoved \cup log'[i].op.removes
  <1>1. ASSUME NEW w \in Writers, PutCreated(w) \/ PutMeets(w) \/ SettleMeets(w)
        PROVE  \/ UNCHANGED <<ackAdded, ackRemoved>>
               \/ \E i \in 1..Len(log') : /\ ackAdded' = ackAdded \cup log'[i].op.adds
                                          /\ ackRemoved' = ackRemoved \cup log'[i].op.removes
    <2>1. CASE Fence(w)
      BY <2>1 DEF Fence, acked
    <2>2. ASSUME NEW x \in LogEntries, x = log'[set[w].next + 1], set[w].next < Len(log'), x.op = pending[w].op,
                 \/ pending[w].op = want[w] /\ Acknowledge(w)
                 \/ UNCHANGED acked
          PROVE  \/ UNCHANGED <<ackAdded, ackRemoved>>
                 \/ \E i \in 1..Len(log') : /\ ackAdded' = ackAdded \cup log'[i].op.adds
                                            /\ ackRemoved' = ackRemoved \cup log'[i].op.removes
      <3>1. set[w].next \in Nat /\ Len(log') \in Nat
        BY LenProperties DEF LogInv, Typed, Sets
      <3>2. set[w].next + 1 \in 1..Len(log')
        BY <2>2, <3>1
      <3> QED BY <2>2, <3>2 DEF Acknowledge, acked
    <2> QED BY <1>1, <2>1, <2>2, CommitStep
  <1>2. ASSUME NEW w \in Writers,
               \/ Open(w) \/ CatchUp(w) \/ Opened(w) \/ BeginNew(w) \/ BeginAgain(w) \/ SendNew(w) \/ Resend(w)
               \/ PutConflictBlind(w) \/ PutUnknown(w) \/ PutUnresolved(w)
               \/ SettleEmpty(w) \/ SettleFails(w) \/ Exit(w)
        PROVE  UNCHANGED acked
    BY <1>2 DEF Open, CatchUp, Opened, BeginNew, BeginAgain, Begin, SendNew, Resend, PutConflictBlind, Fence,
                PutUnknown, PutUnresolved, SettleEmpty, SettleFails, Exit
  <1> QED BY <1>1, <1>2 DEF Next, LateLand, vars, acked

\* Every step keeps what was reported true.
LEMMA AckNext ==
    ASSUME LogInv, Typed', StoreInv', [Next]_vars
    PROVE  AckInv'
  <1>0. AckInv /\ Typed /\ StoreInv
    BY DEF LogInv
  <1>1. /\ Removed' \subseteq ReaderSet'.seen
        /\ \A i \in 1..Len(log') : log'[i].op.adds \subseteq ReaderSet'.live \cup Removed'
        /\ ReaderSet.live \cup Removed \subseteq ReaderSet'.live \cup Removed'
        /\ Removed \subseteq Removed'
    <2>1. CASE log' = log /\ ReaderSet' = ReaderSet /\ Removed' = Removed
      BY <1>0, <2>1 DEF AckInv
    <2>2. ASSUME NEW e \in LogEntries, Accepts(ReaderSet, e),
                 ReaderSet' = Applied(ReaderSet, e), Removed' = Removed \cup e.op.removes,
                 \A i \in 1..Len(log') : (i \in 1..Len(log) /\ log'[i] = log[i]) \/ log'[i] = e
          PROVE  /\ Removed' \subseteq ReaderSet'.seen
                 /\ \A i \in 1..Len(log') : log'[i].op.adds \subseteq ReaderSet'.live \cup Removed'
                 /\ ReaderSet.live \cup Removed \subseteq ReaderSet'.live \cup Removed'
                 /\ Removed \subseteq Removed'
      <3>1. ReaderSet \in Sets /\ ReaderSet.live \subseteq ReaderSet.seen
        <4>1. Len(log) \in 0..Len(log)
          BY <1>0, LogTypes
        <4> QED BY <1>0, <4>1, ReaderIsLast DEF StoreInv
      <3>2. /\ ReaderSet'.live = (ReaderSet.live \ e.op.removes) \cup e.op.adds
            /\ ReaderSet'.seen = ReaderSet.seen \cup e.op.adds
        BY <2>2, <3>1, AppliedSet
      <3>3. e.op.removes \subseteq ReaderSet.live
        BY <2>2, AcceptsParts
      <3>4. ReaderSet.live \cup Removed \subseteq ReaderSet'.live \cup Removed' /\ Removed \subseteq Removed'
        BY <2>2, <3>2
      <3>5. Removed' \subseteq ReaderSet'.seen
        BY <1>0, <2>2, <3>1, <3>2, <3>3 DEF AckInv
      <3>6. e.op.adds \subseteq ReaderSet'.live
        BY <3>2
      <3>7. \A i \in 1..Len(log) : log[i].op.adds \subseteq ReaderSet.live \cup Removed
        BY <1>0 DEF AckInv
      <3>8. ASSUME NEW i \in 1..Len(log') PROVE log'[i].op.adds \subseteq ReaderSet'.live \cup Removed'
        BY <2>2, <3>4, <3>6, <3>7
      <3> QED BY <3>4, <3>5, <3>8
    <2> QED BY <2>1, <2>2, ReaderStep
  <1>2. \A i \in 1..Len(log') : log'[i].op.removes \subseteq Removed'
    BY DEF Removed
  <1>3. ackAdded' \subseteq ReaderSet'.live \cup Removed' /\ ackRemoved' \subseteq Removed'
    <2>1. ackAdded \subseteq ReaderSet'.live \cup Removed' /\ ackRemoved \subseteq Removed'
      BY <1>0, <1>1 DEF AckInv
    <2> QED BY <1>1, <1>2, <2>1, AckStep
  <1> QED BY <1>1, <1>3 DEF AckInv

-----------------------------------------------------------------------------
(* The theorems.                                                           *)

\* The empty log satisfies the invariant.
LEMMA LogInvInit == ASSUME Init PROVE LogInv
  <1> USE Blank DEF Init
  <1>1. Typed
    BY EmptySeq DEF Typed, Phases
  <1>2. Len(log) = 0 /\ Len(folds) = 0 /\ ReaderSet = EmptySet /\ Removed = {}
    BY EmptySeq DEF ReaderSet, Removed
  <1>3. StoreInv
    <2>1. \A n \in 0..Len(log) : FoldAt(n) = EmptySet /\ n = 0
      BY <1>2 DEF FoldAt
    <2> QED BY <1>2, <2>1 DEF StoreInv
  <1>4. FlightInv /\ CkptInv /\ ConsumedOncePerCheckpoint
    BY <1>2 DEF FlightInv, CkptInv, ConsumedOncePerCheckpoint
  <1>5. \A w \in Writers : PartsOf(w) = {} /\ set[w] = EmptySet /\ pending[w] = NoEntry /\ want[w] = NoOp
                           /\ phase[w] = "down"
    BY DEF PartsOf
  <1>6. Knows(EmptySet)
    <2>1. Matches(EmptySet, EmptySet) /\ FoldAt(0) = EmptySet
      BY DEF Matches, FoldAt
    <2> QED BY <1>2, <2>1 DEF Knows
  <1>7. WriterInv
    BY <1>5, <1>6 DEF WriterInv, WriterOK, Unresolved
  <1>8. OwnInv
    BY <1>2, <1>5 DEF OwnInv
  <1>9. AckInv
    BY <1>2 DEF AckInv
  <1> QED BY <1>1, <1>3, <1>4, <1>7, <1>8, <1>9 DEF LogInv

\* The inductive invariant: the log is folded by every reader, whoever wrote
\* its entries; what is sent fits where it was sent; checkpoints and writers
\* agree with the log at their heads.
THEOREM LogInvariant == Spec => []LogInv
  <1>1. ASSUME LogInv, [Next]_vars PROVE LogInv'
    <2>1. Typed'
      BY <1>1, TypedNext
    <2>2. Extended /\ StoreInv' /\ ConsumedOncePerCheckpoint'
      BY <1>1, <2>1, LogGrows
    <2>3. FlightInv' /\ CkptInv' /\ WriterInv' /\ OwnInv'
      BY <1>1, <2>1, <2>2, FlightNext, CheckpointsNext, WriterNext, OwnNext
    <2>4. AckInv'
      BY <1>1, <2>1, <2>2, AckNext
    <2> QED BY <2>1, <2>2, <2>3, <2>4 DEF LogInv
  <1> QED BY LogInvInit, <1>1, PTL DEF Spec

\* The part log's state keeps its type, whatever the number of writers,
\* epochs and sources and however long the log.
THEOREM LogTyped == Spec => []TypeOK
  <1>1. LogEntries \subseteq Entries /\ LogOps \subseteq Ops
    BY DEF LogEntries, LogOps
  <1>2. LogInv => TypeOK
    <2> SUFFICES ASSUME Typed PROVE TypeOK
      BY DEF LogInv
    <2>1. log \in Seq(Entries)
      <3>1. log \in Seq(LogEntries)
        BY DEF Typed
      <3>2. \A i \in 1..Len(log) : log[i] \in Entries
        BY <1>1, <3>1, ElementOfSeq
      <3>3. Len(log) \in Nat /\ log = [i \in 1..Len(log) |-> log[i]]
        BY <3>1, LenProperties
      <3> QED BY <3>2, <3>3, IsASeq
    <2>2. pending \in [Writers -> Entries] /\ want \in [Writers -> Ops] /\ late \subseteq Entries
      BY <1>1 DEF Typed
    <2> QED BY <2>1, <2>2 DEF Typed, TypeOK
  <1> QED BY <1>2, LogInvariant, PTL

\* Every entry that lands is one a reader following the log from entry 0
\* accepts: with any number of writers, late PUTs, retries, fences, restarts
\* and checkpoints, load_log and catch_up never meet a log they refuse.
THEOREM LogReadable == Spec => []ReadersAccept
  <1>1. LogInv => ReadersAccept
    BY DEF LogInv, StoreInv, ReadersAccept
  <1> QED BY <1>1, LogInvariant, PTL

\* A writer's set is the fold of the log up to its head.
THEOREM WriterAgrees == Spec => []WriterMatchesLog
  <1>1. ASSUME LogInv PROVE WriterMatchesLog
    <2> SUFFICES ASSUME NEW w \in Writers, set[w].next > 0
                 PROVE  Matches(set[w], folds[set[w].next])
      BY DEF WriterMatchesLog, Matches
    <2>1. Matches(set[w], FoldAt(set[w].next)) /\ set[w].next \in Nat
      BY <1>1 DEF LogInv, WriterInv, WriterOK, Knows, Typed, Sets
    <2>2. set[w].next # 0
      BY <2>1
    <2> QED BY <2>1, <2>2 DEF FoldAt
  <1> QED BY <1>1, LogInvariant, PTL

\* No source is consumed twice without a checkpoint in between.
THEOREM SourcesConsumedOnce == Spec => []ConsumedOncePerCheckpoint
  <1>1. LogInv => ConsumedOncePerCheckpoint
    BY DEF LogInv
  <1> QED BY <1>1, LogInvariant, PTL

\* An add or merge is reported committed, or adopted, only by the process
\* that built the entry.
THEOREM OnlyOwnAdopted == Spec => AddsAreOwn
  <1> DEFINE Own == \A w \in Writers :
                       phase[w] \in {"put", "append"} /\ set'[w].next > set[w].next
                           /\ log'[set'[w].next].op.adds # {}
                       => set'[w].sha \in mine[w]
  <1>1. ASSUME LogInv, Next PROVE Own
    <2> SUFFICES ASSUME NEW w \in Writers, phase[w] \in {"put", "append"},
                        set'[w].next > set[w].next, log'[set'[w].next].op.adds # {}
                 PROVE  set'[w].sha \in mine[w]
      OBVIOUS
    <2>0. Typed /\ Typed' /\ set[w] \in Sets /\ set[w].next \in Nat
      BY <1>1, TypedNext DEF LogInv, Typed, Sets
    <2>1. set'[w] # set[w] /\ set'[w].next # 0
      BY <2>0
    <2>2. ASSUME NEW x \in LogEntries, Committed(w, x), x = log'[set[w].next + 1], set[w].next < Len(log'),
                 x.op = pending[w].op, pending[w] # NoEntry, x = pending[w] \/ log' = log
          PROVE  set'[w].sha \in mine[w]
      <3>1. set'[w] = Applied(set[w], x)
        BY <2>0, <2>2 DEF Committed, Typed
      <3>2. set'[w].sha = x.ms /\ set'[w].next = set[w].next + 1
        BY <2>0, <3>1, AppliedSet
      <3>3. x.op.adds # {} /\ x.op.adds \subseteq PartsOf(w)
        BY <2>2, <3>2 DEF PartsOf
      <3>4. CASE x = pending[w]
        BY <1>1, <2>2, <3>2, <3>4 DEF LogInv, WriterInv, WriterOK, Unresolved
      <3>5. CASE log' = log
        <4>1. Len(log) \in Nat
          BY <2>0, LogTypes
        <4>2. set[w].next + 1 \in 1..Len(log) /\ x = log[set[w].next + 1]
          BY <2>0, <2>2, <3>5, <4>1
        <4>3. x.op.adds \cap PartsOf(w) # {}
          BY <3>3
        <4> QED BY <1>1, <3>2, <4>2, <4>3 DEF LogInv, OwnInv
      <3> QED BY <2>2, <3>4, <3>5
    <2>3. CASE PutCreated(w) \/ PutMeets(w) \/ SettleMeets(w)
      <3>1. ~Fence(w)
        BY <2>1 DEF Fence
      <3> QED BY <1>1, <2>0, <2>2, <2>3, <3>1, CommitStep
    <2>4. CASE \/ Open(w) \/ CatchUp(w) \/ Opened(w) \/ BeginNew(w) \/ BeginAgain(w) \/ SendNew(w) \/ Resend(w)
               \/ PutConflictBlind(w) \/ PutUnknown(w) \/ PutUnresolved(w)
               \/ SettleEmpty(w) \/ SettleFails(w)
      BY <2>1, <2>4 DEF Open, CatchUp, Opened, BeginNew, BeginAgain, Begin, SendNew, Resend, PutConflictBlind, Fence,
                        PutUnknown, PutUnresolved, SettleEmpty, SettleFails
    <2>5. CASE Exit(w)
      BY <2>0, <2>1, <2>5, Blank DEF Exit, Typed
    <2>6. CASE \E e \in late : LateLand(e)
      BY <2>1, <2>6 DEF LateLand
    <2>7. ASSUME NEW v \in Writers, v # w,
           \/ Open(v) \/ CatchUp(v) \/ Opened(v)
           \/ BeginNew(v) \/ BeginAgain(v) \/ SendNew(v) \/ Resend(v)
           \/ PutCreated(v) \/ PutMeets(v) \/ PutConflictBlind(v)
           \/ PutUnknown(v) \/ PutUnresolved(v)
           \/ SettleEmpty(v) \/ SettleMeets(v) \/ SettleFails(v)
           \/ Exit(v)
          PROVE  FALSE
      BY <2>0, <2>1, <2>7, Idle
    <2> QED BY <1>1, <2>3, <2>4, <2>5, <2>6, <2>7 DEF Next
  <1>2. LogInv /\ [Next]_vars => [Own]_vars
    BY <1>1
  <1> QED BY <1>2, LogInvariant, PTL DEF Spec, AddsAreOwn

\* The part log implements LiveParts: a part becomes live once, leaves the
\* live set once and never comes back, and what append reported committed has
\* happened, for a reader of the log as it is now.
THEOREM LogImplementsLiveParts == Spec => ImplementsLiveParts
  <1>1. Init => Abstract!Init
    <2> SUFFICES ASSUME Init PROVE Abstract!Init
      OBVIOUS
    <2>1. ReaderSet = EmptySet /\ Removed = {}
      BY EmptySeq DEF Init, ReaderSet, Removed
    <2> QED BY <2>1, Blank DEF Init, Abstract!Init
  <1>2. ASSUME LogInv, LogInv', [Next]_vars PROVE [Abstract!Next]_(Abstract!vars)
    <2>0. Typed /\ Typed' /\ StoreInv /\ StoreInv' /\ AckInv /\ AckInv'
      BY <1>2 DEF LogInv
    <2>1. ackAdded \subseteq ackAdded' /\ ackRemoved \subseteq ackRemoved'
      BY <1>2, <2>0, AckStep
    <2>2. Abstract!Report
      BY <2>0, <2>1 DEF AckInv, Abstract!Report
    <2>3. Abstract!Change
      <3>1. CASE ReaderSet' = ReaderSet /\ Removed' = Removed
        BY <3>1 DEF Abstract!Change
      <3>2. ASSUME NEW e \in LogEntries, Accepts(ReaderSet, e),
                   ReaderSet' = Applied(ReaderSet, e), Removed' = Removed \cup e.op.removes
            PROVE  Abstract!Change
        <4>1. ReaderSet \in Sets /\ ReaderSet.live \subseteq ReaderSet.seen
          <5>1. Len(log) \in 0..Len(log)
            BY <2>0, LogTypes
          <5> QED BY <2>0, <5>1, ReaderIsLast DEF StoreInv
        <4>2. ReaderSet'.live = (ReaderSet.live \ e.op.removes) \cup e.op.adds
          BY <3>2, <4>1, AppliedSet
        <4>3. e.op.adds \cap ReaderSet.seen = {} /\ e.op.removes \subseteq ReaderSet.live
          BY <3>2, AcceptsParts
        <4>4. (ReaderSet'.live \ ReaderSet.live) \cap Removed = {}
          BY <2>0, <4>2, <4>3 DEF AckInv
        <4>5. ReaderSet.live \ ReaderSet'.live = e.op.removes
          BY <4>1, <4>2, <4>3
        <4> QED BY <3>2, <4>4, <4>5 DEF Abstract!Change
      <3> QED BY <1>2, <2>0, <3>1, <3>2, ReaderStep
    <2> QED BY <2>2, <2>3 DEF Abstract!Next
  <1> QED BY <1>1, <1>2, LogInvariant, PTL DEF Spec, ImplementsLiveParts, Abstract!Spec
==============================================================================
