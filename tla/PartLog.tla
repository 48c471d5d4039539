------------------------------ MODULE PartLog ------------------------------
(***************************************************************************)
(* The part log of one tenant and its writers (nanosiem-lake-worker/src/   *)
(* parts/part_log.rs, PartLogWriter).  Entry n of the log is the object    *)
(* log/entries/n, created by a conditional PUT: the first create of a key  *)
(* wins, and that create is the commit.                                    *)
(*                                                                         *)
(* Several processes may write at once (the writer lease and the flock     *)
(* make that rare, the log must survive it).  A PUT whose answer was lost  *)
(* may land later, as long as its key is free.  A process may die at any   *)
(* point and be started again.                                             *)
(***************************************************************************)
EXTENDS LiveSet, Sequences, FiniteSets

CONSTANTS
    Writers,            \* ingest processes
    Epochs,             \* the writer epochs a process may be configured with
    Sources,            \* source objects an add may consume
    OpKinds,            \* the kinds of operation callers append
    CheckpointEvery,    \* CHECKPOINT_EVERY
    MaxLog,             \* bound: entries of the log
    MaxBuilt,           \* bound: entries built by all writers
    MaxParts,           \* bound: parts made by all writers
    MaxLate             \* bound: PUTs in flight that nobody waits for

ASSUME PartLogAssumption ==
    /\ Epochs \subseteq Nat \ {0}
    /\ CheckpointEvery \in Nat \ {0}
    /\ MaxLog \in Nat /\ MaxBuilt \in Nat /\ MaxParts \in Nat /\ MaxLate \in Nat

VARIABLES
    log,        \* the entries in the object store; entry n at log[n + 1]
    late,       \* entries whose PUT may still land
    ckpts,      \* the objects under log/checkpoints/
    built,      \* entries built so far: the next one's ms is built + 1
    made,       \* parts made so far: the next one is made + 1
    phase,      \* phase[w]: what process w is doing
    epoch,      \* epoch[w]: PartLogWriter::writer_epoch
    set,        \* set[w]: PartLogWriter::set
    pending,    \* pending[w]: PartLogWriter::pending
    want,       \* want[w]: the operation of the append under way or to retry
    mine,       \* history: mine[w], the entries process w built since it started
    folds,      \* history: a reader's set after each entry, from entry 0 on
    ackAdded,   \* history: parts whose add or merge was reported committed
    ackRemoved  \* history: parts whose removal was reported committed

store  == <<log, late, ckpts, folds>>
fresh  == <<built, made>>
acked  == <<ackAdded, ackRemoved>>
vars   == <<store, fresh, phase, epoch, set, pending, want, mine, acked>>

Phases == {"down", "loading", "open", "append", "put", "fenced"}

Init ==
    /\ log = << >> /\ late = {} /\ ckpts = {} /\ folds = << >>
    /\ built = 0 /\ made = 0
    /\ phase = [w \in Writers |-> "down"]
    /\ epoch = [w \in Writers |-> 0]
    /\ set = [w \in Writers |-> EmptySet]
    /\ pending = [w \in Writers |-> NoEntry]
    /\ want = [w \in Writers |-> NoOp]
    /\ mine = [w \in Writers |-> {}]
    /\ ackAdded = {} /\ ackRemoved = {}

-----------------------------------------------------------------------------
(* The object store.                                                       *)

\* The key of entry seq is free.  Nobody builds an entry past the log's end.
KeyFree(seq) == seq = Len(log)

\* The entry under key seq, when it is taken.
Stored(seq) == log[seq + 1]

\* The set of a reader that has followed the log from entry 0.
ReaderSet == IF folds = << >> THEN EmptySet ELSE folds[Len(folds)]

\* A create of e succeeds.  PUTs still in flight for the same key are moot; a
\* reader folds the entry if it accepts it, and is stuck otherwise.
Land(e) ==
    /\ log' = Append(log, e)
    /\ late' = {l \in late : l.seq > e.seq}
    /\ folds' = IF Len(folds) = Len(log) /\ Accepts(ReaderSet, e)
                THEN Append(folds, Applied(ReaderSet, e))
                ELSE folds

\* A PUT nobody waits for lands.
LateLand(e) ==
    /\ KeyFree(e.seq)
    /\ Land(e)
    /\ UNCHANGED <<ckpts, fresh, phase, epoch, set, pending, want, mine, acked>>

\* What of a PUT under way is left behind: the request may be lost, or land
\* later.
LeftBehind(e) ==
    \/ UNCHANGED late
    \/ KeyFree(e.seq) /\ late' = late \cup {e}
       /\ Cardinality(late \cup {e}) <= MaxLate

-----------------------------------------------------------------------------
(* Opening: load_log, catch_up, PartLogWriter::open.                       *)

\* load_log starts at the newest checkpoint, or at nothing.
Newest == CHOOSE c \in ckpts : \A d \in ckpts : d.seq <= c.seq

LoadFrom == IF ckpts = {} THEN EmptySet ELSE FromCheckpoint(Newest)

Open(w) ==
    /\ phase[w] = "down"
    /\ \E ep \in Epochs : epoch' = [epoch EXCEPT ![w] = ep]
    /\ phase' = [phase EXCEPT ![w] = "loading"]
    /\ set' = [set EXCEPT ![w] = LoadFrom]
    /\ UNCHANGED <<store, fresh, pending, want, mine, acked>>

\* catch_up: one entry after the head is fetched and applied.  An entry it
\* refuses ends the process (Exit).
CatchUp(w) ==
    /\ phase[w] = "loading"
    /\ set[w].next < Len(log)
    /\ Accepts(set[w], Stored(set[w].next))
    /\ set' = [set EXCEPT ![w] = Applied(set[w], Stored(set[w].next))]
    /\ UNCHANGED <<store, fresh, phase, epoch, pending, want, mine, acked>>

\* The end of the log is reached and the log's epoch is not newer: open, or
\* append genesis to an empty log.
Opened(w) ==
    /\ phase[w] = "loading"
    /\ KeyFree(set[w].next)
    /\ epoch[w] >= set[w].epoch
    /\ IF set[w].next = 0
       THEN /\ phase' = [phase EXCEPT ![w] = "append"]
            /\ want' = [want EXCEPT ![w] = Genesis]
       ELSE /\ phase' = [phase EXCEPT ![w] = "open"]
            /\ UNCHANGED want
    /\ UNCHANGED <<store, fresh, epoch, set, pending, mine, acked>>

-----------------------------------------------------------------------------
(* append.                                                                 *)

\* The operations a caller may start: flushes, merges, retirements and
\* rejections, each naming live parts and parts newly made (PartId is a
\* fresh ULID).
NewOps(w) ==
    LET part == made + 1
        fits == made < MaxParts
        live == set[w].live
    IN  {op \in {Add({part}, {s}) : s \in Sources}
                \cup {Merge(part, R) : R \in (SUBSET live) \ {{}}} : fits}
        \cup {Retire({p}) : p \in live}
        \cup {Reject}

\* append(op): a new operation, or the one that failed before once more.  A
\* pending entry of another head is forgotten.
Begin(w, op) ==
    /\ phase[w] = "open"
    /\ phase' = [phase EXCEPT ![w] = "append"]
    /\ want' = [want EXCEPT ![w] = op]
    /\ pending' = [pending EXCEPT ![w] =
                      IF @.seq = set[w].next /\ @.prev = set[w].sha THEN @ ELSE NoEntry]
    /\ UNCHANGED <<store, built, epoch, set, mine, acked>>

BeginNew(w) ==
    \E op \in NewOps(w) :
        /\ op.kind \in OpKinds
        /\ Begin(w, op)
        /\ made' = made + Cardinality(op.adds)

BeginAgain(w) == want[w] # NoOp /\ Begin(w, want[w]) /\ UNCHANGED made

\* Faulty variant: the entry is sent without validating it.
CreateUnchecked(w, e) ==
    /\ pending' = [pending EXCEPT ![w] = e]
    /\ phase' = [phase EXCEPT ![w] = "put"]
    /\ UNCHANGED want

\* create, up to the PUT: the entry is validated against the writer's own
\* set, then remembered as pending and sent; or refused, with nothing sent.
\* (The append gate is the subject of WriterLease: a refusal there is fatal,
\* which is Exit.)
Create(w, e) ==
    IF CheckConsumes(set[w], e.op) /\ Accepts(set[w], e)
    THEN /\ pending' = [pending EXCEPT ![w] = e]
         /\ phase' = [phase EXCEPT ![w] = "put"]
         /\ UNCHANGED want
    ELSE /\ pending' = [pending EXCEPT ![w] = NoEntry]
         /\ phase' = [phase EXCEPT ![w] = "open"]
         /\ want' = [want EXCEPT ![w] = NoOp]

\* No unresolved attempt: build a new entry at the head.
SendNew(w) ==
    /\ phase[w] = "append" /\ pending[w] = NoEntry
    /\ built < MaxBuilt /\ set[w].next < MaxLog
    /\ built' = built + 1
    /\ mine' = [mine EXCEPT ![w] = @ \cup {built + 1}]
    /\ Create(w, Entry(set[w].next, set[w].sha, epoch[w], built + 1, want[w]))
    /\ UNCHANGED <<store, made, epoch, set, acked>>

\* The same operation is unresolved: send the identical bytes again.
Resend(w) ==
    /\ phase[w] = "append"
    /\ pending[w] # NoEntry /\ pending[w].op = want[w]
    /\ Create(w, pending[w])
    /\ UNCHANGED <<store, fresh, epoch, set, mine, acked>>

-----------------------------------------------------------------------------
(* Outcomes.                                                               *)

\* Faulty variant: the operation is not compared.
IsOwnEntryAnyOp(existing, e) ==
    existing.seq = e.seq /\ existing.prev = e.prev /\ existing.epoch = e.epoch

\* is_own_entry: everything but the append time agrees.
IsOwnEntry(existing, e) ==
    /\ existing.seq = e.seq /\ existing.prev = e.prev
    /\ existing.epoch = e.epoch /\ existing.op = e.op

\* committed: the head moves to e; every CheckpointEvery entries a
\* checkpoint is created at it, unless it exists; that may fail.
Committed(w, e) ==
    LET next == Applied(set[w], e)
        seq  == e.seq
    IN  /\ set' = [set EXCEPT ![w] = next]
        /\ pending' = [pending EXCEPT ![w] = NoEntry]
        /\ \/ UNCHANGED ckpts
           \/ /\ seq > 0 /\ seq % CheckpointEvery = 0
              /\ \A c \in ckpts : c.seq # seq
              /\ ckpts' = ckpts \cup {Checkpoint(next)}

\* append returns Committed: its caller takes the operation as done.
Acknowledge(w) ==
    /\ phase' = [phase EXCEPT ![w] = "open"]
    /\ want' = [want EXCEPT ![w] = NoOp]
    /\ ackAdded' = ackAdded \cup want[w].adds
    /\ ackRemoved' = ackRemoved \cup want[w].removes

\* append returns Fenced; the caller reloads and exits.
Fence(w) ==
    /\ phase' = [phase EXCEPT ![w] = "fenced"]
    /\ pending' = [pending EXCEPT ![w] = NoEntry]
    /\ UNCHANGED <<store, set, want, acked>>

\* The create succeeded.
PutCreated(w) ==
    /\ phase[w] = "put"
    /\ KeyFree(pending[w].seq)
    /\ Land(pending[w])
    /\ Committed(w, pending[w])
    /\ Acknowledge(w)
    /\ UNCHANGED <<fresh, epoch, mine>>

\* The key is taken (412, a 409, or a held key) and the entry under it can be
\* read: these bytes, or this writer's own entry, is the commit; any other
\* entry fences.
PutMeets(w) ==
    /\ phase[w] = "put"
    /\ ~KeyFree(pending[w].seq)
    /\ LET existing == Stored(pending[w].seq)
       IN  IF existing = pending[w] \/ IsOwnEntry(existing, pending[w])
           THEN /\ Committed(w, existing)
                /\ Acknowledge(w)
                /\ UNCHANGED <<log, late, folds>>
           ELSE Fence(w)
    /\ UNCHANGED <<fresh, epoch, mine>>

\* Another create of this key is under way: a PUT in flight, or another
\* process's.
Contended(w) ==
    \/ ~KeyFree(pending[w].seq)
    \/ \E l \in late : l.seq = pending[w].seq
    \/ \E v \in Writers \ {w} : phase[v] = "put" /\ pending[v].seq = pending[w].seq

\* Faulty variant: the conflict is taken for this writer's own entry.
PutConflictTrusted(w) ==
    /\ phase[w] = "put"
    /\ Contended(w)
    /\ Committed(w, pending[w])
    /\ Acknowledge(w)
    /\ UNCHANGED <<log, late, folds, fresh, epoch, mine>>

\* OwnerConflict (a concurrent conditional write won), and the key cannot be
\* read, or not yet: fenced.
PutConflictBlind(w) ==
    /\ phase[w] = "put"
    /\ Contended(w)
    /\ Fence(w)
    /\ UNCHANGED <<fresh, epoch, mine>>

\* The outcome is unknown (an error, a timeout, a cancelled append), or the
\* key is held and cannot be read: the entry stays pending.
PutUnknown(w) ==
    /\ phase[w] = "put" /\ pending[w].seq > 0
    /\ LeftBehind(pending[w])
    /\ phase' = [phase EXCEPT ![w] = "open"]
    /\ UNCHANGED <<log, ckpts, folds, fresh, epoch, set, pending, want, mine, acked>>

\* NativePutUnresolved: the read-back found no object, and the request can
\* never be repeated.  It may still land.
PutUnresolved(w) ==
    /\ phase[w] = "put" /\ pending[w].seq > 0
    /\ KeyFree(pending[w].seq)
    /\ LeftBehind(pending[w])
    /\ pending' = [pending EXCEPT ![w] = NoEntry]
    /\ phase' = [phase EXCEPT ![w] = "open"]
    /\ UNCHANGED <<log, ckpts, folds, fresh, epoch, set, want, mine, acked>>

-----------------------------------------------------------------------------
(* settle_pending: another operation is unresolved at this head.           *)

Settling(w) ==
    phase[w] = "append" /\ pending[w] # NoEntry /\ pending[w].op # want[w]

\* Its key is empty: the attempt is dropped, and the append goes on.
SettleEmpty(w) ==
    /\ Settling(w)
    /\ KeyFree(pending[w].seq)
    /\ pending' = [pending EXCEPT ![w] = NoEntry]
    /\ UNCHANGED <<store, fresh, phase, epoch, set, want, mine, acked>>

\* Its key is taken: adopt this writer's own entry, and the append goes on at
\* the new head; any other entry fences.
SettleMeets(w) ==
    /\ Settling(w)
    /\ ~KeyFree(pending[w].seq)
    /\ LET existing == Stored(pending[w].seq)
       IN  IF IsOwnEntry(existing, pending[w])
           THEN /\ Committed(w, existing)
                /\ UNCHANGED <<log, late, folds, phase, want, acked>>
           ELSE Fence(w)
    /\ UNCHANGED <<fresh, epoch, mine>>

\* The key cannot be read (the attempt stays pending), or the append is
\* cancelled meanwhile (the attempt, already taken out, is forgotten).
SettleFails(w) ==
    /\ Settling(w)
    /\ phase' = [phase EXCEPT ![w] = "open"]
    /\ \E p \in {pending[w], NoEntry} : pending' = [pending EXCEPT ![w] = p]
    /\ UNCHANGED <<store, fresh, epoch, set, want, mine, acked>>

-----------------------------------------------------------------------------
\* The process ends: a fatal error, a fence, a refused open, the append gate,
\* a drain or a crash.  A PUT under way is left behind.
Exit(w) ==
    /\ phase[w] # "down"
    /\ IF phase[w] = "put" THEN LeftBehind(pending[w]) ELSE UNCHANGED late
    /\ phase' = [phase EXCEPT ![w] = "down"]
    /\ epoch' = [epoch EXCEPT ![w] = 0]
    /\ set' = [set EXCEPT ![w] = EmptySet]
    /\ pending' = [pending EXCEPT ![w] = NoEntry]
    /\ want' = [want EXCEPT ![w] = NoOp]
    /\ mine' = [mine EXCEPT ![w] = {}]
    /\ UNCHANGED <<log, ckpts, folds, fresh, acked>>

Next ==
    \/ \E e \in late : LateLand(e)
    \/ \E w \in Writers :
          \/ Open(w) \/ CatchUp(w) \/ Opened(w)
          \/ BeginNew(w) \/ BeginAgain(w) \/ SendNew(w) \/ Resend(w)
          \/ PutCreated(w) \/ PutMeets(w) \/ PutConflictBlind(w)
          \/ PutUnknown(w) \/ PutUnresolved(w)
          \/ SettleEmpty(w) \/ SettleMeets(w) \/ SettleFails(w)
          \/ Exit(w)

Spec == Init /\ [][Next]_vars

-----------------------------------------------------------------------------
(* Properties.                                                             *)

Ops == [kind : {"none", "genesis", "add", "merge", "retire", "adopt", "reject", "floor", "end"},
        adds : SUBSET Nat, removes : SUBSET Nat, consumes : SUBSET Sources,
        first : Int, through : Int]
Entries == [seq : Nat, prev : Nat, epoch : Nat, ms : Nat, op : Ops]
Sets == [next : Nat, sha : Nat, epoch : Nat, live : SUBSET Nat, seen : SUBSET Nat,
         consumed : SUBSET Sources, edge : Int, ended : Int]
Checkpoints == [seq : Nat, sha : Nat, epoch : Nat, live : SUBSET Nat, edge : Int, ended : Int]

TypeOK ==
    /\ log \in Seq(Entries) /\ folds \in Seq(Sets)
    /\ late \subseteq Entries /\ ckpts \subseteq Checkpoints
    /\ built \in Nat /\ made \in Nat
    /\ phase \in [Writers -> Phases]
    /\ epoch \in [Writers -> Nat]
    /\ set \in [Writers -> Sets]
    /\ pending \in [Writers -> Entries]
    /\ want \in [Writers -> Ops]
    /\ mine \in [Writers -> SUBSET Nat]
    /\ ackAdded \subseteq Nat /\ ackRemoved \subseteq Nat

\* Every entry that is in the log, whoever's PUT landed and whenever, is one
\* a reader following the log from entry 0 accepts: load_log and catch_up
\* never meet a broken chain, a part added twice, or a removal of a part that
\* is not live.
ReadersAccept == Len(folds) = Len(log)

\* A writer's set is the fold of the log up to its head, although it may
\* have started from a checkpoint and adopted entries it did not see land:
\* the same head, live parts and edge point; what it remembers of removed
\* parts and consumed sources is at most what a reader knows.
WriterMatchesLog ==
    \A w \in Writers :
        LET s == set[w]
        IN  s.next > 0 /\ s.next <= Len(folds) =>
                LET r == folds[s.next]
                IN  /\ s.sha = r.sha /\ s.epoch = r.epoch
                    /\ s.live = r.live /\ s.edge = r.edge /\ s.ended = r.ended
                    /\ s.seen \subseteq r.seen /\ s.consumed \subseteq r.consumed

\* A source is consumed twice only with a checkpoint in between: the writer's
\* double-consume guard (check_consumes) holds across retries, fences and
\* restarts, up to what a checkpoint forgets.
ConsumedOncePerCheckpoint ==
    \A i, j \in 1..Len(log) :
        i < j /\ log[i].op.consumes \cap log[j].op.consumes # {} =>
            \E c \in ckpts : i <= c.seq + 1 /\ c.seq + 1 < j

\* An add or merge is reported committed, or adopted, only by the process
\* that built an entry for it: nobody takes over another process's parts.
AddsAreOwn ==
    [][\A w \in Writers :
          phase[w] \in {"put", "append"} /\ set'[w].next > set[w].next
              /\ log'[set'[w].next].op.adds # {}
          => set'[w].sha \in mine[w]]_vars

\* What append's documentation says of an ambiguous attempt: "an entry this
\* writer itself landed under an ambiguous earlier attempt (R2 500 or a
\* timeout after the bytes were stored) is adopted, never fenced".
OwnEntryNeverFences ==
    \A w \in Writers :
        phase[w] = "fenced" /\ ~KeyFree(set[w].next) => Stored(set[w].next).ms \notin mine[w]

-----------------------------------------------------------------------------
\* The abstract specification, read off what a reader of the log sees.
Removed == UNION {log[i].op.removes : i \in 1..Len(log)}

Abstract == INSTANCE LiveParts WITH
    live <- ReaderSet.live, gone <- Removed,
    ackAdded <- ackAdded, ackRemoved <- ackRemoved

\* The part log, with retries, late PUTs, fences, checkpoints and restarts,
\* implements LiveParts: parts live once and removed once, and every
\* acknowledged append in effect.
ImplementsLiveParts == Abstract!Spec
=============================================================================
