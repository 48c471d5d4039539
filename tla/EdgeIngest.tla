----------------------------- MODULE EdgeIngest -----------------------------
(***************************************************************************)
(* Consuming a tenant's edge log exactly once.  Three parties:             *)
(*   - the edge log itself, a durable object (DO) that numbers the         *)
(*     segments it receives, leases them to one consumer at a time and     *)
(*     keeps a committed point (external; modelled from the transport's    *)
(*     semantics that edge_log/tests.rs and protocol.rs fix);              *)
(*   - the part log, here only its entries that carry an edge point; the   *)
(*     first create of a position wins (PartLog);                          *)
(*   - consumers: an ingest process with its EdgeLogSource                 *)
(*     (edge_log/source.rs) and its part-log writer.                       *)
(* "The part log is the linearization point": a range is committed to the  *)
(* DO only after the entry recording it landed.                            *)
(***************************************************************************)
EXTENDS LiveSet, Sequences, FiniteSets

CONSTANTS
    Consumers,      \* ingest processes
    MaxIssued,      \* max_issued_ranges
    MayDrain,       \* whether an operator switches the Worker's mode
    MaxSeg,         \* bound: segments the DO receives
    MaxLog,         \* bound: entries of the part log
    MaxLeases,      \* bound: leases the DO grants
    MaxFaults       \* bound: crashes, unknown appends, lost commit answers

ASSUME EdgeIngestAssumption ==
    /\ MayDrain \in BOOLEAN
    /\ MaxIssued \in Nat \ {0} /\ MaxSeg \in Nat /\ MaxLog \in Nat
    /\ MaxLeases \in Nat /\ MaxFaults \in Nat

VARIABLES
    \* the DO
    dHead,      \* segments received
    dCommitted, \* the committed point
    dEpoch,     \* the newest lease's epoch
    dMode,      \* "do" or "drain"
    dPurge,     \* the attested purge, NoPoint when there was none
    strays,     \* commit requests whose answer nobody waits for
    \* the part log
    log,        \* its edge entries (LogOp)
    late,       \* appends whose outcome is unknown, and may still land
    \* consumer c
    phase,      \* phase[c]
    lease,      \* State::epoch
    through,    \* State::through
    lastPulled, \* State::last_pulled
    pulled,     \* State::pulled
    skipped,    \* State::skipped
    issued,     \* State::issued and ingest's flushes in flight, oldest first
    floor,      \* State::pending_floor
    point,      \* the floor or end being recorded
    head,       \* how many entries its part-log writer knows
    pend,       \* the writer's unresolved append
    \* bookkeeping
    faults,     \* faults so far
    decided     \* history: segments a consumer found to be without rows

do        == <<dHead, dCommitted, dEpoch, dMode, dPurge, strays>>
partLog   == <<log, late>>
window    == <<through, lastPulled, pulled, skipped, issued>>
writer    == <<head, pend>>
vars      == <<do, partLog, phase, lease, window, floor, point, writer, faults, decided>>

Phases == {"down", "loaded", "reconciling", "leased", "running", "floored", "ending", "ended"}

Init ==
    /\ dHead = 0 /\ dCommitted = 0 /\ dEpoch = 0 /\ dMode = "do" /\ dPurge = NoPoint
    /\ strays = {} /\ log = << >> /\ late = {}
    /\ phase = [c \in Consumers |-> "down"]
    /\ lease = [c \in Consumers |-> 0]
    /\ through = [c \in Consumers |-> 0]
    /\ lastPulled = [c \in Consumers |-> 0]
    /\ pulled = [c \in Consumers |-> {}]
    /\ skipped = [c \in Consumers |-> {}]
    /\ issued = [c \in Consumers |-> << >>]
    /\ floor = [c \in Consumers |-> NoPoint]
    /\ point = [c \in Consumers |-> NoPoint]
    /\ head = [c \in Consumers |-> 0]
    /\ pend = [c \in Consumers |-> NoOp]
    /\ faults = 0 /\ decided = {}

Fault == faults < MaxFaults /\ faults' = faults + 1

-----------------------------------------------------------------------------
(* The part log's edge state after n entries.                              *)

\* The edge point and the ended point; the rest of the set is not needed.
SetAfter(n) ==
    LET last == log[n]
    IN  Set(n + 1, 0, 0, {}, {}, {},
            IF n = 0 \/ last.kind = "end" THEN NoPoint ELSE last.through,
            IF n > 0 /\ last.kind = "end" THEN last.through ELSE NoPoint)

\* edge_point().or(edge_ended()): where a consumer resumes.
Base(n) == IF n = 0 THEN 0 ELSE log[n].through

\* The writer at n entries validates op (LiveSet::apply).
Fits(n, op) == OpFits(SetAfter(n), n + 1, op)

-----------------------------------------------------------------------------
(* The DO.                                                                 *)

\* The tenant Worker appends a segment; draining, it sends them elsewhere.
Receive ==
    /\ dMode = "do" /\ dHead < MaxSeg
    /\ dHead' = dHead + 1
    /\ UNCHANGED <<dCommitted, dEpoch, dMode, dPurge, strays, partLog, phase, lease, window,
                   floor, point, writer, faults, decided>>

\* An operator switches the Worker between do and drain.
SwitchMode ==
    /\ MayDrain
    /\ dMode' = IF dMode = "do" THEN "drain" ELSE "do"
    /\ UNCHANGED <<dHead, dCommitted, dEpoch, dPurge, strays, partLog, phase, lease, window,
                   floor, point, writer, faults, decided>>

\* Offboarding purges the log: the committed point moves to the head, and
\* the DO attests it.
Purge ==
    /\ dCommitted < dHead
    /\ dCommitted' = dHead /\ dPurge' = dHead
    /\ UNCHANGED <<dHead, dEpoch, dMode, strays, partLog, phase, lease, window,
                   floor, point, writer, faults, decided>>

\* What a commit of t under epoch e does: an older lease is fenced, a point
\* below the committed one conflicts, the same one is a replay.
CommitOk(e, t) == e = dEpoch /\ t >= dCommitted /\ (t = dCommitted => t # dPurge)

\* A commit request nobody waits for is executed.
StrayCommit(r) ==
    /\ dCommitted' = IF CommitOk(r.epoch, r.through) THEN r.through ELSE dCommitted
    /\ strays' = strays \ {r}
    /\ UNCHANGED <<dHead, dEpoch, dMode, dPurge, partLog, phase, lease, window,
                   floor, point, writer, faults, decided>>

-----------------------------------------------------------------------------
(* Opening: load the log's point, lease and reconcile, open the writer.    *)

LoadPoint(c) ==
    /\ phase[c] = "down"
    /\ phase' = [phase EXCEPT ![c] = "loaded"]
    /\ through' = [through EXCEPT ![c] = Base(Len(log))]
    /\ UNCHANGED <<do, partLog, lease, lastPulled, pulled, skipped, issued, floor, point,
                   writer, faults, decided>>

\* EdgeLogSource::open.  The log ahead: its commit is still to be made.
\* Equal: go on.  The log behind: only after an attested purge, which becomes
\* a floor to record before anything is pulled.
TakeLease(c) ==
    /\ phase[c] = "loaded"
    /\ dEpoch < MaxLeases
    /\ dEpoch' = dEpoch + 1
    /\ lease' = [lease EXCEPT ![c] = dEpoch + 1]
    /\ \/ /\ through[c] > dCommitted
          /\ phase' = [phase EXCEPT ![c] = "reconciling"]
          /\ lastPulled' = [lastPulled EXCEPT ![c] = through[c]]
          /\ UNCHANGED <<through, floor>>
       \/ /\ through[c] = dCommitted
          /\ phase' = [phase EXCEPT ![c] = "leased"]
          /\ lastPulled' = [lastPulled EXCEPT ![c] = through[c]]
          /\ UNCHANGED <<through, floor>>
       \/ /\ through[c] < dCommitted /\ dPurge = dCommitted
          /\ phase' = [phase EXCEPT ![c] = "leased"]
          /\ floor' = [floor EXCEPT ![c] = dCommitted]
          /\ through' = [through EXCEPT ![c] = dCommitted]
          /\ lastPulled' = [lastPulled EXCEPT ![c] = dCommitted]
    /\ UNCHANGED <<dHead, dCommitted, dMode, dPurge, strays, partLog, pulled, skipped, issued,
                   point, writer, faults, decided>>

\* The entry that recorded the point landed but its DO commit did not.
Reconcile(c) ==
    /\ phase[c] = "reconciling"
    /\ CommitOk(lease[c], through[c])
    /\ dCommitted' = through[c]
    /\ phase' = [phase EXCEPT ![c] = "leased"]
    /\ UNCHANGED <<dHead, dEpoch, dMode, dPurge, strays, partLog, lease, window, floor, point,
                   writer, faults, decided>>

\* PartLogWriter::open reads the log again.
OpenWriter(c) ==
    /\ phase[c] = "leased"
    /\ phase' = [phase EXCEPT ![c] = "running"]
    /\ head' = [head EXCEPT ![c] = Len(log)]
    /\ UNCHANGED <<do, partLog, lease, window, floor, point, pend, faults, decided>>

-----------------------------------------------------------------------------
(* The source.                                                             *)

\* pending(): the next segment arrives.  Nothing is pulled while a floor is
\* pending; a fenced lease, or a committed point past this consumer, is an
\* error.
Pull(c) ==
    /\ phase[c] = "running"
    /\ floor[c] = NoPoint
    /\ lease[c] = dEpoch /\ lastPulled[c] >= dCommitted
    /\ lastPulled[c] < dHead
    /\ lastPulled' = [lastPulled EXCEPT ![c] = @ + 1]
    /\ pulled' = [pulled EXCEPT ![c] = @ \cup {lastPulled[c] + 1}]
    /\ UNCHANGED <<do, partLog, phase, lease, through, skipped, issued, floor, point,
                   writer, faults, decided>>

\* ack_skipped, after every flush in flight: a segment without rows, which a
\* later range or floor carries.  (The operator's backlog plan does the same.)
AckSkipped(c, s) ==
    /\ phase[c] = "running"
    /\ issued[c] = << >>
    /\ s \in pulled[c]
    /\ pulled' = [pulled EXCEPT ![c] = @ \ {s}]
    /\ skipped' = [skipped EXCEPT ![c] = @ \cup {s}]
    /\ decided' = decided \cup {s}
    /\ UNCHANGED <<do, partLog, phase, lease, through, lastPulled, issued, floor, point,
                   writer, faults>>

\* A range starts after the last issued one, or after the committed point.
RangeStart(c) ==
    1 + IF issued[c] = << >> THEN through[c] ELSE issued[c][Len(issued[c])].op.through

\* A flush of the segments S is issued the range up to `last`; its add names
\* parts of its own, so no other process builds the same one.
Issue(c, S, last) ==
    issued' = [issued EXCEPT ![c] =
        Append(@, [op |-> EdgeAdd({lease[c]}, S, RangeStart(c), last), added |-> FALSE])]

\* Faulty variant: segments in between are not accounted for.
RangeForFlushGap(c, S) ==
    /\ phase[c] = "running"
    /\ floor[c] = NoPoint
    /\ Len(issued[c]) < MaxIssued
    /\ S # {} /\ S \subseteq pulled[c]
    /\ LET last == CHOOSE s \in S : \A t \in S : t <= s
       IN  /\ S \subseteq RangeStart(c)..last
           /\ Issue(c, S, last)
    /\ UNCHANGED <<do, partLog, phase, lease, through, lastPulled, pulled, skipped, floor, point,
                   writer, faults, decided>>

\* range_for_flush: every segment of the range is in this flush or skipped.
RangeForFlush(c, S) ==
    /\ phase[c] = "running"
    /\ floor[c] = NoPoint
    /\ Len(issued[c]) < MaxIssued
    /\ S # {} /\ S \subseteq pulled[c]
    /\ LET last == CHOOSE s \in S : \A t \in S : t <= s
       IN  /\ S \subseteq RangeStart(c)..last
           /\ RangeStart(c)..last \subseteq S \cup skipped[c]
           /\ Issue(c, S, last)
    /\ UNCHANGED <<do, partLog, phase, lease, through, lastPulled, pulled, skipped, floor, point,
                   writer, faults, decided>>

\* commit_locked, once the DO answered: the consumer forgets what is through.
Forget(c, t) ==
    /\ through' = [through EXCEPT ![c] = t]
    /\ pulled' = [pulled EXCEPT ![c] = {s \in @ : s > t}]
    /\ skipped' = [skipped EXCEPT ![c] = {s \in @ : s > t}]
    /\ UNCHANGED lastPulled

-----------------------------------------------------------------------------
(* Appending to the part log.                                              *)

Appendable(c, op) == head[c] = Len(log) /\ Fits(head[c], op) /\ Len(log) < MaxLog

\* The append of op lands.
Lands(c, op) ==
    /\ Appendable(c, op)
    /\ log' = Append(log, op)
    /\ late' = {}
    /\ head' = [head EXCEPT ![c] = @ + 1]
    /\ pend' = [pend EXCEPT ![c] = NoOp]
    /\ UNCHANGED faults

\* The entry at the writer's next position is its own (an earlier attempt of
\* op, or one with the same content): adopted.
Adopts(c, op) ==
    /\ head[c] < Len(log) /\ log[head[c] + 1] = op
    /\ head' = [head EXCEPT ![c] = @ + 1]
    /\ pend' = [pend EXCEPT ![c] = NoOp]
    /\ UNCHANGED <<partLog, faults>>

Commits(c, op) == Lands(c, op) \/ Adopts(c, op)

\* The outcome of the append is unknown: it may land later, or never.
Unknown(c, op) ==
    /\ Appendable(c, op)
    /\ Fault
    /\ \E l \in {late, late \cup {op}} : late' = l
    /\ pend' = [pend EXCEPT ![c] = op]
    /\ UNCHANGED <<log, head>>

\* Another operation of this writer is unresolved and has landed: it is
\* adopted first (settle_pending).
Settle(c) ==
    /\ phase[c] \in {"running", "ending"}
    /\ pend[c] # NoOp
    /\ Adopts(c, pend[c])
    /\ UNCHANGED <<do, phase, lease, window, floor, point, decided>>

\* An append whose outcome was unknown lands.
LateLand(op) ==
    /\ Len(log) < MaxLog
    /\ log' = Append(log, op)
    /\ late' = {}
    /\ UNCHANGED <<do, phase, lease, window, floor, point, writer, faults, decided>>

-----------------------------------------------------------------------------
(* Flushes, oldest first: the add, then the ack.                           *)

Oldest(c) == issued[c][1]

\* commit_add of the oldest flush.
CommitAdd(c) ==
    /\ phase[c] = "running"
    /\ issued[c] # << >> /\ ~Oldest(c).added
    /\ \/ /\ Commits(c, Oldest(c).op)
          /\ issued' = [issued EXCEPT ![c] = <<[op |-> Oldest(c).op, added |-> TRUE]>> \o Tail(@)]
       \/ /\ Unknown(c, Oldest(c).op)
          /\ UNCHANGED issued
    /\ UNCHANGED <<do, phase, lease, through, lastPulled, pulled, skipped, floor, point, decided>>

\* Faulty variant: the ack does not wait for the add.
AckEarly(c) ==
    /\ phase[c] = "running"
    /\ issued[c] # << >>
    /\ LET t == Oldest(c).op.through
       IN  /\ CommitOk(lease[c], t)
           /\ dCommitted' = t
           /\ Forget(c, t)
           /\ issued' = [issued EXCEPT ![c] = Tail(@)]
    /\ UNCHANGED <<dHead, dEpoch, dMode, dPurge, strays, partLog, phase, lease, floor, point,
                   writer, faults, decided>>

\* ack: the range is committed to the DO; its answer may be lost, and the
\* request be executed late.
Ack(c) ==
    /\ phase[c] = "running"
    /\ issued[c] # << >> /\ Oldest(c).added
    /\ LET t == Oldest(c).op.through
       IN  \/ /\ CommitOk(lease[c], t)
              /\ dCommitted' = t
              /\ Forget(c, t)
              /\ issued' = [issued EXCEPT ![c] = Tail(@)]
              /\ UNCHANGED <<strays, faults>>
           \/ /\ Fault
              /\ strays' = strays \cup {[epoch |-> lease[c], through |-> t]}
              /\ UNCHANGED <<dCommitted, window>>
    /\ UNCHANGED <<dHead, dEpoch, dMode, dPurge, partLog, phase, lease, floor, point, writer, decided>>

-----------------------------------------------------------------------------
(* Floors and the end of edge mode, between flushes (apply_points).        *)

\* The segments of the skipped run right after the committed point.
SkipRun(c) == {s \in skipped[c] : (through[c] + 1)..s \subseteq skipped[c]}

\* Faulty variant: the end of the skipped run is exclusive.
FloorDuePast(c) ==
    IF floor[c] # NoPoint THEN floor[c]
    ELSE IF issued[c] # << >> \/ SkipRun(c) = {} THEN NoPoint
    ELSE 1 + CHOOSE s \in SkipRun(c) : \A t \in SkipRun(c) : t <= s

\* floor_due: the floor of a purge, or the end of the skipped run (its byte
\* and age thresholds may be met at any time).
FloorDue(c) ==
    IF floor[c] # NoPoint THEN floor[c]
    ELSE IF issued[c] # << >> \/ SkipRun(c) = {} THEN NoPoint
    ELSE CHOOSE s \in SkipRun(c) : \A t \in SkipRun(c) : t <= s

\* The floor is appended.
AppendFloor(c) ==
    /\ phase[c] = "running"
    /\ issued[c] = << >>
    /\ FloorDue(c) # NoPoint
    /\ \/ /\ Commits(c, EdgeFloor(FloorDue(c)))
          /\ phase' = [phase EXCEPT ![c] = "floored"]
          /\ point' = [point EXCEPT ![c] = FloorDue(c)]
       \/ /\ Unknown(c, EdgeFloor(FloorDue(c)))
          /\ UNCHANGED <<phase, point>>
    /\ UNCHANGED <<do, lease, window, floor, decided>>

\* floor_appended: the DO already has the floor of a purge; any other is
\* committed, and asked for again when that fails.
FloorAppended(c) ==
    /\ phase[c] = "floored"
    /\ phase' = [phase EXCEPT ![c] = "running"]
    /\ point' = [point EXCEPT ![c] = NoPoint]
    /\ \/ /\ floor[c] = point[c]
          /\ floor' = [floor EXCEPT ![c] = NoPoint]
          /\ UNCHANGED <<dCommitted, strays, window, faults>>
       \/ /\ floor[c] # point[c]
          /\ CommitOk(lease[c], point[c])
          /\ dCommitted' = point[c]
          /\ Forget(c, point[c])
          /\ UNCHANGED <<issued, floor, strays, faults>>
       \/ /\ floor[c] # point[c]
          /\ Fault
          /\ strays' = strays \cup {[epoch |-> lease[c], through |-> point[c]]}
          /\ UNCHANGED <<dCommitted, window, floor>>
    /\ UNCHANGED <<dHead, dEpoch, dMode, dPurge, partLog, lease, writer, decided>>

\* end_due: nothing is held, and a pull finds the Worker draining with
\* nothing past the committed point.
EndDue(c) ==
    /\ phase[c] = "running"
    /\ pulled[c] = {} /\ skipped[c] = {} /\ issued[c] = << >> /\ floor[c] = NoPoint
    /\ lease[c] = dEpoch /\ through[c] >= dCommitted
    /\ dMode = "drain" /\ dHead = through[c]
    /\ phase' = [phase EXCEPT ![c] = "ending"]
    /\ point' = [point EXCEPT ![c] = through[c]]
    /\ UNCHANGED <<do, partLog, lease, window, floor, writer, faults, decided>>

\* The end is appended, and the source stops (end_appended).
AppendEnd(c) ==
    /\ phase[c] = "ending"
    /\ \/ /\ Commits(c, EdgeEnd(point[c]))
          /\ phase' = [phase EXCEPT ![c] = "ended"]
       \/ /\ Unknown(c, EdgeEnd(point[c]))
          /\ phase' = [phase EXCEPT ![c] = "running"]
    /\ point' = [point EXCEPT ![c] = NoPoint]
    /\ UNCHANGED <<do, lease, window, floor, decided>>

-----------------------------------------------------------------------------
(* The process ends.                                                       *)

Restart(c) ==
    /\ phase' = [phase EXCEPT ![c] = "down"]
    /\ lease' = [lease EXCEPT ![c] = 0]
    /\ through' = [through EXCEPT ![c] = 0]
    /\ lastPulled' = [lastPulled EXCEPT ![c] = 0]
    /\ pulled' = [pulled EXCEPT ![c] = {}]
    /\ skipped' = [skipped EXCEPT ![c] = {}]
    /\ issued' = [issued EXCEPT ![c] = << >>]
    /\ floor' = [floor EXCEPT ![c] = NoPoint]
    /\ point' = [point EXCEPT ![c] = NoPoint]
    /\ head' = [head EXCEPT ![c] = 0]
    /\ pend' = [pend EXCEPT ![c] = NoOp]
    /\ UNCHANGED <<dHead, dCommitted, dEpoch, dMode, dPurge, partLog, decided>>

\* A crash, at any point, or an error of open.  The commit of open's
\* reconciliation may be left behind.
Crash(c) ==
    /\ phase[c] # "down"
    /\ Fault
    /\ \/ UNCHANGED strays
       \/ /\ phase[c] = "reconciling"
          /\ strays' = strays \cup {[epoch |-> lease[c], through |-> through[c]]}
    /\ Restart(c)

\* The append the consumer is about to make.
NextOp(c) ==
    IF phase[c] = "ending" THEN EdgeEnd(point[c])
    ELSE IF phase[c] # "running" THEN NoOp
    ELSE IF issued[c] = << >> /\ FloorDue(c) # NoPoint THEN EdgeFloor(FloorDue(c))
    ELSE IF issued[c] # << >> /\ ~Oldest(c).added THEN Oldest(c).op
    ELSE NoOp

\* The append fails for good: another writer's entry is there, or the
\* writer's own set refuses it.
AppendFails(c) ==
    /\ NextOp(c) # NoOp
    /\ IF head[c] = Len(log) THEN ~Fits(head[c], NextOp(c))
       ELSE log[head[c] + 1] \notin {NextOp(c), pend[c]}

\* The commit the consumer is about to make is refused.
CommitFails(c) ==
    \/ phase[c] = "reconciling" /\ ~CommitOk(lease[c], through[c])
    \/ /\ phase[c] = "running" /\ issued[c] # << >> /\ Oldest(c).added
       /\ ~CommitOk(lease[c], Oldest(c).op.through)
    \/ phase[c] = "floored" /\ floor[c] # point[c] /\ ~CommitOk(lease[c], point[c])

\* Faulty variant: a committed point past the pulled ones is waited out.
GiveUpNotBehind(c) ==
    /\ \/ AppendFails(c) \/ CommitFails(c)
       \/ phase[c] = "ended"
       \/ phase[c] = "loaded" /\ through[c] < dCommitted /\ dPurge # dCommitted
       \/ phase[c] = "running" /\ lease[c] # dEpoch
    /\ Restart(c)
    /\ UNCHANGED <<strays, faults>>

\* It cannot go on: an append or a commit fails, a pull is fenced or behind,
\* the part log is behind the DO without a purge, or edge mode is over.
\* Fatal at once, or once it lasted MAX_RETRY_WINDOW.
GiveUp(c) ==
    /\ \/ AppendFails(c) \/ CommitFails(c)
       \/ phase[c] = "ended"
       \/ phase[c] = "loaded" /\ through[c] < dCommitted /\ dPurge # dCommitted
       \/ phase[c] = "running" /\ (lease[c] # dEpoch \/ lastPulled[c] < dCommitted)
    /\ Restart(c)
    /\ UNCHANGED <<strays, faults>>

-----------------------------------------------------------------------------
\* One turn of the ingest loop.
Turn(c) ==
    \/ LoadPoint(c) \/ TakeLease(c) \/ Reconcile(c) \/ OpenWriter(c)
    \/ Pull(c)
    \/ \E s \in pulled[c] : AckSkipped(c, s)
    \/ \E S \in SUBSET pulled[c] : RangeForFlush(c, S)
    \/ Settle(c) \/ CommitAdd(c) \/ Ack(c)
    \/ AppendFloor(c) \/ FloorAppended(c)
    \/ EndDue(c) \/ AppendEnd(c)
    \/ GiveUp(c)

Next ==
    \/ Receive \/ SwitchMode \/ Purge
    \/ \E r \in strays : StrayCommit(r)
    \/ \E op \in late : LateLand(op)
    \/ \E c \in Consumers : Turn(c) \/ Crash(c)

Spec == Init /\ [][Next]_vars

\* The ingest loop ticks as long as its process runs, and the supervisor
\* starts a process that ended; nothing obliges the DO, an operator or a
\* request in flight to do anything.
FairSpec == Spec /\ \A c \in Consumers : WF_vars(Turn(c))

-----------------------------------------------------------------------------
(* Properties.                                                             *)

\* No point of a consumer, an entry or a request is past what the DO has
\* received.
Points == {NoPoint} \cup 0..dHead
EdgeOps == {op \in [kind : {"none", "add", "floor", "end"}, adds : SUBSET (1..MaxLeases),
                    removes : {{}}, consumes : SUBSET (1..dHead), first : Points, through : Points] :
               Cardinality(op.adds) <= 1}

TypeOK ==
    /\ dHead \in 0..MaxSeg /\ dCommitted \in 0..dHead /\ dPurge \in Points
    /\ dEpoch \in 0..MaxLeases /\ dMode \in {"do", "drain"}
    /\ strays \subseteq [epoch : 1..MaxLeases, through : 0..dHead]
    /\ \A i \in 1..Len(log) : log[i] \in EdgeOps
    /\ late \subseteq EdgeOps
    /\ phase \in [Consumers -> Phases]
    /\ lease \in [Consumers -> 0..MaxLeases]
    /\ through \in [Consumers -> 0..dHead] /\ lastPulled \in [Consumers -> 0..dHead]
    /\ pulled \in [Consumers -> SUBSET (1..dHead)]
    /\ skipped \in [Consumers -> SUBSET (1..dHead)]
    /\ \A c \in Consumers : \A i \in 1..Len(issued[c]) : issued[c][i].op \in EdgeOps
    /\ floor \in [Consumers -> Points] /\ point \in [Consumers -> Points]
    /\ head \in [Consumers -> 0..Len(log)]
    /\ \A c \in Consumers : pend[c] \in EdgeOps
    /\ faults \in 0..MaxFaults /\ decided \subseteq 1..dHead

Consumed == UNION {log[i].consumes : i \in 1..Len(log)}

\* Exactly once, one half: no segment's rows are in two adds, whichever
\* consumers raced, crashed or had appends land late.
ConsumedOnce ==
    \A i, j \in 1..Len(log) : i # j => log[i].consumes \cap log[j].consumes = {}

\* Exactly once, the other half: a segment at or below the log's point is in
\* an add, was found to be without rows, or was purged at the DO.
NothingLost ==
    \A s \in 1..Base(Len(log)) : s \in Consumed \/ s \in decided \/ s <= dPurge

\* The DO never gets ahead of the part log except by a purge it attests, so
\* a consumer that restarts never finds segments dropped that no entry
\* records ("The DO is committed only after the op that records the range
\* landed", source.rs).
DoNeverAhead == dCommitted <= Base(Len(log)) \/ dCommitted = dPurge

\* A floor the source asks for is one the part log accepts: floor_due returns
\* "An EdgeFloor ingest[T] must append now", and nothing else happens until
\* it is appended.  For a consumer that holds the lease and knows the log.
FloorsAreAppendable ==
    \A c \in Consumers :
        /\ phase[c] = "running" /\ issued[c] = << >> /\ FloorDue(c) # NoPoint
        /\ head[c] = Len(log) /\ lease[c] = dEpoch
        => Fits(head[c], EdgeFloor(FloorDue(c)))

\* Every segment the DO received is eventually recorded by the part log, or
\* purged, whatever crashes, lost answers, late appends and purges happen:
\* no consumer waits for good for a commit, a floor or its own append.
EverySegmentRecorded ==
    \A s \in 1..MaxSeg : dHead >= s ~> Base(Len(log)) >= s \/ dPurge >= s
=============================================================================
