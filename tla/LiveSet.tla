------------------------------ MODULE LiveSet ------------------------------
(***************************************************************************)
(* The live set a part log folds to (nanosiem-lake-worker/src/parts/       *)
(* part_log.rs, LiveSet): which entry a reader accepts after which, and    *)
(* what it makes of it.  Pure operators, shared by the modules that write  *)
(* a log and by their readers.                                             *)
(*                                                                         *)
(* A part, a source and a SHA-256 are numbers or model values.  The edge   *)
(* log's hash chain is its sequence number: a point is the number of the   *)
(* last consumed segment, a range its first and last one.  The schema and  *)
(* the 48 h id memory window are left out: nothing is forgotten here       *)
(* except by a checkpoint.                                                 *)
(***************************************************************************)
EXTENDS Integers

-----------------------------------------------------------------------------
(* Log operations (LogOp).  One record shape for all: the parts it adds,   *)
(* the ones it removes, the sources it consumes, the edge-log range it     *)
(* covers.                                                                 *)

NoPoint == -1       \* no edge-log point, Option::None

Op(kind, adds, removes, consumes, first, through) ==
    [kind |-> kind, adds |-> adds, removes |-> removes, consumes |-> consumes,
     first |-> first, through |-> through]

NoOp             == Op("none", {}, {}, {}, NoPoint, NoPoint)
Genesis          == Op("genesis", {}, {}, {}, NoPoint, NoPoint)
Add(P, S)        == Op("add", P, {}, S, NoPoint, NoPoint)
EdgeAdd(P, S, first, through) == Op("add", P, {}, S, first, through)
Merge(out, R)    == Op("merge", {out}, R, {}, NoPoint, NoPoint)  \* and Rewrite
Retire(R)        == Op("retire", {}, R, {}, NoPoint, NoPoint)
Adopt(P)         == Op("adopt", P, {}, {}, NoPoint, NoPoint)
Reject           == Op("reject", {}, {}, {}, NoPoint, NoPoint)   \* and Schema
EdgeFloor(t)     == Op("floor", {}, {}, {}, NoPoint, t)
EdgeEnd(t)       == Op("end", {}, {}, {}, NoPoint, t)

\* LogEntry.  `ms` stands for appended_at_ms and for the SHA-256 of the
\* entry's bytes: the entries a run builds all have their own.
Entry(seq, prev, epoch, ms, op) ==
    [seq |-> seq, prev |-> prev, epoch |-> epoch, ms |-> ms, op |-> op]

NoEntry == Entry(0, 0, 0, 0, NoOp)

-----------------------------------------------------------------------------
(* The set.  `next` is the sequence number the next entry must have; sha   *)
(* and epoch are the head's (0 and GENESIS_PREV as 0 before any entry).    *)

Set(next, sha, epoch, live, seen, consumed, edge, ended) ==
    [next |-> next, sha |-> sha, epoch |-> epoch, live |-> live, seen |-> seen,
     consumed |-> consumed, edge |-> edge, ended |-> ended]

\* LiveSet::default.
EmptySet == Set(0, 0, 0, {}, {}, {}, NoPoint, NoPoint)

\* The point a range must continue: the last one, the one where edge mode
\* ended, or the start of the chain.
EdgeBase(s) ==
    IF s.edge # NoPoint THEN s.edge
    ELSE IF s.ended # NoPoint THEN s.ended
    ELSE 0

\* Faulty variant: a range need not continue the point.
AddFitsEdgeAnyRange(s, op) == op.through = NoPoint => s.edge = NoPoint

\* An add without a range is refused once the log consumes an edge log
\* (finding receipts and quarantine replays, which are exempt, are not
\* modelled); a range continues the point (EdgeLogRange::follows_point).
AddFitsEdge(s, op) ==
    IF op.through = NoPoint THEN s.edge = NoPoint
    ELSE op.first = EdgeBase(s) + 1

\* LiveSet::apply_op does not fail: per kind of operation.
OpFits(s, seq, op) ==
    \/ seq = 0 /\ op.kind = "genesis"
    \/ /\ seq > 0
       /\ \/ op.kind = "reject"
          \/ /\ op.kind = "add"
             /\ op.adds # {} /\ op.consumes # {}
             /\ AddFitsEdge(s, op)
             /\ op.adds \cap s.seen = {}
          \/ /\ op.kind = "merge"
             /\ op.removes # {} /\ op.removes \subseteq s.live
             /\ op.adds \cap s.seen = {}
          \/ /\ op.kind = "retire"
             /\ op.removes # {} /\ op.removes \subseteq s.live
          \/ /\ op.kind = "adopt"
             /\ op.adds # {} /\ op.adds \cap s.seen = {}
          \/ /\ op.kind = "floor"
             /\ s.edge # NoPoint => op.through >= s.edge
             /\ s.edge = NoPoint => s.ended = NoPoint
          \/ /\ op.kind = "end"
             /\ s.edge # NoPoint /\ op.through = s.edge

\* LiveSet::apply succeeds: the chain, the epoch, then the operation.
Accepts(s, e) ==
    /\ e.seq = s.next /\ e.prev = s.sha
    /\ e.epoch >= s.epoch
    /\ OpFits(s, e.seq, e.op)

\* What it leaves behind.
Applied(s, e) ==
    Set(s.next + 1, e.ms, e.epoch,
        (s.live \ e.op.removes) \cup e.op.adds,
        s.seen \cup e.op.adds,
        s.consumed \cup e.op.consumes,
        IF e.op.kind = "end" THEN NoPoint
        ELSE IF e.op.through # NoPoint THEN e.op.through
        ELSE s.edge,
        IF e.op.kind = "end" THEN s.edge ELSE s.ended)

\* Faulty variant: no guard.
CheckConsumesNothing(s, op) == TRUE

\* The writer's own guard, which readers do not have (check_consumes): no
\* source the set remembers is consumed again.
CheckConsumes(s, op) == op.consumes \cap s.consumed = {}

\* Faulty variant: the checkpoint lists removed parts too.
CheckpointOfSeen(s) ==
    [seq |-> s.next - 1, sha |-> s.sha, epoch |-> s.epoch, live |-> s.seen,
     edge |-> s.edge, ended |-> s.ended]

\* Faulty variant: the checkpoint lacks a field.
CheckpointWithoutEnded(s) ==
    [seq |-> s.next - 1, sha |-> s.sha, epoch |-> s.epoch, live |-> s.live, edge |-> s.edge]

\* LiveSet::checkpoint, at the head.
Checkpoint(s) ==
    [seq |-> s.next - 1, sha |-> s.sha, epoch |-> s.epoch, live |-> s.live,
     edge |-> s.edge, ended |-> s.ended]

\* Faulty variant: the head's epoch is not restored.
FromCheckpointAnyEpoch(c) ==
    Set(c.seq + 1, c.sha, 0, c.live, c.live, {}, c.edge, c.ended)

\* LiveSet::from_checkpoint: the ids of removed parts and the consumed
\* sources are not in it.
FromCheckpoint(c) ==
    Set(c.seq + 1, c.sha, c.epoch, c.live, c.live, {}, c.edge, c.ended)
=============================================================================
