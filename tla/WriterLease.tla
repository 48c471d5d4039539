---------------------------- MODULE WriterLease ----------------------------
(***************************************************************************)
(* The Postgres writer lease of one tenant on one lake cell                *)
(* (nanosiem-lake-worker/src/part_ingest/writer_lease.rs) and the ingest   *)
(* processes that take it (part_ingest/cell.rs, acquire_writer_lease).     *)
(*                                                                         *)
(* Each pod generation runs at most one ingest process (a flock).  Every   *)
(* lease call is a request the database executes at some later time, or    *)
(* never; a caller that gave up (timeout, crash, drain) leaves the request *)
(* behind as a stray, which the database may still execute.                *)
(*                                                                         *)
(* Time is `now`, the database's clock.  A pod measures elapsed time with  *)
(* its own monotonic clock, which may be off by up to Drift over the life  *)
(* of one deadline, so reading it is a nondeterministic choice.            *)
(***************************************************************************)
EXTENDS Integers, FiniteSets

CONSTANTS
    Pods,           \* pod generations: the lease holders (LeaseKey::holder)
    NoPod,          \* no row yet
    TTL,            \* the lease TTL
    Margin,         \* margin(ttl): subtracted from the TTL for the deadline
    Drift,          \* how far a pod's clock is off over one deadline
    MaxTime,        \* bound: the clock stops here
    MaxEpoch,       \* bound: no further acquire once the row is at this epoch
    MaxStrays       \* bound: abandoned requests the database still holds

ASSUME LeaseAssumption ==
    /\ NoPod \notin Pods
    /\ TTL \in Nat /\ Margin \in Nat /\ Drift \in Nat
    /\ Drift <= Margin /\ Margin < TTL
    /\ MaxTime \in Nat /\ MaxEpoch \in Nat /\ MaxStrays \in Nat

VARIABLES
    now,        \* the database's clock
    row,        \* public.lake_cell_writer_leases: [holder, epoch, expires]
    proc,       \* proc[p]: the ingest process of pod p
    call,       \* call[p]: the lease call process p is waiting for
    strays,     \* abandoned requests the database may still execute
    epoch,      \* epoch[p]: WriterLease::epoch
    validUntil, \* validUntil[p]: State::valid_until
    held,       \* the pods with a lease whose State::lost is None
    lastGate    \* history: the last append the gate let through

lease == <<epoch, validUntil, held>>
vars == <<now, row, proc, call, strays, lease, lastGate>>

-----------------------------------------------------------------------------
NoCall  == [kind |-> "none", epoch |-> 0, sent |-> 0, stage |-> "none", granted |-> 0]

\* A request as the database sees it: who asks, and for which epoch.
Request(p, c) == [pod |-> p, kind |-> c.kind, epoch |-> c.epoch]

Requests == [pod : Pods, kind : {"acquire", "renew", "release"}, epoch : Nat]

Calls == [kind : {"none", "acquire", "renew"}, epoch : Nat, sent : Nat,
          stage : {"none", "request", "reply"}, granted : Nat]

TypeOK ==
    /\ now \in Nat
    /\ row \in [holder : Pods \cup {NoPod}, epoch : Nat, expires : Nat]
    /\ proc \in [Pods -> {"down", "acquiring", "writing"}]
    /\ call \in [Pods -> Calls]
    /\ strays \subseteq Requests
    /\ epoch \in [Pods -> Nat] /\ validUntil \in [Pods -> Nat] /\ held \subseteq Pods
    /\ lastGate \in [pod : Pods \cup {NoPod}, epoch : Nat]

Init ==
    /\ now = 0
    /\ row = [holder |-> NoPod, epoch |-> 0, expires |-> 0]
    /\ proc = [p \in Pods |-> "down"]
    /\ call = [p \in Pods |-> NoCall]
    /\ strays = {}
    /\ epoch = [p \in Pods |-> 0]
    /\ validUntil = [p \in Pods |-> 0]
    /\ held = {}
    /\ lastGate = [pod |-> NoPod, epoch |-> 0]

-----------------------------------------------------------------------------
(* The local deadline.                                                     *)

\* Faulty variants: the TTL, or the margin, left out.
DeadlineWithoutTtl(sent)    == sent - Margin
DeadlineWithoutMargin(sent) == sent + TTL

\* WriterLease::deadline(sent, ttl).
Deadline(sent) == sent + (TTL - Margin)

\* check() may answer Ok: not lost, and the pod's clock can read less than
\* valid_until.
CheckMayPass(p) == p \in held /\ now < validUntil[p] + Drift

\* check() may answer Err for the deadline: the pod's clock can read it.
CheckMayFail(p) == p \in held /\ now + Drift >= validUntil[p]

\* mark_lost: the lease never opens the gate again.
Lose(p) == held' = held \ {p} /\ UNCHANGED <<epoch, validUntil>>

Room == Cardinality(strays) < MaxStrays

\* Process p stops waiting: a request not executed yet stays with the
\* database.
Abandon(p) ==
    IF call[p].stage = "request" THEN Room /\ strays' = strays \cup {Request(p, call[p])}
    ELSE UNCHANGED strays

-----------------------------------------------------------------------------
(* The database: acquire, renew, release.                                  *)

\* acquire: no row, an expired one, or the asker's own.
Free(p) == row.expires <= now \/ row.holder = p

\* Faulty variant: the compare-and-set ignores the epoch.
OwnsByHolder(r) == row.holder = r.pod

\* renew, release: the compare-and-set on (holder, epoch).
Owns(r) == row.holder = r.pod /\ row.epoch = r.epoch

RowUntil(t) == [holder |-> row.holder, epoch |-> row.epoch, expires |-> t]

\* The row after request r, executed now.
RowAfter(r) ==
    IF r.kind = "acquire" /\ Free(r.pod)
    THEN [holder |-> r.pod, epoch |-> row.epoch + 1, expires |-> now + TTL]
    ELSE IF r.kind = "renew" /\ Owns(r) THEN RowUntil(now + TTL)
    ELSE IF r.kind = "release" /\ Owns(r) /\ row.expires > now THEN RowUntil(now)
    ELSE row

\* The reply: the epoch the caller holds, 0 when it was refused.
Granted(r) ==
    IF r.kind = "acquire" /\ Free(r.pod) THEN row.epoch + 1
    ELSE IF r.kind = "renew" /\ Owns(r) THEN r.epoch
    ELSE 0

\* The database executes the request process p is waiting for.
Execute(p) ==
    /\ call[p].stage = "request"
    /\ row' = RowAfter(Request(p, call[p]))
    /\ call' = [call EXCEPT ![p] = [kind |-> call[p].kind, epoch |-> call[p].epoch, sent |-> call[p].sent,
                                    stage |-> "reply", granted |-> Granted(Request(p, call[p]))]]
    /\ UNCHANGED <<now, proc, strays, lease, lastGate>>

\* The database executes a request nobody waits for any more.
ExecuteStray(r) ==
    /\ row' = RowAfter(r)
    /\ strays' = strays \ {r}
    /\ UNCHANGED <<now, proc, call, lease, lastGate>>

-----------------------------------------------------------------------------
(* The ingest process of pod p.                                            *)

\* IngestService::start: the supervisor starts the process.
Start(p) ==
    /\ proc[p] = "down"
    /\ proc' = [proc EXCEPT ![p] = "acquiring"]
    /\ UNCHANGED <<now, row, call, strays, lease, lastGate>>

\* One turn of the acquire loop: WriterLease::acquire reads `sent` and calls.
SendAcquire(p) ==
    /\ proc[p] = "acquiring"
    /\ call[p] = NoCall
    /\ row.epoch < MaxEpoch
    /\ call' = [call EXCEPT ![p] = [kind |-> "acquire", epoch |-> 0, sent |-> now,
                                    stage |-> "request", granted |-> 0]]
    /\ UNCHANGED <<now, row, proc, strays, lease, lastGate>>

\* The acquire is answered: hold the lease, or exit as standby.
AcquireReply(p) ==
    /\ call[p].kind = "acquire" /\ call[p].stage = "reply"
    /\ IF call[p].granted > 0
       THEN /\ proc' = [proc EXCEPT ![p] = "writing"]
            /\ epoch' = [epoch EXCEPT ![p] = call[p].granted]
            /\ validUntil' = [validUntil EXCEPT ![p] = Deadline(call[p].sent)]
            /\ held' = held \cup {p}
       ELSE /\ proc' = [proc EXCEPT ![p] = "down"]
            /\ UNCHANGED lease
    /\ call' = [call EXCEPT ![p] = NoCall]
    /\ UNCHANGED <<now, row, strays, lastGate>>

\* An acquire fails or times out: the process tries again, or gives up (Exit).
AcquireFails(p) ==
    /\ call[p].kind = "acquire"
    /\ Abandon(p)
    /\ call' = [call EXCEPT ![p] = NoCall]
    /\ UNCHANGED <<now, row, proc, lease, lastGate>>

\* renew_once: check, then send the compare-and-set.
SendRenew(p) ==
    /\ proc[p] = "writing"
    /\ call[p] = NoCall
    /\ CheckMayPass(p)
    /\ call' = [call EXCEPT ![p] = [kind |-> "renew", epoch |-> epoch[p], sent |-> now,
                                    stage |-> "request", granted |-> 0]]
    /\ UNCHANGED <<now, row, proc, strays, lease, lastGate>>

\* Faulty variant: the deadline counts from the reply, not from the send.
RenewReplyFromReceipt(p) ==
    /\ call[p].kind = "renew" /\ call[p].stage = "reply"
    /\ IF call[p].granted = 0
       THEN Lose(p)
       ELSE validUntil' = [validUntil EXCEPT ![p] = Deadline(now)] /\ UNCHANGED <<epoch, held>>
    /\ call' = [call EXCEPT ![p] = NoCall]
    /\ UNCHANGED <<now, row, proc, strays, lastGate>>

\* The renew is answered: move the deadline unless the lease was lost
\* meanwhile, or lose the lease.
RenewReply(p) ==
    /\ call[p].kind = "renew" /\ call[p].stage = "reply"
    /\ IF call[p].granted = 0
       THEN Lose(p)
       ELSE IF p \in held /\ Deadline(call[p].sent) > validUntil[p]
       THEN validUntil' = [validUntil EXCEPT ![p] = Deadline(call[p].sent)] /\ UNCHANGED <<epoch, held>>
       ELSE UNCHANGED lease
    /\ call' = [call EXCEPT ![p] = NoCall]
    /\ UNCHANGED <<now, row, proc, strays, lastGate>>

\* A renew fails or times out (transient): the check that follows either
\* still passes or latches the loss.
RenewFails(p) ==
    /\ call[p].kind = "renew"
    /\ Abandon(p)
    /\ call' = [call EXCEPT ![p] = NoCall]
    /\ \/ (p \notin held \/ CheckMayPass(p)) /\ UNCHANGED lease
       \/ CheckMayFail(p) /\ Lose(p)
    /\ UNCHANGED <<now, row, proc, lastGate>>

\* check() sees the deadline passed and latches the loss.
CheckFails(p) ==
    /\ proc[p] = "writing"
    /\ CheckMayFail(p)
    /\ Lose(p)
    /\ UNCHANGED <<now, row, proc, call, strays, lastGate>>

\* check_append answers Ok: the part log sends this append.
GatePasses(p) ==
    /\ proc[p] = "writing"
    /\ CheckMayPass(p)
    /\ lastGate' = [pod |-> p, epoch |-> epoch[p]]
    /\ UNCHANGED <<now, row, proc, call, strays, lease>>

\* release() on drain: stop committing first, then ask the database to expire
\* the lease; nothing depends on the answer.
Release(p) ==
    /\ proc[p] = "writing"
    /\ p \in held
    /\ Room
    /\ Lose(p)
    /\ strays' = strays \cup {[pod |-> p, kind |-> "release", epoch |-> epoch[p]]}
    /\ UNCHANGED <<now, row, proc, call, lastGate>>

\* The process ends: no acquire attempt left, the lost signal, the end of a
\* drain, or a crash at any point.  The renewer dies with it.
Exit(p) ==
    /\ proc[p] # "down"
    /\ Abandon(p)
    /\ proc' = [proc EXCEPT ![p] = "down"]
    /\ call' = [call EXCEPT ![p] = NoCall]
    /\ epoch' = [epoch EXCEPT ![p] = 0]
    /\ validUntil' = [validUntil EXCEPT ![p] = 0]
    /\ held' = held \ {p}
    /\ UNCHANGED <<now, row, lastGate>>

Tick ==
    /\ now < MaxTime
    /\ now' = now + 1
    /\ UNCHANGED <<row, proc, call, strays, lease, lastGate>>

Next ==
    \/ Tick
    \/ \E r \in strays : ExecuteStray(r)
    \/ \E p \in Pods :
          \/ Start(p) \/ SendAcquire(p) \/ AcquireReply(p) \/ AcquireFails(p)
          \/ SendRenew(p) \/ RenewReply(p) \/ RenewFails(p)
          \/ CheckFails(p) \/ GatePasses(p) \/ Release(p) \/ Exit(p)
          \/ Execute(p)

Spec == Init /\ [][Next]_vars

-----------------------------------------------------------------------------
(* Properties.                                                             *)

\* At most one pod's append gate can be open, whatever the clocks read and
\* whichever requests are delayed: "no other pod can acquire before the
\* deadline passes" (writer_lease.rs).
OneCommitter ==
    \A p, q \in Pods :
        proc[p] = "writing" /\ CheckMayPass(p) /\ proc[q] = "writing" /\ CheckMayPass(q) => p = q

\* The appends the gate lets through are ordered by lease epoch: no append
\* passes under an epoch older than one that already passed, and a pod that
\* takes over appends under a strictly newer epoch.
GateEpochsOrdered ==
    [][lastGate' # lastGate =>
          /\ lastGate'.epoch >= lastGate.epoch
          /\ lastGate.pod # NoPod /\ lastGate'.pod # lastGate.pod
                => lastGate'.epoch > lastGate.epoch]_vars

\* An open gate means the database still protects this pod: the row is the
\* pod's and has not expired, so an acquire of any other pod is refused.
OpenGateIsProtected ==
    \A p \in Pods : proc[p] = "writing" /\ CheckMayPass(p) => row.holder = p /\ row.expires > now

=============================================================================
