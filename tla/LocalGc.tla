------------------------------- MODULE LocalGc -------------------------------
(***************************************************************************)
(* Garbage collection of part files on a trusted-local store:              *)
(* LocalDeleteAuthority (lake_part_gc/local.rs) with its planner           *)
(* (planner.rs) and executor (executor.rs), run inline by the ingestor     *)
(* between its own appends to the part log.                                *)
(*                                                                         *)
(* Times are ages on the ingestor's clock: how long ago, by that clock, a  *)
(* part id was created, its files uploaded, a log entry stamped. The clock *)
(* may be stepped within StepBack of real time, which shifts every age.    *)
(***************************************************************************)
EXTENDS Integers, FiniteSets, Sequences, FiniteSetsExt

CONSTANTS
    Parts,        \* part ids
    Earlier,      \* entries the log starts with (genesis, floors, rejections)
    Grace,        \* GcPolicy.grace_seconds
    Memory,       \* ID_MEMORY_MS
    Margin,       \* ORPHAN_ID_MEMORY_MARGIN_MS
    OrphanAge,    \* GcPolicy.orphan_min_age_seconds
    Retain,       \* system_settings.retention_days
    Day,          \* a file expires at the end of its day plus Retain
    SweepEvery,   \* FULL_SWEEP_INTERVAL_MS
    FoldMax,      \* MAX_LOG_ENTRIES_PER_PASS
    MaxRequests,  \* GcPolicy.max_requests
    MaxFailures,  \* MAX_CONSECUTIVE_WORKER_FAILURES
    AppendMax,    \* MAX_RETRY_WINDOW: how long an append may stay unresolved
    ReadMax,      \* how long a query reads the parts it found live
    StepBack,     \* bound on clock steps
    MaxFaults     \* bound on crashes, I/O errors, policy changes and clock steps

ASSUME GcAssumption ==
    /\ {Earlier, Grace, Memory, Margin, OrphanAge, Retain, Day, SweepEvery, AppendMax,
        ReadMax, StepBack, MaxFaults} \subseteq Nat
    /\ {FoldMax, MaxRequests, MaxFailures} \subseteq Nat \ {0}
    /\ AppendMax + StepBack < Margin
    /\ ReadMax + AppendMax + StepBack < Grace

VARIABLES
    stage,     \* how far the build of each part has come
    born, up,  \* age of the part id and of its files
    files,     \* <<part, file>> on disk
    log,       \* the entries of the part log
    pending,   \* the append under way; it lands at any time or never
    dead,      \* real time since a part left the log's live set
    setting,   \* is retention enabled in system_settings
    skew,      \* how far the clock is behind real time
    pos,       \* entries folded into the GC view
    sweep,     \* age of the last complete full listing
    drained,   \* Reclaim.drained
    todo, cur, step, failures,  \* the pass: requests, the one at hand, its step
    prepared,  \* durable tombstones
    receipts,  \* durable receipts
    faults

disk == <<files, prepared, receipts>>
build == <<stage, born, up>>
writer == <<log, pending, dead>>
pass == <<todo, cur, step, failures>>
view == <<pos, sweep, drained>>
env == <<setting, skew, faults>>
vars == <<disk, build, writer, pass, view, env>>

Kinds == {"data", "provenance"}
Reasons == {"superseded", "retention", "orphan"}
Requests == [key : Parts \X Kinds, reason : Reasons]
NoRequest == [key |-> <<>>, reason |-> "none"]
NoEntry == [op |-> "none"]
Neutral == [op |-> "other", adds |-> {}, removes |-> {}, at |-> 0, forgets |-> {}]
Never == -StepBack - 1

\* An age is not counted beyond what tells something apart.
Older(age, d, cap) == Min({age + d, cap + StepBack})

----------------------------------------------------------------------------
(* What the log says: LiveSet and LakePartLogView over a prefix of it *)

Adds(l) == UNION {l[i].adds : i \in DOMAIN l}
Removes(l) == UNION {l[i].removes : i \in DOMAIN l}
Live(l) == Adds(l) \ Removes(l)

\* removed_refs: an entry makes LiveSet forget the removals too old for it.
Remembered(l) == Removes(l) \ UNION {l[i].forgets : i \in DOMAIN l}

Removal(l, p) == l[CHOOSE i \in DOMAIN l : p \in l[i].removes]

\* The view after one more bounded step of the fold.
NewPos == Min({pos + FoldMax, Len(log)})
Seen == SubSeq(log, 1, NewPos)

\* Faulty variant: a partial view will do.
CaughtUpAlways == TRUE

\* catch_up: did that step reach the head?
CaughtUp == NewPos = Len(log)

----------------------------------------------------------------------------
(* The planner *)

Expired(p) == setting /\ born[p] >= Retain + Day

\* Faulty variant: superseded data is deleted without waiting for the grace.
PlanWithoutGrace(l, key) ==
    LET p == key[1] IN
    CASE p \in Live(l) -> "none"
      [] p \in Removes(l) ->
           IF Removal(l, p).op = "merge" /\ key[2] = "data" THEN "superseded"
           ELSE IF Removal(l, p).at >= Grace /\ Expired(p) THEN "retention" ELSE "none"
      [] OTHER -> IF up[p] >= OrphanAge /\ born[p] >= Memory + Margin
                  THEN "orphan" ELSE "none"

\* plan_one: why this file may be deleted, or "none".
Plan(l, key) ==
    LET p == key[1] IN
    CASE p \in Live(l) -> "none"
      [] p \in Removes(l) ->
           LET removal == Removal(l, p) IN
           CASE removal.at < Grace -> "none"
             [] removal.at >= Grace /\ removal.op = "merge" /\ key[2] = "data" -> "superseded"
             [] OTHER -> IF Expired(p) THEN "retention" ELSE "none"
      [] OTHER -> IF up[p] >= OrphanAge /\ born[p] >= Memory + Margin
                  THEN "orphan" ELSE "none"

Eligible(l, keys) == {key \in keys : Plan(l, key) # "none"}

Request(l, key) == [key |-> key, reason |-> Plan(l, key)]

\* check_request. A present file is planned again on the complete log; an
\* absent one needs the tombstone and may only be receipted.
CheckRequest(r) ==
    /\ CaughtUp
    /\ IF r.key \in files THEN Plan(Seen, r.key) = r.reason
       ELSE r \in prepared /\ r.key[1] \notin Live(Seen)

\* Faulty variant: the position is advanced by the bound, read or not.
RefoldBlindly == pos' = pos + FoldMax

\* The view catches up on the way.
Refold == pos' = NewPos

----------------------------------------------------------------------------
(* A pass *)

\* Faulty variant: only the first pass of a process lists in full.
FullDueOnce == sweep = Never

FullDue == sweep = Never \/ sweep >= SweepEvery

\* Removed parts past the grace window that are not known to be reclaimed.
Candidates(l) == {p \in Remembered(l) \ drained : Removal(l, p).at >= Grace}

Listed(l) == IF FullDue THEN files ELSE {key \in files : key[1] \in Candidates(l)}

Start(requests) ==
    /\ todo' = requests
    /\ cur' = NoRequest
    /\ failures' = 0
    /\ step' = IF requests = {} THEN "idle" ELSE "permit"

\* One bounded step of the fold did not reach the head: nothing is planned.
CollectPaused ==
    /\ step = "idle"
    /\ ~CaughtUp
    /\ Refold
    /\ UNCHANGED <<disk, build, writer, pass, sweep, drained, env>>

\* Faulty variant: tombstones are not looked at.
CollectWithoutRecovery ==
    /\ step = "idle"
    /\ CaughtUp
    /\ Refold
    /\ LET eligible == Eligible(Seen, Listed(Seen))
           more == Cardinality(eligible) > MaxRequests
       IN /\ \E chosen \in kSubset(Min({MaxRequests, Cardinality(eligible)}), eligible) :
                Start({Request(Seen, key) : key \in chosen})
          /\ sweep' = IF FullDue /\ ~more THEN 0 ELSE sweep
    /\ UNCHANGED <<disk, build, writer, drained, env>>

\* collect on the complete log: list, plan at most MaxRequests, note what is
\* reclaimed, and fill up with tombstones whose file is already gone.
Collect ==
    /\ step = "idle"
    /\ CaughtUp
    /\ Refold
    /\ LET eligible == Eligible(Seen, Listed(Seen))
           more == Cardinality(eligible) > MaxRequests
           gone == {r \in prepared : r.key \notin files}
       IN /\ \E chosen \in kSubset(Min({MaxRequests, Cardinality(eligible)}), eligible) :
             \E recovered \in kSubset(Min({MaxRequests - Cardinality(chosen), Cardinality(gone)}), gone) :
                Start({Request(Seen, key) : key \in chosen} \cup recovered)
          /\ sweep' = IF FullDue /\ ~more THEN 0 ELSE sweep
          /\ drained' = (drained \cup
                          (IF FullDue \/ more THEN {}
                           ELSE {p \in Candidates(Seen) : \A key \in eligible : key[1] # p}))
                        \cap Remembered(Seen)
    /\ UNCHANGED <<disk, build, writer, env>>

\* The step after request cur is done with.
Proceed(left, failed) ==
    LET stop == left = {} \/ failed >= MaxFailures IN
    /\ todo' = IF stop THEN {} ELSE left
    /\ cur' = NoRequest
    /\ step' = IF stop THEN "idle" ELSE "permit"
    /\ failures' = IF stop THEN 0 ELSE failed

WorkerFailure == Proceed(todo, failures + 1)

\* authorize. A refusal stops the pass.
Authorize(r) ==
    /\ step = "permit" /\ r \in todo
    /\ Refold
    /\ IF CheckRequest(r)
       THEN /\ todo' = todo \ {r} /\ cur' = r /\ step' = "prepare"
            /\ UNCHANGED failures
       ELSE Start({})
    /\ UNCHANGED <<disk, build, writer, sweep, drained, env>>

\* prepare: the durable tombstone, written once.
Prepare ==
    /\ step = "prepare"
    /\ Refold
    /\ IF CheckRequest(cur)
       THEN /\ prepared' = prepared \cup {cur}
            /\ step' = "retire" /\ UNCHANGED <<todo, cur, failures>>
       ELSE WorkerFailure /\ UNCHANGED prepared
    /\ UNCHANGED <<files, receipts, build, writer, sweep, drained, env>>

\* Faulty variant: the receipt comes before the unlink.
RetireUnlinksLast ==
    /\ step = "retire"
    /\ Refold
    /\ IF cur \in prepared /\ CheckRequest(cur)
       THEN step' = "receipt" /\ UNCHANGED <<todo, cur, failures>>
       ELSE WorkerFailure
    /\ UNCHANGED <<disk, build, writer, sweep, drained, env>>

\* retire, up to the unlink: the tombstone and the request are checked again.
Retire ==
    /\ step = "retire"
    /\ Refold
    /\ IF cur \in prepared /\ CheckRequest(cur)
       THEN step' = "unlink" /\ UNCHANGED <<todo, cur, failures>>
       ELSE WorkerFailure
    /\ UNCHANGED <<disk, build, writer, sweep, drained, env>>

\* The file is deleted if it is there, and its directory synced.
Unlink ==
    /\ step = "unlink"
    /\ files' = files \ {cur.key}
    /\ step' = "receipt"
    /\ UNCHANGED <<prepared, receipts, build, writer, todo, cur, failures, view, env>>

Receipt ==
    /\ step = "receipt"
    /\ receipts' = receipts \cup {cur}
    /\ step' = "clear"
    /\ UNCHANGED <<files, prepared, build, writer, todo, cur, failures, view, env>>

\* The tombstone is deleted; the request is done.
Clear ==
    /\ step = "clear"
    /\ prepared' = prepared \ {cur}
    /\ Proceed(todo, 0)
    /\ UNCHANGED <<files, receipts, build, writer, view, env>>

Fault == faults < MaxFaults /\ faults' = faults + 1

\* Any file operation of prepare or retire fails.
IoError ==
    /\ step \in {"prepare", "retire", "unlink", "receipt", "clear"}
    /\ Fault
    /\ WorkerFailure
    /\ UNCHANGED <<disk, build, writer, view, setting, skew>>

----------------------------------------------------------------------------
(* The rest of the ingestor, whose appends and passes exclude each other *)

\* A flush or merge takes a new part id.
Begin(p) ==
    /\ stage[p] = "none"
    /\ stage' = [stage EXCEPT ![p] = "building"]
    /\ born' = [born EXCEPT ![p] = 0]
    /\ UNCHANGED <<up, disk, writer, pass, view, env>>

\* Its files are written, with or without the append ever following.
Upload(p) ==
    /\ stage[p] = "building"
    /\ stage' = [stage EXCEPT ![p] = "uploaded"]
    /\ up' = [up EXCEPT ![p] = 0]
    /\ files' = files \cup ({p} \X Kinds)
    /\ UNCHANGED <<born, prepared, receipts, writer, pass, view, env>>

\* Faulty variant: ids of any age are added.
AddAllowedAnyAge(p) == stage[p] = "uploaded" /\ p \notin Adds(log)

\* LiveSet::add: an id outside the memory window is refused.
AddAllowed(p) == stage[p] = "uploaded" /\ p \notin Adds(log) /\ born[p] <= Memory

\* An entry is stamped and sent.
Stamp(op, adds, removes) ==
    /\ step = "idle" /\ pending = NoEntry
    /\ \A p \in adds : AddAllowed(p)
    /\ removes \subseteq Live(log)
    /\ pending' = [op |-> op, adds |-> adds, removes |-> removes, at |-> 0, real |-> 0]
    /\ UNCHANGED <<disk, build, log, dead, pass, view, env>>

Add(p) == Stamp("add", {p}, {})
Merge(p, inputs) == inputs # {} /\ Stamp("merge", {p}, inputs)

\* retire_expired: parts whose newest row is past retention.
RetireExpired(inputs) ==
    /\ setting
    /\ inputs # {} /\ inputs = {p \in Live(log) : born[p] > Retain}
    /\ Stamp("retire", {}, inputs)

\* The conditional write of the entry takes effect. The removals it makes
\* LiveSet forget are those stamped before the memory window of this entry.
Land ==
    /\ pending # NoEntry
    /\ log' = Append(log, [op |-> pending.op, adds |-> pending.adds,
                           removes |-> pending.removes, at |-> pending.at,
                           forgets |-> {p \in Remembered(log) :
                              Removal(log, p).at - pending.at > Memory}])
    /\ dead' = [p \in Parts |-> IF p \in pending.removes THEN 0 ELSE dead[p]]
    /\ pending' = NoEntry
    /\ UNCHANGED <<disk, build, pass, view, env>>

\* The write turns out not to have taken effect.
NotLanded ==
    /\ pending # NoEntry
    /\ pending' = NoEntry
    /\ UNCHANGED <<disk, build, log, dead, pass, view, env>>

\* The process dies and starts again: the view, the listing memory and the
\* pass are gone, unfinished builds leave their files, and an unresolved
\* append did not land.
Crash ==
    /\ Fault
    /\ stage' = [p \in Parts |-> IF stage[p] \in {"building", "uploaded"} THEN "abandoned" ELSE stage[p]]
    /\ pending' = NoEntry
    /\ pos' = 0 /\ sweep' = Never /\ drained' = {}
    /\ Start({})
    /\ UNCHANGED <<born, up, disk, log, dead, setting, skew>>

\* The retention setting is changed in the UI.
ChangeSetting ==
    /\ Fault
    /\ setting' = ~setting
    /\ UNCHANGED <<disk, build, writer, pass, view, skew>>

\* Every age that still matters grows by d on the clock.
Shift(d) ==
    /\ born' = [p \in Parts |-> IF stage[p] = "none" THEN 0
                               ELSE Older(born[p], d, Max({Memory + Margin, Retain + Day}))]
    /\ up' = [p \in Parts |-> IF stage[p] \in {"none", "building"} THEN 0
                             ELSE Older(up[p], d, OrphanAge)]
    /\ log' = [i \in DOMAIN log |-> IF log[i].removes = {} THEN log[i]
                 ELSE [log[i] EXCEPT !.at = Older(@, d, Max({Grace, Memory + 1 + AppendMax}))]]
    /\ sweep' = IF sweep = Never THEN Never ELSE Older(sweep, d, SweepEvery)

Tick ==
    /\ pending # NoEntry => pending.real < AppendMax
    /\ Shift(1)
    /\ pending' = IF pending = NoEntry THEN NoEntry
                  ELSE [pending EXCEPT !.at = @ + 1, !.real = @ + 1]
    /\ dead' = [p \in Parts |-> IF p \in Removes(log) /\ dead[p] <= ReadMax THEN dead[p] + 1 ELSE dead[p]]
    /\ UNCHANGED <<disk, stage, pass, pos, drained, env>>

StepClock(s) ==
    /\ s # skew
    /\ Fault
    /\ skew' = s
    /\ Shift(skew - s)
    /\ pending' = IF pending = NoEntry THEN NoEntry ELSE [pending EXCEPT !.at = @ + skew - s]
    /\ UNCHANGED <<disk, stage, dead, pass, pos, drained, setting>>

Init ==
    /\ stage = [p \in Parts |-> "none"]
    /\ born = [p \in Parts |-> 0] /\ up = [p \in Parts |-> 0]
    /\ files = {} /\ prepared = {} /\ receipts = {}
    /\ log = [i \in 1..Earlier |-> Neutral] /\ pending = NoEntry
    /\ dead = [p \in Parts |-> 0]
    /\ setting \in BOOLEAN
    /\ skew = 0
    /\ pos = 0 /\ sweep = Never /\ drained = {}
    /\ todo = {} /\ cur = NoRequest /\ step = "idle" /\ failures = 0
    /\ faults = 0

Gc ==
    \/ CollectPaused \/ Collect
    \/ \E r \in todo : Authorize(r)
    \/ Prepare \/ Retire \/ Unlink \/ Receipt \/ Clear

Ingest ==
    \/ \E p \in Parts : Begin(p) \/ Upload(p) \/ Add(p)
    \/ \E p \in Parts, inputs \in SUBSET Parts : Merge(p, inputs)
    \/ \E inputs \in SUBSET Parts : RetireExpired(inputs)
    \/ Land \/ NotLanded

Next ==
    \/ Gc \/ Ingest
    \/ IoError \/ Crash \/ ChangeSetting
    \/ Tick \/ \E s \in 0..StepBack : StepClock(s)

Spec == Init /\ [][Next]_vars

\* The ingestor keeps ticking, its appends are resolved, and time passes.
FairSpec == Spec /\ WF_vars(Gc) /\ WF_vars(Land \/ NotLanded) /\ WF_vars(Tick)

----------------------------------------------------------------------------
\* The state is well formed; in particular the bounded fold of the log never
\* claims to have read past the head.
TypeOK ==
    /\ stage \in [Parts -> {"none", "building", "uploaded", "abandoned"}]
    /\ files \subseteq Parts \X Kinds
    /\ prepared \subseteq Requests /\ receipts \subseteq Requests /\ todo \subseteq Requests
    /\ cur \in Requests \cup {NoRequest}
    /\ step \in {"idle", "permit", "prepare", "retire", "unlink", "receipt", "clear"}
    /\ pos \in 0..Len(log)
    /\ drained \subseteq Parts

\* Every file of a live part is on disk.
LiveFilesPresent == Live(log) \X Kinds \subseteq files

\* A query that started while a part was live still finds its data.
ReadersFindFiles == \A p \in Removes(log) : dead[p] <= ReadMax => <<p, "data">> \in files

\* A receipt says the file is absent, and stays true.
ReceiptsTrue == \A r \in receipts : r.key \notin files

\* No query, live part or policy needs this file any more: left behind by a
\* crashed build, superseded data, or removed with retention enabled.
Garbage(key) ==
    LET p == key[1] IN
    /\ key \in files
    /\ \/ stage[p] = "abandoned" /\ p \notin Adds(log)
       \/ p \in Removes(log) /\ (setting \/ (Removal(log, p).op = "merge" /\ key[2] = "data"))

\* Every such file is deleted in the end, although most passes look only at
\* the directories of parts removed lately and not noted as reclaimed: again
\* and again there is none (finitely many parts make finitely much of it).
GarbageReclaimed == []<>(\A key \in files : ~Garbage(key))

\* A crash between unlink and receipt is recovered: the tombstone of a file
\* that is gone never stays.
UnlinksReceipted == []<>(\A r \in prepared : r.key \in files)
==============================================================================
