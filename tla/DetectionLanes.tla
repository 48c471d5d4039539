--------------------------- MODULE DetectionLanes ---------------------------
(***************************************************************************)
(* Who executes a detection rule: the cron lane and the repair lane of     *)
(* several scheduler nodes share one claim per rule in PostgreSQL          *)
(* (detection/distributed_scheduler.rs, db/repository/detection_rules/     *)
(* scheduling.rs and late_replay.rs), and the API pauses, resumes, edits   *)
(* and deletes the rules under them (detection/service/rules.rs).          *)
(*                                                                         *)
(* Claims expire by age; a node that died leaves its claims behind. Ages   *)
(* are counted in ticks from the claim and stop one past the limit. What   *)
(* an execution evaluates is the subject of DetectionGate.                 *)
(***************************************************************************)
EXTENDS Integers, FiniteSets, FiniteSetsExt

CONSTANTS
    Nodes,          \* node ids: a restarted node keeps its id (HOSTNAME)
    Rules,
    Stores,         \* kinds of repair jobs: of a late part, of a drained window
    RuleBatch,      \* batch_size
    RuleConcurrent, \* max_concurrent_executions
    LateBatch,      \* late_replay_batch_size
    LateConcurrent, \* late_replay_max_concurrent
    MaxAttempts,    \* late_replay_max_attempts
    RunMax,         \* longest execution, its release included
    Stale,          \* stale_claim_timeout, at least execution timeout + 60 s
    Faults,         \* which faults and operator actions happen
    MaxFaults       \* and how many

ASSUME LanesAssumption ==
    /\ {RuleBatch, RuleConcurrent, LateBatch, LateConcurrent, MaxAttempts} \subseteq Nat \ {0}
    /\ {RunMax, Stale, MaxFaults} \subseteq Nat
    /\ RunMax < Stale
    /\ IsFiniteSet(Rules) /\ "none" \notin Nodes
    /\ Stores \subseteq {"part", "drain"}
    /\ Faults \subseteq {"crash", "panic", "error", "shutdown", "mode", "dataset", "delete"}

VARIABLES
    up,       \* state of each node: up, stopping or down
    work,     \* executions each node has claimed, queued or started
    going,    \* the repair lane's batch is claimed and runs
    claim,    \* claimed_by and claimed_at of each rule
    mode,     \* mode of each rule, with archived
    dataset,  \* dataset of each rule
    nextRun,  \* next_run_at: null, in the future or due
    job,      \* detection_late_replay_jobs
    syncs,    \* API requests that changed a rule and still sync next_run_at
    faults

rule == <<claim, mode, dataset, nextRun>>
node == <<up, work, going>>
vars == <<node, rule, job, syncs, faults>>

Jobs == Rules \X Stores
RuleOf(j) == j[1]

None == [by |-> "none", age |-> 0]
NoJob == <<"none", "none">>
Queued == -1

Executing(i) == i.elapsed # Queued
Lane(n, lane) == {i \in work[n] : i.lane = lane}

----------------------------------------------------------------------------
(* Claims *)

Expired(age) == age > Stale

\* Faulty variant: another node takes over before the execution must be over.
FreeEarly(r) == claim[r] = None \/ claim[r].age > RunMax - 1

Free(r) == claim[r] = None \/ Expired(claim[r].age)

Due(j) == \/ job[j].status = "pending"
          \/ job[j].status = "running" /\ Expired(job[j].age)

Active(r) == mode[r] = "on"

\* Faulty variant: repairs get no priority.
ClaimableFirst(r) == Active(r) /\ nextRun[r] = "due" /\ Free(r)

\* claim_due_rules: a due repair of the rule goes first.
Claimable(r) ==
    /\ Active(r) /\ nextRun[r] = "due" /\ Free(r)
    /\ \A j \in Jobs : RuleOf(j) = r => ~Due(j)

\* claim_late_replays: only jobs that fit the rule as it is now.
Repairable(j) ==
    /\ Due(j) /\ Active(RuleOf(j)) /\ Free(RuleOf(j))
    /\ j[2] = "drain" \/ dataset[RuleOf(j)] = "logs"

Item(lane, r, j, attempt) ==
    [lane |-> lane, rule |-> r, job |-> j, attempt |-> attempt, elapsed |-> Queued]

\* One poll of the cron lane: the last batch is over, the next one is claimed.
ClaimDue(n) ==
    LET due == {r \in Rules : Claimable(r)} IN
    /\ up[n] = "up" /\ Lane(n, "cron") = {} /\ due # {}
    /\ \E batch \in kSubset(IF RuleBatch < Cardinality(due) THEN RuleBatch ELSE Cardinality(due), due) :
         /\ claim' = [r \in Rules |-> IF r \in batch THEN [by |-> n, age |-> 0] ELSE claim[r]]
         /\ work' = [work EXCEPT ![n] = @ \cup {Item("cron", r, NoJob, 0) : r \in batch}]
    /\ UNCHANGED <<up, going, mode, dataset, nextRun, job, syncs, faults>>

\* One transaction of the repair lane's poll.
ClaimLate(n, j) ==
    /\ up[n] = "up" /\ ~going[n] /\ Cardinality(Lane(n, "late")) < LateBatch
    /\ Repairable(j)
    /\ claim' = [claim EXCEPT ![RuleOf(j)] = [by |-> n, age |-> 0]]
    /\ job' = [job EXCEPT ![j] = [status |-> "running", by |-> n, age |-> 0, attempts |-> @.attempts + 1]]
    /\ work' = [work EXCEPT ![n] = @ \cup {Item("late", RuleOf(j), j, job[j].attempts + 1)}]
    /\ UNCHANGED <<up, going, mode, dataset, nextRun, syncs, faults>>

\* The batch is full or nothing more is to be claimed: it runs.
LateGo(n) ==
    /\ up[n] = "up" /\ ~going[n] /\ Lane(n, "late") # {}
    /\ Cardinality(Lane(n, "late")) = LateBatch \/ ~\E j \in Jobs : Repairable(j)
    /\ going' = [going EXCEPT ![n] = TRUE]
    /\ UNCHANGED <<up, work, rule, job, syncs, faults>>

Slots(lane) == IF lane = "cron" THEN RuleConcurrent ELSE LateConcurrent

\* for_each_concurrent
Startable(n, i) ==
    /\ i \in work[n] /\ ~Executing(i)
    /\ i.lane = "late" => going[n]
    /\ Cardinality({k \in Lane(n, i.lane) : Executing(k)}) < Slots(i.lane)

Start(n, i) ==
    /\ up[n] = "up" /\ Startable(n, i)
    /\ work' = [work EXCEPT ![n] = (@ \ {i}) \cup {[i EXCEPT !.elapsed = 0]}]
    /\ UNCHANGED <<up, going, rule, job, syncs, faults>>

----------------------------------------------------------------------------
(* Releases *)

Fault(kind) == kind \in Faults /\ faults < MaxFaults /\ faults' = faults + 1

\* The lane polls again when its last item is gone.
Drop(n, i) ==
    /\ work' = [work EXCEPT ![n] = @ \ {i}]
    /\ going' = [going EXCEPT ![n] = @ /\ Lane(n, "late") # {i}]

\* Only the claim of the node itself is cleared.
Released(n, r) == [claim EXCEPT ![r] = IF @.by = n THEN None ELSE @]

\* While it runs, a rule hands windows to the repair lane: late parts before
\* it evaluates (logs rules only), the rest of its window after.
Enqueue(n, i, j) ==
    /\ i \in Lane(n, "cron") /\ Executing(i)
    /\ RuleOf(j) = i.rule /\ job[j].status = "none"
    /\ j[2] = "drain" \/ dataset[i.rule] = "logs"
    /\ job' = [job EXCEPT ![j].status = "pending"]
    /\ UNCHANGED <<node, rule, syncs, faults>>

\* Faulty variant: the next run is not scheduled.
FinishUnscheduled(n, i) ==
    /\ i \in Lane(n, "cron") /\ Executing(i)
    /\ claim' = Released(n, i.rule)
    /\ nextRun' = [nextRun EXCEPT ![i.rule] = "null"]
    /\ Drop(n, i)
    /\ UNCHANGED <<up, mode, dataset, job, syncs, faults>>

\* release_claim, after success and failure alike.
FinishCron(n, i) ==
    /\ i \in Lane(n, "cron") /\ Executing(i)
    /\ claim' = Released(n, i.rule)
    /\ nextRun' = [nextRun EXCEPT ![i.rule] =
                     IF claim[i.rule].by # n THEN @ ELSE IF Active(i.rule) THEN "future" ELSE "null"]
    /\ Drop(n, i)
    /\ UNCHANGED <<up, mode, dataset, job, syncs, faults>>

\* The execution panics: the claim stays until it is stale.
Panic(n, i) ==
    /\ i \in Lane(n, "cron") /\ Executing(i)
    /\ Fault("panic")
    /\ Drop(n, i)
    /\ UNCHANGED <<up, rule, job, syncs>>

\* The attempt fence of release_late_replay and release_late_replay_progress.
Owned(n, i) ==
    LET j == job[i.job] IN j.status = "running" /\ j.by = n /\ j.attempts = i.attempt

\* Faulty variant: a settled job keeps its owner.
SettleKeepsOwner(n, i, status, attempts) ==
    /\ i \in Lane(n, "late") /\ Executing(i)
    /\ IF Owned(n, i)
       THEN /\ job' = [job EXCEPT ![i.job].status = status]
            /\ claim' = Released(n, i.rule)
       ELSE UNCHANGED <<job, claim>>
    /\ Drop(n, i)
    /\ UNCHANGED <<up, mode, dataset, nextRun, syncs>>

\* One transaction: the job's outcome, and the rule is free.
Settle(n, i, status, attempts) ==
    /\ i \in Lane(n, "late") /\ Executing(i)
    /\ IF Owned(n, i)
       THEN /\ job' = [job EXCEPT ![i.job] = [status |-> status, by |-> "none", age |-> 0, attempts |-> attempts]]
            /\ claim' = Released(n, i.rule)
       ELSE UNCHANGED <<job, claim>>
    /\ Drop(n, i)
    /\ UNCHANGED <<up, mode, dataset, nextRun, syncs>>

FinishLate(n, i) == Settle(n, i, "completed", i.attempt) /\ UNCHANGED faults

\* A batch is consumed and more is left: not an attempt. Bounded as errors are.
Progress(n, i) == Fault("error") /\ Settle(n, i, "backoff", 0)

\* A failed repair backs off; past its attempts and its horizon it is given up.
FailLate(n, i) ==
    /\ Fault("error")
    /\ \/ Settle(n, i, "backoff", i.attempt)
       \/ i.attempt >= MaxAttempts /\ Settle(n, i, "dead_letter", i.attempt)

BackoffOver(j) ==
    /\ job[j].status = "backoff"
    /\ job' = [job EXCEPT ![j].status = "pending"]
    /\ UNCHANGED <<node, rule, syncs, faults>>

----------------------------------------------------------------------------
(* Nodes *)

Crash(n) ==
    /\ up[n] = "up" /\ Fault("crash")
    /\ up' = [up EXCEPT ![n] = "down"]
    /\ work' = [work EXCEPT ![n] = {}]
    /\ going' = [going EXCEPT ![n] = FALSE]
    /\ UNCHANGED <<rule, job, syncs>>

\* A graceful stop: nothing more is claimed; repairs are cancelled, which
\* counts as a failed attempt; cron executions finish or are dropped.
Shutdown(n) ==
    /\ up[n] = "up" /\ Fault("shutdown")
    /\ up' = [up EXCEPT ![n] = "stopping"]
    /\ UNCHANGED <<work, going, rule, job, syncs>>

Abort(n, i) ==
    /\ up[n] = "stopping" /\ i \in work[n]
    /\ \/ Drop(n, i) /\ UNCHANGED <<up, rule, job, syncs, faults>>
       \/ Settle(n, i, "backoff", i.attempt) /\ UNCHANGED faults

\* Faulty variant: the claims are released while executions still run.
ReleaseAllEarly(n) ==
    /\ up[n] = "stopping"
    /\ job' = [j \in Jobs |-> IF job[j].status = "running" /\ job[j].by = n
                              THEN [status |-> "pending", by |-> "none", age |-> 0, attempts |-> job[j].attempts]
                              ELSE job[j]]
    /\ claim' = [r \in Rules |-> IF claim[r].by = n THEN None ELSE claim[r]]
    /\ up' = [up EXCEPT ![n] = IF work[n] = {} THEN "down" ELSE "stopping"]
    /\ UNCHANGED <<work, going, mode, dataset, nextRun, syncs, faults>>

\* release_all_claims, once the tasks have stopped.
ReleaseAll(n) ==
    /\ up[n] = "stopping" /\ work[n] = {}
    /\ job' = [j \in Jobs |-> IF job[j].status = "running" /\ job[j].by = n
                              THEN [status |-> "pending", by |-> "none", age |-> 0, attempts |-> job[j].attempts]
                              ELSE job[j]]
    /\ claim' = [r \in Rules |-> IF claim[r].by = n THEN None ELSE claim[r]]
    /\ up' = [up EXCEPT ![n] = "down"]
    /\ UNCHANGED <<work, going, mode, dataset, nextRun, syncs, faults>>

\* A node starts and schedules the rules that lost their next run.
Restart(n) ==
    /\ up[n] = "down"
    /\ up' = [up EXCEPT ![n] = "up"]
    /\ nextRun' = [r \in Rules |-> IF Active(r) /\ nextRun[r] = "null" THEN "future" ELSE nextRun[r]]
    /\ UNCHANGED <<work, going, claim, mode, dataset, job, syncs, faults>>

Older(c) == IF c = None THEN c ELSE [c EXCEPT !.age = IF Expired(@) THEN @ ELSE @ + 1]

\* Time passes: no execution outlasts its timeout, and what can start or be
\* claimed for the batch under way takes less than a tick.
Tick ==
    /\ \A n \in Nodes : \A i \in work[n] :
         /\ Executing(i) => i.elapsed < RunMax
         /\ ~(up[n] = "up" /\ Startable(n, i))
         /\ i.lane = "late" => going[n]
    /\ claim' = [r \in Rules |-> Older(claim[r])]
    /\ job' = [j \in Jobs |-> IF job[j].status = "running" THEN Older(job[j]) ELSE job[j]]
    /\ work' = [n \in Nodes |-> {IF Executing(i) THEN [i EXCEPT !.elapsed = @ + 1] ELSE i : i \in work[n]}]
    /\ UNCHANGED <<up, going, mode, dataset, nextRun, syncs, faults>>

\* The cron expression comes round.
RuleDue(r) ==
    /\ nextRun[r] = "future"
    /\ nextRun' = [nextRun EXCEPT ![r] = "due"]
    /\ UNCHANGED <<node, claim, mode, dataset, job, syncs, faults>>

----------------------------------------------------------------------------
(* The API *)

\* A request pauses or resumes a rule; the handler then writes next_run_at
\* from the row it got back.
SetMode(r, m) ==
    /\ mode[r] \in {"on", "paused"} \ {m}
    /\ Fault("mode")
    /\ mode' = [mode EXCEPT ![r] = m]
    /\ syncs' = syncs \cup {[rule |-> r, mode |-> m]}
    /\ UNCHANGED <<node, claim, dataset, nextRun, job>>

\* sync_next_run_at
SyncNextRun(s) ==
    /\ s \in syncs
    /\ nextRun' = [nextRun EXCEPT ![s.rule] = IF s.mode = "on" THEN "future" ELSE "null"]
    /\ syncs' = syncs \ {s}
    /\ UNCHANGED <<node, claim, mode, dataset, job, faults>>

SetDataset(r) ==
    /\ dataset[r] = "logs" /\ mode[r] # "archived"
    /\ Fault("dataset")
    /\ dataset' = [dataset EXCEPT ![r] = "risk"]
    /\ syncs' = syncs \cup {[rule |-> r, mode |-> mode[r]]}
    /\ UNCHANGED <<node, claim, mode, nextRun, job>>

\* delete_rule: first the rule is made unclaimable, ...
Quiesce(r) ==
    /\ mode[r] # "archived" /\ Fault("delete")
    /\ mode' = [mode EXCEPT ![r] = "paused"]
    /\ nextRun' = [nextRun EXCEPT ![r] = "null"]
    /\ UNCHANGED <<node, claim, dataset, job, syncs>>

\* Faulty variant: the rule is archived under its execution.
ArchiveClaimed(r) ==
    /\ "delete" \in Faults /\ mode[r] = "paused"
    /\ mode' = [mode EXCEPT ![r] = "archived"]
    /\ nextRun' = [nextRun EXCEPT ![r] = "null"]
    /\ UNCHANGED <<node, claim, dataset, job, syncs, faults>>

\* ... then archived if no claim is left.
Archive(r) ==
    /\ "delete" \in Faults /\ mode[r] = "paused" /\ claim[r] = None
    /\ mode' = [mode EXCEPT ![r] = "archived"]
    /\ nextRun' = [nextRun EXCEPT ![r] = "null"]
    /\ UNCHANGED <<node, claim, dataset, job, syncs, faults>>

----------------------------------------------------------------------------
Init ==
    /\ up = [n \in Nodes |-> "up"]
    /\ work = [n \in Nodes |-> {}]
    /\ going = [n \in Nodes |-> FALSE]
    /\ claim = [r \in Rules |-> None]
    /\ mode = [r \in Rules |-> "on"]
    /\ dataset = [r \in Rules |-> "logs"]
    /\ nextRun = [r \in Rules |-> "due"]
    /\ job = [j \in Jobs |-> [status |-> "none", by |-> "none", age |-> 0, attempts |-> 0]]
    /\ syncs = {}
    /\ faults = 0

\* An execution of rule r ends by itself.
Finish(n, r) == \E i \in work[n] : i.rule = r /\ (FinishCron(n, i) \/ FinishLate(n, i))

Next ==
    \/ \E n \in Nodes :
         \/ ClaimDue(n) \/ LateGo(n) \/ \E r \in Rules : Finish(n, r)
         \/ Crash(n) \/ Shutdown(n) \/ ReleaseAll(n) \/ Restart(n)
         \/ \E j \in Jobs : ClaimLate(n, j) \/ \E i \in work[n] : Enqueue(n, i, j)
         \/ \E i \in work[n] : \/ Start(n, i) \/ Panic(n, i) \/ Progress(n, i)
                               \/ FailLate(n, i) \/ Abort(n, i)
    \/ \E j \in Jobs : BackoffOver(j)
    \/ \E s \in syncs : SyncNextRun(s)
    \/ \E r \in Rules : \/ RuleDue(r) \/ SetDataset(r) \/ Quiesce(r) \/ Archive(r)
                        \/ SetMode(r, "on") \/ SetMode(r, "paused")
    \/ Tick

Spec == Init /\ [][Next]_vars

\* Both lanes of every node poll, executions start and end, nodes come back,
\* requests finish, and time passes however often an execution starts.
FairSpec ==
    /\ Spec
    /\ \A n \in Nodes :
         /\ WF_vars(ClaimDue(n)) /\ WF_vars(LateGo(n))
         /\ WF_vars(\E j \in Jobs : ClaimLate(n, j))
         /\ WF_vars(\E i \in work[n] : Abort(n, i))
         /\ WF_vars(ReleaseAll(n)) /\ WF_vars(Restart(n))
         /\ \A r \in Rules : /\ WF_vars(\E i \in work[n] : i.rule = r /\ Start(n, i))
                             /\ WF_vars(Finish(n, r))
    /\ \A j \in Jobs : WF_vars(BackoffOver(j))
    /\ \A r \in Rules : WF_vars(RuleDue(r))
    /\ WF_vars(\E s \in syncs : SyncNextRun(s)) /\ SF_vars(Tick)

----------------------------------------------------------------------------
Holders == {None} \cup [by : Nodes, age : 0..(Stale + 1)]

\* The state is well formed.
TypeOK ==
    /\ up \in [Nodes -> {"up", "stopping", "down"}]
    /\ claim \in [Rules -> Holders]
    /\ nextRun \in [Rules -> {"null", "future", "due"}]
    /\ \A n \in Nodes : \A i \in work[n] : i.rule \in Rules /\ i.elapsed \in Queued..RunMax
    /\ \A n \in Nodes : Cardinality(Lane(n, "late")) <= LateBatch
    /\ \A n \in Nodes : up[n] = "down" => work[n] = {}
    /\ \A j \in Jobs : job[j].status = "running" <=> job[j].by \in Nodes

AllWork == UNION {{n} \X {i \in work[n] : Executing(i)} : n \in Nodes}

\* A rule is never executed twice at the same time, by whatever nodes and
\* lanes: matches and statistics would be counted twice.
OneExecution == \A x, y \in AllWork : x[2].rule = y[2].rule => x = y

\* An execution holds the claim of its rule until it is released: neither an
\* expiry, nor the release of another lane of the node, nor a shutdown of
\* another node takes it away.
ExecutionHoldsClaim == \A x \in AllWork : claim[x[2].rule].by = x[1]

\* A deleted rule is not executed any more: its rows may go.
ArchivedIsQuiet == \A x \in AllWork : mode[x[2].rule] # "archived"

\* The rule is enabled and searches logs for good, and requests that edited
\* it did not overlap.
Settled(r) ==
    /\ <>[](mode[r] = "on" /\ dataset[r] = "logs")
    /\ [](Cardinality({s \in syncs : s.rule = r}) <= 1)

\* Such a rule is executed again and again, by the cron lane.
RulesRun ==
    \A r \in Rules : Settled(r) => []<>(\E x \in AllWork : x[2].rule = r /\ x[2].lane = "cron")

\* Every repair of such a rule is finished or given up.
RepairsFinish ==
    \A j \in Jobs : Settled(RuleOf(j)) =>
        (job[j].status = "pending" ~> job[j].status \in {"completed", "dead_letter"})
=============================================================================
