---------------------------- MODULE DetectionGate ----------------------------
(***************************************************************************)
(* Scheduled detections over a cell's part log: the rule watermarks and    *)
(* windows of the scheduler (detection/distributed_scheduler.rs), the late *)
(* window gate of the query process (part_query/detections.rs), the        *)
(* scheduler's use of it (detection/service/open_cell.rs) and the repair   *)
(* jobs (db/repository/detection_rules/late_replay.rs).                    *)
(*                                                                         *)
(* Rows land in the log behind the event time rules have been evaluated    *)
(* through. The question is whether each rule is still evaluated on every  *)
(* one of them. The claims that keep runs and repairs of a rule apart are  *)
(* the subject of DetectionLanes; here a rule does one thing at a time.    *)
(***************************************************************************)
EXTENDS Integers, FiniteSets, Sequences, FiniteSetsExt

CONSTANTS
    Rules,
    MaxTime,        \* event times are 0..MaxTime
    MaxEntries,     \* bound on the part log
    Lateness,       \* how far behind the clock a row may land
    Spread,         \* how far apart the rows of an entry are
    Delay,          \* lake_event_time_delay_secs
    Overlap,        \* the 5 s a window reaches back before the watermark
    DefaultLookback, \* window of a rule's first run
    Lookback,       \* lookback_minutes of every rule, 0 if not set
    MaxCatchup,     \* max_catchup_minutes
    Batch,          \* max_events_per_alert: matches one execution consumes
    MaxHistory,     \* MAX_HISTORY
    MaxWindows,     \* MAX_RERUN_WINDOWS
    MaxAccepted,    \* windows replay_windows takes from one plan
    Faults,         \* which faults happen
    MaxFaults       \* and how many

ASSUME DetectionAssumption ==
    /\ {MaxTime, MaxEntries, Lateness, Spread, Delay, DefaultLookback, Lookback, MaxFaults} \subseteq Nat
    /\ {Overlap, MaxCatchup, Batch, MaxHistory, MaxWindows, MaxAccepted} \subseteq Nat \ {0}
    /\ Faults \subseteq {"error", "crash", "plan", "commit", "drain", "respawn", "reset"}

VARIABLES
    now,       \* wall clock
    log,       \* part log: the event times of the new rows of each entry
    head,      \* the log as far as the query process has folded it
    history,   \* Inner.history: log entries with new data, the range of their
               \* rows and the head they were seen at
    floor,     \* Inner.history_floor
    mark,      \* Inner.rules: watermark of each rule, durable
    lastRun,   \* detection_rules.last_run_at
    run,       \* the execution of each rule under way
    jobs,      \* detection_late_replay_jobs
    detected,  \* rows each rule has been evaluated on, with their effects
    faults,
    onTime,    \* history variable: rows that landed within the delay
    gap        \* history variable: rules with a run the gate does not know of,
               \* or a plan made without the history it needed

gate == <<head, history, floor, mark>>
ghost == <<onTime, gap>>
vars == <<now, log, gate, lastRun, run, jobs, detected, faults, ghost>>

Times == 0..MaxTime
NoMark == [seq |-> -1, through |-> -1]
Never == -1 - MaxTime - DefaultLookback - MaxCatchup
NoPlan == -1
Idle == [phase |-> "idle"]

Smaller(a, b) == IF a < b THEN a ELSE b
Larger(a, b) == IF a > b THEN a ELSE b

\* The rows of the first n log entries.
RowsUpTo(n) == UNION {{i} \X log[i] : i \in 1..n}

----------------------------------------------------------------------------
(* The gate *)

\* cap_history: drop the oldest entries, and remember up to where.
Capped(h) == {e \in h : Cardinality({f \in h : f.entry > e.entry}) < MaxHistory}
CapFloor(f, h) == IF Capped(h) = h THEN f ELSE Larger(f, Max({e.seq : e \in h \ Capped(h)}))

\* record_advance: the ranges of new data in entries from..to, seen at head to.
NewData(from, to) ==
    {[entry |-> i, seq |-> to, min |-> Min(log[i]), max |-> Max(log[i])] :
        i \in {i \in (from + 1)..to : log[i] # {}}}

\* refresh and observe: the query process folds the log to its head.
Refresh ==
    /\ head < Len(log)
    /\ head' = Len(log)
    /\ LET h == history \cup NewData(head, Len(log))
       IN history' = Capped(h) /\ floor' = CapFloor(floor, h)
    /\ UNCHANGED <<now, log, mark, lastRun, run, jobs, detected, faults, ghost>>

\* Faulty variant: an entry counts as late only if all of it is.
LateWhole(m, ws) ==
    {e \in history : e.seq > m.seq /\ e.max <= Smaller(m.through, ws - 1)}

\* Entries new to a rule with rows behind what it was evaluated through.
Late(m, ws) ==
    {e \in history : e.seq > m.seq /\ e.min <= Smaller(m.through, ws - 1)}

\* plan: the late ranges rounded to the grid, adjacent ones merged, and
\* all merged into one when there are too many.
RerunWindows(m, ws, we) ==
    LET grid == we - ws + 1
        cells == UNION {(e.min \div grid)..(Smaller(e.max, Smaller(m.through, ws - 1)) \div grid) :
                          e \in Late(m, ws)}
        spans == {s \in cells \X cells : /\ s[1]..s[2] \subseteq cells
                                         /\ s[1] <= s[2]
                                         /\ s[1] - 1 \notin cells /\ s[2] + 1 \notin cells}
        all == IF Cardinality(spans) > MaxWindows THEN {<<Min(cells), Max(cells)>>} ELSE spans
    IN {[start |-> s[1] * grid, end |-> (s[2] + 1) * grid - 1] : s \in all}

\* plan when the history does not reach back to the watermark.
TruncatedWindows(m, ws) ==
    IF m.through < ws THEN {[start |-> m.through, end |-> m.through]} ELSE {}

Truncated(r) == mark[r] # NoMark /\ mark[r].seq < floor

PlannedWindows(r, ws, we) ==
    CASE mark[r] = NoMark -> {}
      [] Truncated(r) -> TruncatedWindows(mark[r], ws)
      [] OTHER -> RerunWindows(mark[r], ws, we)

\* replay_windows: what the scheduler makes jobs of, or the plan is refused.
Accepted(windows) == Cardinality(windows) <= MaxAccepted

\* Faulty variant: empty windows become jobs too.
ClampedEmpty(windows, ws) == {[start |-> v.start, end |-> Smaller(v.end, ws)] : v \in windows}

Clamped(windows, ws) ==
    {w \in {[start |-> v.start, end |-> Smaller(v.end, ws)] : v \in windows} : w.start < w.end}

\* Faulty variant: history is dropped by event time alone.
KeptByTime(e, marks) == e.max > Min({marks[r].through : r \in {r \in Rules : marks[r] # NoMark}})

\* commit keeps an entry some rule has not seen by log order or event time.
Kept(e, marks) ==
    LET known == {r \in Rules : marks[r] # NoMark} IN
    \/ e.seq > Min({marks[r].seq : r \in known})
    \/ e.max > Min({marks[r].through : r \in known})

\* commit_at: a watermark never moves back.
Advanced(m, seq, through) ==
    IF m = NoMark THEN [seq |-> seq, through |-> through]
    ELSE [seq |-> Larger(m.seq, seq), through |-> Larger(m.through, through)]

Committed(r, seq, through) ==
    LET marks == [mark EXCEPT ![r] = Advanced(@, seq, through)]
    IN /\ mark' = marks
       /\ history' = {e \in history : Kept(e, marks)}
       /\ floor' = Larger(floor, Smaller(head, Min({marks[s].seq : s \in {s \in Rules : marks[s] # NoMark}})))
       /\ UNCHANGED head

----------------------------------------------------------------------------
(* A scheduled run *)

\* compute_window_end, compute_window_start on the delayed clock.
WindowEnd(r) ==
    IF Lookback > 0 \/ lastRun[r] = Never THEN now - Delay
    ELSE Smaller(lastRun[r] + MaxCatchup, now - Delay)

WindowStart(r) ==
    CASE Lookback > 0 -> WindowEnd(r) - Lookback
      [] Lookback = 0 /\ lastRun[r] # Never -> lastRun[r] - Overlap
      [] OTHER -> WindowEnd(r) - DefaultLookback

Fault(kind) == kind \in Faults /\ faults < MaxFaults /\ faults' = faults + 1

\* Jobs are told apart by an identity; a second insert of one does nothing.
Insert(new) ==
    jobs' = jobs \cup {j \in new : ~\E k \in jobs : k.rule = j.rule /\ k.id = j.id}

Job(r, id, w) == [rule |-> r, id |-> id, start |-> w.start, end |-> w.end, status |-> "due"]

\* next_last_run_at after a failure: a first run keeps its window.
FailedLastRun(r, start) == [lastRun EXCEPT ![r] = IF @ = Never THEN start ELSE @]

\* claim_due_rules: no due repair of the rule is waiting.
Claimable(r) == run[r] = Idle /\ \A j \in jobs : j.rule = r => j.status # "due"

Running(r, seq) ==
    [run EXCEPT ![r] = [phase |-> "running", start |-> WindowStart(r), end |-> WindowEnd(r), seq |-> seq]]

\* The rule is claimed and the gate asked for its late windows, which become
\* repair jobs before the current window is evaluated. A plan with too many
\* windows fails the run.
Claim(r) ==
    /\ Claimable(r)
    /\ LET windows == PlannedWindows(r, WindowStart(r), WindowEnd(r)) IN
       IF Accepted(windows)
       THEN /\ Insert({Job(r, <<"late", head, w.start, w.end>>, w) : w \in Clamped(windows, WindowStart(r))})
            /\ run' = Running(r, head)
            /\ UNCHANGED lastRun
       ELSE lastRun' = FailedLastRun(r, WindowStart(r)) /\ UNCHANGED <<jobs, run>>
    /\ gap' = IF Truncated(r) THEN gap \cup {r} ELSE gap
    /\ UNCHANGED <<now, log, gate, detected, faults, onTime>>

\* The gate does not answer: the window runs without a plan.
ClaimWithoutPlan(r) ==
    /\ Claimable(r)
    /\ Fault("plan")
    /\ run' = Running(r, NoPlan)
    /\ UNCHANGED <<now, log, gate, lastRun, jobs, detected, ghost>>

\* Matches in a window that were not consumed before.
Matches(r, start, end) == {x \in RowsUpTo(head) : x[2] \in start..end} \ detected[r]

\* execute_window_rule: at most Batch matches take effect.
Consume(r, start, end) ==
    LET m == Matches(r, start, end) IN
    \E b \in kSubset(Smaller(Batch, Cardinality(m)), m) :
        detected' = [detected EXCEPT ![r] = @ \cup b]

Drains(r, start, end) == Cardinality(Matches(r, start, end)) > Batch

Evaluate(r) ==
    /\ run[r].phase = "running"
    /\ Consume(r, run[r].start, run[r].end)
    /\ run' = [run EXCEPT ![r].phase =
                 IF Drains(r, run[r].start, run[r].end) THEN "drain"
                 ELSE IF run[r].seq = NoPlan THEN "done" ELSE "evaluated"]
    /\ UNCHANGED <<now, log, gate, lastRun, jobs, faults, ghost>>

\* The gate is told what the run covered.
Commit(r) ==
    /\ run[r].phase = "evaluated"
    /\ Committed(r, run[r].seq, run[r].end)
    /\ run' = [run EXCEPT ![r].phase = "committed"]
    /\ UNCHANGED <<now, log, lastRun, jobs, detected, faults, ghost>>

\* The gate is not told; the run counts all the same.
CommitFails(r) ==
    /\ run[r].phase = "evaluated"
    /\ Fault("commit")
    /\ run' = [run EXCEPT ![r].phase = "done"]
    /\ UNCHANGED <<now, log, gate, lastRun, jobs, detected, ghost>>

\* enqueue_window_drain: the rest of the window becomes a job. Only a window
\* cut short by MaxCatchup can come again with the same identity.
DrainId(r) ==
    LET slice == Lookback = 0 /\ run[r].end < now - Delay
        again == Cardinality({j \in jobs : j.rule = r /\ j.id[1] = "drain"})
    IN <<"drain", IF slice THEN 0 ELSE again + 1, run[r].start, run[r].end>>

\* Faulty variant: the rest of the window is not handed over.
DrainDropped(r) ==
    /\ run[r].phase = "drain"
    /\ run' = [run EXCEPT ![r].phase = "done"]
    /\ UNCHANGED <<now, log, gate, lastRun, jobs, detected, faults, ghost>>

EnqueueDrain(r) ==
    /\ run[r].phase = "drain"
    /\ Insert({Job(r, DrainId(r), run[r])})
    /\ run' = [run EXCEPT ![r].phase = "done"]
    /\ UNCHANGED <<now, log, gate, lastRun, detected, faults, ghost>>

\* release_claim after a run that counts: the watermark advances.
Release(r) ==
    /\ run[r].phase \in {"committed", "done"}
    /\ lastRun' = [lastRun EXCEPT ![r] = run[r].end]
    /\ run' = [run EXCEPT ![r] = Idle]
    /\ gap' = IF run[r].phase = "done" THEN gap \cup {r} ELSE gap
    /\ UNCHANGED <<now, log, gate, jobs, detected, faults, onTime>>

\* An error or timeout of the execution, or of the drain job's insert.
Fails(r) ==
    /\ run[r].phase \in {"running", "drain"}
    /\ Fault(IF run[r].phase = "drain" THEN "drain" ELSE "error")
    /\ lastRun' = FailedLastRun(r, run[r].start)
    /\ run' = [run EXCEPT ![r] = Idle]
    /\ UNCHANGED <<now, log, gate, jobs, detected, ghost>>

\* The node dies; the claim goes stale and the rule is claimed again.
Crash(r) ==
    /\ run[r] # Idle
    /\ Fault("crash")
    /\ run' = [run EXCEPT ![r] = Idle]
    /\ UNCHANGED <<now, log, gate, lastRun, jobs, detected, ghost>>

----------------------------------------------------------------------------
(* The repair lane *)

SetStatus(j, s) == jobs' = (jobs \ {j}) \cup {[j EXCEPT !.status = s]}

\* Faulty variant: a repair that finished is due again.
ReplayStillDue(j) ==
    /\ j \in jobs /\ j.status = "due"
    /\ run[j.rule] = Idle
    /\ Consume(j.rule, j.start, j.end)
    /\ UNCHANGED <<now, log, gate, lastRun, run, jobs, faults, ghost>>

\* A repair runs while the rule is not claimed. More matches than one
\* execution consumes leave it due (release_late_replay_progress).
Replay(j) ==
    /\ j \in jobs /\ j.status = "due"
    /\ run[j.rule] = Idle
    /\ Consume(j.rule, j.start, j.end)
    /\ SetStatus(j, IF Drains(j.rule, j.start, j.end) THEN "due" ELSE "completed")
    /\ UNCHANGED <<now, log, gate, lastRun, run, faults, ghost>>

\* A failed repair backs off, which lets scheduled runs pass (release_late_replay).
ReplayFails(j) ==
    /\ j \in jobs /\ j.status = "due"
    /\ run[j.rule] = Idle
    /\ Fault("error")
    /\ SetStatus(j, "backoff")
    /\ UNCHANGED <<now, log, gate, lastRun, run, detected, ghost>>

BackoffOver(j) ==
    /\ j \in jobs /\ j.status = "backoff"
    /\ SetStatus(j, "due")
    /\ UNCHANGED <<now, log, gate, lastRun, run, detected, faults, ghost>>

----------------------------------------------------------------------------
(* The environment *)

\* The ingestor appends an entry: new rows, or a merge of old ones.
Land(rows) ==
    /\ Len(log) < MaxEntries
    /\ \A t \in rows : now - Lateness <= t /\ t <= now
    /\ log' = Append(log, rows)
    /\ onTime' = onTime \cup {<<Len(log) + 1, t>> : t \in {t \in rows : now - t <= Delay}}
    /\ UNCHANGED <<now, gate, lastRun, run, jobs, detected, faults, gap>>

\* The view of the log is never older than a second, less than a time unit.
Tick ==
    /\ now < MaxTime /\ head = Len(log)
    /\ now' = now + 1
    /\ UNCHANGED <<log, gate, lastRun, run, jobs, detected, faults, ghost>>

\* The query process starts again: the watermarks are durable, the history
\* is seeded with what is live, at the head it finds.
Respawn ==
    /\ Fault("respawn")
    /\ head' = Len(log)
    /\ LET h == NewData(0, Len(log))
       IN history' = Capped(h) /\ floor' = CapFloor(Len(log), h)
    /\ UNCHANGED <<now, log, mark, lastRun, run, jobs, detected, ghost>>

\* An operator resets a rule's watermark.
Reset(r) ==
    /\ mark[r] # NoMark
    /\ Fault("reset")
    /\ mark' = [mark EXCEPT ![r] = NoMark]
    /\ gap' = gap \cup {r}
    /\ UNCHANGED <<now, log, head, history, floor, lastRun, run, jobs, detected, onTime>>

----------------------------------------------------------------------------
Init ==
    /\ now = 0 /\ log = <<>>
    /\ head = 0 /\ history = {} /\ floor = 0
    /\ mark = [r \in Rules |-> NoMark]
    /\ lastRun = [r \in Rules |-> Never]
    /\ run = [r \in Rules |-> Idle]
    /\ jobs = {}
    /\ detected = [r \in Rules |-> {}]
    /\ faults = 0 /\ onTime = {} /\ gap = {}

\* What a node does for a rule once it is claimed.
Execute(r) == Evaluate(r) \/ Commit(r) \/ EnqueueDrain(r) \/ Release(r)

\* Entries carry rows at one or two event times.
Entries == {rows \in SUBSET Times : Cardinality(rows) <= 2 /\ \A t, u \in rows : t - u <= Spread}

Next ==
    \/ \E r \in Rules : \/ Claim(r) \/ ClaimWithoutPlan(r) \/ Execute(r)
                        \/ CommitFails(r) \/ Fails(r) \/ Crash(r) \/ Reset(r)
    \/ \E j \in jobs : Replay(j) \/ ReplayFails(j) \/ BackoffOver(j)
    \/ \E rows \in Entries : Land(rows)
    \/ Refresh \/ Tick \/ Respawn

Spec == Init /\ [][Next]_vars

\* Nodes keep polling, both lanes; claimed rules are executed; the log is
\* followed; time passes.
FairSpec ==
    /\ Spec
    /\ \A r \in Rules : WF_vars(Claim(r)) /\ WF_vars(Execute(r))
    /\ WF_vars(\E j \in jobs : Replay(j) \/ BackoffOver(j))
    /\ WF_vars(Refresh) /\ WF_vars(Tick)

----------------------------------------------------------------------------
Phases == {"idle", "running", "evaluated", "committed", "drain", "done"}

\* The state is well formed: watermarks name a log position that exists and an
\* event time the delayed clock has reached, windows are not backwards and
\* repairs not empty, and the history is within its cap.
TypeOK ==
    /\ now \in Times
    /\ head \in 0..Len(log) /\ floor \in 0..head
    /\ Cardinality(history) <= MaxHistory
    /\ \A r \in Rules : mark[r] # NoMark => mark[r].seq \in 0..head /\ mark[r].through <= now - Delay
    /\ \A r \in Rules : run[r].phase \in Phases
    /\ \A r \in Rules : run[r] # Idle => run[r].start <= run[r].end
    /\ \A j \in jobs : /\ j.start < j.end \/ (j.start = j.end /\ j.id[1] = "drain")
                       /\ j.status \in {"due", "backoff", "completed"}
    /\ \A r \in Rules : detected[r] \subseteq RowsUpTo(Len(log))
    /\ onTime \subseteq RowsUpTo(Len(log)) /\ gap \subseteq Rules

\* Dropping history that every rule has seen, or at the cap, never hides an
\* entry from a rule that would still be given its late windows from the
\* history: all it has not seen of the log is there.
HistoryReaches ==
    \A r \in Rules : mark[r] # NoMark /\ ~Truncated(r) =>
        \A i \in (mark[r].seq + 1)..head : log[i] # {} =>
            \E e \in history : /\ e.entry = i /\ e.seq > mark[r].seq
                               /\ e.min = Min(log[i]) /\ e.max = Max(log[i])

\* The rows a window may end after.
Rows == {x \in RowsUpTo(Len(log)) : x[2] <= MaxTime - Delay}

\* Each rule is evaluated in the end on every row that lands within the
\* delay, whatever fails and however the windows drain.
OnTimeRowsEvaluated ==
    []<>(\A r \in Rules : Rows \cap onTime \subseteq detected[r])

\* Each rule is evaluated in the end on every row, however late it lands, as
\* long as the gate knows of each of its runs and has the history to plan by.
LateRowsEvaluated == []<>(\A r \in Rules \ gap : Rows \subseteq detected[r])

\* The same without the proviso, as the gate is documented.
EveryRowEvaluated == []<>(\A r \in Rules : Rows \subseteq detected[r])

\* The current window is evaluated again and again, whatever the gate reports.
RunsContinue == \A r \in Rules : []<>(run[r].phase \in {"committed", "done"})
==============================================================================
