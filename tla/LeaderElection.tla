---------------------------- MODULE LeaderElection ----------------------------
(***************************************************************************)
(* The leader election of nanosiem-core/src/leader.rs: instances compete   *)
(* for a PostgreSQL advisory lock that belongs to a database session. The  *)
(* leader renews on that session; in lease mode a standby terminates a     *)
(* holder that has been silent for StaleAfter.                             *)
(*                                                                         *)
(* Time is relative: left[i] is what remains of instance i's sleep or of   *)
(* the bound on its call, age the time since the holder's last statement   *)
(* (clock_timestamp() - state_change).                                     *)
(***************************************************************************)
EXTENDS Integers, FiniteSets

CONSTANTS
    Instances,     \* the replicas
    Sessions,      \* the direct sessions PostgreSQL can hand out
    NoSession,
    Heartbeat, DbTimeout, Retry, StaleAfter,  \* LeaderTiming
    LeaseMode,     \* stale_after is Some
    StartMax,      \* bound on hooks.elected()
    StopMax,       \* bound on hooks.stepped_down()
    AgeCap,        \* age is not counted beyond this
    MaxFaults      \* bound on failed calls, crashes and shutdowns

\* LeaderTiming::validate, and hooks that take less than a heartbeat.
ASSUME LeaderAssumption ==
    /\ {Heartbeat, DbTimeout, Retry} \subseteq Nat \ {0}
    /\ {StaleAfter, StartMax, StopMax, AgeCap, MaxFaults} \subseteq Nat
    /\ StaleAfter >= 2 * (Heartbeat + DbTimeout)
    /\ StartMax + StopMax < Heartbeat
    /\ AgeCap > StaleAfter
    /\ LeaseMode \in BOOLEAN
    /\ NoSession \notin Sessions

VARIABLES
    phase,      \* where run_election of each instance is
    left,
    answer,     \* what the server answered to the call in progress
    session,    \* the session an instance holds
    cancelled,  \* its shutdown token
    open,       \* sessions the server considers open
    asked,      \* sessions with a try_lock the server has not executed
    closing,    \* sessions the client dropped; the close may never arrive
    doomed,     \* sessions signalled by pg_terminate_backend
    holder,     \* the session that holds the lock
    age,
    late,       \* an eviction its caller gave up is still with the server
    faults

server == <<open, asked, closing, doomed, holder, age>>
vars == <<phase, left, answer, session, cancelled, late, faults, server>>

Phases == {"down", "probing", "evicting", "opening", "locking", "electing",
           "leading", "renewing", "stopping", "resting"}

Answers == {"none", "free", "held", "stale", "true", "false"}

\* The leader-only tasks run from the elected hook until stepped_down returns.
Running(i) == phase[i] \in {"electing", "leading", "renewing", "stopping"}

Up(i) == phase[i] # "down" /\ ~cancelled[i]

\* Every variable stays within its type: in particular the session named by
\* the lock row is one that exists, and timers stay within their bounds.
TypeOK ==
    /\ phase \in [Instances -> Phases]
    /\ left \in [Instances -> Nat]
    /\ answer \in [Instances -> Answers]
    /\ session \in [Instances -> Sessions \cup {NoSession}]
    /\ cancelled \in [Instances -> BOOLEAN]
    /\ open \subseteq Sessions
    /\ asked \subseteq open /\ closing \subseteq open /\ doomed \subseteq open
    /\ holder \in open \cup {NoSession}
    /\ age \in 0..AgeCap
    /\ late \in BOOLEAN
    /\ faults \in 0..MaxFaults

Init ==
    /\ phase = [i \in Instances |-> "down"]
    /\ left = [i \in Instances |-> 0]
    /\ answer = [i \in Instances |-> "none"]
    /\ session = [i \in Instances |-> NoSession]
    /\ cancelled = [i \in Instances |-> FALSE]
    /\ open = {} /\ asked = {} /\ closing = {} /\ doomed = {}
    /\ holder = NoSession
    /\ age = 0
    /\ late = FALSE
    /\ faults = 0

----------------------------------------------------------------------------
(* Moving through the loop *)

\* Faulty variant: database calls without the hard timeout.
BoundWithoutTimeout(p) ==
    IF p = "renewing" THEN StaleAfter ELSE
    IF p \in {"probing", "evicting", "opening", "locking"} THEN DbTimeout ELSE
    IF p = "electing" THEN StartMax ELSE
    IF p = "leading" THEN Heartbeat ELSE
    IF p = "stopping" THEN StopMax ELSE
    IF p = "resting" THEN Retry ELSE 0

\* How long each phase may last.
Bound(p) ==
    CASE p \in {"probing", "evicting", "opening", "locking", "renewing"} -> DbTimeout
      [] p = "electing" -> StartMax
      [] p = "leading"  -> Heartbeat
      [] p = "stopping" -> StopMax
      [] p = "resting"  -> Retry
      [] p = "down"     -> 0

Go(i, p) ==
    /\ phase' = [phase EXCEPT ![i] = p]
    /\ left' = [left EXCEPT ![i] = Bound(p)]
    /\ answer' = [answer EXCEPT ![i] = "none"]

\* The first call of a round of the election loop.
FirstCall == IF LeaseMode THEN "probing" ELSE "opening"

\* drop(session): the connection is closed, not returned to its pool. Over a
\* cut network, or parked by the drill, the close does not reach the server.
DropSession(i) ==
    /\ session' = [session EXCEPT ![i] = NoSession]
    /\ closing' = closing \cup ({session[i]} \cap open)
    /\ UNCHANGED <<open, asked, doomed, holder, age>>

KeepSession == UNCHANGED <<session, server>>

FreeSessions == {s \in Sessions \ open : \A j \in Instances : session[j] # s}

\* Instance i gives up the call it may be waiting for.
GivesUp(i) == late' = (late \/ (phase[i] = "evicting" /\ answer[i] = "none"))

Fault == faults < MaxFaults /\ faults' = faults + 1

----------------------------------------------------------------------------
(* The standby *)

\* A process starts the election.
Boot(i) ==
    /\ phase[i] = "down"
    /\ Go(i, FirstCall)
    /\ cancelled' = [cancelled EXCEPT ![i] = FALSE]
    /\ KeepSession /\ UNCHANGED <<late, faults>>

\* Faulty variant: a holder is never considered stale.
ProbeNeverStale(i) ==
    /\ phase[i] = "probing" /\ answer[i] = "none"
    /\ answer' = [answer EXCEPT ![i] = IF holder = NoSession THEN "free" ELSE "held"]
    /\ UNCHANGED <<phase, left, session, cancelled, late, faults, server>>

\* The server executes the probe.
Probe(i) ==
    /\ phase[i] = "probing" /\ answer[i] = "none"
    /\ answer' = [answer EXCEPT ![i] =
                    IF holder = NoSession THEN "free"
                    ELSE IF age >= StaleAfter THEN "stale" ELSE "held"]
    /\ UNCHANGED <<phase, left, session, cancelled, late, faults, server>>

ProbeAnswered(i) ==
    /\ phase[i] = "probing" /\ answer[i] # "none" /\ ~cancelled[i]
    /\ Go(i, CASE answer[i] = "free"  -> "opening"
               [] answer[i] = "held"  -> "resting"
               [] answer[i] = "stale" -> "evicting")
    /\ KeepSession /\ UNCHANGED <<cancelled, late, faults>>

\* Faulty variant: the holder found stale by the probe is terminated without
\* looking again.
EvictUnchecked(i) ==
    /\ phase[i] = "evicting" /\ answer[i] = "none"
    /\ doomed' = IF holder # NoSession THEN doomed \cup {holder} ELSE doomed
    /\ answer' = [answer EXCEPT ![i] = "true"]
    /\ UNCHANGED <<phase, left, session, cancelled, late, faults, open, asked, closing, holder, age>>

\* The server executes evict_stale: the holder is signalled if it is still
\* silent. The signalled backend ends later (ServerClose).
Evict(i) ==
    /\ phase[i] = "evicting" /\ answer[i] = "none"
    /\ LET stale == holder # NoSession /\ age > StaleAfter
       IN /\ doomed' = IF stale THEN doomed \cup {holder} ELSE doomed
          /\ answer' = [answer EXCEPT ![i] = IF stale THEN "true" ELSE "false"]
    /\ UNCHANGED <<phase, left, session, cancelled, late, faults, open, asked, closing, holder, age>>

\* Whatever the eviction answered, the standby goes on to try the lock.
EvictAnswered(i) ==
    /\ phase[i] = "evicting" /\ answer[i] # "none" /\ ~cancelled[i]
    /\ Go(i, "opening")
    /\ KeepSession /\ UNCHANGED <<cancelled, late, faults>>

\* The dedicated session is opened and try_lock sent on it.
Open(i, s) ==
    /\ phase[i] = "opening" /\ ~cancelled[i]
    /\ s \in FreeSessions
    /\ Go(i, "locking")
    /\ session' = [session EXCEPT ![i] = s]
    /\ open' = open \cup {s}
    /\ asked' = asked \cup {s}
    /\ UNCHANGED <<cancelled, late, faults, closing, doomed, holder, age>>

\* The server executes pg_try_advisory_lock, for a client that may be gone.
TryLock(s) ==
    /\ s \in asked
    /\ asked' = asked \ {s}
    /\ holder' = IF holder = NoSession THEN s ELSE holder
    /\ age' = IF holder = NoSession THEN 0 ELSE age
    /\ answer' = [i \in Instances |->
                    IF session[i] = s /\ phase[i] = "locking"
                    THEN IF holder = NoSession THEN "true" ELSE "false"
                    ELSE answer[i]]
    /\ UNCHANGED <<phase, left, session, cancelled, late, faults, open, closing, doomed>>

LockAcquired(i) ==
    /\ phase[i] = "locking" /\ answer[i] = "true" /\ ~cancelled[i]
    /\ Go(i, "electing")
    /\ KeepSession /\ UNCHANGED <<cancelled, late, faults>>

LockRefused(i) ==
    /\ phase[i] = "locking" /\ answer[i] = "false" /\ ~cancelled[i]
    /\ Go(i, "resting")
    /\ DropSession(i) /\ UNCHANGED <<cancelled, late, faults>>

Rested(i) ==
    /\ phase[i] = "resting" /\ left[i] = 0 /\ ~cancelled[i]
    /\ Go(i, FirstCall)
    /\ KeepSession /\ UNCHANGED <<cancelled, late, faults>>

----------------------------------------------------------------------------
(* The leader *)

\* hooks.elected() returns. It is not cancellable.
Elected(i) ==
    /\ phase[i] = "electing"
    /\ Go(i, "leading")
    /\ KeepSession /\ UNCHANGED <<cancelled, late, faults>>

SendRenew(i) ==
    /\ phase[i] = "leading" /\ left[i] = 0 /\ ~cancelled[i]
    /\ Go(i, "renewing")
    /\ KeepSession /\ UNCHANGED <<cancelled, late, faults>>

\* The server executes the renew (SELECT 1) on an open session.
Renew(i) ==
    /\ phase[i] = "renewing" /\ answer[i] = "none" /\ session[i] \in open
    /\ answer' = [answer EXCEPT ![i] = "true"]
    /\ age' = IF holder = session[i] THEN 0 ELSE age
    /\ UNCHANGED <<phase, left, session, cancelled, late, faults, open, asked, closing, doomed, holder>>

RenewAnswered(i) ==
    /\ phase[i] = "renewing" /\ answer[i] = "true" /\ ~cancelled[i]
    /\ Go(i, "leading")
    /\ KeepSession /\ UNCHANGED <<cancelled, late, faults>>

\* hooks.stepped_down() returns; only now is the session dropped.
SteppedDown(i) ==
    /\ phase[i] = "stopping"
    /\ Go(i, IF cancelled[i] THEN "down" ELSE "resting")
    /\ DropSession(i) /\ UNCHANGED <<cancelled, late, faults>>

----------------------------------------------------------------------------
(* Failures and shutdown *)

\* Where a failed or late call leads.
AfterFailure(p) ==
    CASE p = "evicting" -> "opening"
      [] p = "renewing" -> "stopping"
      [] p \in {"probing", "opening", "locking"} -> "resting"

\* Faulty variant: the lock session is dropped before the tasks have stopped.
CallFailsDropsFirst(i) ==
    /\ phase[i] \in {"probing", "evicting", "opening", "locking", "renewing"}
    /\ ~cancelled[i]
    /\ Go(i, AfterFailure(phase[i]))
    /\ IF phase[i] \in {"locking", "renewing"} THEN DropSession(i) ELSE KeepSession
    /\ GivesUp(i) /\ Fault /\ UNCHANGED cancelled

\* A call fails, or its bound passes without an answer. The request may have
\* been executed, or be executed later (TryLock, LateEvict; a late renew would
\* only make the holder look fresher).
CallFails(i) ==
    /\ phase[i] \in {"probing", "evicting", "opening", "locking", "renewing"}
    /\ ~cancelled[i]
    /\ Go(i, AfterFailure(phase[i]))
    /\ IF phase[i] = "locking" THEN DropSession(i) ELSE KeepSession
    /\ GivesUp(i) /\ Fault /\ UNCHANGED cancelled

\* A call the server cannot serve fails at once: its session is gone, or no
\* session is to be had.
CallRefused(i) ==
    /\ ~cancelled[i]
    /\ \/ phase[i] \in {"locking", "renewing"} /\ answer[i] = "none" /\ session[i] \notin open
       \/ phase[i] = "opening" /\ FreeSessions = {}
    /\ Go(i, AfterFailure(phase[i]))
    /\ IF phase[i] = "locking" THEN DropSession(i) ELSE KeepSession
    /\ UNCHANGED <<cancelled, late, faults>>

\* The shutdown token is cancelled.
Cancel(i) ==
    /\ Up(i)
    /\ cancelled' = [cancelled EXCEPT ![i] = TRUE]
    /\ Fault
    /\ UNCHANGED <<phase, left, answer, session, late, server>>

\* A cancelled wait ends the loop; a leader stops its tasks first.
Stop(i) ==
    /\ cancelled[i]
    /\ phase[i] \notin {"down", "electing", "stopping"}
    /\ Go(i, IF Running(i) THEN "stopping" ELSE "down")
    /\ IF phase[i] = "locking" THEN DropSession(i) ELSE KeepSession
    /\ GivesUp(i) /\ UNCHANGED <<cancelled, faults>>

\* The process dies, with or without its node: the close of its session
\* reaches the server at some time, or never.
Crash(i) ==
    /\ phase[i] # "down"
    /\ Go(i, "down")
    /\ DropSession(i)
    /\ GivesUp(i) /\ Fault /\ UNCHANGED cancelled

\* Faulty variant: the lock outlives its session.
EndSessionKeepsLock(s) ==
    /\ open' = open \ {s}
    /\ asked' = asked \ {s}
    /\ closing' = closing \ {s}
    /\ doomed' = doomed \ {s}
    /\ UNCHANGED <<holder, age>>
    /\ UNCHANGED <<phase, left, answer, session, cancelled, late, faults>>

\* The server ends session s, and with it the lock.
EndSession(s) ==
    /\ open' = open \ {s}
    /\ asked' = asked \ {s}
    /\ closing' = closing \ {s}
    /\ doomed' = doomed \ {s}
    /\ holder' = IF holder = s THEN NoSession ELSE holder
    /\ age' = IF holder = s THEN 0 ELSE age
    /\ UNCHANGED <<phase, left, answer, session, cancelled, late, faults>>

\* A close or a termination signal takes effect.
ServerClose(s) == s \in closing \cup doomed /\ EndSession(s)

\* The server executes an eviction nobody waits for any more.
LateEvict ==
    /\ late /\ late' = FALSE
    /\ doomed' = IF holder # NoSession /\ age > StaleAfter THEN doomed \cup {holder} ELSE doomed
    /\ UNCHANGED <<phase, left, answer, session, cancelled, faults, open, asked, closing, holder, age>>

\* A unit of time passes; every bound is kept.
Tick ==
    /\ \A i \in Instances : phase[i] # "down" => left[i] > 0
    /\ left' = [i \in Instances |-> IF phase[i] = "down" THEN 0 ELSE left[i] - 1]
    /\ age' = IF holder # NoSession /\ age < AgeCap THEN age + 1 ELSE age
    /\ UNCHANGED <<phase, answer, session, cancelled, late, faults, open, asked, closing, doomed, holder>>

ServerStep(i) == Probe(i) \/ Evict(i) \/ Renew(i)

Loop(i) ==
    \/ ProbeAnswered(i) \/ EvictAnswered(i)
    \/ \E s \in Sessions : Open(i, s)
    \/ LockAcquired(i) \/ LockRefused(i) \/ Rested(i)
    \/ Elected(i) \/ SendRenew(i) \/ RenewAnswered(i) \/ CallRefused(i)
    \/ SteppedDown(i) \/ Stop(i)

Next ==
    \/ \E i \in Instances :
         Boot(i) \/ Loop(i) \/ ServerStep(i) \/ CallFails(i) \/ Cancel(i) \/ Crash(i)
    \/ \E s \in Sessions : TryLock(s) \/ ServerClose(s)
    \/ LateEvict \/ Tick

Spec == Init /\ [][Next]_vars

\* Instances take their steps, the server executes what it received and ends
\* what it was told to terminate, and time passes. Nothing is assumed about
\* the close of a dropped session.
FairSpec ==
    /\ Spec
    /\ \A i \in Instances : WF_vars(Loop(i)) /\ WF_vars(ServerStep(i))
    /\ \A s \in Sessions : WF_vars(TryLock(s)) /\ WF_vars(s \in doomed /\ ServerClose(s))
    /\ WF_vars(Tick)

----------------------------------------------------------------------------
(* Properties *)

\* "Ensures exactly one replica runs leader-only tasks": never two at once,
\* whatever calls are late, lost or executed after their caller gave up.
OneLeader == \A i, j \in Instances : Running(i) /\ Running(j) => i = j

\* The tasks run only while the instance's own session holds the lock: they
\* are stopped before the lock can pass on.
RunsUnderLock == \A i \in Instances : Running(i) => holder = session[i] /\ holder \in open

\* A leader that cannot renew has stopped its tasks before any standby may
\* consider it stale, and so is never terminated while they run.
FencedBeforeStale == \A i \in Instances : Running(i) => age < StaleAfter

\* As long as an instance is up, there is a leader again and again: a lock
\* left behind by a dead holder is taken over.
LeaderReturns ==
    \A i \in Instances : Up(i) ~> (~Up(i) \/ \E j \in Instances : Running(j))
=============================================================================
