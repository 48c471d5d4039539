------------------------ MODULE LeaderElectionProofs ------------------------
(***************************************************************************)
(* Proofs about the leader election.  The inductive invariant ElectionInv  *)
(* follows the lock from the moment the server grants it to the moment     *)
(* stepped_down returns: the session stays open, undisturbed and the       *)
(* holder, and what is left of the current phase always fits in before     *)
(* StaleAfter.  Mutual exclusion follows because sessions are not shared.  *)
(***************************************************************************)
EXTENDS LeaderElection, TLAPS

\* The lock has been granted to instance i and its tasks may run.
Leads(i) == Running(i) \/ (phase[i] = "locking" /\ answer[i] = "true")

\* How old the holder's last statement may be when the phase of i ends.
Silence(i) ==
    IF phase[i] = "locking" THEN DbTimeout
    ELSE IF phase[i] = "electing" THEN DbTimeout + StartMax
    ELSE IF phase[i] = "leading" THEN DbTimeout + StartMax + Heartbeat
    ELSE IF phase[i] = "renewing" /\ answer[i] = "true" THEN DbTimeout
    ELSE IF phase[i] = "renewing" THEN 2 * DbTimeout + StartMax + Heartbeat
    ELSE 2 * DbTimeout + StartMax + Heartbeat + StopMax

\* No two instances share a session, and a dropped session is nobody's.
OwnSessions ==
    /\ \A i, j \in Instances : session[i] = session[j] /\ session[i] # NoSession => i = j
    /\ \A i \in Instances : session[i] \notin closing

\* Only the holder of the lock is ever terminated.
OnlyHolderDoomed == doomed \subseteq {holder}

\* No phase outlasts its bound.
WithinBound == \A i \in Instances : left[i] <= Bound(phase[i])

\* A probe answers what probe_holder distinguishes.
ProbeAnswers ==
    \A i \in Instances : phase[i] = "probing" => answer[i] \in {"none", "free", "held", "stale"}

\* Whoever was granted the lock holds it on a session nobody closes or
\* terminates, and will be done with its phase before the lock is stale.
HoldsLock ==
    \A i \in Instances : Leads(i) =>
        /\ holder = session[i] /\ holder \in open /\ holder \notin doomed
        /\ age + left[i] <= Silence(i)

ElectionInv ==
    TypeOK /\ OwnSessions /\ OnlyHolderDoomed /\ WithinBound /\ ProbeAnswers /\ HoldsLock
-----------------------------------------------------------------------------
(* Facts about the timing constants and the phases.                        *)

\* The constants are numbers, and the longest silence of a leader ends
\* before StaleAfter.
LEMMA Timing ==
    /\ Heartbeat \in Nat /\ DbTimeout \in Nat /\ Retry \in Nat /\ StaleAfter \in Nat
    /\ StartMax \in Nat /\ StopMax \in Nat /\ AgeCap \in Nat /\ MaxFaults \in Nat
    /\ 2 * DbTimeout + StartMax + Heartbeat + StopMax < StaleAfter
    /\ StaleAfter < AgeCap
    /\ NoSession \notin Sessions
  BY LeaderAssumption

\* What Bound gives each phase.
LEMMA Bounds ==
    /\ \A p \in {"probing", "evicting", "opening", "locking", "renewing"} : Bound(p) = DbTimeout
    /\ Bound("electing") = StartMax
    /\ Bound("leading") = Heartbeat
    /\ Bound("stopping") = StopMax
    /\ Bound("down") = 0
    /\ \A p \in Phases : Bound(p) \in Nat
  BY Timing, Zenon DEF Phases, Bound

\* Where a failed call leads.
LEMMA Failures ==
    /\ AfterFailure("evicting") = "opening"
    /\ AfterFailure("renewing") = "stopping"
    /\ \A p \in {"probing", "opening", "locking"} : AfterFailure(p) = "resting"
  BY Zenon DEF AfterFailure

\* The silence allowed to a leader is a number below StaleAfter.
LEMMA SilenceBound == \A i \in Instances : Silence(i) \in Nat /\ Silence(i) < StaleAfter
  BY Timing DEF Silence

-----------------------------------------------------------------------------
\* Nobody is up and nobody holds the lock to begin with.
LEMMA ElectionInit == Init => ElectionInv
  <1> SUFFICES ASSUME Init PROVE ElectionInv
    OBVIOUS
  <1>1. \A i \in Instances : phase[i] = "down" /\ left[i] = 0 /\ session[i] = NoSession
    BY DEF Init
  <1>2. TypeOK
    <2>1. cancelled \in [Instances -> BOOLEAN] /\ late \in BOOLEAN
      BY Zenon DEF Init
    <2>2. age \in 0..AgeCap /\ faults \in 0..MaxFaults
      BY Timing DEF Init
    <2> QED BY <2>1, <2>2 DEF Init, TypeOK, Phases, Answers
  <1> QED BY <1>1, <1>2, Bounds DEF ElectionInv, TypeOK, OwnSessions, OnlyHolderDoomed, WithinBound,
       ProbeAnswers, HoldsLock, Leads, Running, Init

\* A process starts with nothing asked of the server.
LEMMA BootInv == ASSUME ElectionInv, NEW i \in Instances, Boot(i) PROVE ElectionInv'
  BY Timing, Bounds DEF ElectionInv, TypeOK, OwnSessions, OnlyHolderDoomed, WithinBound, ProbeAnswers,
     HoldsLock, Leads, Running, Phases, Answers, Silence,
     Boot, Go, FirstCall, KeepSession, server

\* A probe changes only what its caller is told.
LEMMA ProbeInv == ASSUME ElectionInv, NEW i \in Instances, Probe(i) PROVE ElectionInv'
  BY Timing, Bounds DEF ElectionInv, TypeOK, OwnSessions, OnlyHolderDoomed, WithinBound, ProbeAnswers,
     HoldsLock, Leads, Running, Phases, Answers, Silence,
     Probe, server

\* A standby that goes on leads nothing yet.
LEMMA ProbeAnsweredInv == ASSUME ElectionInv, NEW i \in Instances, ProbeAnswered(i) PROVE ElectionInv'
  <1> DEFINE p == CASE answer[i] = "free"  -> "opening"
                    [] answer[i] = "held"  -> "resting"
                    [] answer[i] = "stale" -> "evicting"
  <1>1. answer[i] \in {"free", "held", "stale"}
    BY DEF ElectionInv, ProbeAnswers, ProbeAnswered
  <1>2. p \in {"opening", "resting", "evicting"}
    BY <1>1, Zenon
  <1>3. Go(i, p) /\ KeepSession /\ UNCHANGED <<cancelled, late, faults>>
    BY DEF ProbeAnswered
  <1> HIDE DEF p
  <1> QED BY <1>2, <1>3, Timing, Bounds DEF ElectionInv, TypeOK, OwnSessions, OnlyHolderDoomed, WithinBound, ProbeAnswers,
       HoldsLock, Leads, Running, Phases, Answers, Silence,
       Go, KeepSession, server

\* An eviction signals a holder that is stale, and so leads nothing.
LEMMA EvictInv == ASSUME ElectionInv, NEW i \in Instances, Evict(i) PROVE ElectionInv'
  BY Timing, Bounds, SilenceBound DEF ElectionInv, TypeOK, OwnSessions, OnlyHolderDoomed, WithinBound, ProbeAnswers,
     HoldsLock, Leads, Running, Phases, Answers,
     Evict, Silence, server

\* After an eviction the standby tries the lock.
LEMMA EvictAnsweredInv == ASSUME ElectionInv, NEW i \in Instances, EvictAnswered(i) PROVE ElectionInv'
  BY Timing, Bounds DEF ElectionInv, TypeOK, OwnSessions, OnlyHolderDoomed, WithinBound, ProbeAnswers,
     HoldsLock, Leads, Running, Phases, Answers, Silence,
     EvictAnswered, Go, KeepSession, server

\* The new session is nobody else's, and open.
LEMMA OpenInv == ASSUME ElectionInv, NEW i \in Instances, NEW s \in Sessions, Open(i, s) PROVE ElectionInv'
  BY Timing, Bounds DEF ElectionInv, TypeOK, OwnSessions, OnlyHolderDoomed, WithinBound, ProbeAnswers,
     HoldsLock, Leads, Running, Phases, Answers, Silence,
     Open, Go, FreeSessions

\* The lock is granted only when it is free, and the granted session is fresh:
\* an eviction of an earlier holder cannot hit it.
LEMMA TryLockInv == ASSUME ElectionInv, NEW s \in Sessions, TryLock(s) PROVE ElectionInv'
  BY Timing, Bounds DEF ElectionInv, TypeOK, OwnSessions, OnlyHolderDoomed, WithinBound, ProbeAnswers,
     HoldsLock, Leads, Running, Phases, Answers, Silence,
     TryLock

\* The new leader has the silence of its try_lock behind it.
LEMMA LockAcquiredInv == ASSUME ElectionInv, NEW i \in Instances, LockAcquired(i) PROVE ElectionInv'
  BY Timing, Bounds DEF ElectionInv, TypeOK, OwnSessions, OnlyHolderDoomed, WithinBound, ProbeAnswers,
     HoldsLock, Leads, Running, Phases, Answers, Silence,
     LockAcquired, Go, KeepSession, server

\* A rested standby starts another round.
LEMMA RestedInv == ASSUME ElectionInv, NEW i \in Instances, Rested(i) PROVE ElectionInv'
  BY Timing, Bounds DEF ElectionInv, TypeOK, OwnSessions, OnlyHolderDoomed, WithinBound, ProbeAnswers,
     HoldsLock, Leads, Running, Phases, Answers, Silence,
     Rested, Go, KeepSession, server, FirstCall

\* Starting the tasks adds at most StartMax to the silence.
LEMMA ElectedInv == ASSUME ElectionInv, NEW i \in Instances, Elected(i) PROVE ElectionInv'
  BY Timing, Bounds DEF ElectionInv, TypeOK, OwnSessions, OnlyHolderDoomed, WithinBound, ProbeAnswers,
     HoldsLock, Leads, Running, Phases, Answers, Silence,
     Elected, Go, KeepSession, server

\* The heartbeat is due: at most DbTimeout more until the answer.
LEMMA SendRenewInv == ASSUME ElectionInv, NEW i \in Instances, SendRenew(i) PROVE ElectionInv'
  BY Timing, Bounds DEF ElectionInv, TypeOK, OwnSessions, OnlyHolderDoomed, WithinBound, ProbeAnswers,
     HoldsLock, Leads, Running, Phases, Answers, Silence,
     SendRenew, Go, KeepSession, server

\* A renewed leader starts its heartbeat with a short silence behind it.
LEMMA RenewAnsweredInv == ASSUME ElectionInv, NEW i \in Instances, RenewAnswered(i) PROVE ElectionInv'
  BY Timing, Bounds DEF ElectionInv, TypeOK, OwnSessions, OnlyHolderDoomed, WithinBound, ProbeAnswers,
     HoldsLock, Leads, Running, Phases, Answers, Silence,
     RenewAnswered, Go, KeepSession, server

\* A renew ends the silence.
LEMMA RenewInv == ASSUME ElectionInv, NEW i \in Instances, Renew(i) PROVE ElectionInv'
  BY Timing, Bounds DEF ElectionInv, TypeOK, OwnSessions, OnlyHolderDoomed, WithinBound, ProbeAnswers,
     HoldsLock, Leads, Running, Phases, Answers, Silence,
     Renew

\* A refused try_lock leaves only a dropped session behind.
LEMMA LockRefusedInv == ASSUME ElectionInv, NEW i \in Instances, LockRefused(i) PROVE ElectionInv'
  BY Timing, Bounds DEF ElectionInv, TypeOK, OwnSessions, OnlyHolderDoomed, WithinBound, ProbeAnswers,
     HoldsLock, Leads, Running, Phases, Answers, Silence,
     LockRefused, Go, DropSession

\* The session is dropped once the tasks have stopped.
LEMMA SteppedDownInv == ASSUME ElectionInv, NEW i \in Instances, SteppedDown(i) PROVE ElectionInv'
  BY Timing, Bounds DEF ElectionInv, TypeOK, OwnSessions, OnlyHolderDoomed, WithinBound, ProbeAnswers,
     HoldsLock, Leads, Running, Phases, Answers, Silence,
     SteppedDown, Go, DropSession

\* A leader whose renew fails stops its tasks while it still holds the lock.
LEMMA CallFailsInv == ASSUME ElectionInv, NEW i \in Instances, CallFails(i) PROVE ElectionInv'
  BY Timing, Bounds, Failures DEF ElectionInv, TypeOK, OwnSessions, OnlyHolderDoomed, WithinBound, ProbeAnswers,
     HoldsLock, Leads, Running, Phases, Answers, Silence,
     CallFails, Go, DropSession, KeepSession, GivesUp, Fault, server

\* The same, without waiting for the bound.
LEMMA CallRefusedInv == ASSUME ElectionInv, NEW i \in Instances, CallRefused(i) PROVE ElectionInv'
  BY Timing, Bounds, Failures DEF ElectionInv, TypeOK, OwnSessions, OnlyHolderDoomed, WithinBound, ProbeAnswers,
     HoldsLock, Leads, Running, Phases, Answers, Silence,
     CallRefused, Go, DropSession, KeepSession, server

\* The shutdown token alone changes nothing.
LEMMA CancelInv == ASSUME ElectionInv, NEW i \in Instances, Cancel(i) PROVE ElectionInv'
  BY Timing, Bounds DEF ElectionInv, TypeOK, OwnSessions, OnlyHolderDoomed, WithinBound, ProbeAnswers,
     HoldsLock, Leads, Running, Phases, Answers, Silence,
     Cancel, Fault, server

\* A cancelled leader stops its tasks before it drops the session.
LEMMA StopInv == ASSUME ElectionInv, NEW i \in Instances, Stop(i) PROVE ElectionInv'
  BY Timing, Bounds DEF ElectionInv, TypeOK, OwnSessions, OnlyHolderDoomed, WithinBound, ProbeAnswers,
     HoldsLock, Leads, Running, Phases, Answers, Silence,
     Stop, Go, DropSession, KeepSession, GivesUp, server

\* A dead process runs no tasks; its session may stay open.
LEMMA CrashInv == ASSUME ElectionInv, NEW i \in Instances, Crash(i) PROVE ElectionInv'
  BY Timing, Bounds DEF ElectionInv, TypeOK, OwnSessions, OnlyHolderDoomed, WithinBound, ProbeAnswers,
     HoldsLock, Leads, Running, Phases, Answers, Silence,
     Crash, Go, DropSession, GivesUp, Fault

\* The server ends only sessions that were dropped or terminated: no leader's.
LEMMA ServerCloseInv == ASSUME ElectionInv, NEW s \in Sessions, ServerClose(s) PROVE ElectionInv'
  BY Timing, Bounds DEF ElectionInv, TypeOK, OwnSessions, OnlyHolderDoomed, WithinBound, ProbeAnswers,
     HoldsLock, Leads, Running, Phases, Answers, Silence,
     ServerClose, EndSession

\* An eviction executed late finds the same condition.
LEMMA LateEvictInv == ASSUME ElectionInv, LateEvict PROVE ElectionInv'
  <1>1. \A i \in Instances : Leads(i) => ~(age > StaleAfter)
    BY Timing, SilenceBound DEF ElectionInv, TypeOK, HoldsLock
  <1>2. /\ doomed' \subseteq doomed \cup {holder} /\ doomed' \subseteq open
        /\ \A i \in Instances : Leads(i) => doomed' = doomed
        /\ late' \in BOOLEAN
        /\ UNCHANGED <<phase, left, answer, session, cancelled, faults, open, asked, closing, holder, age>>
    BY <1>1 DEF ElectionInv, TypeOK, LateEvict
  <1> QED BY <1>2 DEF ElectionInv, TypeOK, OwnSessions, OnlyHolderDoomed, WithinBound, ProbeAnswers,
       HoldsLock, Leads, Running, Phases, Answers, Silence

\* Time that passes for the lock passes for every phase.
LEMMA TickInv == ASSUME ElectionInv, Tick PROVE ElectionInv'
  BY Timing, Bounds DEF ElectionInv, TypeOK, OwnSessions, OnlyHolderDoomed, WithinBound, ProbeAnswers,
     HoldsLock, Leads, Running, Phases, Answers, Silence,
     Tick

-----------------------------------------------------------------------------
\* Every step of the system preserves the inductive invariant.
LEMMA ElectionNext == ElectionInv /\ [Next]_vars => ElectionInv'
  <1> SUFFICES ASSUME ElectionInv, [Next]_vars PROVE ElectionInv'
    OBVIOUS
  <1>1. ASSUME NEW i \in Instances, Boot(i) \/ CallFails(i) \/ Cancel(i) \/ Crash(i) PROVE ElectionInv'
    BY <1>1, BootInv, CallFailsInv, CancelInv, CrashInv
  <1>2. ASSUME NEW i \in Instances, ServerStep(i) PROVE ElectionInv'
    BY <1>2, ProbeInv, EvictInv, RenewInv DEF ServerStep
  <1>3. ASSUME NEW i \in Instances, Loop(i) PROVE ElectionInv'
    BY <1>3, ProbeAnsweredInv, EvictAnsweredInv, OpenInv, LockAcquiredInv, LockRefusedInv, RestedInv,
       ElectedInv, SendRenewInv, RenewAnsweredInv, CallRefusedInv, SteppedDownInv, StopInv DEF Loop
  <1>4. ASSUME NEW s \in Sessions, TryLock(s) \/ ServerClose(s) PROVE ElectionInv'
    BY <1>4, TryLockInv, ServerCloseInv
  <1>5. CASE LateEvict \/ Tick
    BY <1>5, LateEvictInv, TickInv
  <1>6. CASE UNCHANGED vars
    BY <1>6 DEF vars, server, ElectionInv, TypeOK, OwnSessions, OnlyHolderDoomed, WithinBound,
       ProbeAnswers, HoldsLock, Leads, Running, Silence
  <1> QED BY <1>1, <1>2, <1>3, <1>4, <1>5, <1>6 DEF Next

\* ElectionInv is an invariant, for any number of instances and sessions, any
\* timing LeaderTiming::validate accepts, in both modes of leader.rs.
THEOREM ElectionInvariant == Spec => []ElectionInv
  BY ElectionInit, ElectionNext, PTL DEF Spec

\* Type correctness of the election.
THEOREM ElectionTyped == Spec => []TypeOK
  <1>1. ElectionInv => TypeOK
    BY DEF ElectionInv
  <1> QED BY <1>1, ElectionInvariant, PTL

\* The leader-only tasks run only while the instance's own session holds the
\* advisory lock.
THEOREM TasksUnderLock == Spec => []RunsUnderLock
  <1>1. ElectionInv => RunsUnderLock
    BY DEF ElectionInv, HoldsLock, Leads, RunsUnderLock
  <1> QED BY <1>1, ElectionInvariant, PTL

\* At most one replica runs the leader-only tasks.
THEOREM LeaderUnique == Spec => []OneLeader
  <1>1. ElectionInv => OneLeader
    BY Timing DEF ElectionInv, TypeOK, OwnSessions, HoldsLock, Leads, OneLeader
  <1> QED BY <1>1, ElectionInvariant, PTL

\* A leader that cannot renew has stopped its tasks before a standby may
\* consider it stale.
THEOREM StopsBeforeStale == Spec => []FencedBeforeStale
  <1>1. ElectionInv => FencedBeforeStale
    BY Timing, SilenceBound DEF ElectionInv, TypeOK, HoldsLock, Leads, FencedBeforeStale
  <1> QED BY <1>1, ElectionInvariant, PTL
=============================================================================
