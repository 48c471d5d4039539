------------------------- MODULE WriterLeaseProofs -------------------------
(***************************************************************************)
(* Proofs about the writer lease.  The inductive invariant LeaseInv says   *)
(* who is shielded by the row and until when; the deadline arithmetic      *)
(* (sent + TTL - Margin, Drift <= Margin) then gives mutual exclusion of   *)
(* the append gate.                                                        *)
(***************************************************************************)
EXTENDS WriterLease, TLAPS

\* The row is pod p's, at epoch e or later, until the instant `until`, or
\* that instant has passed.
Shielded(p, e, until) ==
    \/ row.holder = p /\ row.epoch >= e /\ row.expires >= until
    \/ now >= until

\* Pod p waits for the reply of a call of this kind that was granted.
GrantedCall(p, kind) == call[p].kind = kind /\ call[p].granted > 0

\* Every epoch anybody remembers was once the row's; no instant is in the
\* future.
Bounds ==
    /\ row.expires <= now + TTL
    /\ lastGate.epoch <= row.epoch
    /\ \A r \in strays : r.epoch <= row.epoch
    /\ \A p \in Pods : /\ epoch[p] <= row.epoch
                       /\ call[p].epoch <= row.epoch
                       /\ call[p].granted <= row.epoch
                       /\ call[p].sent <= now

\* A process waits for one call at a time, of the kind its phase makes.
Shape ==
    \A p \in Pods :
        /\ call[p].kind = "acquire" => proc[p] = "acquiring"
        /\ call[p].kind = "renew" => proc[p] = "writing" /\ call[p].epoch = epoch[p]
        /\ proc[p] # "writing" => p \notin held
        /\ call[p].kind = "none" <=> call[p].stage = "none"
        /\ call[p].granted > 0 => call[p].stage = "reply"

\* A release on its way never names the epoch a live lease holds.
Retired ==
    \A r \in strays : r.kind = "release" =>
        /\ r.pod \in held => r.epoch < epoch[r.pod]
        /\ GrantedCall(r.pod, "acquire") => r.epoch < call[r.pod].granted

\* The row protects every live lease for the TTL of its last renew, and every
\* granted call from the instant it was sent.
Shields ==
    \A p \in Pods :
        /\ p \in held => Shielded(p, epoch[p], validUntil[p] + Margin)
        /\ GrantedCall(p, "acquire") => Shielded(p, call[p].granted, call[p].sent + TTL)
        /\ GrantedCall(p, "renew") /\ p \in held
              => Shielded(p, epoch[p], call[p].sent + TTL)

\* Lease p can still open its gate, now or after a renew.
Fresh(p) ==
    /\ p \in held
    /\ \/ now < validUntil[p] + Margin
       \/ GrantedCall(p, "renew") /\ now < call[p].sent + TTL
       \/ row.holder = p /\ row.epoch = epoch[p]

\* An append under epoch e of pod p comes after the last one let through.
After(p, e) ==
    /\ lastGate.epoch <= e
    /\ lastGate.pod # p => lastGate.epoch < e

Ordered ==
    \A p \in Pods :
        /\ Fresh(p) => After(p, epoch[p])
        /\ /\ GrantedCall(p, "acquire")
           /\ \/ now < call[p].sent + TTL
              \/ row.holder = p /\ row.epoch = call[p].granted
           => lastGate.epoch < call[p].granted

LeaseInv == TypeOK /\ Bounds /\ Shape /\ Retired /\ Shields /\ Ordered
-----------------------------------------------------------------------------
(* What the database does to the row.                                      *)

\* A request leaves the row alone, takes it, renews it or expires it, each
\* only under the conditions of the compare-and-set.
LEMMA RowCases ==
    ASSUME TypeOK, NEW r \in Requests
    PROVE  \/ RowAfter(r) = row /\ Granted(r) = 0
           \/ /\ r.kind = "acquire" /\ (row.expires <= now \/ row.holder = r.pod)
              /\ RowAfter(r) = [holder |-> r.pod, epoch |-> row.epoch + 1, expires |-> now + TTL]
              /\ Granted(r) = row.epoch + 1
           \/ /\ r.kind = "renew" /\ row.holder = r.pod /\ row.epoch = r.epoch
              /\ RowAfter(r) = RowUntil(now + TTL)
              /\ Granted(r) = row.epoch
           \/ /\ r.kind = "release" /\ row.holder = r.pod /\ row.epoch = r.epoch /\ row.expires > now
              /\ RowAfter(r) = RowUntil(now)
              /\ Granted(r) = 0
  BY DEF RowAfter, RowUntil, Granted, Free, Owns, TypeOK, Requests

\* Executing a request never takes the row back to an older epoch, and keeps
\* the row's type and its bound on the expiry.
LEMMA RowGrows ==
    ASSUME TypeOK, Bounds, NEW r \in Requests
    PROVE  /\ RowAfter(r) \in [holder : Pods \cup {NoPod}, epoch : Nat, expires : Nat]
           /\ RowAfter(r).epoch >= row.epoch
           /\ RowAfter(r).expires <= now + TTL
           /\ Granted(r) \in Nat /\ Granted(r) <= RowAfter(r).epoch
  BY RowCases, LeaseAssumption DEF RowUntil, TypeOK, Requests, Bounds

-----------------------------------------------------------------------------
\* No lease, no request and no row: the invariant holds to begin with.
LEMMA InitInv == Init => LeaseInv
  BY LeaseAssumption DEF Init, LeaseInv, TypeOK, Bounds, Shape, Retired, Shields, Ordered,
     Shielded, GrantedCall, Fresh, After, lease, Lose, NoCall, Calls, Requests

\* Time alone breaks nothing: a shield that ends with the row's expiry is not
\* claimed past it.
LEMMA TickInv == ASSUME LeaseInv, Tick PROVE LeaseInv'
  BY LeaseAssumption DEF LeaseInv, TypeOK, Bounds, Shape, Retired, Shields, Ordered,
     Shielded, GrantedCall, Fresh, After, lease, Lose, Tick, Calls, Requests

\* A process starts without a lease (IngestService::start).
LEMMA StartInv == ASSUME LeaseInv, NEW p \in Pods, Start(p) PROVE LeaseInv'
  BY LeaseAssumption DEF LeaseInv, TypeOK, Bounds, Shape, Retired, Shields, Ordered,
     Shielded, GrantedCall, Fresh, After, lease, Lose, Start, Calls, Requests

\* WriterLease::acquire remembers when it asked.
LEMMA SendAcquireInv == ASSUME LeaseInv, NEW p \in Pods, SendAcquire(p) PROVE LeaseInv'
  BY LeaseAssumption DEF LeaseInv, TypeOK, Bounds, Shape, Retired, Shields, Ordered,
     Shielded, GrantedCall, Fresh, After, lease, Lose, Calls, Requests, SendAcquire

\* The grant of an acquire becomes a lease whose deadline, counted from the
\* send, ends before the row does.
LEMMA AcquireReplyInv == ASSUME LeaseInv, NEW p \in Pods, AcquireReply(p) PROVE LeaseInv'
  <1>1. call[p].sent \in Nat /\ call[p].granted \in Nat /\ Deadline(call[p].sent) \in Nat
    BY LeaseAssumption DEF LeaseInv, TypeOK, Calls, Deadline
  <1>a. TypeOK'
    <2>1. call' \in [Pods -> Calls]
      BY DEF LeaseInv, TypeOK, Calls, AcquireReply, NoCall
    <2>2. epoch' \in [Pods -> Nat] /\ validUntil' \in [Pods -> Nat] /\ held' \subseteq Pods
      BY <1>1 DEF LeaseInv, TypeOK, AcquireReply, lease
    <2>3. proc' \in [Pods -> {"down", "acquiring", "writing"}]
      BY DEF LeaseInv, TypeOK, AcquireReply
    <2> QED BY <2>1, <2>2, <2>3 DEF LeaseInv, TypeOK, AcquireReply
  <1>b. Bounds'
    BY LeaseAssumption DEF LeaseInv, TypeOK, Calls, Requests, Bounds, Shape,
       lease, AcquireReply, Deadline, NoCall
  <1>c. Shape'
    BY LeaseAssumption DEF LeaseInv, TypeOK, Calls, Requests, Bounds, Shape,
       lease, AcquireReply, Deadline, NoCall
  <1>d. Retired'
    BY LeaseAssumption DEF LeaseInv, TypeOK, Calls, Requests, Bounds, Shape, Retired, GrantedCall,
       lease, AcquireReply, Deadline, NoCall
  <1>e. Shields'
    BY LeaseAssumption DEF LeaseInv, TypeOK, Calls, Requests, Bounds, Shape, Shields, Shielded, GrantedCall,
       lease, AcquireReply, Deadline, NoCall
  <1>f. Ordered'
    BY LeaseAssumption DEF LeaseInv, TypeOK, Calls, Requests, Bounds, Shape, Ordered, Fresh, After, GrantedCall, Shields, Shielded,
       lease, AcquireReply, Deadline, NoCall
  <1> QED BY <1>a, <1>b, <1>c, <1>d, <1>e, <1>f DEF LeaseInv

\* An acquire given up may leave its request with the database.
LEMMA AcquireFailsInv == ASSUME LeaseInv, NEW p \in Pods, AcquireFails(p) PROVE LeaseInv'
  <1>a. TypeOK'
    <2>1. call' \in [Pods -> Calls]
      BY DEF LeaseInv, TypeOK, Calls, AcquireFails, NoCall
    <2>2. strays' \subseteq Requests
      BY DEF LeaseInv, TypeOK, Calls, Requests, AcquireFails, Abandon, Request
    <2>3. proc' \in [Pods -> {"down", "acquiring", "writing"}]
      BY DEF LeaseInv, TypeOK, AcquireFails
    <2> QED BY <2>1, <2>2, <2>3 DEF LeaseInv, TypeOK, AcquireFails, lease
  <1>b. Bounds'
    BY LeaseAssumption DEF LeaseInv, TypeOK, Calls, Requests, Bounds, Shape,
       lease, AcquireFails, Abandon, Request, NoCall
  <1>c. Shape'
    BY LeaseAssumption DEF LeaseInv, TypeOK, Calls, Requests, Bounds, Shape,
       lease, AcquireFails, Abandon, Request, NoCall
  <1>d. Retired'
    BY LeaseAssumption DEF LeaseInv, TypeOK, Calls, Requests, Bounds, Shape, Retired, GrantedCall,
       lease, AcquireFails, Abandon, Request, NoCall
  <1>e. Shields'
    BY LeaseAssumption DEF LeaseInv, TypeOK, Calls, Requests, Bounds, Shape, Shields, Shielded, GrantedCall,
       lease, AcquireFails, Abandon, Request, NoCall
  <1>f. Ordered'
    BY LeaseAssumption DEF LeaseInv, TypeOK, Calls, Requests, Bounds, Shape, Ordered, Fresh, After, GrantedCall, Shields, Shielded,
       lease, AcquireFails, Abandon, Request, NoCall
  <1> QED BY <1>a, <1>b, <1>c, <1>d, <1>e, <1>f DEF LeaseInv

\* renew_once remembers when it asked, under the epoch it holds.
LEMMA SendRenewInv == ASSUME LeaseInv, NEW p \in Pods, SendRenew(p) PROVE LeaseInv'
  BY LeaseAssumption DEF LeaseInv, TypeOK, Bounds, Shape, Retired, Shields, Ordered,
     Shielded, GrantedCall, Fresh, After, lease, Lose, Calls, Requests, SendRenew, NoCall

\* An answered renew moves the deadline no further than the row's expiry, or
\* loses the lease.
LEMMA RenewReplyInv == ASSUME LeaseInv, NEW p \in Pods, RenewReply(p) PROVE LeaseInv'
  <1>1. call[p].sent \in Nat /\ call[p].granted \in Nat /\ Deadline(call[p].sent) \in Nat
    BY LeaseAssumption DEF LeaseInv, TypeOK, Calls, Deadline
  <1>a. TypeOK'
    BY <1>1 DEF LeaseInv, TypeOK, Calls, Requests,
       lease, RenewReply, Lose, NoCall
  <1>b. Bounds'
    BY LeaseAssumption DEF LeaseInv, TypeOK, Calls, Requests, Bounds, Shape,
       lease, RenewReply, Lose, Deadline, NoCall
  <1>c. Shape'
    BY LeaseAssumption DEF LeaseInv, TypeOK, Calls, Requests, Bounds, Shape,
       lease, RenewReply, Lose, Deadline, NoCall
  <1>d. Retired'
    BY LeaseAssumption DEF LeaseInv, TypeOK, Calls, Requests, Bounds, Shape, Retired, GrantedCall,
       lease, RenewReply, Lose, Deadline, NoCall
  <1>e. Shields'
    BY LeaseAssumption DEF LeaseInv, TypeOK, Calls, Requests, Bounds, Shape, Shields, Shielded, GrantedCall,
       lease, RenewReply, Lose, Deadline, NoCall
  <1>f. Ordered'
    BY LeaseAssumption DEF LeaseInv, TypeOK, Calls, Requests, Bounds, Shape, Ordered, Fresh, After, GrantedCall, Shields, Shielded,
       lease, RenewReply, Lose, Deadline, NoCall
  <1> QED BY <1>a, <1>b, <1>c, <1>d, <1>e, <1>f DEF LeaseInv

\* A renew given up (transient) may leave its request with the database.
LEMMA RenewFailsInv == ASSUME LeaseInv, NEW p \in Pods, RenewFails(p) PROVE LeaseInv'
  <1>a. TypeOK'
    BY LeaseAssumption DEF LeaseInv, TypeOK, Calls, Requests, Bounds, Shape,
       lease, RenewFails, Lose, Abandon, Request, NoCall
  <1>b. Bounds'
    BY LeaseAssumption DEF LeaseInv, TypeOK, Calls, Requests, Bounds, Shape,
       lease, RenewFails, Lose, Abandon, Request, NoCall
  <1>c. Shape'
    BY LeaseAssumption DEF LeaseInv, TypeOK, Calls, Requests, Bounds, Shape,
       lease, RenewFails, Lose, Abandon, Request, NoCall
  <1>d. Retired'
    BY LeaseAssumption DEF LeaseInv, TypeOK, Calls, Requests, Bounds, Shape, Retired, GrantedCall,
       lease, RenewFails, Lose, Abandon, Request, NoCall
  <1>e. Shields'
    BY LeaseAssumption DEF LeaseInv, TypeOK, Calls, Requests, Bounds, Shape, Shields, Shielded, GrantedCall,
       lease, RenewFails, Lose, Abandon, Request, NoCall
  <1>f. Ordered'
    BY LeaseAssumption DEF LeaseInv, TypeOK, Calls, Requests, Bounds, Shape, Ordered, Fresh, After, GrantedCall, Shields, Shielded,
       lease, RenewFails, Lose, Abandon, Request, NoCall
  <1> QED BY <1>a, <1>b, <1>c, <1>d, <1>e, <1>f DEF LeaseInv

\* check() latches a passed deadline: the pod gives up its claim.
LEMMA CheckFailsInv == ASSUME LeaseInv, NEW p \in Pods, CheckFails(p) PROVE LeaseInv'
  BY LeaseAssumption DEF LeaseInv, TypeOK, Bounds, Shape, Retired, Shields, Ordered,
     Shielded, GrantedCall, Fresh, After, lease, Lose, Calls, Requests, CheckFails

\* An append passes the gate under the row's current epoch.
LEMMA GatePassesInv == ASSUME LeaseInv, NEW p \in Pods, GatePasses(p) PROVE LeaseInv'
  BY LeaseAssumption DEF LeaseInv, TypeOK, Bounds, Shape, Retired, Shields, Ordered,
     Shielded, GrantedCall, Fresh, After, lease, Lose, Calls, Requests, GatePasses, CheckMayPass

\* release() gives up the claim before it asks the database to expire the row.
LEMMA ReleaseInv == ASSUME LeaseInv, NEW p \in Pods, Release(p) PROVE LeaseInv'
  BY LeaseAssumption DEF LeaseInv, TypeOK, Bounds, Shape, Retired, Shields, Ordered,
     Shielded, GrantedCall, Fresh, After, lease, Lose, Calls, Requests, Release

\* A process that ends gives up its claim and may leave a request behind.
LEMMA ExitInv == ASSUME LeaseInv, NEW p \in Pods, Exit(p) PROVE LeaseInv'
  BY LeaseAssumption DEF LeaseInv, TypeOK, Bounds, Shape, Retired, Shields, Ordered,
     Shielded, GrantedCall, Fresh, After, lease, Lose, Calls, Requests, Exit, Abandon, Request, NoCall

\* The database executes a request somebody waits for: the row it protects
\* stays protected, and a grant is fresh.
LEMMA ExecuteInv == ASSUME LeaseInv, NEW p \in Pods, Execute(p) PROVE LeaseInv'
  <1>1. Request(p, call[p]) \in Requests
    BY DEF LeaseInv, TypeOK, Shape, Calls, Requests, Request, Execute
  <1>2. /\ row' = RowAfter(Request(p, call[p]))
        /\ call' = [call EXCEPT ![p] = [kind |-> call[p].kind, epoch |-> call[p].epoch, sent |-> call[p].sent,
                                        stage |-> "reply", granted |-> Granted(Request(p, call[p]))]]
        /\ UNCHANGED <<now, proc, strays, epoch, validUntil, held, lastGate>>
    BY DEF Execute, lease
  <1>3. /\ row' \in [holder : Pods \cup {NoPod}, epoch : Nat, expires : Nat]
        /\ row'.epoch >= row.epoch /\ row'.expires <= now + TTL
        /\ call'[p].granted \in Nat /\ call'[p].granted <= row'.epoch
    BY <1>1, <1>2, RowGrows DEF LeaseInv, TypeOK
  <1>a. TypeOK'
    BY <1>1, RowCases, LeaseAssumption DEF LeaseInv, TypeOK, Calls, Requests, Bounds, Shape,
       lease, Execute, RowUntil, Granted, Free, Owns, Request
  <1>b. Bounds'
    BY <1>2, <1>3 DEF LeaseInv, TypeOK, Calls, Requests, Bounds
  <1>c. Shape'
    BY <1>1, RowCases, LeaseAssumption DEF LeaseInv, TypeOK, Calls, Requests, Bounds, Shape,
       lease, Execute, RowUntil, Granted, Free, Owns, Request
  <1>d. Retired'
    BY <1>1, RowCases, LeaseAssumption DEF LeaseInv, TypeOK, Calls, Requests, Bounds, Shape, Retired, GrantedCall,
       lease, Execute, RowUntil, Granted, Free, Owns, Request
  <1>e. Shields'
    BY <1>1, RowCases, LeaseAssumption DEF LeaseInv, TypeOK, Calls, Requests, Bounds, Shape, Shields, Shielded, GrantedCall,
       lease, Execute, RowUntil, Granted, Free, Owns, Request
  <1>f. Ordered'
    BY <1>1, RowCases, LeaseAssumption DEF LeaseInv, TypeOK, Calls, Requests, Bounds, Shape, Ordered, Fresh, After, GrantedCall, Shields, Shielded,
       lease, Execute, RowUntil, Granted, Free, Owns, Request
  <1> QED BY <1>a, <1>b, <1>c, <1>d, <1>e, <1>f DEF LeaseInv

\* The database executes a request nobody waits for.
LEMMA ExecuteStrayInv == ASSUME LeaseInv, NEW r \in strays, ExecuteStray(r) PROVE LeaseInv'
  <1>1. r \in Requests
    BY DEF LeaseInv, TypeOK
  <1> QED BY <1>1, RowCases, LeaseAssumption DEF LeaseInv, TypeOK, Bounds, Shape, Retired, Shields, Ordered,
     Shielded, GrantedCall, Fresh, After, lease, Lose, Calls, Requests, ExecuteStray, RowUntil

-----------------------------------------------------------------------------
\* Every step of the system preserves the inductive invariant.
LEMMA NextInv == LeaseInv /\ [Next]_vars => LeaseInv'
  <1> SUFFICES ASSUME LeaseInv, [Next]_vars PROVE LeaseInv'
    OBVIOUS
  <1>1. CASE Tick
    BY <1>1, TickInv
  <1>2. CASE \E r \in strays : ExecuteStray(r)
    BY <1>2, ExecuteStrayInv
  <1>3. ASSUME NEW p \in Pods,
               \/ Start(p) \/ SendAcquire(p) \/ AcquireReply(p) \/ AcquireFails(p)
               \/ SendRenew(p) \/ RenewReply(p) \/ RenewFails(p)
               \/ CheckFails(p) \/ GatePasses(p) \/ Release(p) \/ Exit(p)
               \/ Execute(p)
        PROVE  LeaseInv'
    BY <1>3, StartInv, SendAcquireInv, AcquireReplyInv, AcquireFailsInv, SendRenewInv, RenewReplyInv,
       RenewFailsInv, CheckFailsInv, GatePassesInv, ReleaseInv, ExitInv, ExecuteInv
  <1>4. CASE UNCHANGED vars
    BY <1>4 DEF vars, lease, LeaseInv, TypeOK, Bounds, Shape, Retired, Shields, Ordered,
       Shielded, GrantedCall, Fresh, After
  <1> QED BY <1>1, <1>2, <1>3, <1>4 DEF Next

\* LeaseInv is an invariant: what every delayed request, deadline and history
\* entry of writer_lease.rs can be relied on for.
THEOREM LeaseInvariant == Spec => []LeaseInv
  BY InitInv, NextInv, PTL DEF Spec

\* Type correctness of the lease model.
THEOREM TypeCorrect == Spec => []TypeOK
  <1>1. LeaseInv => TypeOK
    BY DEF LeaseInv
  <1> QED BY <1>1, LeaseInvariant, PTL

\* A pod whose check() can answer Ok is the row's holder and the row has not
\* expired, for every TTL, margin and clock drift up to the margin.
LEMMA ShieldedGate ==
    ASSUME LeaseInv, NEW p \in Pods, CheckMayPass(p)
    PROVE  row.holder = p /\ row.expires > now
  BY LeaseAssumption DEF LeaseInv, TypeOK, Shields, Shielded, CheckMayPass

\* Whenever a gate can open, the database row still protects that pod: no
\* other pod can acquire before the deadline passes (writer_lease.rs).
THEOREM GateProtected == Spec => []OpenGateIsProtected
  <1>1. LeaseInv => OpenGateIsProtected
    BY ShieldedGate DEF OpenGateIsProtected
  <1> QED BY <1>1, LeaseInvariant, PTL

\* Mutual exclusion of the append gate of WriterLease::check, for any number
\* of pods, crashes, retries and delayed lease calls.
THEOREM MutualExclusion == Spec => []OneCommitter
  <1>1. LeaseInv => OneCommitter
    BY ShieldedGate DEF OneCommitter
  <1> QED BY <1>1, LeaseInvariant, PTL

\* The appends the gate lets through are ordered by lease epoch.
THEOREM EpochsOrdered == Spec => GateEpochsOrdered
  <1>1. LeaseInv /\ [Next]_vars =>
          [lastGate' # lastGate =>
              /\ lastGate'.epoch >= lastGate.epoch
              /\ lastGate.pod # NoPod /\ lastGate'.pod # lastGate.pod
                    => lastGate'.epoch > lastGate.epoch]_vars
    <2> SUFFICES ASSUME LeaseInv, Next, lastGate' # lastGate
                 PROVE  /\ lastGate'.epoch >= lastGate.epoch
                        /\ lastGate'.pod # lastGate.pod => lastGate'.epoch > lastGate.epoch
      OBVIOUS
    <2>1. PICK p \in Pods : GatePasses(p)
      BY DEF Next, Tick, ExecuteStray, Start, SendAcquire, AcquireReply, AcquireFails, SendRenew,
         RenewReply, RenewFails, CheckFails, Release, Exit, Execute
    <2>2. Fresh(p)
      BY <2>1, LeaseAssumption DEF LeaseInv, TypeOK, GatePasses, CheckMayPass, Fresh
    <2> QED BY <2>1, <2>2 DEF LeaseInv, TypeOK, Ordered, After, GatePasses
  <1> QED BY <1>1, LeaseInvariant, PTL DEF Spec, GateEpochsOrdered

=============================================================================
