------------------------ MODULE DetectionLanesProofs ------------------------
(***************************************************************************)
(* Proofs about the claims of detection rules.  While every batch a lane   *)
(* claims fits its slots, a claimed rule is started before time passes,    *)
(* so the age of the claim is at most the time the execution has run,      *)
(* which the execution timeout keeps below the stale timeout: nobody else  *)
(* finds the rule free.                                                    *)
(***************************************************************************)
EXTENDS DetectionLanes, FiniteSetTheorems, FunctionTheorems, TLAPS

\* No claimed item waits for a slot.  Defaults: 5 of 10 in the cron lane; the
\* repair lane claims 5 for 2 slots, so there it is a condition on the settings.
BatchesFit == RuleBatch <= RuleConcurrent /\ LateBatch <= LateConcurrent

Items == [lane : {"cron", "late"}, rule : Rules, job : Jobs \cup {NoJob},
          attempt : Nat, elapsed : Queued..RunMax]
Statuses == {"none", "pending", "running", "backoff", "completed", "dead_letter"}
JobRows == [status : Statuses, by : Nodes \cup {"none"}, age : 0..(Stale + 1), attempts : Nat]
Modes == {"on", "paused", "archived"}

\* TypeOK in full, with what it leaves to the eye.
Typed ==
    /\ up \in [Nodes -> {"up", "stopping", "down"}]
    /\ work \in [Nodes -> SUBSET Items]
    /\ going \in [Nodes -> BOOLEAN]
    /\ claim \in [Rules -> Holders]
    /\ mode \in [Rules -> Modes]
    /\ nextRun \in [Rules -> {"null", "future", "due"}]
    /\ job \in [Jobs -> JobRows]
    /\ syncs \subseteq [rule : Rules, mode : Modes]
    /\ \A n \in Nodes : up[n] = "down" => work[n] = {}
    /\ \A j \in Jobs : job[j].status = "running" <=> job[j].by \in Nodes

\* Every batch is finite and within its limit.
BatchesBounded ==
    \A n \in Nodes : /\ IsFiniteSet(work[n])
                     /\ Cardinality(Lane(n, "cron")) <= RuleBatch
                     /\ Cardinality(Lane(n, "late")) <= LateBatch

\* Item i of node n is executed, or will be.
Alive(n, i) == i \in work[n] /\ (Executing(i) \/ up[n] = "up")

\* Such an item holds the claim of its rule, taken no longer ago than the
\* execution has run, and the rule is not archived.
Claims ==
    \A n \in Nodes : \A i \in work[n] : Alive(n, i) =>
        /\ claim[i.rule].by = n
        /\ claim[i.rule].age <= (IF Executing(i) THEN i.elapsed ELSE 0)
        /\ mode[i.rule] # "archived"

\* There is one such item of each rule.
OnePerRule ==
    \A n, m \in Nodes : \A i \in work[n], k \in work[m] :
        Alive(n, i) /\ Alive(m, k) /\ i.rule = k.rule => n = m /\ i = k

LanesInv == Typed /\ BatchesBounded /\ Claims /\ OnePerRule
-----------------------------------------------------------------------------
(* Facts about the constants, cardinalities and the parts of an action.    *)

\* The bounds are numbers, and an execution is over before its claim is stale.
LEMMA Consts ==
    /\ RuleBatch \in Nat /\ LateBatch \in Nat /\ RuleConcurrent \in Nat /\ LateConcurrent \in Nat
    /\ RunMax \in Nat /\ Stale \in Nat /\ MaxFaults \in Nat /\ RunMax < Stale
    /\ IsFiniteSet(Rules) /\ "none" \notin Nodes
  BY LanesAssumption

\* A set of images is no larger than the set.
LEMMA ImageCard ==
    ASSUME NEW S, NEW T, NEW f \in [S -> T], IsFiniteSet(S), \A t \in T : \E x \in S : f[x] = t
    PROVE  IsFiniteSet(T) /\ Cardinality(T) \in Nat /\ Cardinality(T) <= Cardinality(S)
  <1>1. f \in Surjection(S, T)
    BY Fun_IsSurj
  <1> QED BY <1>1, FS_Surjection, FS_CardinalityType

\* A subset is no larger than the set.
LEMMA SubsetCard ==
    ASSUME NEW S, NEW T, IsFiniteSet(S), T \subseteq S
    PROVE  IsFiniteSet(T) /\ Cardinality(T) \in Nat /\ Cardinality(T) <= Cardinality(S)
  BY FS_Subset, FS_CardinalityType

\* The outcome of a repair is one of the job's states, and no longer running.
LEMMA SettleTyped ==
    ASSUME Typed, NEW n \in Nodes, NEW i, NEW status \in Statuses \ {"running"}, NEW attempts \in Nat,
           Settle(n, i, status, attempts)
    PROVE  Typed'
  <1>1. i \in Items /\ i.rule \in Rules
    BY DEF Typed, Settle, Lane, Items
  <1>2. claim' \in [Rules -> Holders]
    BY <1>1 DEF Typed, Settle, Released, Holders
  <1>3. /\ job' \in [Jobs -> JobRows]
        /\ \A j \in Jobs : job'[j].status = "running" <=> job'[j].by \in Nodes
    BY <1>1, Consts DEF Typed, Settle, JobRows, Statuses, Owned
  <1>4. work' \in [Nodes -> SUBSET Items] /\ \A m \in Nodes : work[m] = {} => work'[m] = {}
    BY DEF Typed, Settle, Drop
  <1>5. going' \in [Nodes -> BOOLEAN]
    BY DEF Typed, Settle, Drop
  <1> QED BY <1>2, <1>3, <1>4, <1>5 DEF Typed, Settle

\* Every step keeps the types.
LEMMA TypedNext == Typed /\ [Next]_vars => Typed'
  <1> SUFFICES ASSUME Typed, [Next]_vars PROVE Typed'
    OBVIOUS
  <1>1. ASSUME NEW n \in Nodes, ClaimDue(n) PROVE Typed'
    BY <1>1, Consts DEF Typed, ClaimDue, Item, Items, Jobs, NoJob, Queued, Holders, kSubset
  <1>2. ASSUME NEW n \in Nodes, NEW j \in Jobs, ClaimLate(n, j) PROVE Typed'
    BY <1>2, Consts DEF Typed, ClaimLate, Item, Items, Jobs, RuleOf, Queued, Holders, JobRows, Statuses
  <1>3. ASSUME NEW n \in Nodes, LateGo(n) PROVE Typed'
    BY <1>3 DEF Typed, LateGo, rule
  <1>4. ASSUME NEW n \in Nodes, NEW i \in work[n], Start(n, i) PROVE Typed'
    BY <1>4, Consts DEF Typed, Start, Startable, Items, Queued, rule
  <1>5. ASSUME NEW n \in Nodes, NEW i \in work[n], NEW j \in Jobs, Enqueue(n, i, j) PROVE Typed'
    BY <1>5 DEF Typed, Enqueue, node, rule, JobRows, Statuses
  <1>6. ASSUME NEW n \in Nodes, NEW i \in work[n], FinishCron(n, i) PROVE Typed'
    BY <1>6 DEF Typed, FinishCron, Drop, Lane, Items, Released, Holders
  <1>7. ASSUME NEW n \in Nodes, NEW i \in work[n], Panic(n, i) PROVE Typed'
    BY <1>7 DEF Typed, Panic, Drop, rule
  <1>8. ASSUME NEW n \in Nodes, NEW i \in work[n],
               FinishLate(n, i) \/ Progress(n, i) \/ FailLate(n, i) \/ Abort(n, i)
        PROVE  Typed'
    <2>1. i.attempt \in Nat /\ 0 \in Nat
      BY DEF Typed, Items
    <2>2. {"completed", "backoff", "dead_letter"} \subseteq Statuses \ {"running"}
      BY DEF Statuses
    <2>3. CASE \E status \in Statuses \ {"running"}, attempts \in Nat : Settle(n, i, status, attempts)
      BY <2>3, SettleTyped
    <2>4. CASE Drop(n, i) /\ UNCHANGED <<up, rule, job, syncs, faults>>
      BY <2>4 DEF Typed, Drop, rule
    <2> QED BY <1>8, <2>1, <2>2, <2>3, <2>4 DEF FinishLate, Progress, FailLate, Abort
  <1>9. ASSUME NEW j \in Jobs, BackoffOver(j) PROVE Typed'
    BY <1>9 DEF Typed, BackoffOver, node, rule, JobRows, Statuses
  <1>10. ASSUME NEW n \in Nodes, Crash(n) PROVE Typed'
    BY <1>10 DEF Typed, Crash, rule
  <1>11. ASSUME NEW n \in Nodes, Shutdown(n) PROVE Typed'
    BY <1>11 DEF Typed, Shutdown, rule
  <1>12. ASSUME NEW n \in Nodes, ReleaseAll(n) PROVE Typed'
    BY <1>12, Consts DEF Typed, ReleaseAll, Holders, JobRows, Statuses
  <1>13. ASSUME NEW n \in Nodes, Restart(n) PROVE Typed'
    BY <1>13 DEF Typed, Restart
  <1>14. CASE Tick
    <2>1. claim' \in [Rules -> Holders]
      BY <1>14, Consts DEF Typed, Tick, Older, Expired, Holders
    <2>2. \A x \in JobRows : Older(x) \in JobRows /\ Older(x).status = x.status /\ Older(x).by = x.by
      BY Consts DEF Older, Expired, JobRows
    <2>3. /\ job' \in [Jobs -> JobRows]
          /\ \A j \in Jobs : job'[j].status = job[j].status /\ job'[j].by = job[j].by
      BY <1>14, <2>2 DEF Typed, Tick
    <2>4. \A i \in Items : Executing(i) /\ i.elapsed < RunMax => [i EXCEPT !.elapsed = @ + 1] \in Items
      BY Consts DEF Items, Executing, Queued
    <2>5. work' \in [Nodes -> SUBSET Items] /\ \A n \in Nodes : work[n] = {} => work'[n] = {}
      BY <1>14, <2>4 DEF Typed, Tick
    <2> QED BY <1>14, <2>1, <2>3, <2>5 DEF Typed, Tick
  <1>15. ASSUME NEW r \in Rules, RuleDue(r) PROVE Typed'
    BY <1>15 DEF Typed, RuleDue, node
  <1>16. ASSUME NEW r \in Rules, NEW m \in {"on", "paused"}, SetMode(r, m) PROVE Typed'
    BY <1>16 DEF Typed, SetMode, node, Modes
  <1>17. ASSUME NEW s \in syncs, SyncNextRun(s) PROVE Typed'
    BY <1>17 DEF Typed, SyncNextRun, node
  <1>18. ASSUME NEW r \in Rules, SetDataset(r) PROVE Typed'
    BY <1>18 DEF Typed, SetDataset, node
  <1>19. ASSUME NEW r \in Rules, Quiesce(r) \/ Archive(r) PROVE Typed'
    BY <1>19 DEF Typed, Quiesce, Archive, node, Modes
  <1>20. CASE UNCHANGED vars
    BY <1>20 DEF vars, node, rule, Typed
  <1> QED BY <1>1, <1>2, <1>3, <1>4, <1>5, <1>6, <1>7, <1>8, <1>9, <1>10, <1>11, <1>12, <1>13, <1>14,
             <1>15, <1>16, <1>17, <1>18, <1>19, <1>20 DEF Next, Finish

-----------------------------------------------------------------------------
(* Batches stay within their limits.                                       *)

\* Giving up items keeps the limits.
LEMMA FewerItems ==
    ASSUME Typed, BatchesBounded, \A n \in Nodes : work'[n] \subseteq work[n]
    PROVE  BatchesBounded'
  <1> SUFFICES ASSUME NEW n \in Nodes
               PROVE  /\ IsFiniteSet(work'[n])
                      /\ Cardinality(Lane(n, "cron")') <= RuleBatch
                      /\ Cardinality(Lane(n, "late")') <= LateBatch
    BY DEF BatchesBounded
  <1>1. /\ IsFiniteSet(work[n]) /\ work'[n] \subseteq work[n]
        /\ \A lane : Lane(n, lane) \subseteq work[n] /\ Lane(n, lane)' \subseteq Lane(n, lane)
    BY DEF BatchesBounded, Lane
  <1>2. \A lane : IsFiniteSet(Lane(n, lane)) /\ Cardinality(Lane(n, lane)) \in Nat
    BY <1>1, SubsetCard
  <1>3. /\ IsFiniteSet(work'[n])
        /\ \A lane : /\ Cardinality(Lane(n, lane)') \in Nat
                     /\ Cardinality(Lane(n, lane)') <= Cardinality(Lane(n, lane))
    BY <1>1, <1>2, SubsetCard
  <1> QED BY <1>2, <1>3, Consts DEF BatchesBounded

\* So does changing the items one by one, within their lane.
LEMMA ChangedItems ==
    ASSUME Typed, BatchesBounded,
           \A n \in Nodes : \E f \in [work[n] -> work'[n]] :
               /\ \A k \in work'[n] : \E i \in work[n] : f[i] = k
               /\ \A i \in work[n] : f[i].lane = i.lane
    PROVE  BatchesBounded'
  <1> SUFFICES ASSUME NEW n \in Nodes
               PROVE  /\ IsFiniteSet(work'[n])
                      /\ Cardinality(Lane(n, "cron")') <= RuleBatch
                      /\ Cardinality(Lane(n, "late")') <= LateBatch
    BY DEF BatchesBounded
  <1>0. PICK f \in [work[n] -> work'[n]] : /\ \A k \in work'[n] : \E i \in work[n] : f[i] = k
                                          /\ \A i \in work[n] : f[i].lane = i.lane
    OBVIOUS
  <1>1. IsFiniteSet(work[n]) /\ IsFiniteSet(work'[n])
    BY <1>0, ImageCard DEF BatchesBounded
  <1>2. ASSUME NEW lane
        PROVE  /\ Cardinality(Lane(n, lane)) \in Nat /\ Cardinality(Lane(n, lane)') \in Nat
               /\ Cardinality(Lane(n, lane)') <= Cardinality(Lane(n, lane))
    <2> DEFINE S == Lane(n, lane)
               T == Lane(n, lane)'
               g == [i \in S |-> f[i]]
    <2>1. IsFiniteSet(S) /\ Cardinality(S) \in Nat
      BY <1>1, SubsetCard DEF Lane
    <2>2. g \in [S -> T] /\ \A t \in T : \E i \in S : g[i] = t
      <3>1. \A i \in S : f[i] \in T
        BY <1>0 DEF Lane
      <3>2. \A t \in T : \E i \in S : f[i] = t
        BY <1>0 DEF Lane
      <3> HIDE DEF S, T
      <3> QED BY <3>1, <3>2
    <2> HIDE DEF S, T, g
    <2>3. Cardinality(T) \in Nat /\ Cardinality(T) <= Cardinality(S)
      BY <2>1, <2>2, ImageCard
    <2> QED BY <2>1, <2>3 DEF S, T
  <1> QED BY <1>1, <1>2, Consts DEF BatchesBounded

\* A batch of the cron lane is at most batch_size rules, one of the repair
\* lane is filled one by one up to its limit.
LEMMA BoundedNext == Typed /\ BatchesBounded /\ [Next]_vars => BatchesBounded'
  <1> SUFFICES ASSUME Typed, BatchesBounded, [Next]_vars PROVE BatchesBounded'
    OBVIOUS
  <1>1. ASSUME NEW n \in Nodes, ClaimDue(n) PROVE BatchesBounded'
    <2> DEFINE due == {r \in Rules : Claimable(r)}
               size == IF RuleBatch < Cardinality(due) THEN RuleBatch ELSE Cardinality(due)
    <2>1. PICK batch \in kSubset(size, due) :
                 work' = [work EXCEPT ![n] = @ \cup {Item("cron", r, NoJob, 0) : r \in batch}]
      BY <1>1 DEF ClaimDue
    <2>2. Lane(n, "cron") = {}
      BY <1>1 DEF ClaimDue
    <2>3. IsFiniteSet(due) /\ Cardinality(due) \in Nat
      BY Consts, SubsetCard
    <2>4. IsFiniteSet(batch) /\ Cardinality(batch) \in Nat /\ Cardinality(batch) <= RuleBatch
      <3>1. batch \subseteq due /\ Cardinality(batch) = size
        BY DEF kSubset
      <3> QED BY <2>3, <3>1, SubsetCard, Consts
    <2> DEFINE new == {Item("cron", r, NoJob, 0) : r \in batch}
               f == [r \in batch |-> Item("cron", r, NoJob, 0)]
    <2>5. f \in [batch -> new] /\ \A x \in new : \E r \in batch : f[r] = x
      OBVIOUS
    <2>6. \A x \in new : x.lane = "cron"
      BY DEF Item
    <2>7. work'[n] = work[n] \cup new /\ \A m \in Nodes \ {n} : work'[m] = work[m]
      BY <2>1 DEF Typed
    <2> HIDE DEF due, size, new, f
    <2>8. IsFiniteSet(new) /\ Cardinality(new) \in Nat /\ Cardinality(new) <= RuleBatch
      BY <2>4, <2>5, ImageCard, Consts
    <2>9. IsFiniteSet(work'[n])
      BY <2>7, <2>8, FS_Union DEF BatchesBounded
    <2>10. Lane(n, "cron")' = new /\ Lane(n, "late")' = Lane(n, "late")
      BY <2>2, <2>6, <2>7 DEF Lane
    <2>11. \A m \in Nodes \ {n} : \A lane : Lane(m, lane)' = Lane(m, lane)
      BY <2>7 DEF Lane
    <2> QED BY <2>7, <2>8, <2>9, <2>10, <2>11 DEF BatchesBounded
  <1>2. ASSUME NEW n \in Nodes, NEW j \in Jobs, ClaimLate(n, j) PROVE BatchesBounded'
    <2> DEFINE new == Item("late", RuleOf(j), j, job[j].attempts + 1)
    <2>1. work'[n] = work[n] \cup {new} /\ \A m \in Nodes \ {n} : work'[m] = work[m]
      BY <1>2 DEF Typed, ClaimLate
    <2>2. new.lane = "late"
      BY DEF Item
    <2> HIDE DEF new
    <2>3. Lane(n, "late")' = Lane(n, "late") \cup {new} /\ Lane(n, "cron")' = Lane(n, "cron")
      BY <2>1, <2>2 DEF Lane
    <2>4. IsFiniteSet(work'[n])
      BY <2>1, FS_AddElement DEF BatchesBounded
    <2>5. IsFiniteSet(Lane(n, "late")) /\ Cardinality(Lane(n, "late")) \in Nat
      BY SubsetCard DEF BatchesBounded, Lane
    <2>6. Cardinality(Lane(n, "late") \cup {new}) <= LateBatch
      <3>1. Cardinality(Lane(n, "late")) < LateBatch
        BY <1>2 DEF ClaimLate
      <3>2. Cardinality(Lane(n, "late") \cup {new}) \in {Cardinality(Lane(n, "late")), Cardinality(Lane(n, "late")) + 1}
        BY <2>5, FS_AddElement
      <3> QED BY <2>5, <3>1, <3>2, Consts
    <2>7. \A m \in Nodes \ {n} : \A lane : Lane(m, lane)' = Lane(m, lane)
      BY <2>1 DEF Lane
    <2> QED BY <2>1, <2>3, <2>4, <2>6, <2>7 DEF BatchesBounded
  <1>3. ASSUME NEW n \in Nodes, NEW i \in work[n], Start(n, i) PROVE BatchesBounded'
    <2> DEFINE new == [i EXCEPT !.elapsed = 0]
               f == [m \in Nodes |-> [k \in work[m] |-> IF m = n /\ k = i THEN new ELSE k]]
    <2>1. work'[n] = (work[n] \ {i}) \cup {new} /\ \A m \in Nodes \ {n} : work'[m] = work[m]
      BY <1>3 DEF Typed, Start
    <2>2. new.lane = i.lane
      BY DEF Typed, Items
    <2> HIDE DEF new
    <2>3. \A m \in Nodes : /\ f[m] \in [work[m] -> work'[m]]
                           /\ \A k \in work'[m] : \E x \in work[m] : f[m][x] = k
                           /\ \A k \in work[m] : f[m][k].lane = k.lane
      BY <2>1, <2>2
    <2> HIDE DEF f
    <2>4. \A m \in Nodes : \E h \in [work[m] -> work'[m]] :
               /\ \A k \in work'[m] : \E x \in work[m] : h[x] = k
               /\ \A k \in work[m] : h[k].lane = k.lane
      BY <2>3
    <2> QED BY <2>4, ChangedItems
  <1>4. CASE Tick
    <2> DEFINE g(k) == IF Executing(k) THEN [k EXCEPT !.elapsed = @ + 1] ELSE k
               f == [m \in Nodes |-> [k \in work[m] |-> g(k)]]
    <2>1. \A m \in Nodes : work'[m] = {g(k) : k \in work[m]}
      BY <1>4 DEF Tick
    <2>2. \A m \in Nodes : \A k \in work[m] : g(k).lane = k.lane
      BY DEF Typed, Items
    <2> HIDE DEF g
    <2>3. \A m \in Nodes : /\ f[m] \in [work[m] -> work'[m]]
                           /\ \A k \in work'[m] : \E x \in work[m] : f[m][x] = k
                           /\ \A k \in work[m] : f[m][k].lane = k.lane
      BY <2>1, <2>2
    <2> HIDE DEF f
    <2>4. \A m \in Nodes : \E h \in [work[m] -> work'[m]] :
               /\ \A k \in work'[m] : \E x \in work[m] : h[x] = k
               /\ \A k \in work[m] : h[k].lane = k.lane
      BY <2>3
    <2> QED BY <2>4, ChangedItems
  <1>5. ASSUME NEW n \in Nodes, NEW i \in work[n],
               FinishCron(n, i) \/ FinishLate(n, i) \/ Panic(n, i) \/ Progress(n, i) \/ FailLate(n, i) \/ Abort(n, i)
        PROVE  BatchesBounded'
    <2>1. Drop(n, i)
      BY <1>5 DEF FinishCron, FinishLate, Panic, Progress, FailLate, Abort, Settle
    <2> QED BY <2>1, FewerItems DEF Typed, Drop
  <1>6. ASSUME NEW n \in Nodes, Crash(n) PROVE BatchesBounded'
    BY <1>6, FewerItems DEF Typed, Crash
  <1>7. CASE UNCHANGED work
    BY <1>7, FewerItems
  <1> QED BY <1>1, <1>2, <1>3, <1>4, <1>5, <1>6, <1>7
         DEF Next, Finish, LateGo, Shutdown, ReleaseAll, Restart, Enqueue, BackoffOver, SyncNextRun, RuleDue,
             SetDataset, Quiesce, Archive, SetMode, node, vars

-----------------------------------------------------------------------------
(* The claim of a rule under execution is not up for grabs.                *)

Held == Claims /\ OnePerRule

\* The rule of an item that is executed, or will be, is not free.
LEMMA AliveNotFree ==
    ASSUME LanesInv, NEW n \in Nodes, NEW i \in work[n], Alive(n, i)
    PROVE  ~Free(i.rule) /\ claim[i.rule] # None
  <1>1. i \in Items
    BY DEF LanesInv, Typed
  <1>2. claim[i.rule].by = n /\ claim[i.rule].age <= RunMax /\ claim[i.rule] \in Holders
    BY <1>1, Consts DEF LanesInv, Typed, Claims, Items, Executing, Queued, Holders, None
  <1>3. claim[i.rule] # None
    BY <1>2, Consts DEF None
  <1>4. claim[i.rule].age \in Nat
    BY <1>2, <1>3, Consts DEF Holders
  <1> QED BY <1>2, <1>3, <1>4, Consts DEF Free, Expired

\* A step that starts nothing and touches no claim in use keeps them.
LEMMA StillHeld ==
    ASSUME LanesInv,
           \A n \in Nodes : \A i \in work'[n] : Alive(n, i)' =>
               /\ i \in work[n] /\ Alive(n, i)
               /\ claim'[i.rule] = claim[i.rule] /\ mode'[i.rule] # "archived"
    PROVE  Held'
  BY DEF LanesInv, Held, Claims, OnePerRule

\* The end of one execution frees its own rule and no other that is executed.
LEMMA DropHeld ==
    ASSUME LanesInv, NEW n \in Nodes, NEW i \in work[n], Drop(n, i), UNCHANGED <<up, mode>>,
           claim' = claim \/ (Executing(i) /\ claim' = Released(n, i.rule))
    PROVE  Held'
  <1>1. /\ \A m \in Nodes : work'[m] \subseteq work[m]
        /\ i \notin work'[n]
    BY DEF LanesInv, Typed, Drop
  <1>2. ASSUME NEW m \in Nodes, NEW k \in work'[m], Alive(m, k)'
        PROVE  k \in work[m] /\ Alive(m, k) /\ claim'[k.rule] = claim[k.rule] /\ mode'[k.rule] # "archived"
    <2>1. k \in work[m] /\ Alive(m, k)
      BY <1>1, <1>2 DEF Alive
    <2>2. k.rule \in Rules /\ i.rule \in Rules
      BY <2>1 DEF LanesInv, Typed, Items
    <2>3. Executing(i) => k.rule # i.rule
      BY <1>1, <2>1 DEF LanesInv, OnePerRule, Alive
    <2>4. claim'[k.rule] = claim[k.rule]
      BY <2>2, <2>3 DEF LanesInv, Typed, Released
    <2> QED BY <2>1, <2>4 DEF LanesInv, Claims
  <1> QED BY <1>2, StillHeld

\* Time passes only when every claimed item that will be executed is.
LEMMA NothingQueued ==
    ASSUME BatchesFit, Typed, BatchesBounded, Tick, NEW n \in Nodes, NEW i \in work[n], Alive(n, i)
    PROVE  Executing(i) /\ i.elapsed < RunMax
  <1>1. Executing(i) => i.elapsed < RunMax
    BY DEF Tick
  <1>2. ASSUME ~Executing(i) PROVE FALSE
    <2> DEFINE L == Lane(n, i.lane)
               X == {k \in L : Executing(k)}
    <2>1. up[n] = "up" /\ ~Startable(n, i) /\ (i.lane = "late" => going[n])
      BY <1>2 DEF Alive, Tick
    <2>2. ~(Cardinality(X) < Slots(i.lane))
      BY <1>2, <2>1 DEF Startable
    <2>3. i.lane \in {"cron", "late"}
      BY DEF Typed, Items
    <2>4. i \in L /\ IsFiniteSet(L) /\ Cardinality(L) \in Nat
      BY SubsetCard DEF BatchesBounded, Lane
    <2>5. Cardinality(L) <= Slots(i.lane)
      BY <2>3, <2>4, Consts DEF BatchesBounded, BatchesFit, Slots
    <2>6. X \subseteq L \ {i}
      BY <1>2
    <2> HIDE DEF L, X
    <2>7. IsFiniteSet(L \ {i}) /\ Cardinality(L \ {i}) = Cardinality(L) - 1
      BY <2>4, FS_RemoveElement
    <2>8. Cardinality(X) \in Nat /\ Cardinality(X) <= Cardinality(L \ {i})
      BY <2>6, <2>7, SubsetCard
    <2>9. Slots(i.lane) \in Nat
      BY Consts DEF Slots
    <2> QED BY <2>2, <2>4, <2>5, <2>7, <2>8, <2>9
  <1> QED BY <1>1, <1>2

\* Every step keeps the claims of what is executed.
LEMMA HeldNext == ASSUME BatchesFit, LanesInv, [Next]_vars, Typed' PROVE Held'
  <1>1. ASSUME NEW n \in Nodes, ClaimDue(n) PROVE Held'
    <2> DEFINE due == {r \in Rules : Claimable(r)}
               size == IF RuleBatch < Cardinality(due) THEN RuleBatch ELSE Cardinality(due)
               new(r) == Item("cron", r, NoJob, 0)
    <2>1. PICK batch \in kSubset(size, due) :
                 /\ claim' = [r \in Rules |-> IF r \in batch THEN [by |-> n, age |-> 0] ELSE claim[r]]
                 /\ work' = [work EXCEPT ![n] = @ \cup {new(r) : r \in batch}]
      BY <1>1 DEF ClaimDue
    <2>2. batch \subseteq due /\ UNCHANGED <<up, mode>> /\ up[n] = "up"
      BY <1>1 DEF kSubset, ClaimDue
    <2>3. \A r \in batch : r \in Rules /\ Free(r) /\ mode[r] = "on"
      BY <2>2 DEF Claimable, Active
    <2>4. \A r \in batch : new(r).rule = r /\ ~Executing(new(r))
      BY DEF Item, Executing, Queued
    <2>5. ASSUME NEW m \in Nodes, NEW k \in work'[m], Alive(m, k)'
          PROVE  \/ m = n /\ \E r \in batch : k = new(r)
                 \/ k \in work[m] /\ Alive(m, k) /\ k.rule \in Rules \ batch
      <3>1. k \in work[m] \/ (m = n /\ \E r \in batch : k = new(r))
        BY <2>1 DEF LanesInv, Typed
      <3>2. CASE k \in work[m]
        <4>1. Alive(m, k) /\ k.rule \in Rules
          BY <2>2, <2>5, <3>2 DEF Alive, LanesInv, Typed, Items
        <4> QED BY <3>2, <4>1, <2>3, AliveNotFree
      <3> QED BY <3>1, <3>2
    <2> HIDE DEF due, size, new
    <2>6. Claims'
      <3> SUFFICES ASSUME NEW m \in Nodes, NEW k \in work'[m], Alive(m, k)'
                   PROVE  /\ claim'[k.rule].by = m
                          /\ claim'[k.rule].age <= (IF Executing(k) THEN k.elapsed ELSE 0)
                          /\ mode'[k.rule] # "archived"
        BY DEF Claims, Executing
      <3>1. CASE m = n /\ \E r \in batch : k = new(r)
        BY <3>1, <2>1, <2>2, <2>3, <2>4
      <3>2. CASE k \in work[m] /\ Alive(m, k) /\ k.rule \in Rules \ batch
        BY <3>2, <2>1, <2>2 DEF LanesInv, Claims
      <3> QED BY <2>5, <3>1, <3>2
    <2>7. OnePerRule'
      <3> SUFFICES ASSUME NEW m \in Nodes, NEW k \in work'[m], Alive(m, k)',
                          NEW l \in Nodes, NEW x \in work'[l], Alive(l, x)', k.rule = x.rule
                   PROVE  m = l /\ k = x
        BY DEF OnePerRule
      <3>1. CASE (m = n /\ \E r \in batch : k = new(r)) \/ (l = n /\ \E r \in batch : x = new(r))
        BY <3>1, <2>4, <2>5
      <3>2. CASE (k \in work[m] /\ Alive(m, k)) /\ (x \in work[l] /\ Alive(l, x))
        BY <3>2 DEF LanesInv, OnePerRule
      <3> QED BY <2>5, <3>1, <3>2
    <2> QED BY <2>6, <2>7 DEF Held
  <1>2. ASSUME NEW n \in Nodes, NEW j \in Jobs, ClaimLate(n, j) PROVE Held'
    <2> DEFINE r == RuleOf(j)
               new == Item("late", RuleOf(j), j, job[j].attempts + 1)
    <2>1. /\ claim' = [claim EXCEPT ![r] = [by |-> n, age |-> 0]]
          /\ work' = [work EXCEPT ![n] = @ \cup {new}]
          /\ UNCHANGED <<up, mode>> /\ up[n] = "up"
          /\ Free(r) /\ mode[r] = "on" /\ r \in Rules
      BY <1>2 DEF ClaimLate, Repairable, Active, RuleOf, Jobs
    <2>2. new.rule = r /\ ~Executing(new)
      BY DEF Item, Executing, Queued
    <2> HIDE DEF r, new
    <2>3. ASSUME NEW m \in Nodes, NEW k \in work'[m], Alive(m, k)'
          PROVE  \/ m = n /\ k = new
                 \/ k \in work[m] /\ Alive(m, k) /\ k.rule \in Rules \ {r}
      <3>1. k \in work[m] \/ (m = n /\ k = new)
        BY <2>1 DEF LanesInv, Typed
      <3>2. CASE k \in work[m]
        <4>1. Alive(m, k) /\ k.rule \in Rules
          BY <2>1, <2>3, <3>2 DEF Alive, LanesInv, Typed, Items
        <4> QED BY <3>2, <4>1, <2>1, AliveNotFree
      <3> QED BY <3>1, <3>2
    <2>4. Claims'
      <3> SUFFICES ASSUME NEW m \in Nodes, NEW k \in work'[m], Alive(m, k)'
                   PROVE  /\ claim'[k.rule].by = m
                          /\ claim'[k.rule].age <= (IF Executing(k) THEN k.elapsed ELSE 0)
                          /\ mode'[k.rule] # "archived"
        BY DEF Claims, Executing
      <3>1. CASE m = n /\ k = new
        BY <3>1, <2>1, <2>2 DEF LanesInv, Typed
      <3>2. CASE k \in work[m] /\ Alive(m, k) /\ k.rule \in Rules \ {r}
        BY <3>2, <2>1 DEF LanesInv, Typed, Claims
      <3> QED BY <2>3, <3>1, <3>2
    <2>5. OnePerRule'
      BY <2>2, <2>3 DEF LanesInv, OnePerRule
    <2> QED BY <2>4, <2>5 DEF Held
  <1>3. ASSUME NEW n \in Nodes, NEW i \in work[n], Start(n, i) PROVE Held'
    <2> DEFINE new == [i EXCEPT !.elapsed = 0]
    <2>1. /\ work' = [work EXCEPT ![n] = (@ \ {i}) \cup {new}]
          /\ UNCHANGED <<up, claim, mode>> /\ up[n] = "up" /\ ~Executing(i)
      BY <1>3 DEF Start, Startable, rule
    <2>2. new.rule = i.rule /\ new.elapsed = 0 /\ Executing(new)
      BY DEF LanesInv, Typed, Items, Executing, Queued
    <2>3. Alive(n, i)
      BY <2>1 DEF Alive
    <2> HIDE DEF new
    <2>4. ASSUME NEW m \in Nodes, NEW k \in work'[m], Alive(m, k)'
          PROVE  (m = n /\ k = new) \/ (k \in work[m] /\ Alive(m, k) /\ (m = n => k # i))
      BY <2>1, <2>4 DEF LanesInv, Typed, Alive
    <2>5. Claims'
      <3> SUFFICES ASSUME NEW m \in Nodes, NEW k \in work'[m], Alive(m, k)'
                   PROVE  /\ claim'[k.rule].by = m
                          /\ claim'[k.rule].age <= (IF Executing(k) THEN k.elapsed ELSE 0)
                          /\ mode'[k.rule] # "archived"
        BY DEF Claims, Executing
      <3> QED BY <2>1, <2>2, <2>3, <2>4 DEF LanesInv, Claims
    <2>6. OnePerRule'
      BY <2>2, <2>3, <2>4 DEF LanesInv, OnePerRule
    <2> QED BY <2>5, <2>6 DEF Held
  <1>4. CASE Tick
    <2> DEFINE g(k) == [k EXCEPT !.elapsed = @ + 1]
    <2>1. UNCHANGED <<up, mode>> /\ claim' = [r \in Rules |-> Older(claim[r])]
      BY <1>4 DEF Tick
    <2>2. ASSUME NEW m \in Nodes, NEW k \in work'[m], Alive(m, k)'
          PROVE  \E x \in work[m] : /\ Alive(m, x) /\ Executing(x) /\ x \in Items
                                    /\ k = g(x) /\ k.rule = x.rule /\ k.elapsed = x.elapsed + 1 /\ Executing(k)
      <3>1. PICK x \in work[m] : k = IF Executing(x) THEN g(x) ELSE x
        BY <1>4 DEF Tick
      <3>2. x \in Items
        BY DEF LanesInv, Typed
      <3>3. Executing(x) => k = g(x) /\ k.rule = x.rule /\ k.elapsed = x.elapsed + 1 /\ Executing(k)
        BY <3>1, <3>2, Consts DEF Items, Executing, Queued
      <3>4. Alive(m, x)
        BY <2>1, <2>2, <3>1, <3>3 DEF Alive
      <3>5. Executing(x)
        BY <1>4, <3>4, NothingQueued DEF LanesInv
      <3> QED BY <3>1, <3>2, <3>3, <3>4, <3>5
    <2> HIDE DEF g
    <2>3. Claims'
      <3> SUFFICES ASSUME NEW m \in Nodes, NEW k \in work'[m], Alive(m, k)'
                   PROVE  /\ claim'[k.rule].by = m
                          /\ claim'[k.rule].age <= (IF Executing(k) THEN k.elapsed ELSE 0)
                          /\ mode'[k.rule] # "archived"
        BY DEF Claims, Executing
      <3>1. PICK x \in work[m] : /\ Alive(m, x) /\ Executing(x) /\ x \in Items
                                 /\ k.rule = x.rule /\ k.elapsed = x.elapsed + 1 /\ Executing(k)
        BY <2>2
      <3>2. /\ claim[x.rule].by = m /\ claim[x.rule].age <= x.elapsed /\ mode[x.rule] # "archived"
            /\ claim[x.rule] # None
        BY <3>1, AliveNotFree DEF LanesInv, Claims
      <3>3. claim[x.rule] \in [by : Nodes, age : 0..(Stale + 1)] /\ x.elapsed \in Int /\ x.rule \in Rules
        BY <3>1, <3>2, Consts DEF LanesInv, Typed, Holders, Items, Queued
      <3>4. claim'[x.rule].by = m /\ claim'[x.rule].age <= x.elapsed + 1
        BY <2>1, <3>2, <3>3, Consts DEF Older
      <3> QED BY <2>1, <3>1, <3>2, <3>4
    <2>4. OnePerRule'
      <3> SUFFICES ASSUME NEW m \in Nodes, NEW k \in work'[m], Alive(m, k)',
                          NEW l \in Nodes, NEW y \in work'[l], Alive(l, y)', k.rule = y.rule
                   PROVE  m = l /\ k = y
        BY DEF OnePerRule
      <3>1. PICK x \in work[m] : Alive(m, x) /\ k = g(x) /\ k.rule = x.rule
        BY <2>2
      <3>2. PICK z \in work[l] : Alive(l, z) /\ y = g(z) /\ y.rule = z.rule
        BY <2>2
      <3> QED BY <3>1, <3>2 DEF LanesInv, OnePerRule
    <2> QED BY <2>3, <2>4 DEF Held
  <1>5. ASSUME NEW n \in Nodes, NEW i \in work[n],
               FinishCron(n, i) \/ FinishLate(n, i) \/ Panic(n, i) \/ Progress(n, i) \/ FailLate(n, i) \/ Abort(n, i)
        PROVE  Held'
    <2>1. /\ Drop(n, i) /\ UNCHANGED <<up, mode>>
          /\ claim' = claim \/ (Executing(i) /\ claim' = Released(n, i.rule))
      BY <1>5 DEF FinishCron, FinishLate, Panic, Progress, FailLate, Abort, Settle, rule
    <2> QED BY <2>1, DropHeld
  <1>6. ASSUME NEW n \in Nodes, Crash(n) \/ Shutdown(n) \/ Restart(n) PROVE Held'
    <2>1. /\ UNCHANGED <<claim, mode>> /\ \A m \in Nodes : work'[m] \subseteq work[m]
          /\ \A m \in Nodes : up'[m] = "up" => up[m] = "up" \/ work'[m] = {}
      BY <1>6 DEF Crash, Shutdown, Restart, rule, LanesInv, Typed
    <2>2. \A m \in Nodes : \A k \in work'[m] : Alive(m, k)' => k \in work[m] /\ Alive(m, k)
      BY <2>1 DEF Alive
    <2> QED BY <2>1, <2>2, StillHeld DEF LanesInv, Claims
  <1>7. ASSUME NEW n \in Nodes, ReleaseAll(n) PROVE Held'
    <2>1. /\ claim' = [r \in Rules |-> IF claim[r].by = n THEN None ELSE claim[r]]
          /\ work[n] = {} /\ UNCHANGED <<work, mode>>
          /\ \A m \in Nodes : up'[m] = "up" => up[m] = "up"
      BY <1>7 DEF ReleaseAll, LanesInv, Typed
    <2>2. ASSUME NEW m \in Nodes, NEW k \in work'[m], Alive(m, k)'
          PROVE  k \in work[m] /\ Alive(m, k) /\ claim'[k.rule] = claim[k.rule] /\ mode'[k.rule] # "archived"
      <3>1. k \in work[m] /\ Alive(m, k) /\ m # n /\ k.rule \in Rules
        BY <2>1, <2>2 DEF Alive, LanesInv, Typed, Items
      <3> QED BY <2>1, <3>1 DEF LanesInv, Claims
    <2> QED BY <2>2, StillHeld
  <1>8. ASSUME NEW r \in Rules, Archive(r) PROVE Held'
    <2>1. /\ UNCHANGED <<up, work, claim>> /\ claim[r] = None
          /\ mode' = [mode EXCEPT ![r] = "archived"]
      BY <1>8 DEF Archive, node
    <2>2. ASSUME NEW m \in Nodes, NEW k \in work'[m], Alive(m, k)'
          PROVE  k \in work[m] /\ Alive(m, k) /\ claim'[k.rule] = claim[k.rule] /\ mode'[k.rule] # "archived"
      <3>1. k \in work[m] /\ Alive(m, k) /\ k.rule \in Rules
        BY <2>1, <2>2 DEF Alive, LanesInv, Typed, Items
      <3>2. k.rule # r
        BY <2>1, <3>1, AliveNotFree
      <3> QED BY <2>1, <3>1, <3>2 DEF LanesInv, Typed, Claims
    <2> QED BY <2>2, StillHeld
  <1>9. CASE UNCHANGED <<up, work, claim>> /\ \A r \in Rules : mode'[r] = "archived" => mode[r] = "archived"
    <2>1. ASSUME NEW m \in Nodes, NEW k \in work'[m], Alive(m, k)'
          PROVE  k \in work[m] /\ Alive(m, k) /\ claim'[k.rule] = claim[k.rule] /\ mode'[k.rule] # "archived"
      BY <1>9, <2>1 DEF Alive, LanesInv, Typed, Items, Claims
    <2> QED BY <2>1, StillHeld
  <1>10. ASSUME NEW r \in Rules, NEW m \in {"on", "paused"}, SetMode(r, m) \/ Quiesce(r)
         PROVE  UNCHANGED <<up, work, claim>> /\ \A x \in Rules : mode'[x] = "archived" => mode[x] = "archived"
    BY <1>10 DEF SetMode, Quiesce, node, LanesInv, Typed
  <1> QED BY <1>1, <1>2, <1>3, <1>4, <1>5, <1>6, <1>7, <1>8, <1>9, <1>10
         DEF Next, Finish, LateGo, Enqueue, BackoffOver, SyncNextRun, RuleDue, SetDataset, node, rule, vars

-----------------------------------------------------------------------------
(* The theorems.                                                           *)

\* The initial state has nothing claimed and nothing under way.
LEMMA InitInv == ASSUME Init PROVE LanesInv
  <1>1. \A n \in Nodes : work[n] = {} /\ Lane(n, "cron") = {} /\ Lane(n, "late") = {}
    BY DEF Init, Lane
  <1>2. up \in [Nodes -> {"up", "stopping", "down"}] /\ work \in [Nodes -> SUBSET Items]
    BY DEF Init
  <1>3. going \in [Nodes -> BOOLEAN]
    BY Zenon DEF Init
  <1>4. /\ claim \in [Rules -> Holders] /\ mode \in [Rules -> Modes]
        /\ nextRun \in [Rules -> {"null", "future", "due"}] /\ syncs = {}
    BY DEF Init, Holders, Modes
  <1>5. job \in [Jobs -> JobRows] /\ \A j \in Jobs : job[j].status = "running" <=> job[j].by \in Nodes
    BY Consts DEF Init, JobRows, Statuses
  <1>6. BatchesBounded
    BY <1>1, FS_EmptySet, Consts DEF BatchesBounded
  <1>7. Typed
    BY <1>1, <1>2, <1>3, <1>4, <1>5 DEF Typed
  <1> QED BY <1>1, <1>6, <1>7 DEF LanesInv, Claims, OnePerRule

\* Whatever the settings, the state is well formed and no batch of the repair
\* lane exceeds late_replay_batch_size.
THEOREM LanesTyped == Spec => []TypeOK
  <1>1. Init => Typed /\ BatchesBounded
    BY InitInv DEF LanesInv
  <1>2. Typed /\ BatchesBounded /\ [Next]_vars => Typed' /\ BatchesBounded'
    BY TypedNext, BoundedNext
  <1>3. Typed /\ BatchesBounded => TypeOK
    BY DEF Typed, BatchesBounded, TypeOK, Items
  <1> QED BY <1>1, <1>2, <1>3, PTL DEF Spec

\* While every claimed batch fits its lane's slots, the invariant holds: a
\* claim is never older than the execution it belongs to.
THEOREM LanesInvariant == ASSUME BatchesFit PROVE Spec => []LanesInv
  <1>1. Init => LanesInv
    BY InitInv
  <1>2. LanesInv /\ [Next]_vars => LanesInv'
    BY TypedNext, BoundedNext, HeldNext DEF LanesInv, Held
  <1> QED BY <1>1, <1>2, PTL DEF Spec

\* What the executions under way are.
LEMMA Executions ==
    ASSUME NEW x \in AllWork
    PROVE  x = <<x[1], x[2]>> /\ x[1] \in Nodes /\ x[2] \in work[x[1]] /\ Alive(x[1], x[2])
  BY DEF AllWork, Alive

\* While every claimed batch fits its lane's slots, no rule is executed by two
\* lanes or nodes at once, whatever crashes, panics, pauses and deletions.
THEOREM NoDoubleExecution == ASSUME BatchesFit PROVE Spec => []OneExecution
  <1>1. LanesInv => OneExecution
    BY Executions DEF LanesInv, OnePerRule, OneExecution
  <1> QED BY <1>1, LanesInvariant, PTL

\* Under the same condition every execution holds its rule's claim to its end.
THEOREM ClaimsHeld == ASSUME BatchesFit PROVE Spec => []ExecutionHoldsClaim
  <1>1. LanesInv => ExecutionHoldsClaim
    BY Executions DEF LanesInv, Claims, ExecutionHoldsClaim
  <1> QED BY <1>1, LanesInvariant, PTL

\* Under the same condition delete_rule never archives a rule that is executed.
THEOREM DeletedNotExecuted == ASSUME BatchesFit PROVE Spec => []ArchivedIsQuiet
  <1>1. LanesInv => ArchivedIsQuiet
    BY Executions DEF LanesInv, Claims, ArchivedIsQuiet
  <1> QED BY <1>1, LanesInvariant, PTL
=============================================================================
