---------------------------- MODULE LocalGcProofs ----------------------------
(***************************************************************************)
(* Proofs about the garbage collection of part files.  What a pass unlinks *)
(* is gone for good: removed from the live set longer ago than any query   *)
(* reads, or never added and too old to be added by any append, the one    *)
(* under way included.  Both facts are about the log at the time of the    *)
(* check, and stay true while entries land and the clock is stepped.       *)
(***************************************************************************)
EXTENDS LocalGc, SequenceTheorems, TLAPS

Stages == {"none", "building", "uploaded", "abandoned"}
Steps == {"idle", "permit", "prepare", "retire", "unlink", "receipt", "clear"}
Entries == [op : {"other", "add", "merge", "retire"}, adds : SUBSET Parts, removes : SUBSET Parts,
            at : Int, forgets : SUBSET Parts]
Appends == [op : {"add", "merge", "retire"}, adds : SUBSET Parts, removes : SUBSET Parts,
            at : Int, real : Nat]

\* TypeOK in full.
Typed ==
    /\ stage \in [Parts -> Stages]
    /\ born \in [Parts -> Int] /\ up \in [Parts -> Int] /\ dead \in [Parts -> Nat]
    /\ files \subseteq Parts \X Kinds
    /\ log \in Seq(Entries) /\ pending \in Appends \cup {NoEntry}
    /\ skew \in 0..StepBack
    /\ pos \in 0..Len(log) /\ drained \subseteq Parts
    /\ prepared \subseteq Requests /\ receipts \subseteq Requests /\ todo \subseteq Requests
    /\ cur \in Requests \cup {NoRequest} /\ step \in Steps
    /\ step \notin {"idle", "permit"} => cur \in Requests

\* No file of the part will be written any more.
Written(p) == stage[p] \in {"uploaded", "abandoned"}

\* The id is too old to be added, however the clock is stepped.
TooOld(p) == born[p] + skew >= Memory + Margin

\* Nobody needs the files of the part any more.
Gone(p) == \/ p \in Removes(log) /\ dead[p] > ReadMax
           \/ p \notin Adds(log) /\ TooOld(p)

\* The log removes what it added, and a removal is at most as old on the clock
\* as the part is dead, plus what an append takes and a clock step hides.
LogInv ==
    /\ Removes(log) \subseteq Adds(log)
    /\ \A p \in Adds(log) : Written(p)
    /\ \A i \in DOMAIN log : \A p \in log[i].removes :
         dead[p] <= ReadMax => log[i].at + skew <= dead[p] + AppendMax + StepBack

\* The append under way is young, as are the ids it adds.
PendingInv ==
    pending # NoEntry =>
        /\ pending.real <= AppendMax
        /\ pending.at + skew <= pending.real + StepBack
        /\ pending.removes \subseteq Live(log)
        /\ \A p \in pending.adds : /\ stage[p] = "uploaded" /\ p \notin Adds(log)
                                   /\ born[p] + skew <= Memory + StepBack + pending.real

\* A part that is added, or may be, and lacks one of its files is gone.
FilesInv ==
    /\ \A key \in files : Written(key[1])
    /\ \A p \in Parts, kind \in Kinds :
         (stage[p] = "uploaded" \/ p \in Adds(log)) /\ <<p, kind>> \notin files => Gone(p)

\* So is the part whose file is about to be unlinked; a file that has been is
\* absent, and as its part is written, it is not written again.
PassInv ==
    /\ \A r \in todo \cup prepared \cup receipts \cup {cur} : r \in Requests => Written(r.key[1])
    /\ step = "unlink" /\ cur.key \in files => Gone(cur.key[1])
    /\ step \in {"receipt", "clear"} => cur.key \notin files
    /\ \A r \in receipts : r.key \notin files

GcInv == Typed /\ LogInv /\ PendingInv /\ FilesInv /\ PassInv

-----------------------------------------------------------------------------
(* Facts about the constants, ages, the log and the plan.                  *)

\* The bounds are numbers, and the grace window and the margin leave room.
LEMMA Consts ==
    /\ Earlier \in Nat /\ Grace \in Nat /\ Memory \in Nat /\ Margin \in Nat /\ Retain \in Nat
    /\ Day \in Nat /\ AppendMax \in Nat /\ ReadMax \in Nat /\ StepBack \in Nat
    /\ OrphanAge \in Nat /\ FoldMax \in Nat
    /\ AppendMax + StepBack < Margin
    /\ ReadMax + AppendMax + StepBack < Grace
  BY GcAssumption

\* The smaller of two numbers.
LEMMA MinTwo ==
    ASSUME NEW a \in Int, NEW b \in Int
    PROVE  Min({a, b}) \in {a, b} /\ Min({a, b}) <= a /\ Min({a, b}) <= b
  <1>1. \E x \in {a, b} : \A y \in {a, b} : x =< y
    OBVIOUS
  <1>2. Min({a, b}) \in {a, b} /\ \A y \in {a, b} : Min({a, b}) =< y
    BY <1>1, Zenon DEF Min
  <1> QED BY <1>2

\* The larger of two numbers.
LEMMA MaxTwo ==
    ASSUME NEW a \in Int, NEW b \in Int
    PROVE  Max({a, b}) \in {a, b} /\ Max({a, b}) >= a /\ Max({a, b}) >= b
  <1>1. \E x \in {a, b} : \A y \in {a, b} : x >= y
    OBVIOUS
  <1>2. Max({a, b}) \in {a, b} /\ \A y \in {a, b} : Max({a, b}) >= y
    BY <1>1, Zenon DEF Max
  <1> QED BY <1>2

\* What growing an age does.
LEMMA OlderAge ==
    ASSUME NEW a \in Int, NEW d \in Int, NEW c \in Int
    PROVE  /\ Older(a, d, c) \in Int
           /\ Older(a, d, c) <= a + d
           /\ Older(a, d, c) = a + d \/ Older(a, d, c) = c + StepBack
  <1> DEFINE x == a + d
             y == c + StepBack
  <1>1. x \in Int /\ y \in Int
    BY Consts
  <1>2. Older(a, d, c) = Min({x, y})
    BY DEF Older
  <1> HIDE DEF x, y
  <1>3. Min({x, y}) \in {x, y} /\ Min({x, y}) <= x /\ Min({x, y}) <= y
    BY <1>1, MinTwo
  <1> QED BY <1>1, <1>2, <1>3 DEF x, y

\* An entry adds its parts and removes its inputs.
LEMMA AppendedLog ==
    ASSUME NEW l \in Seq(Entries), NEW e \in Entries
    PROVE  /\ Adds(Append(l, e)) = Adds(l) \cup e.adds
           /\ Removes(Append(l, e)) = Removes(l) \cup e.removes
  <1>1. /\ Len(l) \in Nat /\ DOMAIN l = 1..Len(l)
        /\ DOMAIN Append(l, e) = 1..(Len(l) + 1)
        /\ \A i \in 1..Len(l) : Append(l, e)[i] = l[i]
        /\ Append(l, e)[Len(l) + 1] = e
    BY LenProperties, AppendProperties
  <1>2. \A i \in 1..(Len(l) + 1) : i \in 1..Len(l) \/ i = Len(l) + 1
    BY <1>1
  <1> QED BY <1>1, <1>2 DEF Adds, Removes

\* Entries that differ in their times say the same.
LEMMA RestampedLog ==
    ASSUME NEW l, NEW m, DOMAIN m = DOMAIN l,
           \A i \in DOMAIN l : m[i].adds = l[i].adds /\ m[i].removes = l[i].removes
    PROVE  Adds(m) = Adds(l) /\ Removes(m) = Removes(l)
  BY DEF Adds, Removes

\* What the log names are parts.
LEMMA LogParts ==
    ASSUME NEW l \in Seq(Entries)
    PROVE  Adds(l) \subseteq Parts /\ Removes(l) \subseteq Parts /\ Remembered(l) \subseteq Parts
  <1>1. \A i \in DOMAIN l : l[i] \in Entries
    BY LenProperties, ElementOfSeq
  <1>2. \A i \in DOMAIN l : l[i].adds \subseteq Parts /\ l[i].removes \subseteq Parts
    BY <1>1 DEF Entries
  <1> QED BY <1>2 DEF Adds, Removes, Remembered

\* The entry that removed a part.
LEMMA RemovalEntry ==
    ASSUME NEW l \in Seq(Entries), NEW p \in Removes(l)
    PROVE  \E i \in DOMAIN l : Removal(l, p) = l[i] /\ p \in l[i].removes /\ l[i].at \in Int
  <1>1. \E i \in DOMAIN l : p \in l[i].removes
    BY DEF Removes
  <1>2. \A i \in DOMAIN l : l[i].at \in Int
    <2>1. \A i \in DOMAIN l : l[i] \in Entries
      BY LenProperties, ElementOfSeq
    <2> QED BY <2>1 DEF Entries
  <1> QED BY <1>1, <1>2 DEF Removal

\* The fold stays within the log; once it has caught up it has seen all of it.
LEMMA Fold ==
    ASSUME Typed
    PROVE  /\ NewPos \in 0..Len(log)
           /\ CaughtUp => Seen = log
  <1>1. Len(log) \in Nat /\ pos \in 0..Len(log)
    BY LenProperties DEF Typed
  <1>2. NewPos \in {pos + FoldMax, Len(log)} /\ NewPos <= Len(log)
    <2> DEFINE x == pos + FoldMax
               y == Len(log)
    <2>1. x \in Int /\ y \in Int /\ NewPos = Min({x, y})
      BY <1>1, Consts DEF NewPos
    <2> HIDE DEF x, y
    <2>2. NewPos \in {x, y} /\ NewPos <= y
      BY <2>1, MinTwo
    <2> QED BY <2>2 DEF x, y
  <1>3. CaughtUp => Seen = log
    BY SubSeqFull DEF Typed, CaughtUp, Seen
  <1> QED BY <1>1, <1>2, <1>3, Consts

\* plan_one gives a reason only for a part that is not live: one removed no
\* later than the grace window, or one unknown to the log and old enough.
LEMMA Planned ==
    ASSUME NEW l \in Seq(Entries), NEW key, Plan(l, key) # "none"
    PROVE  /\ Plan(l, key) \in Reasons
           /\ key[1] \notin Live(l)
           /\ key[1] \in Removes(l) => ~(Removal(l, key[1]).at < Grace)
           /\ key[1] \notin Removes(l) => born[key[1]] >= Memory + Margin
  <1>1. CASE key[1] \in Live(l)
    <2>1. Plan(l, key) = "none"
      BY <1>1, Zenon DEF Plan, Live
    <2> QED BY <2>1
  <1>2. CASE key[1] \notin Live(l) /\ key[1] \in Removes(l)
    <2> DEFINE removal == Removal(l, key[1])
    <2>1. Plan(l, key) = CASE removal.at < Grace -> "none"
                           [] removal.at >= Grace /\ removal.op = "merge" /\ key[2] = "data" -> "superseded"
                           [] OTHER -> IF Expired(key[1]) THEN "retention" ELSE "none"
      BY <1>2, Zenon DEF Plan
    <2> HIDE DEF removal
    <2>2. CASE removal.at < Grace
      <3>1. ~(removal.at >= Grace)
        BY <1>2, <2>2, RemovalEntry, Consts DEF removal
      <3>2. Plan(l, key) = "none"
        BY <2>1, <2>2, <3>1, Zenon
      <3> QED BY <3>2
    <2>3. CASE ~(removal.at < Grace) /\ removal.at >= Grace /\ removal.op = "merge" /\ key[2] = "data"
      <3>1. Plan(l, key) = "superseded"
        BY <2>1, <2>3, Zenon
      <3> QED BY <1>2, <2>3, <3>1 DEF removal, Reasons
    <2>4. CASE ~(removal.at < Grace) /\ ~(removal.at >= Grace /\ removal.op = "merge" /\ key[2] = "data")
      <3>1. Plan(l, key) = IF Expired(key[1]) THEN "retention" ELSE "none"
        BY <2>1, <2>4, Zenon
      <3> QED BY <1>2, <2>4, <3>1 DEF removal, Reasons
    <2> QED BY <2>2, <2>3, <2>4
  <1>3. CASE key[1] \notin Live(l) /\ key[1] \notin Removes(l)
    <2>1. Plan(l, key) = IF up[key[1]] >= OrphanAge /\ born[key[1]] >= Memory + Margin
                         THEN "orphan" ELSE "none"
      BY <1>3, Zenon DEF Plan
    <2> QED BY <1>3, <2>1 DEF Reasons
  <1> QED BY <1>1, <1>2, <1>3

\* The clock moves by d: the log says the same, no age grows by more than d,
\* and one that stops growing is beyond what tells anything apart.
LEMMA Shifted ==
    ASSUME Typed, NEW d \in Int, Shift(d)
    PROVE  /\ log' \in Seq(Entries) /\ Len(log') = Len(log) /\ DOMAIN log' = DOMAIN log
           /\ Adds(log') = Adds(log) /\ Removes(log') = Removes(log)
           /\ \A i \in DOMAIN log : /\ log'[i].removes = log[i].removes
                                    /\ log[i].removes # {} => log'[i].at <= log[i].at + d
           /\ born' \in [Parts -> Int] /\ up' \in [Parts -> Int]
           /\ \A p \in Parts : stage[p] # "none" =>
                /\ born'[p] <= born[p] + d
                /\ born'[p] = born[p] + d \/ born'[p] >= Memory + Margin + StepBack
  <1> DEFINE c == Max({Memory + Margin, Retain + Day})
             g == Max({Grace, Memory + 1 + AppendMax})
  <1>1. c \in Int /\ c >= Memory + Margin
    <2> DEFINE x == Memory + Margin
               y == Retain + Day
    <2>1. x \in Int /\ y \in Int /\ c = Max({x, y})
      BY Consts
    <2> HIDE DEF x, y, c
    <2>2. c \in Int /\ c >= x
      BY <2>1, MaxTwo
    <2> QED BY <2>2 DEF x
  <1>2. g \in Int
    <2> DEFINE x == Grace
               y == Memory + 1 + AppendMax
    <2>1. x \in Int /\ y \in Int /\ g = Max({x, y})
      BY Consts
    <2> HIDE DEF x, y, g
    <2> QED BY <2>1, MaxTwo
  <1>3. Len(log) \in Nat /\ DOMAIN log = 1..Len(log) /\ log \in [1..Len(log) -> Entries]
    BY LenProperties DEF Typed
  <1>4. log' = [i \in 1..Len(log) |-> IF log[i].removes = {} THEN log[i]
                                      ELSE [log[i] EXCEPT !.at = Older(log[i].at, d, g)]]
    BY <1>3 DEF Shift
  <1>5. /\ born' = [p \in Parts |-> IF stage[p] = "none" THEN 0 ELSE Older(born[p], d, c)]
        /\ up' = [p \in Parts |-> IF stage[p] \in {"none", "building"} THEN 0
                                  ELSE Older(up[p], d, OrphanAge)]
    BY DEF Shift
  <1> HIDE DEF c, g
  <1>6. ASSUME NEW i \in 1..Len(log)
        PROVE  /\ log'[i] \in Entries /\ log'[i].adds = log[i].adds /\ log'[i].removes = log[i].removes
               /\ log[i].removes # {} => log'[i].at <= log[i].at + d
    <2>1. log[i] \in Entries
      BY <1>3
    <2>2. log[i].at \in Int
      BY <2>1 DEF Entries
    <2>3. Older(log[i].at, d, g) \in Int /\ Older(log[i].at, d, g) <= log[i].at + d
      BY <1>2, <2>2, OlderAge
    <2> QED BY <1>4, <2>1, <2>3 DEF Entries
  <1>7. DOMAIN log' = 1..Len(log) /\ log' \in [1..Len(log) -> Entries]
    BY <1>4, <1>6
  <1>8. log' \in Seq(Entries) /\ Len(log') = Len(log)
    BY <1>3, <1>7, LenProperties
  <1>9. Adds(log') = Adds(log) /\ Removes(log') = Removes(log)
    BY <1>3, <1>6, <1>7, RestampedLog
  <1>10. \A p \in Parts : born[p] \in Int /\ up[p] \in Int
    BY DEF Typed
  <1>11. \A p \in Parts : Older(up[p], d, OrphanAge) \in Int
    <2>1. OrphanAge \in Int
      BY Consts
    <2> QED BY <1>10, <2>1, OlderAge
  <1>12. \A p \in Parts : /\ Older(born[p], d, c) \in Int
                          /\ Older(born[p], d, c) <= born[p] + d
                          /\ Older(born[p], d, c) = born[p] + d \/ Older(born[p], d, c) = c + StepBack
    BY <1>1, <1>10, OlderAge
  <1>13. born' \in [Parts -> Int] /\ up' \in [Parts -> Int]
    BY <1>5, <1>11, <1>12
  <1>14. \A p \in Parts : stage[p] # "none" =>
             /\ born'[p] <= born[p] + d
             /\ born'[p] = born[p] + d \/ born'[p] >= Memory + Margin + StepBack
    BY <1>1, <1>5, <1>12, Consts
  <1> QED BY <1>3, <1>6, <1>7, <1>8, <1>9, <1>13, <1>14

-----------------------------------------------------------------------------
(* Every step keeps the types.                                             *)

\* The pass goes on, or stops.
LEMMA ProceedTyped ==
    ASSUME Typed, NEW left \in SUBSET Requests, NEW failed, Proceed(left, failed)
    PROVE  todo' \subseteq Requests /\ cur' = NoRequest /\ step' \in {"idle", "permit"}
  BY DEF Proceed

\* What a pass takes up are requests.
LEMMA CollectTyped == ASSUME Typed, Collect PROVE Typed'
  <1> DEFINE eligible == Eligible(Seen, Listed(Seen))
             gone == {r \in prepared : r.key \notin files}
  <1>1. Seen = log /\ log \in Seq(Entries) /\ pos' \in 0..Len(log)
    BY Fold DEF Collect, Refold, Typed
  <1>2. PICK chosen \in SUBSET eligible, recovered \in SUBSET gone :
               Start({Request(Seen, key) : key \in chosen} \cup recovered)
    BY DEF Collect, kSubset
  <1>3. ASSUME NEW key \in chosen PROVE Request(Seen, key) \in Requests
    <2>1. key \in Parts \X Kinds /\ Plan(log, key) # "none"
      BY <1>1 DEF Eligible, Listed, Typed
    <2>2. Plan(log, key) \in Reasons
      BY <1>1, <2>1, Planned
    <2> QED BY <1>1, <2>1, <2>2 DEF Request, Requests
  <1>4. recovered \subseteq Requests
    BY DEF Typed
  <1>5. todo' \subseteq Requests /\ cur' = NoRequest /\ step' \in {"idle", "permit"}
    BY <1>2, <1>3, <1>4 DEF Start
  <1>6. drained' \subseteq Parts
    <2>1. drained' \subseteq Remembered(log)
      BY <1>1 DEF Collect
    <2> QED BY <1>1, <2>1, LogParts
  <1>7. UNCHANGED <<stage, born, up, dead, files, log, pending, skew, prepared, receipts>>
    BY DEF Collect, disk, build, writer, env
  <1> QED BY <1>1, <1>5, <1>6, <1>7 DEF Typed, Steps

\* The other steps of a pass.
LEMMA PassTyped ==
    ASSUME Typed, CollectPaused \/ (\E r \in todo : Authorize(r)) \/ Prepare \/ Retire
                  \/ Unlink \/ Receipt \/ Clear \/ IoError
    PROVE  Typed'
  <1>1. UNCHANGED <<stage, born, up, dead, log, pending, skew, drained>>
    BY DEF CollectPaused, Authorize, Prepare, Retire, Unlink, Receipt, Clear, IoError,
           disk, build, writer, env, view
  <1>2. pos' \in 0..Len(log)
    BY Fold DEF Typed, Refold, CollectPaused, Authorize, Prepare, Retire, Unlink, Receipt, Clear, IoError, view
  <1>3. files' \subseteq Parts \X Kinds /\ receipts' \subseteq Requests /\ prepared' \subseteq Requests
    BY DEF Typed, CollectPaused, Authorize, Prepare, Retire, Unlink, Receipt, Clear, IoError, disk
  <1>4. /\ todo' \subseteq Requests /\ cur' \in Requests \cup {NoRequest} /\ step' \in Steps
        /\ step' \notin {"idle", "permit"} => cur' \in Requests
    <2>1. CASE CollectPaused
      BY <2>1 DEF Typed, CollectPaused, pass
    <2>2. CASE \E r \in todo : Authorize(r)
      BY <2>2 DEF Typed, Authorize, Start, Steps
    <2>3. CASE Prepare
      BY <2>3, ProceedTyped DEF Typed, Prepare, WorkerFailure, Steps
    <2>4. CASE Retire
      BY <2>4, ProceedTyped DEF Typed, Retire, WorkerFailure, Steps
    <2>5. CASE Unlink \/ Receipt
      BY <2>5 DEF Typed, Unlink, Receipt, Steps
    <2>6. CASE Clear \/ IoError
      BY <2>6, ProceedTyped DEF Typed, Clear, IoError, WorkerFailure, Steps
    <2> QED BY <2>1, <2>2, <2>3, <2>4, <2>5, <2>6
  <1> QED BY <1>1, <1>2, <1>3, <1>4 DEF Typed

\* An append that lands is an entry.
LEMMA LandEntry ==
    ASSUME Typed, Land
    PROVE  \E e \in Entries : /\ log' = Append(log, e) /\ e.adds = pending.adds
                              /\ e.removes = pending.removes /\ e.at = pending.at
  <1> DEFINE e == [op |-> pending.op, adds |-> pending.adds, removes |-> pending.removes, at |-> pending.at,
                   forgets |-> {p \in Remembered(log) : Removal(log, p).at - pending.at > Memory}]
  <1>1. pending \in Appends
    BY DEF Land, Typed
  <1>2. Remembered(log) \subseteq Parts
    BY LogParts DEF Typed
  <1>3. e \in Entries
    BY <1>1, <1>2 DEF Appends, Entries
  <1>4. log' = Append(log, e)
    BY DEF Land
  <1> QED BY <1>3, <1>4

\* The steps of the writer.
LEMMA IngestTyped == ASSUME Typed, Ingest PROVE Typed'
  <1>1. ASSUME NEW p \in Parts, Begin(p) \/ Upload(p) PROVE Typed'
    <2>1. /\ UNCHANGED <<dead, log, pending, skew, pos, drained, prepared, receipts, todo, cur, step>>
          /\ stage' \in [Parts -> Stages]
      BY <1>1 DEF Begin, Upload, disk, writer, pass, view, env, Typed, Stages
    <2>2. born' \in [Parts -> Int] /\ up' \in [Parts -> Int]
      BY <1>1 DEF Begin, Upload, Typed
    <2>3. files' \subseteq Parts \X Kinds
      BY <1>1 DEF Begin, Upload, Typed, disk
    <2> QED BY <2>1, <2>2, <2>3 DEF Typed
  <1>2. ASSUME NEW op \in {"add", "merge", "retire"}, NEW adds \in SUBSET Parts, NEW removes \in SUBSET Parts,
               Stamp(op, adds, removes)
        PROVE  Typed'
    <2>1. pending' \in Appends
      BY <1>2 DEF Stamp, Appends
    <2> QED BY <1>2, <2>1 DEF Typed, Stamp, disk, build, pass, view, env
  <1>3. CASE Land
    <2>1. Len(log) \in Nat /\ log' \in Seq(Entries) /\ Len(log') = Len(log) + 1
      <3>1. PICK e \in Entries : log' = Append(log, e)
        BY <1>3, LandEntry
      <3>2. log \in Seq(Entries)
        BY DEF Typed
      <3> QED BY <3>1, <3>2, LenProperties, AppendProperties
    <2>2. pos' \in 0..Len(log') /\ dead' \in [Parts -> Nat] /\ pending' = NoEntry
      BY <1>3, <2>1 DEF Typed, Land, view
    <2>3. UNCHANGED <<stage, born, up, files, skew, drained, prepared, receipts, todo, cur, step>>
      BY <1>3 DEF Land, disk, build, pass, view, env
    <2> QED BY <2>1, <2>2, <2>3 DEF Typed
  <1>4. CASE NotLanded
    BY <1>4 DEF Typed, NotLanded, disk, build, pass, view, env
  <1>5. ASSUME NEW p \in Parts, Add(p) PROVE Typed'
    BY <1>2, <1>5 DEF Add
  <1>6. ASSUME NEW p \in Parts, NEW inputs \in SUBSET Parts, Merge(p, inputs) PROVE Typed'
    BY <1>2, <1>6 DEF Merge
  <1>7. ASSUME NEW inputs \in SUBSET Parts, RetireExpired(inputs) PROVE Typed'
    BY <1>2, <1>7 DEF RetireExpired
  <1> QED BY <1>1, <1>3, <1>4, <1>5, <1>6, <1>7 DEF Ingest

\* Restarts, settings and time.
LEMMA EnvTyped ==
    ASSUME Typed, Crash \/ ChangeSetting \/ Tick \/ \E s \in 0..StepBack : StepClock(s)
    PROVE  Typed'
  <1>1. CASE Crash
    <2>1. /\ stage' \in [Parts -> Stages] /\ pending' = NoEntry /\ pos' = 0 /\ drained' = {}
          /\ todo' = {} /\ cur' = NoRequest /\ step' = "idle"
          /\ UNCHANGED <<born, up, files, prepared, receipts, log, dead, skew>>
      BY <1>1 DEF Typed, Crash, Start, Stages, disk
    <2>2. Len(log) \in Nat
      BY LenProperties DEF Typed
    <2> QED BY <2>1, <2>2 DEF Typed, Steps
  <1>2. CASE ChangeSetting
    BY <1>2 DEF Typed, ChangeSetting, disk, build, writer, pass, view
  <1>3. CASE Tick
    <2>1. /\ log' \in Seq(Entries) /\ Len(log') = Len(log)
          /\ born' \in [Parts -> Int] /\ up' \in [Parts -> Int]
      BY <1>3, Shifted DEF Tick
    <2>2. dead' \in [Parts -> Nat] /\ pending' \in Appends \cup {NoEntry}
      <3>1. dead' \in [Parts -> Nat]
        BY <1>3 DEF Tick, Typed
      <3>2. pending = NoEntry => pending' = NoEntry
        BY <1>3 DEF Tick
      <3>3. ASSUME pending # NoEntry PROVE pending' \in Appends
        <4>1. pending \in Appends
          BY <3>3 DEF Typed
        <4>2. pending.at \in Int /\ pending.real \in Nat
          BY <4>1 DEF Appends
        <4> DEFINE e == [pending EXCEPT !.at = pending.at + 1]
        <4>3. pending' = [e EXCEPT !.real = pending.real + 1]
          BY <1>3, <3>3 DEF Tick
        <4>4. e \in Appends
          BY <4>1, <4>2 DEF Appends
        <4> HIDE DEF e
        <4> QED BY <4>2, <4>3, <4>4 DEF Appends
      <3> QED BY <3>1, <3>2, <3>3
    <2>3. UNCHANGED <<stage, files, skew, pos, drained, prepared, receipts, todo, cur, step>>
      BY <1>3 DEF Tick, disk, pass, env
    <2> QED BY <2>1, <2>2, <2>3 DEF Typed
  <1>4. ASSUME NEW s \in 0..StepBack, StepClock(s) PROVE Typed'
    <2>0. s \in Int /\ skew \in Int /\ skew - s \in Int
      BY Consts DEF Typed
    <2>1. /\ log' \in Seq(Entries) /\ Len(log') = Len(log)
          /\ born' \in [Parts -> Int] /\ up' \in [Parts -> Int]
      BY <1>4, <2>0, Shifted DEF StepClock
    <2>2. pending' \in Appends \cup {NoEntry}
      <3>1. pending = NoEntry => pending' = NoEntry
        BY <1>4 DEF StepClock
      <3>2. ASSUME pending # NoEntry PROVE pending' \in Appends
        <4>1. pending \in Appends
          BY <3>2 DEF Typed
        <4>2. pending.at \in Int
          BY <4>1 DEF Appends
        <4>3. pending' = [pending EXCEPT !.at = pending.at + skew - s]
          BY <1>4, <3>2 DEF StepClock
        <4> QED BY <2>0, <4>1, <4>2, <4>3 DEF Appends
      <3> QED BY <3>1, <3>2
    <2>3. UNCHANGED <<stage, files, pos, drained, prepared, receipts, todo, cur, step, dead>> /\ skew' = s
      BY <1>4 DEF StepClock, disk, pass
    <2> QED BY <2>1, <2>2, <2>3 DEF Typed
  <1> QED BY <1>1, <1>2, <1>3, <1>4

\* Every step keeps the types.
LEMMA TypedNext == ASSUME Typed, [Next]_vars PROVE Typed'
  <1>1. CASE UNCHANGED vars
    BY <1>1 DEF Typed, vars, disk, build, writer, pass, view, env
  <1> QED BY <1>1, CollectTyped, PassTyped, IngestTyped, EnvTyped DEF Next, Gc
-----------------------------------------------------------------------------
(* Time and clock steps.                                                   *)

\* Real time advances by e and the clock by d: what is gone stays gone, and
\* removals and appends are no older than before.
LEMMA TimeKeeps ==
    ASSUME Typed, LogInv, PendingInv, Typed',
           NEW d \in Int, NEW e \in {0, 1}, Shift(d), skew' = skew + e - d, stage' = stage,
           \A p \in Parts : dead'[p] = IF e = 1 /\ p \in Removes(log) /\ dead[p] <= ReadMax
                                       THEN dead[p] + 1 ELSE dead[p],
           pending # NoEntry => pending.real + e <= AppendMax,
           pending = NoEntry => pending' = NoEntry,
           pending # NoEntry => /\ pending'.at = pending.at + d /\ pending'.real = pending.real + e
                                /\ pending'.adds = pending.adds /\ pending'.removes = pending.removes
    PROVE  /\ LogInv' /\ PendingInv'
           /\ \A p \in Parts : stage[p] # "none" /\ Gone(p) => Gone(p)'
  <1>1. /\ Adds(log') = Adds(log) /\ Removes(log') = Removes(log) /\ DOMAIN log' = DOMAIN log
        /\ \A i \in DOMAIN log : /\ log'[i].removes = log[i].removes
                                 /\ log[i].removes # {} => log'[i].at <= log[i].at + d
        /\ \A p \in Parts : stage[p] # "none" =>
             /\ born'[p] <= born[p] + d
             /\ born'[p] = born[p] + d \/ born'[p] >= Memory + Margin + StepBack
    BY Shifted
  <1>2. /\ Adds(log) \subseteq Parts /\ Removes(log) \subseteq Parts
        /\ \A p \in Parts : born[p] \in Int /\ born'[p] \in Int /\ dead[p] \in Nat
        /\ skew \in 0..StepBack /\ skew' \in 0..StepBack /\ e \in Int
    BY LogParts DEF Typed
  <1>3. LogInv'
    <2>1. ASSUME NEW i \in DOMAIN log, NEW p \in log[i].removes, dead'[p] <= ReadMax
          PROVE  log'[i].at + skew' <= dead'[p] + AppendMax + StepBack
      <3>1. p \in Removes(log)
        BY DEF Removes
      <3>2. p \in Parts /\ dead[p] <= ReadMax /\ dead'[p] = dead[p] + e
        BY <1>2, <2>1, <3>1, Consts
      <3>3. log[i].at + skew <= dead[p] + AppendMax + StepBack
        BY <3>2 DEF LogInv
      <3>4. log[i] \in Entries /\ log'[i] \in Entries
        BY <1>1, LenProperties, ElementOfSeq DEF Typed
      <3>5. log[i].at \in Int /\ log'[i].at \in Int /\ log'[i].at <= log[i].at + d
        BY <1>1, <3>4 DEF Entries
      <3> QED BY <1>2, <3>2, <3>3, <3>5, Consts
    <2>2. \A p \in Adds(log) : Written(p)'
      BY DEF LogInv, Written
    <2> QED BY <1>1, <2>1, <2>2 DEF LogInv
  <1>4. PendingInv'
    <2> SUFFICES ASSUME pending' # NoEntry PROVE PendingInv'
      BY DEF PendingInv
    <2>1. pending \in Appends /\ pending # NoEntry
      BY DEF Typed
    <2>2. pending.at \in Int /\ pending.real \in Nat /\ pending.adds \subseteq Parts
      BY <2>1 DEF Appends
    <2>3. pending'.real <= AppendMax /\ pending'.at + skew' <= pending'.real + StepBack
      BY <1>2, <2>1, <2>2, Consts DEF PendingInv
    <2>4. pending'.removes \subseteq Live(log')
      BY <1>1, <2>1 DEF PendingInv, Live
    <2>5. ASSUME NEW p \in pending.adds
          PROVE  /\ stage'[p] = "uploaded" /\ p \notin Adds(log')
                 /\ born'[p] + skew' <= Memory + StepBack + pending'.real
      <3>1. /\ stage[p] = "uploaded" /\ p \notin Adds(log) /\ p \in Parts
            /\ born[p] + skew <= Memory + StepBack + pending.real
        BY <2>1, <2>2 DEF PendingInv
      <3> QED BY <1>1, <1>2, <2>1, <2>2, <3>1, Consts
    <2> QED BY <2>1, <2>3, <2>4, <2>5 DEF PendingInv
  <1>5. ASSUME NEW p \in Parts, stage[p] # "none", Gone(p) PROVE Gone(p)'
    <2>1. CASE p \in Removes(log) /\ dead[p] > ReadMax
      BY <1>1, <1>2, <2>1, Consts DEF Gone
    <2>2. CASE p \notin Adds(log) /\ TooOld(p)
      BY <1>1, <1>2, <1>5, <2>2, Consts DEF Gone, TooOld
    <2> QED BY <1>5, <2>1, <2>2 DEF Gone
  <1> QED BY <1>3, <1>4, <1>5

\* A tick, or a step of the clock.
LEMMA TimeNext ==
    ASSUME GcInv, Typed', Tick \/ \E s \in 0..StepBack : StepClock(s)
    PROVE  GcInv'
  <1>1. /\ LogInv' /\ PendingInv'
        /\ \A p \in Parts : stage[p] # "none" /\ Gone(p) => Gone(p)'
    <2>1. CASE Tick
      <3>1. pending # NoEntry => pending \in Appends
        BY DEF GcInv, Typed
      <3>2. pending # NoEntry => /\ pending.real \in Nat /\ pending.real < AppendMax
                                 /\ pending'.at = pending.at + 1 /\ pending'.real = pending.real + 1
                                 /\ pending'.adds = pending.adds /\ pending'.removes = pending.removes
        BY <2>1, <3>1 DEF Tick, Appends
      <3>3. pending # NoEntry => pending.real + 1 <= AppendMax
        BY <3>2, Consts
      <3>4. skew' = skew + 1 - 1
        BY <2>1 DEF Tick, env, GcInv, Typed
      <3>5. /\ Shift(1) /\ stage' = stage /\ (pending = NoEntry => pending' = NoEntry)
            /\ \A p \in Parts : dead'[p] = IF p \in Removes(log) /\ dead[p] <= ReadMax
                                           THEN dead[p] + 1 ELSE dead[p]
        BY <2>1 DEF Tick
      <3> QED BY <3>2, <3>3, <3>4, <3>5, TimeKeeps DEF GcInv
    <2>2. ASSUME NEW s \in 0..StepBack, StepClock(s)
          PROVE  /\ LogInv' /\ PendingInv'
                 /\ \A p \in Parts : stage[p] # "none" /\ Gone(p) => Gone(p)'
      <3> DEFINE d == skew - s
      <3>1. s \in Int /\ skew \in Int /\ d \in Int /\ s = skew + 0 - d
        BY Consts DEF GcInv, Typed
      <3>2. pending # NoEntry => pending \in Appends
        BY DEF GcInv, Typed
      <3>3. pending # NoEntry => /\ pending.real \in Nat
                                 /\ pending'.at = pending.at + d /\ pending'.real = pending.real + 0
                                 /\ pending'.adds = pending.adds /\ pending'.removes = pending.removes
        BY <2>2, <3>1, <3>2 DEF StepClock, Appends
      <3>4. pending # NoEntry => pending.real + 0 <= AppendMax
        BY <3>3 DEF GcInv, PendingInv
      <3>5. /\ Shift(d) /\ stage' = stage /\ (pending = NoEntry => pending' = NoEntry) /\ skew' = s
            /\ \A p \in Parts : dead'[p] = dead[p]
        BY <2>2 DEF StepClock
      <3> HIDE DEF d
      <3> QED BY <3>1, <3>3, <3>4, <3>5, TimeKeeps DEF GcInv
    <2> QED BY <2>1, <2>2
  <1>2. UNCHANGED <<stage, files, prepared, receipts, todo, cur, step>>
    BY DEF Tick, StepClock, disk, pass
  <1>3. Adds(log') = Adds(log)
    <2>1. \E d \in Int : Shift(d)
      <3>1. \A s \in 0..StepBack : skew - s \in Int
        BY Consts DEF GcInv, Typed
      <3> QED BY <3>1 DEF Tick, StepClock
    <2> QED BY <2>1, Shifted DEF GcInv
  <1>4. FilesInv'
    <2>1. \A key \in files : Written(key[1])'
      BY <1>2 DEF GcInv, FilesInv, Written
    <2>2. ASSUME NEW p \in Parts, NEW kind \in Kinds,
                 stage[p] = "uploaded" \/ p \in Adds(log), <<p, kind>> \notin files
          PROVE  Gone(p)'
      <3>1. Gone(p)
        BY <2>2 DEF GcInv, FilesInv
      <3>2. stage[p] # "none"
        BY <2>2 DEF GcInv, LogInv, Written
      <3> QED BY <1>1, <3>1, <3>2
    <2> QED BY <1>2, <1>3, <2>1, <2>2 DEF FilesInv
  <1>5. PassInv'
    <2>1. ASSUME step = "unlink", cur.key \in files PROVE Gone(cur.key[1])'
      <3>1. cur \in Requests
        BY <2>1 DEF GcInv, Typed
      <3>2. cur.key[1] \in Parts /\ stage[cur.key[1]] # "none" /\ Gone(cur.key[1])
        BY <2>1, <3>1 DEF GcInv, PassInv, Written, Requests
      <3> QED BY <1>1, <1>2, <3>2
    <2> QED BY <1>2, <2>1 DEF GcInv, PassInv, Written
  <1> QED BY <1>1, <1>4, <1>5 DEF GcInv
-----------------------------------------------------------------------------
(* The pass.                                                               *)

\* A present file that passes check_request belongs to a part that is gone.
LEMMA Checked ==
    ASSUME Typed, LogInv, NEW r \in Requests, CheckRequest(r), r.key \in files
    PROVE  Gone(r.key[1])
  <1> DEFINE p == r.key[1]
  <1>1. Seen = log /\ log \in Seq(Entries) /\ p \in Parts
    BY Fold DEF CheckRequest, Typed, Requests
  <1>2. Plan(log, r.key) # "none"
    BY <1>1 DEF CheckRequest, Requests, Reasons
  <1>3. /\ p \notin Live(log)
        /\ p \in Removes(log) => ~(Removal(log, p).at < Grace)
        /\ p \notin Removes(log) => born[p] >= Memory + Margin
    BY <1>1, <1>2, Planned
  <1>4. born[p] \in Int /\ dead[p] \in Nat /\ skew \in 0..StepBack
    BY <1>1 DEF Typed
  <1> HIDE DEF p
  <1>5. CASE p \in Removes(log)
    <2>1. PICK i \in DOMAIN log : Removal(log, p) = log[i] /\ p \in log[i].removes /\ log[i].at \in Int
      BY <1>1, <1>5, RemovalEntry
    <2>2. dead[p] <= ReadMax => log[i].at + skew <= dead[p] + AppendMax + StepBack
      BY <2>1 DEF LogInv
    <2>3. dead[p] > ReadMax
      BY <1>3, <1>4, <1>5, <2>1, <2>2, Consts
    <2> QED BY <1>5, <2>3 DEF Gone, p
  <1>6. CASE p \notin Removes(log)
    <2>1. p \notin Adds(log)
      BY <1>3, <1>6 DEF Live
    <2>2. TooOld(p)
      BY <1>3, <1>4, <1>6, Consts DEF TooOld
    <2> QED BY <2>1, <2>2 DEF Gone, p
  <1> QED BY <1>5, <1>6

\* Nothing but the pass and the disk changes.
LEMMA GoneSame ==
    ASSUME UNCHANGED <<build, writer, skew>>
    PROVE  (\A p : Gone(p)' = Gone(p) /\ Written(p)' = Written(p)) /\ LogInv' = LogInv /\ PendingInv' = PendingInv
  BY DEF build, writer, Gone, Written, TooOld, LogInv, PendingInv

\* The requests a pass starts with belong to written parts.
LEMMA CollectNext == ASSUME GcInv, Typed', Collect PROVE GcInv'
  <1> DEFINE eligible == Eligible(Seen, Listed(Seen))
             gone == {r \in prepared : r.key \notin files}
  <1>1. PICK chosen \in SUBSET eligible, recovered \in SUBSET gone :
               Start({Request(Seen, key) : key \in chosen} \cup recovered)
    BY DEF Collect, kSubset
  <1>2. \A key \in chosen : Written(Request(Seen, key).key[1])
    BY DEF Eligible, Listed, Request, GcInv, FilesInv
  <1>3. \A r \in recovered : Written(r.key[1])
    BY DEF GcInv, PassInv, Typed
  <1>4. (\A r \in todo' : Written(r.key[1])) /\ cur' = NoRequest /\ step' \in {"idle", "permit"}
    BY <1>1, <1>2, <1>3 DEF Start
  <1>5. UNCHANGED <<build, writer, skew, files, prepared, receipts>>
    BY DEF Collect, disk, env
  <1>6. NoRequest \notin Requests
    BY DEF NoRequest, Requests, Reasons
  <1>7. LogInv' /\ PendingInv' /\ FilesInv'
    BY <1>5, GoneSame DEF GcInv, FilesInv, build, writer
  <1>8. PassInv'
    BY <1>4, <1>5, <1>6, GoneSame DEF GcInv, PassInv
  <1> QED BY <1>7, <1>8 DEF GcInv

\* What a step of the pass other than its start keeps.
LEMMA PassNext ==
    ASSUME GcInv, Typed', CollectPaused \/ (\E r \in todo : Authorize(r)) \/ Prepare \/ Retire
                          \/ Unlink \/ Receipt \/ Clear \/ IoError
    PROVE  GcInv'
  <1>1. UNCHANGED <<build, writer, skew>>
    BY DEF CollectPaused, Authorize, Prepare, Retire, Unlink, Receipt, Clear, IoError, env
  <1>2. LogInv' /\ PendingInv'
    BY <1>1, GoneSame DEF GcInv
  <1>3. NoRequest \notin Requests
    BY DEF NoRequest, Requests, Reasons
  <1>4. \A r \in todo \cup prepared \cup receipts \cup {cur} : r \in Requests => Written(r.key[1])
    BY DEF GcInv, PassInv
  <1>5. CASE files' = files
    <2>1. FilesInv'
      BY <1>1, <1>5, GoneSame DEF GcInv, FilesInv, build, writer
    <2>2. todo' \cup prepared' \cup receipts' \cup {cur'} \subseteq todo \cup prepared \cup receipts \cup {cur, NoRequest}
      BY DEF CollectPaused, Authorize, Prepare, Retire, Unlink, Receipt, Clear, IoError, WorkerFailure, Proceed,
             Start, pass, disk
    <2>3. \A r \in todo' \cup prepared' \cup receipts' \cup {cur'} : r \in Requests => Written(r.key[1])'
      BY <1>1, <1>3, <1>4, <2>2, GoneSame
    <2>4. (step = "unlink" /\ cur.key \in files => Gone(cur.key[1]))'
      <3>1. CASE step' = "unlink" /\ step # "unlink"
        <4>1. Retire /\ CheckRequest(cur) /\ cur' = cur
          BY <3>1 DEF CollectPaused, Authorize, Prepare, Retire, Unlink, Receipt, Clear, IoError, WorkerFailure, Proceed,
                      Start, pass
        <4>2. cur \in Requests
          BY <4>1 DEF Retire, GcInv, Typed
        <4>3. cur.key \in files => Gone(cur.key[1])
          BY <4>1, <4>2, Checked DEF GcInv
        <4> QED BY <1>1, <1>5, <4>1, <4>3 DEF Gone, TooOld, build, writer
      <3>2. CASE step' = "unlink" /\ step = "unlink"
        <4>1. FALSE
          BY <3>2 DEF CollectPaused, Authorize, Prepare, Retire, Unlink, Receipt, Clear, IoError, WorkerFailure, Proceed,
                      Start, pass
        <4> QED BY <4>1
      <3> QED BY <3>1, <3>2
    <2>5. /\ step' \in {"receipt", "clear"} => cur'.key \notin files'
          /\ \A r \in receipts' : r.key \notin files'
      <3>1. CASE Receipt
        BY <1>5, <3>1 DEF Receipt, GcInv, PassInv
      <3>2. CASE Unlink
        BY <3>2 DEF Unlink, GcInv, PassInv
      <3>3. CASE ~Receipt /\ ~Unlink
        <4>1. receipts' = receipts /\ (step' \notin {"receipt", "clear"})
          BY <3>3 DEF CollectPaused, Authorize, Prepare, Retire, Clear, IoError, WorkerFailure, Proceed,
                      Start, pass, disk
        <4> QED BY <1>5, <4>1 DEF GcInv, PassInv
      <3> QED BY <3>1, <3>2, <3>3
    <2>6. PassInv'
      BY <1>5, <2>3, <2>4, <2>5 DEF PassInv
    <2> QED BY <1>2, <2>1, <2>6 DEF GcInv
  <1>6. CASE Unlink
    <2>1. /\ files' = files \ {cur.key} /\ step = "unlink" /\ step' = "receipt"
          /\ UNCHANGED <<prepared, receipts, todo, cur>> /\ cur \in Requests
      BY <1>6 DEF Unlink, GcInv, Typed
    <2>2. FilesInv'
      <3>1. \A key \in files' : Written(key[1])'
        BY <1>1, <2>1, GoneSame DEF GcInv, FilesInv
      <3>2. ASSUME NEW p \in Parts, NEW kind \in Kinds,
                   stage[p] = "uploaded" \/ p \in Adds(log), <<p, kind>> \notin files'
            PROVE  Gone(p)
        <4>1. CASE <<p, kind>> \notin files
          BY <3>2, <4>1 DEF GcInv, FilesInv
        <4>2. CASE <<p, kind>> = cur.key /\ cur.key \in files
          BY <2>1, <4>2 DEF GcInv, PassInv
        <4> QED BY <2>1, <3>2, <4>1, <4>2
      <3> QED BY <1>1, <3>1, <3>2, GoneSame DEF FilesInv, build, writer
    <2>3. PassInv'
      BY <1>1, <1>4, <2>1, GoneSame DEF GcInv, PassInv
    <2> QED BY <1>2, <2>2, <2>3 DEF GcInv
  <1> QED BY <1>5, <1>6 DEF CollectPaused, Authorize, Prepare, Retire, Receipt, Clear, IoError, disk
-----------------------------------------------------------------------------
(* The writer and restarts.                                                *)

\* A new part: its id is born, its files appear.
LEMMA BuildNext == ASSUME GcInv, Typed', NEW q \in Parts, Begin(q) \/ Upload(q) PROVE GcInv'
  <1>1. /\ stage[q] \in {"none", "building"} /\ ~Written(q)
        /\ UNCHANGED <<log, pending, dead, skew, prepared, receipts, todo, cur, step>>
    BY DEF Begin, Upload, Written, writer, pass, disk, env
  <1>2. \A p \in Parts \ {q} : stage'[p] = stage[p] /\ born'[p] = born[p]
    BY DEF Begin, Upload, GcInv, Typed
  <1>3. /\ \A p \in Parts : Written(p) => Written(p)' /\ p # q
        /\ \A p \in Parts : p # q => (Gone(p)' <=> Gone(p))
    BY <1>1, <1>2 DEF Written, Gone, TooOld
  <1>4. Adds(log) \subseteq Parts
    BY LogParts DEF GcInv, Typed
  <1>5. q \notin Adds(log)
    BY <1>1 DEF GcInv, LogInv
  <1>6. LogInv'
    BY <1>1, <1>3, <1>4 DEF GcInv, LogInv
  <1>7. PendingInv'
    <2>1. pending # NoEntry => pending.adds \subseteq Parts
      BY DEF GcInv, Typed, Appends
    <2>2. pending # NoEntry => \A p \in pending.adds : stage'[p] = "uploaded" /\ born'[p] = born[p]
      BY <1>1, <1>2, <2>1 DEF GcInv, PendingInv
    <2> QED BY <1>1, <2>2 DEF GcInv, PendingInv
  <1>8. files' = files \/ (files' = files \cup ({q} \X Kinds) /\ stage'[q] = "uploaded")
    BY DEF Begin, Upload, disk, GcInv, Typed
  <1>9. FilesInv'
    <2>1. \A key \in files' : Written(key[1])'
      <3>1. \A key \in files : Written(key[1])'
        BY <1>3 DEF GcInv, Typed, FilesInv
      <3>2. stage'[q] = "uploaded" => \A key \in {q} \X Kinds : Written(key[1])'
        BY DEF Written
      <3> QED BY <1>8, <3>1, <3>2
    <2>2. ASSUME NEW p \in Parts, NEW kind \in Kinds,
                 stage'[p] = "uploaded" \/ p \in Adds(log), <<p, kind>> \notin files'
          PROVE  Gone(p)'
      <3>1. p # q
        BY <1>5, <2>2 DEF Begin, Upload, GcInv, Typed
      <3> QED BY <1>2, <1>3, <1>8, <2>2, <3>1 DEF GcInv, FilesInv
    <2> QED BY <1>1, <2>1, <2>2 DEF FilesInv
  <1>10. PassInv'
    <2>1. \A r \in Requests : Written(r.key[1]) => Written(r.key[1])' /\ r.key[1] # q /\ (r.key \in files' <=> r.key \in files)
      BY <1>1, <1>3, <1>8 DEF Requests
    <2>2. todo \cup prepared \cup receipts \subseteq Requests
      BY DEF GcInv, Typed
    <2>3. \A r \in todo \cup prepared \cup receipts \cup {cur} : r \in Requests => Written(r.key[1])
      BY DEF GcInv, PassInv
    <2>4. \A r \in receipts : r.key \notin files'
      BY <2>1, <2>2, <2>3 DEF GcInv, PassInv
    <2>5. step \notin {"idle", "permit"} => cur \in Requests
      BY DEF GcInv, Typed
    <2>6. step \in {"receipt", "clear"} => cur.key \notin files'
      BY <2>1, <2>3, <2>5 DEF GcInv, PassInv
    <2>7. ASSUME step = "unlink", cur.key \in files' PROVE Gone(cur.key[1])'
      <3>1. cur.key[1] \in Parts /\ cur.key[1] # q /\ Gone(cur.key[1])
        BY <2>1, <2>3, <2>5, <2>7 DEF GcInv, PassInv, Requests
      <3> QED BY <1>1, <1>3, <3>1
    <2> QED BY <1>1, <2>1, <2>3, <2>4, <2>6, <2>7 DEF PassInv
  <1> QED BY <1>6, <1>7, <1>9, <1>10 DEF GcInv

\* An entry is stamped, or turns out not to have landed.
LEMMA StampNext ==
    ASSUME GcInv, Typed',
           NotLanded \/ \E op \in {"add", "merge", "retire"}, adds \in SUBSET Parts, removes \in SUBSET Parts :
                            Stamp(op, adds, removes)
    PROVE  GcInv'
  <1>1. UNCHANGED <<stage, born, log, dead, skew, files, prepared, receipts, todo, cur, step>>
    BY DEF Stamp, NotLanded, disk, build, pass, env
  <1>2. LogInv' /\ FilesInv' /\ PassInv'
    BY <1>1 DEF GcInv, LogInv, FilesInv, PassInv, Written, Gone, TooOld
  <1>3. PendingInv'
    <2>1. CASE NotLanded
      BY <2>1 DEF NotLanded, PendingInv
    <2>2. ASSUME NEW op, NEW adds \in SUBSET Parts, NEW removes, Stamp(op, adds, removes)
          PROVE  PendingInv'
      <3>1. /\ pending'.adds = adds /\ pending'.removes = removes /\ pending'.at = 0 /\ pending'.real = 0
            /\ removes \subseteq Live(log) /\ \A p \in adds : AddAllowed(p)
        BY <2>2 DEF Stamp
      <3>2. skew \in 0..StepBack /\ \A p \in Parts : born[p] \in Int
        BY DEF GcInv, Typed
      <3>3. \A p \in adds : /\ stage'[p] = "uploaded" /\ p \notin Adds(log')
                            /\ born'[p] + skew' <= Memory + StepBack + 0
        BY <1>1, <3>1, <3>2, Consts DEF AddAllowed
      <3> QED BY <1>1, <3>1, <3>2, <3>3, Consts DEF PendingInv
    <2> QED BY <2>1, <2>2
  <1> QED BY <1>2, <1>3 DEF GcInv

\* The append under way takes effect: it adds nothing that is gone, and its
\* removals are fresh.
LEMMA LandNext == ASSUME GcInv, Typed', Land PROVE GcInv'
  <1>1. PICK e \in Entries : /\ log' = Append(log, e) /\ e.adds = pending.adds
                             /\ e.removes = pending.removes /\ e.at = pending.at
    BY LandEntry DEF GcInv
  <1>2. log \in Seq(Entries) /\ pending \in Appends /\ pending # NoEntry
    BY DEF Land, GcInv, Typed
  <1>3. /\ Adds(log') = Adds(log) \cup pending.adds
        /\ Removes(log') = Removes(log) \cup pending.removes
    BY <1>1, <1>2, AppendedLog
  <1>4. /\ UNCHANGED <<stage, born, skew, files, prepared, receipts, todo, cur, step>>
        /\ pending' = NoEntry
        /\ \A p \in Parts : dead'[p] = IF p \in pending.removes THEN 0 ELSE dead[p]
    BY DEF Land, disk, build, pass, env
  <1>5. /\ pending.removes \subseteq Adds(log) /\ pending.removes \cap Removes(log) = {}
        /\ pending.adds \subseteq Parts /\ pending.removes \subseteq Parts
        /\ pending.at \in Int /\ pending.real \in Nat /\ skew \in 0..StepBack
        /\ \A p \in Parts : born[p] \in Int /\ dead[p] \in Nat
    BY <1>2 DEF GcInv, PendingInv, Live, Typed, Appends
  <1>6. Adds(log) \subseteq Parts /\ Removes(log) \subseteq Parts
    BY <1>2, LogParts
  <1>7. \A p \in pending.adds : stage[p] = "uploaded" /\ ~TooOld(p)
    <2>1. pending.real <= AppendMax
      BY <1>2 DEF GcInv, PendingInv
    <2>2. ASSUME NEW p \in pending.adds PROVE ~TooOld(p)
      <3>1. born[p] + skew <= Memory + StepBack + pending.real /\ p \in Parts
        BY <1>2, <1>5 DEF GcInv, PendingInv
      <3> QED BY <1>5, <2>1, <3>1, Consts DEF TooOld
    <2> QED BY <1>2, <2>2 DEF GcInv, PendingInv
  <1>8. ASSUME NEW p \in Parts, Gone(p) PROVE Gone(p)'
    <2>1. CASE p \in Removes(log) /\ dead[p] > ReadMax
      BY <1>3, <1>4, <1>5, <2>1 DEF Gone
    <2>2. CASE p \notin Adds(log) /\ TooOld(p)
      BY <1>3, <1>4, <1>7, <2>2 DEF Gone, TooOld
    <2> QED BY <1>8, <2>1, <2>2 DEF Gone
  <1>9. LogInv'
    <2>1. Removes(log') \subseteq Adds(log')
      BY <1>3, <1>5 DEF GcInv, LogInv
    <2>2. \A p \in Adds(log') : Written(p)'
      BY <1>3, <1>4, <1>7 DEF GcInv, LogInv, Written
    <2>3. /\ Len(log) \in Nat /\ DOMAIN log = 1..Len(log) /\ DOMAIN log' = 1..(Len(log) + 1)
          /\ \A i \in 1..Len(log) : log'[i] = log[i]
          /\ log'[Len(log) + 1] = e
      BY <1>1, <1>2, LenProperties, AppendProperties
    <2>4. ASSUME NEW i \in DOMAIN log', NEW p \in log'[i].removes, dead'[p] <= ReadMax
          PROVE  log'[i].at + skew' <= dead'[p] + AppendMax + StepBack
      <3>1. CASE i \in 1..Len(log)
        <4>1. p \in log[i].removes /\ i \in DOMAIN log
          BY <2>3, <3>1
        <4>2. p \in Removes(log)
          BY <4>1 DEF Removes
        <4>3. dead'[p] = dead[p]
          BY <1>4, <1>5, <1>6, <4>2
        <4> QED BY <1>4, <2>3, <2>4, <3>1, <4>1, <4>3 DEF GcInv, LogInv
      <3>2. CASE i = Len(log) + 1
        <4>1. log'[i] = e /\ p \in pending.removes /\ dead'[p] = 0
          BY <1>1, <1>4, <1>5, <2>3, <3>2
        <4>2. pending.real <= AppendMax /\ pending.at + skew <= pending.real + StepBack
          BY <1>2 DEF GcInv, PendingInv
        <4> QED BY <1>1, <1>4, <1>5, <4>1, <4>2, Consts
      <3> QED BY <2>3, <3>1, <3>2
    <2> QED BY <2>1, <2>2, <2>4 DEF LogInv
  <1>10. PendingInv'
    BY <1>4 DEF PendingInv
  <1>11. FilesInv'
    <2>1. ASSUME NEW p \in Parts, NEW kind \in Kinds,
                 stage[p] = "uploaded" \/ p \in Adds(log'), <<p, kind>> \notin files
          PROVE  Gone(p)'
      <3>1. Gone(p)
        BY <1>3, <1>7, <2>1 DEF GcInv, FilesInv
      <3> QED BY <1>8, <3>1
    <2> QED BY <1>4, <2>1 DEF GcInv, FilesInv, Written
  <1>12. PassInv'
    <2>1. ASSUME step = "unlink", cur.key \in files PROVE Gone(cur.key[1])'
      <3>1. cur.key[1] \in Parts /\ Gone(cur.key[1])
        BY <2>1 DEF GcInv, Typed, PassInv, Requests
      <3> QED BY <1>4, <1>8, <3>1
    <2> QED BY <1>4, <2>1 DEF GcInv, PassInv, Written
  <1> QED BY <1>9, <1>10, <1>11, <1>12 DEF GcInv

\* After a crash nothing is under way, and what was built is never added.
LEMMA CrashNext == ASSUME GcInv, Typed', Crash PROVE GcInv'
  <1>1. /\ UNCHANGED <<born, log, dead, skew, files, prepared, receipts>>
        /\ pending' = NoEntry /\ todo' = {} /\ cur' = NoRequest /\ step' = "idle"
    BY DEF Crash, Start, disk
  <1>2. \A p \in Parts : (Written(p) => Written(p)') /\ stage'[p] # "uploaded" /\ (Gone(p)' <=> Gone(p))
    BY <1>1 DEF Crash, Written, Gone, TooOld, GcInv, Typed
  <1>3. Adds(log) \subseteq Parts /\ \A r \in Requests : r.key[1] \in Parts
    BY LogParts DEF GcInv, Typed, Requests
  <1>4. NoRequest \notin Requests
    BY DEF NoRequest, Requests, Reasons
  <1>5. LogInv' /\ PendingInv'
    BY <1>1, <1>2, <1>3 DEF GcInv, LogInv, PendingInv
  <1>6. FilesInv'
    BY <1>1, <1>2 DEF GcInv, FilesInv, Typed
  <1>7. PassInv'
    BY <1>1, <1>2, <1>3, <1>4 DEF GcInv, PassInv
  <1> QED BY <1>5, <1>6, <1>7 DEF GcInv

\* Every step keeps the invariant.
LEMMA GcNext == ASSUME GcInv, [Next]_vars PROVE GcInv'
  <1>1. Typed'
    BY TypedNext DEF GcInv
  <1>2. CASE UNCHANGED vars \/ ChangeSetting
    <2>1. UNCHANGED <<stage, born, log, dead, skew, pending, files, prepared, receipts, todo, cur, step>>
      BY <1>2 DEF vars, ChangeSetting, disk, build, writer, pass, view, env
    <2> QED BY <1>1, <2>1 DEF GcInv, LogInv, PendingInv, FilesInv, PassInv, Written, Gone, TooOld
  <1>3. CASE Ingest
    <2>1. ASSUME NEW p \in Parts, Add(p) PROVE GcInv'
      BY <1>1, <2>1, StampNext DEF Add
    <2>2. ASSUME NEW p \in Parts, NEW inputs \in SUBSET Parts, Merge(p, inputs) PROVE GcInv'
      BY <1>1, <2>2, StampNext DEF Merge
    <2>3. ASSUME NEW inputs \in SUBSET Parts, RetireExpired(inputs) PROVE GcInv'
      BY <1>1, <2>3, StampNext DEF RetireExpired
    <2> QED BY <1>1, <1>3, <2>1, <2>2, <2>3, BuildNext, LandNext, StampNext DEF Ingest
  <1> QED BY <1>1, <1>2, <1>3, CollectNext, PassNext, CrashNext, TimeNext DEF Next, Gc

\* Nothing is built, logged or under way at first.
LEMMA GcInit == ASSUME Init PROVE GcInv
  <1>1. Neutral \in Entries
    BY DEF Neutral, Entries
  <1>2. log \in [1..Earlier -> Entries] /\ DOMAIN log = 1..Earlier
    BY <1>1 DEF Init
  <1>3. log \in Seq(Entries) /\ Len(log) \in Nat
    BY <1>2, LenProperties, Consts
  <1>4. Adds(log) = {} /\ Removes(log) = {}
    BY DEF Init, Adds, Removes, Neutral
  <1>5. Typed
    BY <1>3, Consts DEF Init, Typed, Stages, Steps
  <1>6. NoRequest \notin Requests
    BY DEF NoRequest, Requests, Reasons
  <1>7. LogInv
    BY <1>4 DEF Init, LogInv, Neutral
  <1>8. PendingInv /\ FilesInv /\ PassInv
    BY <1>4, <1>6 DEF Init, PendingInv, FilesInv, PassInv
  <1> QED BY <1>5, <1>7, <1>8 DEF GcInv

-----------------------------------------------------------------------------
(* The theorems.                                                           *)

\* Between appends, passes, crashes, failed file operations and clock steps in
\* any order, the invariant holds.
THEOREM GcInvariant == Spec => []GcInv
  <1>1. Init => GcInv
    BY GcInit
  <1>2. GcInv /\ [Next]_vars => GcInv'
    BY GcNext
  <1> QED BY <1>1, <1>2, PTL DEF Spec

\* The state of the collector is well formed: catch_up's bounded fold never
\* claims to have read past the head.
THEOREM GcTyped == Spec => []TypeOK
  <1>1. GcInv => TypeOK
    BY DEF GcInv, Typed, TypeOK, Stages, Steps
  <1> QED BY <1>1, GcInvariant, PTL

\* The collector never deletes a file of a part the log says is live, nor one
\* an append under way is about to make live.
THEOREM LiveFilesKept == Spec => []LiveFilesPresent
  <1>1. ASSUME GcInv PROVE LiveFilesPresent
    <2>1. ASSUME NEW p \in Live(log), NEW kind \in Kinds PROVE <<p, kind>> \in files
      <3>1. p \in Adds(log) /\ p \notin Removes(log) /\ p \in Parts
        BY <1>1, LogParts DEF Live, GcInv, Typed
      <3> QED BY <1>1, <3>1 DEF GcInv, FilesInv, Gone
    <2> QED BY <2>1 DEF LiveFilesPresent
  <1> QED BY <1>1, GcInvariant, PTL

\* A query finds the data of every part that was live when it started, for as
\* long as queries may read: the grace window covers the append's time to land
\* and any step of the clock.
THEOREM ReadersServed == Spec => []ReadersFindFiles
  <1>1. ASSUME GcInv PROVE ReadersFindFiles
    <2>1. ASSUME NEW p \in Removes(log), dead[p] <= ReadMax PROVE <<p, "data">> \in files
      <3>1. p \in Adds(log) /\ p \in Parts /\ dead[p] \in Nat
        BY <1>1, LogParts DEF GcInv, LogInv, Typed
      <3>2. ~Gone(p)
        BY <2>1, <3>1, Consts DEF Gone
      <3> QED BY <1>1, <3>1, <3>2 DEF GcInv, FilesInv, Kinds
    <2> QED BY <2>1 DEF ReadersFindFiles
  <1> QED BY <1>1, GcInvariant, PTL

\* A receipt is written after its file is gone, and no later build, pass or
\* recovery brings that file back.
THEOREM ReceiptsStayTrue == Spec => []ReceiptsTrue
  <1>1. GcInv => ReceiptsTrue
    BY DEF GcInv, PassInv, ReceiptsTrue
  <1> QED BY <1>1, GcInvariant, PTL
==============================================================================
