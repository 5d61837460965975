-------------------------- MODULE Retention_proofs --------------------------
(***************************************************************************)
(* What Retention keeps for any workers, items, memories and dates.        *)
(*                                                                         *)
(* The argument has three parts.  While somebody holds the lock nobody     *)
(* else writes, so what an apply found ready stays ready until it commits, *)
(* and a backup file stays what the memories are.  The items applied to a  *)
(* memory and not rolled back form a stack: each one's before is what the  *)
(* ones below it reached.  And a rollback takes the top: an archival or an *)
(* expiry moves the state forward for good, so that the memory cannot look *)
(* as it left it once another item was applied on top.                     *)
(***************************************************************************)
EXTENDS Retention, TLAPS

Holding == {"apply", "batch", "backed"}

(* A call that holds the lock: its items are ready, one per memory; once    *)
(* they are backed up there is a file of the memories as they are.          *)
Prepared ==
    \A w \in Workers : call[w].step \in Holding =>
        /\ lock = w
        /\ \A i \in call[w].items : Ready(i)
        /\ \A i, j \in call[w].items : i # j => item[i].mem # item[j].mem
        /\ call[w].step = "backed" =>
             \E b \in backups :
                 /\ b.items = call[w].items
                 /\ \A i \in b.items : b.memory[item[i].mem].life = memory[item[i].mem].life

(* How far a life is on the way from valid to archived.                     *)
Rank(life) == IF life.state = "archived" THEN 2 ELSE IF life.state = "stale" THEN 1 ELSE 0

Done == {"applied", "rolled_back"}

(* Rows that were applied say from where to where, and when.                *)
Rows ==
    \A i \in Items :
        /\ item[i].status \notin Done => item[i].batch = {}
        /\ item[i].status \in Done =>
             /\ item[i].before \in Life
             /\ item[i].applied \in Life
             /\ turn[i] <= turns

On(m, it) == {i \in Items : it[i].status = "applied" /\ it[i].mem = m}
Below(i, m, it, tn) == {j \in On(m, it) : tn[j] < tn[i]}

(* The items of S, in the order of their turns, lead memory m from Start to *)
(* life, and of those that move it forward only the last one leaves it so.  *)
Reached(m, S, life, it, tn) ==
    /\ S = {} => life = Start[m].life
    /\ \A i \in S : (\A j \in S : tn[j] <= tn[i]) => life = it[i].applied
    /\ \A i \in S : Rank(it[i].applied) <= Rank(life)
    /\ \A i \in S : it[i].action # "revalidate" =>
         /\ Rank(it[i].applied) > 0
         /\ life = it[i].applied => \A j \in S : tn[j] <= tn[i]

Stacked(m, life, it, tn) ==
    /\ Reached(m, On(m, it), life, it, tn)
    /\ \A i \in On(m, it) : Reached(m, Below(i, m, it, tn), it[i].before, it, tn)
    /\ \A i, j \in On(m, it) : tn[i] = tn[j] => i = j

History == \A m \in Mems \ foreign : Stacked(m, memory[m].life, item, turn)

IInv == TypeOK /\ Prepared /\ Rows /\ History /\ BatchFromBackup
-----------------------------------------------------------------------------
(* What the retention actions do to a life.                                 *)
LEMMA AfterType ==
    ASSUME TypeOK, NEW i \in Items
    PROVE  LifeAfter(i) \in Life
<1> DEFINE life == memory[item[i].mem].life
<1>1. life \in Life /\ item[i].action \in Actions /\ now \in Nat
  BY DEF TypeOK, Row, Memory
<1>2. now + RevalidateIn \in Nat /\ now + ReviewIn \in Nat
  BY <1>1, ConstantsAssumption
<1>3. CASE item[i].action = "revalidate"
  BY <1>1, <1>2, <1>3 DEF LifeAfter, After, Life, Time
<1>4. CASE item[i].action = "archive"
  BY <1>1, <1>4 DEF LifeAfter, After, Life, Time, States
<1>5. CASE item[i].action = "expire"
  BY <1>1, <1>2, <1>5 DEF LifeAfter, After, Life, Time, States
<1> QED BY <1>1, <1>3, <1>4, <1>5 DEF Actions

(* An action leads on: rank grows, but for a revalidation, which needs and  *)
(* leaves the lowest.                                                       *)
LEMMA Forward ==
    ASSUME TypeOK, NEW i \in Items, Ready(i)
    PROVE  LET life == memory[item[i].mem].life IN
           /\ Rank(life) \in 0 .. 2
           /\ Rank(LifeAfter(i)) \in 0 .. 2
           /\ item[i].action = "revalidate" => Rank(life) = 0 /\ Rank(LifeAfter(i)) = 0
           /\ item[i].action # "revalidate" => Rank(life) < Rank(LifeAfter(i))
<1> DEFINE m == item[i].mem
           life == memory[m].life
<1>1. m \in Mems /\ life \in Life /\ item[i].action \in Actions
  BY DEF TypeOK, Row, Memory
<1>2. Rank(life) \in 0 .. 2 /\ Rank(LifeAfter(i)) \in 0 .. 2
  BY DEF Rank
<1>3. Proposed(m, memory[m], item[i].asOf) = item[i].action
  BY DEF Ready
<1>4. CASE item[i].action = "revalidate"
  <2>1. life.state = "validated"
    BY <1>3, <1>4 DEF Proposed
  <2>2. LifeAfter(i).state = "validated"
    BY <1>1, <1>4, <2>1 DEF LifeAfter, After, Life
  <2> QED BY <1>2, <1>4, <2>1, <2>2 DEF Rank
<1>5. CASE item[i].action = "archive"
  <2>1. life.state \in {"candidate", "validated", "stale"}
    BY <1>3, <1>5 DEF Proposed, Outlived
  <2>2. LifeAfter(i).state = "archived"
    BY <1>1, <1>5 DEF LifeAfter, After, Life
  <2> QED BY <1>2, <1>5, <2>1, <2>2 DEF Rank
<1>6. CASE item[i].action = "expire"
  <2>1. life.state = "validated"
    BY <1>3, <1>6 DEF Proposed, Expired
  <2>2. LifeAfter(i).state = "stale"
    BY <1>1, <1>6 DEF LifeAfter, After, Life
  <2> QED BY <1>2, <1>6, <2>1, <2>2 DEF Rank
<1> QED BY <1>1, <1>4, <1>5, <1>6 DEF Actions

(* A stack is about the rows and turns of its items only.                   *)
LEMMA ReachedSame ==
    ASSUME NEW m, NEW S, NEW life, NEW it, NEW tn, NEW it2, NEW tn2,
           Reached(m, S, life, it, tn),
           \A i \in S : /\ it2[i].applied = it[i].applied
                        /\ it2[i].action = it[i].action
                        /\ tn2[i] = tn[i]
    PROVE  Reached(m, S, life, it2, tn2)
BY DEF Reached

(* A stack of items depends on what was done by the items of its memory     *)
(* only.                                                                    *)
LEMMA StackedSame ==
    ASSUME NEW m, NEW life, NEW it, NEW tn, NEW it2, NEW tn2,
           Stacked(m, life, it, tn),
           On(m, it2) = On(m, it),
           \A i \in On(m, it) : /\ it2[i].applied = it[i].applied
                                /\ it2[i].before = it[i].before
                                /\ it2[i].action = it[i].action
                                /\ tn2[i] = tn[i]
    PROVE  Stacked(m, life, it2, tn2)
<1>1. Reached(m, On(m, it2), life, it2, tn2)
  BY ReachedSame DEF Stacked
<1>2. ASSUME NEW i \in On(m, it2)
      PROVE  Reached(m, Below(i, m, it2, tn2), it2[i].before, it2, tn2)
  <2>1. Below(i, m, it2, tn2) = Below(i, m, it, tn)
    BY DEF Below
  <2>2. Reached(m, Below(i, m, it, tn), it[i].before, it, tn)
    BY DEF Stacked
  <2>3. \A j \in Below(i, m, it, tn) : j \in On(m, it)
    BY DEF Below
  <2> QED BY <2>1, <2>2, <2>3, ReachedSame
<1>3. \A i, j \in On(m, it2) : tn2[i] = tn2[j] => i = j
  BY DEF Stacked
<1> QED BY <1>1, <1>2, <1>3 DEF Stacked

(* An apply puts its item on top.                                           *)
LEMMA Push ==
    ASSUME NEW m, NEW life, NEW it, NEW tn, NEW it2, NEW tn2, NEW k, NEW n \in Nat,
           Stacked(m, life, it, tn),
           k \notin On(m, it),
           On(m, it2) = On(m, it) \cup {k},
           \A i \in On(m, it) : /\ it2[i].applied = it[i].applied
                                /\ it2[i].before = it[i].before
                                /\ it2[i].action = it[i].action
                                /\ tn2[i] = tn[i]
                                /\ tn[i] \in Nat
                                /\ tn[i] <= n
                                /\ Rank(it[i].applied) \in 0 .. 2,
           tn2[k] = n + 1,
           it2[k].before = life,
           Rank(life) \in 0 .. 2,
           Rank(it2[k].applied) \in 0 .. 2,
           it2[k].action = "revalidate" => Rank(life) = 0 /\ Rank(it2[k].applied) = 0,
           it2[k].action # "revalidate" => Rank(life) < Rank(it2[k].applied)
    PROVE  Stacked(m, it2[k].applied, it2, tn2)
<1> DEFINE S == On(m, it)
<1>1. Reached(m, S, life, it2, tn2)
  BY ReachedSame DEF Stacked
<1>2. \A i \in S : tn2[i] < tn2[k]
  OBVIOUS
<1>3. Reached(m, S \cup {k}, it2[k].applied, it2, tn2)
  <2>1. S \cup {k} # {}
    OBVIOUS
  <2>2. ASSUME NEW i \in S \cup {k}, \A j \in S \cup {k} : tn2[j] <= tn2[i]
        PROVE  it2[k].applied = it2[i].applied
    BY <1>2, <2>2
  <2>3. \A i \in S \cup {k} : Rank(it2[i].applied) <= Rank(it2[k].applied)
    BY <1>1 DEF Reached
  <2>4. ASSUME NEW i \in S \cup {k}, it2[i].action # "revalidate"
        PROVE  /\ Rank(it2[i].applied) > 0
               /\ it2[k].applied = it2[i].applied => \A j \in S \cup {k} : tn2[j] <= tn2[i]
    <3>1. CASE i = k
      BY <1>2, <2>4, <3>1
    <3>2. CASE i \in S
      <4>1. Rank(it2[i].applied) > 0 /\ Rank(it2[i].applied) <= Rank(life)
        BY <1>1, <2>4, <3>2 DEF Reached
      <4>2. it2[k].applied # it2[i].applied
        BY <4>1, <3>2
      <4> QED BY <4>1, <4>2
    <3> QED BY <3>1, <3>2
  <2> QED BY <2>1, <2>2, <2>3, <2>4 DEF Reached
<1>4. ASSUME NEW i \in S \cup {k}
      PROVE  Reached(m, Below(i, m, it2, tn2), it2[i].before, it2, tn2)
  <2>1. CASE i = k
    <3>1. Below(k, m, it2, tn2) = S
      BY <1>2 DEF Below
    <3> QED BY <1>1, <2>1, <3>1
  <2>2. CASE i \in S
    <3>1. Below(i, m, it2, tn2) = Below(i, m, it, tn)
      BY <1>2, <2>2 DEF Below
    <3>2. Reached(m, Below(i, m, it, tn), it[i].before, it, tn)
      BY <2>2 DEF Stacked
    <3>3. \A j \in Below(i, m, it, tn) : j \in S
      BY DEF Below
    <3> QED BY <2>2, <3>1, <3>2, <3>3, ReachedSame
  <2> QED BY <2>1, <2>2
<1>5. \A i, j \in S \cup {k} : tn2[i] = tn2[j] => i = j
  BY <1>2 DEF Stacked
<1> QED BY <1>3, <1>4, <1>5 DEF Stacked

(* A rollback takes the top one away.                                       *)
LEMMA Pop ==
    ASSUME NEW m, NEW life, NEW it, NEW tn, NEW it2, NEW k,
           Stacked(m, life, it, tn),
           k \in On(m, it),
           it[k].action # "revalidate",
           life = it[k].applied,
           On(m, it2) = On(m, it) \ {k},
           \A i \in On(m, it) : /\ it2[i].applied = it[i].applied
                                /\ it2[i].before = it[i].before
                                /\ it2[i].action = it[i].action
                                /\ tn[i] \in Nat
    PROVE  Stacked(m, it[k].before, it2, tn)
<1>1. \A j \in On(m, it) : tn[j] <= tn[k]
  BY DEF Stacked, Reached
<1>2. \A j \in On(m, it2) : tn[j] < tn[k]
  BY <1>1 DEF Stacked
<1>3. On(m, it2) = Below(k, m, it, tn)
  BY <1>2 DEF Below
<1>4. Reached(m, On(m, it2), it[k].before, it2, tn)
  <2>1. Reached(m, On(m, it2), it[k].before, it, tn)
    BY <1>3 DEF Stacked
  <2> QED BY <2>1, ReachedSame
<1>5. ASSUME NEW i \in On(m, it2)
      PROVE  Reached(m, Below(i, m, it2, tn), it2[i].before, it2, tn)
  <2>1. Below(i, m, it2, tn) = Below(i, m, it, tn)
    BY <1>2 DEF Below
  <2>2. Reached(m, Below(i, m, it, tn), it[i].before, it, tn)
    BY DEF Stacked
  <2>3. \A j \in Below(i, m, it, tn) : j \in On(m, it)
    BY DEF Below
  <2> QED BY <2>1, <2>2, <2>3, ReachedSame
<1>6. \A i, j \in On(m, it2) : tn[i] = tn[j] => i = j
  BY DEF Stacked
<1> QED BY <1>4, <1>5, <1>6 DEF Stacked
-----------------------------------------------------------------------------
(* No item, no call, and every memory in its first life.                    *)
LEMMA Initially == Init => IInv
<1> SUFFICES ASSUME Init PROVE IInv
  OBVIOUS
<1> DEFINE some == CHOOSE m \in Mems : TRUE
<1>1. \A i \in Items : /\ item[i].status = "absent" /\ item[i].mem = some
                       /\ item[i].asOf = 0 /\ item[i].seen = Start[some]
                       /\ item[i].action = "revalidate" /\ item[i].before = None
                       /\ item[i].applied = None /\ item[i].at = 0 /\ item[i].batch = {}
  BY DEF Init
<1>2. \A m \in Mems : On(m, item) = {}
  BY <1>1 DEF On
<1>3. TypeOK
  <2>1. item \in [Items -> Row]
    <3>1. some \in Mems
      BY ConstantsAssumption
    <3>2. ASSUME NEW i \in Items PROVE item[i] \in Row
      <4>1. some \in Mems /\ Start[some] \in Memory
        BY <3>1, ConstantsAssumption
      <4> QED BY <4>1 DEF Init, Row, Statuses, Actions
    <3> QED BY <3>2 DEF Init
  <2>2. call \in [Workers -> Call]
    BY ConstantsAssumption DEF Init, Call, Idle, Steps, Memory
  <2> QED BY <2>1, <2>2, ConstantsAssumption DEF Init, TypeOK
<1>4. Prepared
  BY DEF Init, Prepared, Holding, Idle
<1>5. Rows /\ BatchFromBackup
  BY <1>1 DEF Rows, Done, BatchFromBackup
<1>6. History
  BY <1>2 DEF History, Stacked, Reached, Init
<1> QED BY <1>3, <1>4, <1>5, <1>6 DEF IInv

(* What a free lock, or a lock held, says of the calls.                     *)
LEMMA NobodyHolds ==
    ASSUME Prepared, Writable
    PROVE  \A w \in Workers : call[w].step \notin Holding
BY ConstantsAssumption DEF Prepared, Writable

(* The write lock has one holder.                                           *)
LEMMA OneHolds ==
    ASSUME Prepared, NEW w \in Workers, call[w].step \in Holding
    PROVE  \A v \in Workers \ {w} : call[v].step \notin Holding
BY DEF Prepared

(* A call that is not under way is a call.                                  *)
LEMMA IdleType == Idle \in Call
BY ConstantsAssumption DEF Idle, Call, Steps, Memory

(* Calls that write no table keep what is said of the tables.               *)
LEMMA TablesKept ==
    ASSUME IInv, UNCHANGED <<memory, item, backups, turn, turns, foreign>>
    PROVE  Rows' /\ History' /\ BatchFromBackup'
<1>1. Rows'
  BY DEF IInv, Rows
<1>2. History'
  BY DEF IInv, History
<1>3. BatchFromBackup'
  BY DEF IInv, BatchFromBackup
<1> QED BY <1>1, <1>2, <1>3

(* What a preview sees of a memory is of the type of a memory.              *)
LEMMA VisibleType == ASSUME NEW v \in Memory PROVE Visible(v) \in Memory
BY DEF Visible, Memory, Life, Time

(* A row that was not applied is in no batch: what is done to it is not     *)
(* about one.                                                               *)
LEMMA BatchKept ==
    ASSUME TypeOK, BatchFromBackup, NEW i \in Items, item[i].status \notin Done,
           item'[i].batch = {}, \A j \in Items \ {i} : item'[j] = item[j],
           UNCHANGED <<backups, turn>>
    PROVE  BatchFromBackup'
<1> SUFFICES ASSUME NEW k \in Items, item'[k].batch # {}
             PROVE  /\ \A j \in item'[k].batch :
                         /\ item'[j].status \in {"applied", "rolled_back"}
                         /\ item'[j].batch = item'[k].batch
                         /\ turn[j] = turn[k]
                    /\ \E b \in backups :
                         /\ b.items = item'[k].batch
                         /\ \A j \in b.items : b.memory[item'[j].mem].life = item'[j].before
  BY DEF BatchFromBackup
<1>1. item'[k] = item[k] /\ item[k].batch \subseteq Items
  BY DEF TypeOK, Row
<1>2. \A j \in item[k].batch :
        /\ item[j].status \in {"applied", "rolled_back"}
        /\ item[j].batch = item[k].batch
        /\ turn[j] = turn[k]
  BY <1>1 DEF BatchFromBackup
<1>3. \A j \in item[k].batch : item'[j] = item[j]
  BY <1>1, <1>2 DEF Done
<1>4. PICK b \in backups :
        /\ b.items = item[k].batch
        /\ \A j \in b.items : b.memory[item[j].mem].life = item[j].before
  BY <1>1 DEF BatchFromBackup
<1> QED BY <1>1, <1>2, <1>3, <1>4

(* A saved item is pending, and on no stack.                                *)
LEMMA SaveKeeps ==
    ASSUME IInv, NEW i \in Items, NEW m \in Mems, NEW asOf \in Dates, Save(i, m, asOf)
    PROVE  IInv'
<1> USE DEF IInv
<1> DEFINE new == [item[i] EXCEPT !.status = "pending", !.mem = m, !.asOf = asOf,
                     !.seen = Visible(memory[m]), !.action = Proposed(m, memory[m], asOf)]
<1>1. item[i] \in Row /\ item' = [item EXCEPT ![i] = new]
  BY DEF Save, TypeOK
<1>2. new \in Row /\ new.status = "pending" /\ new.batch = item[i].batch
  <2>1. Proposed(m, memory[m], asOf) \in Actions
    BY DEF Save, Proposed, Actions
  <2>2. Visible(memory[m]) \in Memory /\ asOf \in Nat
    BY VisibleType, ConstantsAssumption DEF TypeOK
  <2> QED BY <1>1, <2>1, <2>2 DEF Row, Statuses
<1>3. item[i].status = "absent" /\ item[i].batch = {}
  BY DEF Save, Rows, Done
<1>4. item'[i] = new /\ \A j \in Items \ {i} : item'[j] = item[j]
  BY <1>1 DEF TypeOK
<1>5. TypeOK'
  BY <1>1, <1>2 DEF TypeOK, Save
<1>6. Prepared'
  BY NobodyHolds DEF Prepared, Save
<1>7. Rows'
  BY <1>2, <1>3, <1>4 DEF Rows, Done, Save
<1>8. History'
  <2>1. \A n \in Mems : On(n, item') = On(n, item)
    BY <1>2, <1>3, <1>4 DEF On
  <2>2. \A n \in Mems : \A j \in On(n, item) : item'[j] = item[j]
    BY <1>3, <1>4 DEF On
  <2>3. ASSUME NEW n \in Mems, n \notin foreign
        PROVE  Stacked(n, memory[n].life, item', turn)
    <3>1. Stacked(n, memory[n].life, item, turn)
      BY <2>3 DEF History
    <3> QED BY <2>1, <2>2, <3>1, StackedSame
  <2> QED BY <2>3 DEF History, Save
<1>9. BatchFromBackup'
  <2>1. item'[i].batch = {}
    BY <1>2, <1>3, <1>4
  <2> QED BY <2>1, <1>3, <1>4, BatchKept DEF Save, Done
<1> QED BY <1>5, <1>6, <1>7, <1>8, <1>9

(* A decision moves a row that was not applied.                             *)
LEMMA DecideKeeps ==
    ASSUME IInv, NEW i \in Items, NEW d \in {"approved", "rejected"}, Decide(i, d)
    PROVE  IInv'
<1> USE DEF IInv
<1>1. /\ item[i] \in Row
      /\ item'[i] = [item[i] EXCEPT !.status = d]
      /\ \A j \in Items \ {i} : item'[j] = item[j]
  BY DEF Decide, TypeOK
<1>2. /\ item'[i] \in Row /\ item'[i].status = d /\ item'[i].batch = item[i].batch
  BY <1>1 DEF Row, Statuses
<1>3. item[i].status = "pending" /\ item[i].batch = {}
  BY DEF Decide, Rows, Done
<1>5. TypeOK'
  <2>1. item' \in [Items -> Row]
    BY <1>1, <1>2 DEF Decide, TypeOK
  <2> QED BY <2>1 DEF Decide, TypeOK
<1>6. Prepared'
  BY NobodyHolds DEF Prepared, Decide
<1>7. Rows'
  BY <1>1, <1>2, <1>3 DEF Rows, Done, Decide
<1>8. History'
  <2>1. \A n \in Mems : On(n, item') = On(n, item)
    BY <1>1, <1>2, <1>3 DEF On
  <2>2. \A n \in Mems : \A j \in On(n, item) : item'[j] = item[j]
    BY <1>1, <1>3 DEF On
  <2>3. ASSUME NEW n \in Mems, n \notin foreign
        PROVE  Stacked(n, memory[n].life, item', turn)
    <3>1. Stacked(n, memory[n].life, item, turn)
      BY <2>3 DEF History
    <3> QED BY <2>1, <2>2, <3>1, StackedSame
  <2> QED BY <2>3 DEF History, Decide
<1>9. BatchFromBackup'
  <2>1. item'[i].batch = {}
    BY <1>2, <1>3
  <2> QED BY <2>1, <1>1, <1>3, BatchKept DEF Decide, Done
<1> QED BY <1>5, <1>6, <1>7, <1>8, <1>9

(* Who begins an apply takes the lock and remembers the memories.           *)
LEMMA BeginKeeps ==
    ASSUME IInv, NEW w \in Workers, NEW items \in SUBSET Items,
           NEW step \in {"apply", "batch"}, ApplyBegins(w, items, step)
    PROVE  IInv'
<1> USE DEF IInv
<1>1. call'[w] = [step |-> step, items |-> items, base |-> memory]
  BY DEF ApplyBegins, Goto, TypeOK
<1>2. \A v \in Workers \ {w} : call'[v] = call[v] /\ call[v].step \notin Holding
  BY NobodyHolds DEF ApplyBegins, Locks, Goto, TypeOK
<1>3. TypeOK'
  BY DEF ApplyBegins, Locks, Goto, TypeOK, Call, Steps
<1>4. Prepared'
  BY <1>1, <1>2 DEF Prepared, ApplyBegins, Locks, Ready
<1> QED BY <1>3, <1>4, TablesKept DEF ApplyBegins

(* The backup of a batch holds the memories its caller remembers.           *)
LEMMA BackupKeeps ==
    ASSUME IInv, NEW w \in Workers, BacksUp(w)
    PROVE  IInv'
<1> USE DEF IInv
<1> DEFINE file == [items |-> call[w].items, at |-> now, memory |-> memory]
<1>0. call[w] \in Call
  BY DEF TypeOK
<1>1. call'[w].step = "backed" /\ call'[w].items = call[w].items
  BY <1>0 DEF BacksUp, Goto, TypeOK, Call
<1>2. call[w].step \in Holding
  BY DEF BacksUp, At, Holding
<1>3. \A v \in Workers \ {w} : call'[v] = call[v] /\ call[v].step \notin Holding
  BY <1>2, OneHolds DEF BacksUp, Goto, TypeOK
<1>4. TypeOK'
  BY <1>0 DEF BacksUp, Goto, TypeOK, Call, Steps, Backup
<1>5. Prepared'
  <2>1. file \in backups'
    BY DEF BacksUp
  <2>2. \E b \in backups' :
          /\ b.items = call[w].items
          /\ \A i \in b.items : b.memory[item[i].mem].life = memory[item[i].mem].life
    BY <2>1
  <2> QED BY <1>1, <1>2, <1>3, <2>2 DEF Prepared, BacksUp, Ready
<1>6. BatchFromBackup'
  <2>1. backups \subseteq backups'
    BY DEF BacksUp
  <2> QED BY <2>1 DEF BatchFromBackup, BacksUp
<1>7. Rows' /\ History'
  BY DEF Rows, History, BacksUp
<1> QED BY <1>4, <1>5, <1>6, <1>7

(* A rollback that looks before the lock writes nothing.                    *)
LEMMA LookKeeps ==
    ASSUME IInv, NEW w \in Workers, NEW i \in Items, RollbackReads(w, i)
    PROVE  IInv'
<1> USE DEF IInv
<1>1. call'[w].step = "rollback"
  BY DEF RollbackReads, Goto, TypeOK, Idle
<1>2. \A v \in Workers \ {w} : call'[v] = call[v]
  BY DEF RollbackReads, Goto, TypeOK
<1>3. TypeOK'
  <2>1. [Idle EXCEPT !.step = "rollback", !.items = {i}] \in Call
    BY IdleType DEF Call, Steps
  <2>2. call' \in [Workers -> Call]
    BY <2>1 DEF RollbackReads, Goto, TypeOK
  <2> QED BY <2>2 DEF RollbackReads, TypeOK
<1>4. Prepared'
  BY <1>1, <1>2 DEF Prepared, RollbackReads, Ready, Holding
<1> QED BY <1>3, <1>4, TablesKept DEF RollbackReads

(* A call that ends without a commit leaves the tables.                     *)
LEMMA AbandonKeeps ==
    ASSUME IInv, NEW w \in Workers, Abandons(w)
    PROVE  IInv'
<1> USE DEF IInv
<1>1. call'[w].step = "idle"
  BY DEF Abandons, Return, Goto, TypeOK, Idle
<1>2. \A v \in Workers \ {w} : call'[v] = call[v]
  BY DEF Abandons, Return, Goto, TypeOK
<1>3. TypeOK'
  BY IdleType DEF Abandons, Return, Goto, Unlocks, TypeOK
<1>4. Prepared'
  BY <1>1, <1>2 DEF Prepared, Abandons, Unlocks, Ready, Holding
<1> QED BY <1>3, <1>4, TablesKept DEF Abandons

(* Time passes, and nothing that is recorded changes.                       *)
LEMMA TickKeeps == ASSUME IInv, Tick PROVE IInv'
<1> USE DEF IInv
<1>1. TypeOK'
  BY DEF Tick, TypeOK
<1>2. Prepared'
  BY DEF Tick, Prepared, Ready
<1> QED BY <1>1, <1>2, TablesKept DEF Tick

(* A recall leaves the life of the memory.                                  *)
LEMMA RecallKeeps == ASSUME IInv, NEW m \in Mems, Recall(m) PROVE IInv'
<1> USE DEF IInv
<1>1. \A n \in Mems : memory'[n].life = memory[n].life
  BY DEF Recall, TypeOK, Memory
<1>2. TypeOK'
  BY DEF Recall, TypeOK, Memory, Time
<1>3. Prepared'
  BY NobodyHolds DEF Recall, Prepared
<1>4. Rows' /\ BatchFromBackup'
  BY DEF Recall, Rows, BatchFromBackup
<1>5. History'
  BY <1>1 DEF Recall, History
<1> QED BY <1>2, <1>3, <1>4, <1>5

(* What other tools make of a memory is remembered as foreign.              *)
LEMMA MakeKeeps ==
    ASSUME IInv, NEW m \in Mems, NEW life \in Life, Make(m, life)
    PROVE  IInv'
<1> USE DEF IInv
<1>1. \A n \in Mems \ {m} : memory'[n] = memory[n]
  BY DEF Make, TypeOK
<1>2. TypeOK'
  BY DEF Make, TypeOK, Memory
<1>3. Prepared'
  BY NobodyHolds DEF Make, Prepared
<1>4. Rows' /\ BatchFromBackup'
  BY DEF Make, Rows, BatchFromBackup
<1>5. History'
  BY <1>1 DEF Make, History
<1> QED BY <1>2, <1>3, <1>4, <1>5
-----------------------------------------------------------------------------
(* The commit of an apply, read row by row.                                 *)
LEMMA ApplyAllRows ==
    ASSUME TypeOK, NEW items \in SUBSET Items, NEW batch \in SUBSET Items,
           \A i, j \in items : i # j => item[i].mem # item[j].mem,
           ApplyAll(items, batch)
    PROVE  /\ \A i \in items : /\ item'[i] = Applied(i, batch)
                              /\ turn'[i] = turns + 1
                              /\ memory'[item[i].mem] =
                                   [memory[item[i].mem] EXCEPT !.life = LifeAfter(i)]
           /\ \A i \in Items \ items : item'[i] = item[i] /\ turn'[i] = turn[i]
           /\ \A m \in Mems : (\A i \in items : item[i].mem # m) => memory'[m] = memory[m]
           /\ turns' = turns + 1
<1>1. ASSUME NEW i \in items
      PROVE  memory'[item[i].mem] = [memory[item[i].mem] EXCEPT !.life = LifeAfter(i)]
  <2>1. item[i].mem \in Mems /\ item[i].mem \in Targets(items)
    BY DEF TypeOK, Row, Targets
  <2>2. (CHOOSE k \in items : item[k].mem = item[i].mem) = i
    OBVIOUS
  <2> QED BY <2>1, <2>2 DEF ApplyAll
<1>2. \A m \in Mems : (\A i \in items : item[i].mem # m) => memory'[m] = memory[m]
  BY DEF ApplyAll, Targets
<1>3. \A i \in items : item'[i] = Applied(i, batch) /\ turn'[i] = turns + 1
  BY DEF ApplyAll
<1>4. \A i \in Items \ items : item'[i] = item[i] /\ turn'[i] = turn[i]
  BY DEF ApplyAll
<1> QED BY <1>1, <1>2, <1>3, <1>4 DEF ApplyAll

(* The row of an item after its apply.                                      *)
LEMMA AppliedRow ==
    ASSUME TypeOK, NEW i \in Items, NEW batch \in SUBSET Items
    PROVE  /\ Applied(i, batch) \in Row
           /\ Applied(i, batch).status = "applied"
           /\ Applied(i, batch).before = memory[item[i].mem].life
           /\ Applied(i, batch).applied = LifeAfter(i)
           /\ Applied(i, batch).batch = batch
           /\ Applied(i, batch).mem = item[i].mem
           /\ Applied(i, batch).action = item[i].action
<1>1. item[i] \in Row /\ now \in Nat
  BY DEF TypeOK
<1>2. memory[item[i].mem].life \in Life
  BY <1>1 DEF TypeOK, Row, Memory
<1>3. LifeAfter(i) \in Life
  BY AfterType
<1> QED BY <1>1, <1>2, <1>3 DEF Applied, Row, Statuses

(* Items that are ready and of different memories are applied together: the *)
(* rows stay true and each memory has one more item on its stack.           *)
LEMMA ApplyKeeps ==
    ASSUME IInv, NEW items \in SUBSET Items, NEW batch \in SUBSET Items,
           \A i \in items : Ready(i),
           \A i, j \in items : i # j => item[i].mem # item[j].mem,
           ApplyAll(items, batch), UNCHANGED foreign
    PROVE  /\ memory' \in [Mems -> Memory]
           /\ item' \in [Items -> Row]
           /\ turn' \in [Items -> Nat] /\ turns' \in Nat
           /\ Rows'
           /\ History'
<1> USE DEF IInv
<1>0. TypeOK
  OBVIOUS
<1>1. /\ \A i \in items : /\ item'[i] = Applied(i, batch)
                          /\ turn'[i] = turns + 1
                          /\ memory'[item[i].mem] =
                               [memory[item[i].mem] EXCEPT !.life = LifeAfter(i)]
      /\ \A i \in Items \ items : item'[i] = item[i] /\ turn'[i] = turn[i]
      /\ \A m \in Mems : (\A i \in items : item[i].mem # m) => memory'[m] = memory[m]
      /\ turns' = turns + 1
  BY <1>0, ApplyAllRows
<1>2. \A i \in items :
        /\ item'[i] \in Row
        /\ item'[i].status = "applied"
        /\ item'[i].before = memory[item[i].mem].life
        /\ item'[i].applied = LifeAfter(i)
        /\ item'[i].mem = item[i].mem
        /\ item'[i].action = item[i].action
  <2> SUFFICES ASSUME NEW i \in items
               PROVE  /\ item'[i] \in Row
                      /\ item'[i].status = "applied"
                      /\ item'[i].before = memory[item[i].mem].life
                      /\ item'[i].applied = LifeAfter(i)
                      /\ item'[i].mem = item[i].mem
                      /\ item'[i].action = item[i].action
    OBVIOUS
  <2>1. i \in Items /\ item'[i] = Applied(i, batch)
    BY <1>1
  <2> QED BY <1>0, <2>1, AppliedRow
<1>3. turns \in Nat /\ turn \in [Items -> Nat]
  BY DEF TypeOK
<1>4. memory' \in [Mems -> Memory]
  <2>1. ASSUME NEW m \in Mems PROVE memory'[m] \in Memory
    <3>1. CASE \E i \in items : item[i].mem = m
      <4>1. PICK i \in items : item[i].mem = m
        BY <3>1
      <4>2. LifeAfter(i) \in Life
        BY <1>0, AfterType
      <4> QED BY <1>1, <4>1, <4>2 DEF TypeOK, Memory
    <3>2. CASE \A i \in items : item[i].mem # m
      BY <1>1, <3>2 DEF TypeOK
    <3> QED BY <3>1, <3>2
  <2> QED BY <2>1 DEF ApplyAll
<1>5. item' \in [Items -> Row]
  <2>1. \A i \in Items : item'[i] \in Row
    BY <1>1, <1>2 DEF TypeOK
  <2> QED BY <2>1 DEF ApplyAll
<1>6. turn' \in [Items -> Nat] /\ turns' \in Nat
  BY <1>3 DEF ApplyAll
<1>7. Rows'
  <2>1. ASSUME NEW i \in items
        PROVE  item'[i].before \in Life /\ item'[i].applied \in Life
    <3>1. item[i].mem \in Mems
      BY DEF TypeOK, Row
    <3> QED BY <1>0, <1>2, <3>1, AfterType DEF TypeOK, Memory
  <2>2. ASSUME NEW i \in Items
        PROVE  /\ item'[i].status \notin Done => item'[i].batch = {}
               /\ item'[i].status \in Done =>
                    /\ item'[i].before \in Life
                    /\ item'[i].applied \in Life
                    /\ turn'[i] <= turns'
    <3>1. CASE i \in items
      <4>1. item'[i].status = "applied" /\ turn'[i] = turns + 1 /\ turns' = turns + 1
        BY <1>1, <1>2, <3>1
      <4> QED BY <1>3, <2>1, <3>1, <4>1 DEF Done
    <3>2. CASE i \notin items
      BY <1>1, <1>3, <3>2 DEF Rows
    <3> QED BY <3>1, <3>2
  <2> QED BY <2>2 DEF Rows
<1>8. History'
  <2>1. \A i \in items : item[i].status = "approved"
    BY DEF Ready
  <2>2. ASSUME NEW m \in Mems, m \notin foreign
        PROVE  Stacked(m, memory'[m].life, item', turn')
    <3>1. Stacked(m, memory[m].life, item, turn)
      BY <2>2 DEF History
    <3>2. \A i \in On(m, item) :
            i \in Items \ items /\ item'[i] = item[i] /\ turn'[i] = turn[i]
      BY <1>1, <2>1 DEF On
    <3>3. CASE \E k \in items : item[k].mem = m
      <4>1. PICK k \in items : item[k].mem = m
        BY <3>3
      <4>2. On(m, item') = On(m, item) \cup {k}
        <5>1. ASSUME NEW i \in Items
              PROVE  i \in On(m, item') <=> i \in On(m, item) \cup {k}
          <6>1. CASE i \in items
            BY <1>2, <2>1, <4>1, <6>1 DEF On
          <6>2. CASE i \notin items
            BY <1>1, <6>2, <4>1 DEF On
          <6> QED BY <6>1, <6>2
        <5> QED BY <5>1 DEF On
      <4>3. k \notin On(m, item)
        BY <2>1 DEF On
      <4>4. memory'[m].life = item'[k].applied /\ item'[k].before = memory[m].life
        <5>1. memory'[m] = [memory[m] EXCEPT !.life = LifeAfter(k)] /\ memory[m] \in Memory
          BY <1>1, <4>1 DEF TypeOK
        <5>2. item'[k].applied = LifeAfter(k) /\ item'[k].before = memory[m].life
          BY <1>2, <4>1
        <5> QED BY <5>1, <5>2 DEF Memory
      <4>5. /\ Rank(memory[m].life) \in 0 .. 2
            /\ Rank(item'[k].applied) \in 0 .. 2
            /\ item'[k].action = "revalidate" =>
                 Rank(memory[m].life) = 0 /\ Rank(item'[k].applied) = 0
            /\ item'[k].action # "revalidate" =>
                 Rank(memory[m].life) < Rank(item'[k].applied)
        BY <1>0, <1>2, <4>1, Forward
      <4>6. \A i \in On(m, item) :
              turn[i] \in Nat /\ turn[i] <= turns /\ Rank(item[i].applied) \in 0 .. 2
        BY <1>3 DEF On, Rows, Done, Rank
      <4>7. turn'[k] = turns + 1
        BY <1>1
      <4>8. \A i \in On(m, item) : /\ item'[i].applied = item[i].applied
                                  /\ item'[i].before = item[i].before
                                  /\ item'[i].action = item[i].action
                                  /\ turn'[i] = turn[i]
        BY <3>2
      <4>9. Stacked(m, item'[k].applied, item', turn')
        BY <1>3, <3>1, <4>2, <4>3, <4>4, <4>5, <4>6, <4>7, <4>8, Push, SMTT(30)
      <4> QED BY <4>4, <4>9
    <3>4. CASE \A k \in items : item[k].mem # m
      <4>1. memory'[m] = memory[m]
        BY <1>1, <3>4
      <4>2. On(m, item') = On(m, item)
        <5>1. ASSUME NEW i \in Items
              PROVE  i \in On(m, item') <=> i \in On(m, item)
          BY <1>1, <1>2, <3>4 DEF On
        <5> QED BY <5>1 DEF On
      <4> QED BY <3>1, <3>2, <4>1, <4>2, StackedSame
    <3> QED BY <3>3, <3>4
  <2> QED BY <2>2 DEF History
<1> QED BY <1>4, <1>5, <1>6, <1>7, <1>8

(* The lock goes back, and nobody holds it.                                 *)
LEMMA ReleaseKeeps ==
    ASSUME IInv, NEW w \in Workers, call[w].step \in Holding, Return(w), Unlocks(w)
    PROVE  /\ call' \in [Workers -> Call]
           /\ lock' \in Workers \cup {None}
           /\ Prepared'
<1> USE DEF IInv
<1>1. call'[w].step = "idle" /\ \A v \in Workers \ {w} : call'[v] = call[v]
  BY DEF Return, Goto, TypeOK, Idle
<1>2. \A v \in Workers : call'[v].step \notin Holding
  BY <1>1, OneHolds DEF Holding
<1> QED BY <1>2, IdleType DEF Prepared, Return, Goto, Unlocks, TypeOK

(* Rows that were applied before stay as they are.                          *)
LEMMA BatchesKept ==
    ASSUME IInv, NEW items \in SUBSET Items,
           \A i \in items : item[i].status \notin Done,
           \A i \in Items \ items : item'[i] = item[i] /\ turn'[i] = turn[i],
           UNCHANGED backups,
           NEW k \in Items \ items, item'[k].batch # {}
    PROVE  /\ \A j \in item'[k].batch :
                /\ item'[j].status \in {"applied", "rolled_back"}
                /\ item'[j].batch = item'[k].batch
                /\ turn'[j] = turn'[k]
           /\ \E b \in backups' :
                /\ b.items = item'[k].batch
                /\ \A j \in b.items : b.memory[item'[j].mem].life = item'[j].before
<1> USE DEF IInv
<1>1. item'[k] = item[k] /\ item[k].batch \subseteq Items
  BY DEF TypeOK, Row
<1>2. \A j \in item[k].batch :
        /\ item[j].status \in {"applied", "rolled_back"}
        /\ item[j].batch = item[k].batch
        /\ turn[j] = turn[k]
  BY <1>1 DEF BatchFromBackup
<1>3. \A j \in item[k].batch : item'[j] = item[j] /\ turn'[j] = turn[j]
  BY <1>1, <1>2 DEF Done
<1>4. PICK b \in backups :
        /\ b.items = item[k].batch
        /\ \A j \in b.items : b.memory[item[j].mem].life = item[j].before
  BY <1>1 DEF BatchFromBackup
<1> QED BY <1>1, <1>2, <1>3, <1>4

(* A single apply puts its item on the stack of its memory.                 *)
LEMMA SingleKeeps ==
    ASSUME IInv, NEW w \in Workers, ApplyCommits(w)
    PROVE  IInv'
<1> USE DEF IInv
<1> DEFINE items == call[w].items
<1>1. items \in SUBSET Items /\ call[w].step \in Holding
  BY DEF TypeOK, Call, ApplyCommits, At, Holding
<1>2. /\ \A i \in items : Ready(i)
      /\ \A i, j \in items : i # j => item[i].mem # item[j].mem
  BY <1>1 DEF Prepared
<1>3. ApplyAll(items, {}) /\ UNCHANGED <<now, backups, foreign>> /\ Return(w) /\ Unlocks(w)
  BY DEF ApplyCommits
<1>4. /\ memory' \in [Mems -> Memory]
      /\ item' \in [Items -> Row]
      /\ turn' \in [Items -> Nat] /\ turns' \in Nat
      /\ Rows'
      /\ History'
  <2>1. {} \in SUBSET Items /\ UNCHANGED foreign
    BY <1>3
  <2> QED BY <1>1, <1>2, <1>3, <2>1, ApplyKeeps
<1>5. call' \in [Workers -> Call] /\ lock' \in Workers \cup {None} /\ Prepared'
  BY <1>1, <1>3, ReleaseKeeps
<1>6. BatchFromBackup'
  <2>0. TypeOK /\ {} \in SUBSET Items
    OBVIOUS
  <2>1. /\ \A i \in items : item'[i] = Applied(i, {})
        /\ \A i \in Items \ items : item'[i] = item[i] /\ turn'[i] = turn[i]
    BY <1>1, <1>2, <1>3, <2>0, ApplyAllRows, ZenonT(30)
  <2>2. \A i \in items : item'[i].batch = {} /\ item[i].status \notin Done
    BY <1>1, <1>2, <2>1, AppliedRow DEF Ready, Done
  <2>3. UNCHANGED backups
    BY <1>3
  <2> QED BY <1>1, <2>1, <2>2, <2>3, BatchesKept DEF BatchFromBackup
<1>7. TypeOK'
  BY <1>3, <1>4, <1>5 DEF TypeOK
<1> QED BY <1>4, <1>5, <1>6, <1>7

(* A batch puts each of its items on the stack of another memory.           *)
LEMMA BatchKeeps ==
    ASSUME IInv, NEW w \in Workers, BatchCommits(w)
    PROVE  IInv'
<1> USE DEF IInv
<1> DEFINE items == call[w].items
<1>1. items \in SUBSET Items /\ call[w].step \in Holding
  BY DEF TypeOK, Call, BatchCommits, At, Holding
<1>2. /\ \A i \in items : Ready(i)
      /\ \A i, j \in items : i # j => item[i].mem # item[j].mem
  BY <1>1 DEF Prepared
<1>3. ApplyAll(items, items) /\ UNCHANGED <<now, backups, foreign>> /\ Return(w) /\ Unlocks(w)
  BY DEF BatchCommits, BatchAtOnce
<1>4. /\ memory' \in [Mems -> Memory]
      /\ item' \in [Items -> Row]
      /\ turn' \in [Items -> Nat] /\ turns' \in Nat
      /\ Rows'
      /\ History'
  BY <1>1, <1>2, <1>3, ApplyKeeps
<1>5. call' \in [Workers -> Call] /\ lock' \in Workers \cup {None} /\ Prepared'
  BY <1>1, <1>3, ReleaseKeeps
<1>6. BatchFromBackup'
  <2>1. /\ \A i \in items : item'[i] = Applied(i, items) /\ turn'[i] = turns + 1
        /\ \A i \in Items \ items : item'[i] = item[i] /\ turn'[i] = turn[i]
    <3>1. TypeOK /\ items \in SUBSET Items /\ ApplyAll(items, items)
      BY <1>1, <1>3
    <3>2. \A i, j \in items : i # j => item[i].mem # item[j].mem
      BY <1>2
    <3> HIDE DEF items, IInv
    <3> QED BY <3>1, <3>2, ApplyAllRows
  <2>2. \A i \in items : /\ item'[i].batch = items
                        /\ item'[i].status = "applied"
                        /\ item'[i].mem = item[i].mem
                        /\ item'[i].before = memory[item[i].mem].life
                        /\ item[i].status \notin Done
    BY <1>1, <1>2, <2>1, AppliedRow DEF Ready, Done
  <2>3. UNCHANGED backups
    BY <1>3
  <2>4. PICK b \in backups :
          /\ b.items = items
          /\ \A i \in b.items : b.memory[item[i].mem].life = memory[item[i].mem].life
    BY <1>1 DEF Prepared, BatchCommits, At
  <2>5. \A j \in b.items : b.memory[item'[j].mem].life = item'[j].before
    BY <2>2, <2>4
  <2>6. ASSUME NEW i \in items
        PROVE  /\ \A j \in item'[i].batch :
                    /\ item'[j].status \in {"applied", "rolled_back"}
                    /\ item'[j].batch = item'[i].batch
                    /\ turn'[j] = turn'[i]
               /\ \E c \in backups' :
                    /\ c.items = item'[i].batch
                    /\ \A j \in c.items : c.memory[item'[j].mem].life = item'[j].before
    BY <2>1, <2>2, <2>3, <2>4, <2>5
  <2>7. ASSUME NEW i \in Items \ items, item'[i].batch # {}
        PROVE  /\ \A j \in item'[i].batch :
                    /\ item'[j].status \in {"applied", "rolled_back"}
                    /\ item'[j].batch = item'[i].batch
                    /\ turn'[j] = turn'[i]
               /\ \E c \in backups' :
                    /\ c.items = item'[i].batch
                    /\ \A j \in c.items : c.memory[item'[j].mem].life = item'[j].before
    BY <1>1, <2>1, <2>2, <2>3, <2>7, BatchesKept, SMTT(30)
  <2> QED BY <2>6, <2>7 DEF BatchFromBackup
<1>7. TypeOK'
  BY <1>3, <1>4, <1>5 DEF TypeOK
<1> QED BY <1>4, <1>5, <1>6, <1>7

(* A rollback takes the top of a stack, and the memory is as the item below *)
(* left it.                                                                 *)
LEMMA RollbackKeeps ==
    ASSUME IInv, NEW w \in Workers, RollbackActs(w)
    PROVE  IInv'
<1> USE DEF IInv
<1>1. PICK i \in call[w].items :
        /\ MayRollBack(i)
        /\ memory' = [memory EXCEPT ![item[i].mem].life = item[i].before]
        /\ item' = [item EXCEPT ![i].status = "rolled_back"]
  BY DEF RollbackActs, RollbackChecks
<1>2. i \in Items /\ item[i] \in Row /\ item[i].mem \in Mems
  BY DEF TypeOK, Call, Row
<1>3. item[i].status = "applied" /\ item[i].before \in Life
  BY <1>1, <1>2 DEF MayRollBack, Rows, Done
<1>4. /\ item'[i] = [item[i] EXCEPT !.status = "rolled_back"]
      /\ \A j \in Items \ {i} : item'[j] = item[j]
  BY <1>1, <1>2 DEF TypeOK
<1>5. /\ item'[i] \in Row
      /\ item'[i].status = "rolled_back"
      /\ \A j \in Items : /\ item'[j].mem = item[j].mem
                          /\ item'[j].before = item[j].before
                          /\ item'[j].applied = item[j].applied
                          /\ item'[j].action = item[j].action
                          /\ item'[j].batch = item[j].batch
  BY <1>2, <1>4 DEF Row, Statuses
<1>6. /\ memory'[item[i].mem].life = item[i].before
      /\ \A m \in Mems \ {item[i].mem} : memory'[m] = memory[m]
  BY <1>1, <1>2 DEF TypeOK, Memory
<1>7. TypeOK'
  <2>1. memory' \in [Mems -> Memory]
    BY <1>1, <1>2, <1>3 DEF TypeOK, Memory
  <2>2. item' \in [Items -> Row]
    BY <1>1, <1>2, <1>4, <1>5 DEF TypeOK
  <2> QED BY <2>1, <2>2, IdleType DEF RollbackActs, Return, Goto, TypeOK
<1>8. Prepared'
  <2>1. \A v \in Workers : call[v].step \notin Holding
    BY NobodyHolds DEF RollbackActs
  <2>2. \A v \in Workers : call'[v].step \notin Holding
    BY <2>1 DEF RollbackActs, Return, Goto, TypeOK, Idle, Holding
  <2> QED BY <2>2 DEF Prepared
<1>9. Rows'
  BY <1>3, <1>4, <1>5 DEF Rows, Done, RollbackActs
<1>10. BatchFromBackup'
  <2>1. \A j \in Items : item[j].status \in Done => item'[j].status \in Done
    BY <1>3, <1>4, <1>5 DEF Done
  <2>2. UNCHANGED <<backups, turn>>
    BY DEF RollbackActs
  <2>3. \A j \in Items : item[j].batch \subseteq Items
    BY DEF TypeOK, Row
  <2>4. \A k \in Items : item[k].batch # {} =>
          \A j \in item[k].batch : /\ item'[j].status \in Done
                                  /\ item'[j].batch = item'[k].batch
                                  /\ turn'[j] = turn'[k]
    BY <1>5, <2>1, <2>2, <2>3 DEF BatchFromBackup, Done
  <2>5. ASSUME NEW k \in Items, item[k].batch # {}
        PROVE  \E b \in backups' :
                 /\ b.items = item'[k].batch
                 /\ \A j \in b.items : b.memory[item'[j].mem].life = item'[j].before
    <3>1. PICK b \in backups :
            /\ b.items = item[k].batch
            /\ \A j \in b.items : b.memory[item[j].mem].life = item[j].before
      BY <2>5 DEF BatchFromBackup
    <3> QED BY <1>5, <2>2, <2>3, <3>1
  <2> QED BY <1>5, <2>4, <2>5 DEF BatchFromBackup, Done
<1>11. History'
  <2>1. UNCHANGED <<turn, foreign>>
    BY DEF RollbackActs
  <2>2. ASSUME NEW m \in Mems, m \notin foreign
        PROVE  Stacked(m, memory'[m].life, item', turn)
    <3>1. Stacked(m, memory[m].life, item, turn)
      BY <2>2 DEF History
    <3>2. CASE m = item[i].mem
      <4>1. i \in On(m, item) /\ memory[m].life = item[i].applied
        BY <1>1, <1>2, <1>3, <3>2 DEF On, MayRollBack
      <4>2. item[i].action # "revalidate"
        BY <1>1 DEF MayRollBack
      <4>3. On(m, item') = On(m, item) \ {i}
        <5>1. ASSUME NEW j \in Items
              PROVE  j \in On(m, item') <=> j \in On(m, item) \ {i}
          BY <1>4, <1>5 DEF On
        <5> QED BY <5>1 DEF On
      <4>4. \A j \in On(m, item) : /\ item'[j].applied = item[j].applied
                                  /\ item'[j].before = item[j].before
                                  /\ item'[j].action = item[j].action
                                  /\ turn[j] \in Nat
        BY <1>5 DEF On, TypeOK
      <4>5. Stacked(m, item[i].before, item', turn)
        BY <3>1, <4>1, <4>2, <4>3, <4>4, Pop
      <4> QED BY <1>6, <3>2, <4>5
    <3>3. CASE m # item[i].mem
      <4>1. memory'[m] = memory[m]
        BY <1>6, <3>3
      <4>2. On(m, item') = On(m, item)
        <5>1. ASSUME NEW j \in Items
              PROVE  j \in On(m, item') <=> j \in On(m, item)
          BY <1>4, <1>5, <3>3 DEF On
        <5> QED BY <5>1 DEF On
      <4>3. \A j \in On(m, item) : /\ item'[j].applied = item[j].applied
                                  /\ item'[j].before = item[j].before
                                  /\ item'[j].action = item[j].action
        BY <1>5 DEF On
      <4> QED BY <3>1, <4>1, <4>2, <4>3, StackedSame
    <3> QED BY <3>2, <3>3
  <2> QED BY <2>1, <2>2 DEF History
<1> QED BY <1>7, <1>8, <1>9, <1>10, <1>11
-----------------------------------------------------------------------------
(* Recalls, rejections and due dates keep the invariant.                    *)
LEMMA OthersKeep ==
    ASSUME IInv, Others
    PROVE  IInv'
<1>1. PICK m \in Touched :
        \/ Recall(m)
        \/ Reject(m)
        \/ \E field \in {"review", "reval", "expires"}, t \in Dates : SetDue(m, field, t)
  BY DEF Others
<1>2. m \in Mems /\ memory[m].life \in Life /\ now \in Nat
  BY ConstantsAssumption DEF IInv, TypeOK, Memory
<1>3. CASE Recall(m)
  BY <1>2, <1>3, RecallKeeps
<1>4. CASE Reject(m)
  <2>1. [memory[m].life EXCEPT !.state = "archived", !.archived = now] \in Life
    BY <1>2 DEF Life, States, Time
  <2> QED BY <1>2, <1>4, <2>1, MakeKeeps DEF Reject
<1>5. ASSUME NEW field \in {"review", "reval", "expires"}, NEW t \in Dates,
             SetDue(m, field, t)
      PROVE  IInv'
  <2>1. t \in Time
    BY ConstantsAssumption DEF Time
  <2>2. [memory[m].life EXCEPT ![field] = t] \in Life
    <3>1. CASE field = "review"
      BY <1>2, <2>1, <3>1 DEF Life
    <3>2. CASE field = "reval"
      BY <1>2, <2>1, <3>2 DEF Life
    <3>3. CASE field = "expires"
      BY <1>2, <2>1, <3>3 DEF Life
    <3> QED BY <3>1, <3>2, <3>3
  <2> QED BY <1>2, <1>5, <2>2, MakeKeeps DEF SetDue
<1> QED BY <1>1, <1>3, <1>4, <1>5

(* Every step keeps the invariant.                                          *)
LEMMA NextKeeps == IInv /\ [Next]_vars => IInv'
<1> SUFFICES ASSUME IInv, [Next]_vars PROVE IInv'
  OBVIOUS
<1>1. CASE Reviewing
  BY <1>1, SaveKeeps, DecideKeeps DEF Reviewing
<1>2. ASSUME NEW w \in Workers, Applying(w) PROVE IInv'
  BY <1>2, BeginKeeps, SingleKeeps, BackupKeeps, BatchKeeps DEF Applying
<1>3. ASSUME NEW w \in Workers, RollingBack(w) PROVE IInv'
  BY <1>3, LookKeeps, RollbackKeeps DEF RollingBack
<1>4. ASSUME NEW w \in Workers, Abandons(w) PROVE IInv'
  BY <1>4, AbandonKeeps
<1>5. CASE Others
  BY <1>5, OthersKeep
<1>6. CASE Tick
  BY <1>6, TickKeeps
<1>7. CASE UNCHANGED vars
  <2>1. Rows' /\ History' /\ BatchFromBackup'
    BY <1>7, TablesKept DEF vars
  <2>2. TypeOK'
    BY <1>7 DEF vars, IInv, TypeOK
  <2>3. Prepared'
    BY <1>7 DEF vars, IInv, Prepared, Ready
  <2> QED BY <2>1, <2>2, <2>3 DEF IInv
<1> QED BY <1>1, <1>2, <1>3, <1>4, <1>5, <1>6, <1>7 DEF Next

(* What every step keeps: the lock protects what was found ready, the rows  *)
(* are true, and the items of a memory are a stack.                         *)
THEOREM InductiveInvariant == Spec => []IInv
BY Initially, NextKeeps, PTL DEF Spec

(* Rows, files, calls and memories keep their types, for any number of each. *)
THEOREM TypeCorrect == Spec => []TypeOK
<1>1. IInv => TypeOK
  BY DEF IInv
<1> QED BY <1>1, InductiveInvariant, PTL

(* A memory that only retention changes is as its last standing item left   *)
(* it, or as it was at first: what rollback_memory_retention_review and the *)
(* applies keep between them, whatever races.                               *)
THEOREM ItemsExplainMemories == Spec => []LedgerExplains
<1>1. IInv => LedgerExplains
  <2> SUFFICES ASSUME IInv, NEW m \in Mems \ foreign
               PROVE  /\ (\A i \in Items : Standing(i) => item[i].mem # m) =>
                            memory[m].life = Start[m].life
                      /\ \A i \in Items : LastStanding(i) /\ item[i].mem = m =>
                            memory[m].life = item[i].applied
    BY DEF LedgerExplains
  <2>1. Reached(m, On(m, item), memory[m].life, item, turn)
    BY DEF IInv, History, Stacked
  <2>2. (\A i \in Items : Standing(i) => item[i].mem # m) => On(m, item) = {}
    BY DEF On, Standing
  <2>3. \A i \in Items : LastStanding(i) /\ item[i].mem = m =>
          i \in On(m, item) /\ \A j \in On(m, item) : turn[j] <= turn[i]
    BY DEF On, Standing, LastStanding
  <2> QED BY <2>1, <2>2, <2>3 DEF Reached
<1> QED BY <1>1, InductiveInvariant, PTL

(* A batch of apply_memory_retention_batch is applied as a whole, and its   *)
(* backup has each of its memories as the batch found it.                   *)
THEOREM BatchesAreBackedUp == Spec => []BatchFromBackup
<1>1. IInv => BatchFromBackup
  BY DEF IInv
<1> QED BY <1>1, InductiveInvariant, PTL

(* Under the lock an item that is applied was approved, for the memory it   *)
(* finds.                                                                   *)
LEMMA CommitsAsReviewed ==
    ASSUME IInv, NEW w \in Workers, call[w].step \in Holding, NEW batch \in SUBSET Items,
           ApplyAll(call[w].items, batch),
           NEW i \in Items, item[i].status # "applied", item'[i].status = "applied"
    PROVE  /\ item[i].status = "approved"
           /\ Visible(memory[item[i].mem]) = item[i].seen
           /\ item'[i].before = memory[item[i].mem].life
<1> USE DEF IInv
<1>1. call[w].items \in SUBSET Items
  BY DEF TypeOK, Call
<1>2. /\ \A k \in call[w].items : Ready(k)
      /\ \A k, j \in call[w].items : k # j => item[k].mem # item[j].mem
  BY DEF Prepared
<1>3. i \in call[w].items
  BY DEF ApplyAll
<1>4. item'[i] = Applied(i, batch)
  BY <1>3 DEF ApplyAll
<1> QED BY <1>2, <1>3, <1>4, AppliedRow DEF Ready

(* What is applied is what was reviewed, for any workers and any changes by *)
(* other tools between the review and the apply.                            *)
THEOREM WhatWasReviewedIsApplied == Spec => AppliedAsReviewed
<1>1. IInv /\ [Next]_vars =>
        [\A i \in Items : item[i].status # "applied" /\ item'[i].status = "applied" =>
           /\ item[i].status = "approved"
           /\ Visible(memory[item[i].mem]) = item[i].seen
           /\ item'[i].before = memory[item[i].mem].life]_vars
  <2> SUFFICES ASSUME IInv, Next, NEW i \in Items,
                      item[i].status # "applied", item'[i].status = "applied"
               PROVE  /\ item[i].status = "approved"
                      /\ Visible(memory[item[i].mem]) = item[i].seen
                      /\ item'[i].before = memory[item[i].mem].life
    OBVIOUS
  <2>1. item \in [Items -> Row]
    BY DEF IInv, TypeOK
  <2>2. ASSUME NEW w \in Workers, ApplyCommits(w)
        PROVE  /\ item[i].status = "approved"
               /\ Visible(memory[item[i].mem]) = item[i].seen
               /\ item'[i].before = memory[item[i].mem].life
    <3>1. call[w].step \in Holding /\ ApplyAll(call[w].items, {})
      BY <2>2 DEF ApplyCommits, At, Holding
    <3>2. {} \in SUBSET Items
      OBVIOUS
    <3> QED BY <3>1, <3>2, CommitsAsReviewed
  <2>3. ASSUME NEW w \in Workers, BatchCommits(w)
        PROVE  /\ item[i].status = "approved"
               /\ Visible(memory[item[i].mem]) = item[i].seen
               /\ item'[i].before = memory[item[i].mem].life
    <3>1. call[w].step \in Holding /\ ApplyAll(call[w].items, call[w].items)
      BY <2>3 DEF BatchCommits, BatchAtOnce, At, Holding
    <3>2. call[w].items \in SUBSET Items
      BY DEF IInv, TypeOK, Call
    <3> QED BY <3>1, <3>2, CommitsAsReviewed
  <2>4. ASSUME NEW k \in Items, NEW m \in Mems, NEW asOf \in Dates, Save(k, m, asOf)
        PROVE  FALSE
    BY <2>1, <2>4 DEF Save, Row
  <2>5. ASSUME NEW k \in Items, NEW d \in {"approved", "rejected"}, Decide(k, d)
        PROVE  FALSE
    BY <2>1, <2>5 DEF Decide, Row
  <2>6. ASSUME NEW w \in Workers, RollbackActs(w)
        PROVE  FALSE
    BY <2>1, <2>6 DEF RollbackActs, Row
  <2>7. ASSUME UNCHANGED item PROVE FALSE
    BY <2>7
  <2> QED BY <2>2, <2>3, <2>4, <2>5, <2>6, <2>7
          DEF Next, Reviewing, Applying, RollingBack, Others, ApplyBegins, BacksUp,
              RollbackReads, Abandons, Recall, Reject, SetDue, Make, Tick
<1> QED BY <1>1, InductiveInvariant, PTL DEF Spec, AppliedAsReviewed
=============================================================================
