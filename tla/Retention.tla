----------------------------- MODULE Retention -----------------------------
(***************************************************************************)
(* Retention of memories: mapi_core/memory/retention.py (the policy and    *)
(* its preview), retention_review.py (items saved for review and decided)  *)
(* and retention_apply.py (single applies, batches over a backup, and      *)
(* rollbacks), as the tools of server_core.py call them.                   *)
(*                                                                         *)
(* An item stores the preview of one memory at one as_of date.  Once it is *)
(* approved it may be applied, alone or in a batch, if the preview for     *)
(* that date is still the same.  Applies run under BEGIN IMMEDIATE, so     *)
(* nobody else writes until they commit.  An archival or expiry is rolled  *)
(* back by restoring the fields saved before it; the rollback looks twice, *)
(* the second time under the lock.                                         *)
(*                                                                         *)
(* A memory is its life, the fields that a rollback restores, and the time *)
(* of its last recall, which it does not.  The preview hash covers all of  *)
(* it but archived_at.  What never changes here (class, importance, date   *)
(* of creation, boundary) is a constant of the memory.  Times have the     *)
(* resolution of utc_now_iso; due dates that compute_sla_days takes from   *)
(* a table are one constant each.  Left out: flags, empty names and        *)
(* boundaries, which only refuse, and memory_v2_status and activity_state, *)
(* which every write here derives from the state.                          *)
(***************************************************************************)
EXTENDS Naturals, FiniteSets

CONSTANTS
    Workers,    \* connections that may each be inside one call
    Items,      \* rows of memory_retention_review_items
    Mems,       \* the memories of one project and scope
    Class,      \* Class[m]: the retention class, as far as the policy asks
    Low,        \* memories of low importance
    Born,       \* Born[m]: created_at
    Start,      \* Start[m]: memory m at first
    Dates,      \* the as_of dates and due dates that callers give
    RevalidateIn, ReviewIn,      \* the due dates set by a revalidation, an expiry
    ArchiveAge, RecallShelters,  \* days until a transient memory is old, or forgotten
    MaxNow,     \* bound: the clock stops here
    Touched,    \* bound: other tools change these memories only, their life once
    NoTime, None

States == {"candidate", "validated", "stale", "archived", "superseded"}
Classes == {"never", "protected", "transient", "operational", "durable"}
Actions == {"revalidate", "archive", "expire"}
Time == Nat \cup {NoTime}

(* ROLLBACK_FIELDS: what is saved before an apply and a rollback restores.  *)
Life ==
    [state : States, updated : Nat, archived : Time, confirm : BOOLEAN,
     reval : Time, review : Time, until : Time, expires : Time]

Memory == [life : Life, recalled : Time]

ASSUME ConstantsAssumption ==
    /\ None \notin Workers
    /\ None \notin Life
    /\ Mems # {}
    /\ NoTime \notin Nat
    /\ Class \in [Mems -> Classes]
    /\ Low \subseteq Mems
    /\ Born \in [Mems -> Nat]
    /\ Start \in [Mems -> Memory]
    /\ Dates \subseteq Nat
    /\ {RevalidateIn, ReviewIn, ArchiveAge, RecallShelters, MaxNow} \subseteq Nat
    /\ Touched \subseteq Mems

VARIABLES
    now,       \* the clock, in the units of the dates
    memory,    \* memory[m]: the row of memory m
    item,      \* item[i]: the row of item i
    backups,   \* the files that batches wrote
    lock,      \* who holds the write lock of the database
    call,      \* call[w]: what worker w is in the middle of
    turn,      \* history: turn[i], the number of the apply that applied item i
    turns,     \* history: how many applies there were
    foreign    \* history: memories whose life other tools changed

vars == <<now, memory, item, backups, lock, call, turn, turns, foreign>>

Statuses == {"absent", "pending", "approved", "rejected", "applied", "rolled_back"}

Row ==
    [status : Statuses, mem : Mems, asOf : Nat, seen : Memory, action : Actions,
     before : Life \cup {None}, applied : Life \cup {None}, at : Nat,
     batch : SUBSET Items]

Backup == [items : SUBSET Items, at : Nat, memory : [Mems -> Memory]]

Steps == {"idle", "apply", "batch", "backed", "rollback"}
Call == [step : Steps, items : SUBSET Items, base : [Mems -> Memory]]

Idle == [step |-> "idle", items |-> {}, base |-> Start]

-----------------------------------------------------------------------------
(* The policy. *)

Due(t, asOf) == t # NoTime /\ t <= asOf

IsProtected(m, v) == Class[m] = "protected" \/ v.life.state = "superseded"

Expired(m, v, asOf) ==
    /\ Class[m] \in {"transient", "operational"}
    /\ v.life.state = "validated"
    /\ \/ Due(v.life.until, asOf)
       \/ Class[m] = "transient" /\ Due(v.life.expires, asOf)

(* Nobody recalled it lately, nobody is asked about it, it matters little.  *)
Outlived(m, v, asOf) ==
    /\ Class[m] = "transient"
    /\ m \in Low
    /\ v.life.state \in {"candidate", "validated", "stale"}
    /\ ~v.life.confirm
    /\ v.recalled = NoTime \/ v.recalled + RecallShelters <= asOf
    /\ Born[m] + ArchiveAge <= asOf

(* The rules of evaluate_retention_policy that propose an action, in order: *)
(* a protected memory may still have to be revalidated.                     *)
Proposed(m, v, asOf) ==
    IF Class[m] = "never" THEN "none"
    ELSE IF v.life.state = "validated" /\ Due(v.life.reval, asOf) THEN "revalidate"
    ELSE IF IsProtected(m, v) THEN "none"
    ELSE IF v.life.state = "stale" /\ Due(v.life.review, asOf) THEN "archive"
    ELSE IF Expired(m, v, asOf) THEN "expire"
    ELSE IF Outlived(m, v, asOf) THEN "archive"
    ELSE "none"

(* What the preview hash covers of a memory: archived_at is not part of it. *)
Visible(v) == [v EXCEPT !.life.archived = NoTime]

-----------------------------------------------------------------------------
Init ==
    /\ now = 0
    /\ memory = Start
    /\ item \in [Items ->
         [status : {"absent"}, mem : {CHOOSE m \in Mems : TRUE}, asOf : {0},
          seen : {Start[CHOOSE m \in Mems : TRUE]}, action : {"revalidate"},
          before : {None}, applied : {None}, at : {0}, batch : {{}}]]
    /\ backups = {}
    /\ lock = None
    /\ call = [w \in Workers |-> Idle]
    /\ turn = [i \in Items |-> 0]
    /\ turns = 0
    /\ foreign = {}

Goto(w, c) == call' = [call EXCEPT ![w] = c]
Return(w) == Goto(w, Idle)
At(w, step) == call[w].step = step
Unlocks(w) == lock' = IF lock = w THEN None ELSE lock
Writable == lock = None

(* save_memory_retention_review: the preview is computed and the item is    *)
(* inserted.  The operation key, unique, is the memory and the preview hash *)
(* with its date.  A change between the two steps, which are not one        *)
(* transaction, is as if it came after them: the item is stale either way.  *)
Save(i, m, asOf) ==
    /\ Writable
    /\ item[i].status = "absent"
    /\ Proposed(m, memory[m], asOf) # "none"
    /\ \A j \in Items : item[j].status # "absent" =>
         <<item[j].mem, item[j].asOf, item[j].seen>> # <<m, asOf, Visible(memory[m])>>
    /\ item' = [item EXCEPT ![i] =
         [@ EXCEPT !.status = "pending", !.mem = m, !.asOf = asOf,
                   !.seen = Visible(memory[m]), !.action = Proposed(m, memory[m], asOf)]]
    /\ UNCHANGED <<now, memory, backups, lock, call, turn, turns, foreign>>

(* decide_memory_retention_review: the UPDATE asks again for a pending row, *)
(* so that what was read before it does not matter.                         *)
Decide(i, decision) ==
    /\ Writable
    /\ item[i].status = "pending"
    /\ item' = [item EXCEPT ![i].status = decision]
    /\ UNCHANGED <<now, memory, backups, lock, call, turn, turns, foreign>>

(* _preflight: approved, and the preview for its date is the one saved.     *)
Ready(i) ==
    LET m == item[i].mem IN
    /\ item[i].status = "approved"
    /\ Visible(memory[m]) = item[i].seen
    /\ Proposed(m, memory[m], item[i].asOf) = item[i].action

(* A deferred BEGIN takes no lock until the first write. *)
LocksLater(w) ==
    /\ Writable
    /\ UNCHANGED lock

(* BEGIN IMMEDIATE takes the write lock. *)
Locks(w) ==
    /\ Writable
    /\ lock' = w

(* An apply of one item; or of a batch, of at most one item per memory,     *)
(* whose logical state is remembered.  A refusal rolls back nothing.        *)
ApplyBegins(w, items, step) ==
    /\ At(w, "idle")
    /\ items # {}
    /\ step = "apply" => \E i \in Items : items = {i}
    /\ \A i \in items : Ready(i)
    /\ \A i, j \in items : i # j => item[i].mem # item[j].mem
    /\ Locks(w)
    /\ Goto(w, [step |-> step, items |-> items, base |-> memory])
    /\ UNCHANGED <<now, memory, item, backups, turn, turns, foreign>>

Targets(items) == {item[i].mem : i \in items}

(* The lives of the targets, as a batch state has them.                     *)
SameState(items, old, new) ==
    \A m \in Targets(items) : old[m].life = new[m].life

(* create_verified_retention_batch_backup copies, over a connection of its  *)
(* own, what is committed.  There must be no file of that name, and the     *)
(* copy must be of the state remembered.                                    *)
BacksUp(w) ==
    LET c == call[w] IN
    /\ At(w, "batch")
    /\ \A b \in backups : <<b.items, b.at>> # <<c.items, now>>
    /\ SameState(c.items, c.base, memory)
    /\ backups' = backups \cup {[items |-> c.items, at |-> now, memory |-> memory]}
    /\ Goto(w, [c EXCEPT !.step = "backed"])
    /\ UNCHANGED <<now, memory, item, lock, turn, turns, foreign>>

(* _apply_mutation, on the memory: the life after the action.               *)
After(action, life) ==
    CASE action = "revalidate" ->
           [life EXCEPT !.reval = now + RevalidateIn, !.confirm = FALSE, !.updated = now]
      [] action = "archive" ->
           [life EXCEPT !.state = "archived", !.archived = now, !.updated = now]
      [] action = "expire" ->
           [life EXCEPT !.state = "stale", !.confirm = TRUE, !.updated = now,
                        !.until = IF @ = NoTime THEN now ELSE @,
                        !.review = now + ReviewIn]

LifeAfter(i) == After(item[i].action, memory[item[i].mem].life)

(* The row says applied, but not when. *)
AppliedUndated(i, batch) ==
    [item[i] EXCEPT !.status = "applied", !.before = memory[item[i].mem].life,
                    !.applied = LifeAfter(i), !.at = NoTime, !.batch = batch]

(* ... and on the row. *)
Applied(i, batch) ==
    [item[i] EXCEPT !.status = "applied", !.before = memory[item[i].mem].life,
                    !.applied = LifeAfter(i), !.at = now, !.batch = batch]

(* Each memory and each row of the call, in one commit.                     *)
ApplyAll(items, batch) ==
    /\ memory' = [m \in Mems |->
         IF m \in Targets(items)
         THEN [memory[m] EXCEPT !.life = LifeAfter(CHOOSE i \in items : item[i].mem = m)]
         ELSE memory[m]]
    /\ item' = [i \in Items |-> IF i \in items THEN Applied(i, batch) ELSE item[i]]
    /\ turns' = turns + 1
    /\ turn' = [i \in Items |-> IF i \in items THEN turns + 1 ELSE turn[i]]

ApplyCommits(w) ==
    /\ At(w, "apply")
    /\ ApplyAll(call[w].items, {})
    /\ Return(w)
    /\ Unlocks(w)
    /\ UNCHANGED <<now, backups, foreign>>

(* A batch that commits item by item may stop between two. *)
BatchInParts(items) ==
    \E some \in (SUBSET items) \ {{}} : ApplyAll(some, items)

BatchAtOnce(items) == ApplyAll(items, items)

(* A batch looks at its items again after the backup.                       *)
BatchCommits(w) ==
    LET c == call[w] IN
    /\ At(w, "backed")
    /\ \A i \in c.items : Ready(i)
    /\ SameState(c.items, c.base, memory)
    /\ BatchAtOnce(c.items)
    /\ Return(w)
    /\ Unlocks(w)
    /\ UNCHANGED <<now, backups, foreign>>

(* preview_memory_retention_rollback: the memory is as the item left it and *)
(* no other item was applied to it at a later time.                         *)
MayRollBack(i) ==
    /\ item[i].status = "applied"
    /\ item[i].action \in {"archive", "expire"}
    /\ memory[item[i].mem].life = item[i].applied
    /\ ~\E j \in Items \ {i} :
         item[j].mem = item[i].mem /\ item[j].status = "applied" /\ item[j].at > item[i].at

RollbackReads(w, i) ==
    /\ At(w, "idle")
    /\ MayRollBack(i)
    /\ Goto(w, [Idle EXCEPT !.step = "rollback", !.items = {i}])
    /\ UNCHANGED <<now, memory, item, backups, lock, turn, turns, foreign>>

(* What the first look saw is trusted. *)
RollbackTrustsPreview(i) == TRUE

(* The preview under the lock, compared with the first.                     *)
RollbackChecks(i) == MayRollBack(i)

RollbackActs(w) ==
    /\ At(w, "rollback")
    /\ Writable
    /\ \E i \in call[w].items :
         /\ RollbackChecks(i)
         /\ memory' = [memory EXCEPT ![item[i].mem].life = item[i].before]
         /\ item' = [item EXCEPT ![i].status = "rolled_back"]
    /\ Return(w)
    /\ UNCHANGED <<now, backups, lock, turn, turns, foreign>>

(* A check refuses, a statement fails, the wait for the lock is given up or *)
(* the process dies: the transaction is rolled back, a backup file stays.   *)
Abandons(w) ==
    /\ ~At(w, "idle")
    /\ Return(w)
    /\ Unlocks(w)
    /\ UNCHANGED <<now, memory, item, backups, turn, turns, foreign>>

-----------------------------------------------------------------------------
(* The other tools, some of which leave updated_at alone. *)

Recall(m) ==
    /\ Writable
    /\ memory' = [memory EXCEPT ![m].recalled = now]
    /\ UNCHANGED <<now, item, backups, lock, call, turn, turns, foreign>>

(* The life of m becomes one of another tool's making.                      *)
Make(m, life) ==
    /\ Writable
    /\ m \notin foreign
    /\ memory' = [memory EXCEPT ![m].life = life]
    /\ foreign' = foreign \cup {m}
    /\ UNCHANGED <<now, item, backups, lock, call, turn, turns>>

Reject(m) == Make(m, [memory[m].life EXCEPT !.state = "archived", !.archived = now])

SetDue(m, field, t) == Make(m, [memory[m].life EXCEPT ![field] = t])

Tick ==
    /\ now < MaxNow
    /\ now' = now + 1
    /\ UNCHANGED <<memory, item, backups, lock, call, turn, turns, foreign>>

Reviewing ==
    \E i \in Items :
        \/ \E m \in Mems, asOf \in Dates : Save(i, m, asOf)
        \/ \E decision \in {"approved", "rejected"} : Decide(i, decision)

Applying(w) ==
    \/ \E items \in SUBSET Items, step \in {"apply", "batch"} : ApplyBegins(w, items, step)
    \/ ApplyCommits(w)
    \/ BacksUp(w)
    \/ BatchCommits(w)

RollingBack(w) ==
    \/ \E i \in Items : RollbackReads(w, i)
    \/ RollbackActs(w)

Others ==
    \E m \in Touched :
        \/ Recall(m)
        \/ Reject(m)
        \/ \E field \in {"review", "reval", "expires"}, t \in Dates : SetDue(m, field, t)

Next ==
    \/ Reviewing
    \/ \E w \in Workers : Applying(w) \/ RollingBack(w) \/ Abandons(w)
    \/ Others
    \/ Tick

Spec == Init /\ [][Next]_vars

-----------------------------------------------------------------------------
(* Rows, files, calls and memories have their types.                        *)
TypeOK ==
    /\ now \in Nat
    /\ memory \in [Mems -> Memory]
    /\ item \in [Items -> Row]
    /\ backups \subseteq Backup
    /\ lock \in Workers \cup {None}
    /\ call \in [Workers -> Call]
    /\ turn \in [Items -> Nat]
    /\ turns \in Nat
    /\ foreign \subseteq Mems

(* An item is applied to the memory that its reviewer was shown, recalls    *)
(* and dates included: what changed since its approval refuses the apply,   *)
(* although not every tool sets updated_at.                                 *)
AppliedAsReviewed ==
    [][\A i \in Items : item[i].status # "applied" /\ item'[i].status = "applied" =>
         /\ item[i].status = "approved"
         /\ Visible(memory[item[i].mem]) = item[i].seen
         /\ item'[i].before = memory[item[i].mem].life]_vars

Standing(i) == item[i].status = "applied"
LastStanding(i) ==
    /\ Standing(i)
    /\ \A j \in Items : Standing(j) /\ item[j].mem = item[i].mem => turn[j] <= turn[i]

(* As long as no other tool changes its life, a memory is what its items    *)
(* say: as the last one applied and not rolled back left it, and as it was  *)
(* at first if there is none.  Rollbacks that race each other or an apply   *)
(* would restore a life from the middle of its history.                     *)
LedgerExplains ==
    \A m \in Mems \ foreign :
        /\ (\A i \in Items : Standing(i) => item[i].mem # m) => memory[m].life = Start[m].life
        /\ \A i \in Items :
             LastStanding(i) /\ item[i].mem = m => memory[m].life = item[i].applied

(* A batch is all or nothing, and a backup file of it has each of its       *)
(* memories as it was right before the batch.                               *)
BatchFromBackup ==
    \A i \in Items : item[i].batch # {} =>
        /\ \A j \in item[i].batch :
             /\ item[j].status \in {"applied", "rolled_back"}
             /\ item[j].batch = item[i].batch
             /\ turn[j] = turn[i]
        /\ \E b \in backups :
             /\ b.items = item[i].batch
             /\ \A j \in b.items : b.memory[item[j].mem].life = item[j].before
=============================================================================
