--------------------------- MODULE CaptureReview ---------------------------
(***************************************************************************)
(* The capture review queue and its reconciliation with the memory pool:   *)
(* mapi_core/memory/capture_queue.py, reconciliation.py and                *)
(* reconciliation_apply.py, as the tools of server_core.py call them.      *)
(*                                                                         *)
(* A captured proposal waits in memory_capture_review_items.  Operators    *)
(* approve, reject or expire it, have it compared with the memories of its *)
(* project and scope (the preview, which is stored in the row), and apply  *)
(* an approved one under the hash of its preview.  review, expire and the  *)
(* storing of a preview read the row outside a transaction and later write *)
(* it by id alone; an apply runs under BEGIN IMMEDIATE, and while it holds *)
(* the write lock nobody else writes.                                      *)
(*                                                                         *)
(* A preview is modelled by what its hash covers: the outcome, the memory  *)
(* it is about and the snapshots of the shortlist.  Near is the similarity *)
(* that makes the outcome uncertain, lexical or semantic.  Left out: the   *)
(* metadata-only outcome, which no apply carries out, and the flags,       *)
(* deadlines and contracts that only make an apply refuse.                 *)
(***************************************************************************)
EXTENDS Naturals, Sequences, FiniteSets

CONSTANTS
    Operators,   \* people and agents that may each be inside one call
    Items,       \* rows of the review queue
    Captured,    \* the ways in which the items may be proposed
    Contents, Refs, NoRef,  \* contents; source_event_ref of a capture, or none
    Near,        \* pairs of contents that are too similar to tell apart
    Pool,        \* the memories there are at first, by id
    Saved,       \* what others may save: content and ref
    MaxMemory,   \* bound: others add memories while the pool is smaller
    None         \* no preview, no audit, a free lock

Kinds == {"plain", "transient", "version", "conflict"}

Proposal == [kind : Kinds, content : Contents, ref : Refs \cup {NoRef}, target : Nat]

(* What the preview looks at in a memory; by is superseded_by_memory_id.   *)
Memory ==
    [content : Contents, ref : Refs \cup {NoRef},
     state : {"validated", "superseded", "conflicted", "archived"}, by : Nat]

ASSUME ConstantsAssumption ==
    /\ None \notin Operators
    /\ Items # {}
    /\ NoRef \notin Refs
    /\ Captured \subseteq [Items -> Proposal]
    /\ Pool \in Seq(Memory)
    /\ Near \subseteq Contents \X Contents
    /\ Saved \subseteq Contents \X (Refs \cup {NoRef})
    /\ MaxMemory \in Nat

VARIABLES
    memory,     \* the memories of one project, scope and workspace, by id
    proposal,   \* proposal[i]: proposal_json of item i, never written again
    item,       \* item[i]: the row of item i, but for its proposal
    lock,       \* who holds the write lock of the database
    call,       \* call[o]: what operator o is in the middle of
    done,       \* history: done[i], the effects of item i, in order
    approvals,  \* history: approvals[i], how often a write approved item i
    overtaken   \* history: items written by a call after another changed them

vars == <<memory, proposal, item, lock, call, done, approvals, overtaken>>

Statuses == {"absent", "pending", "approved", "rejected", "expired", "applied"}
Mutable == {"pending", "approved"}

Outcomes ==
    {"create_new", "create_version", "reinforce_existing", "duplicate_existing",
     "conflict_review", "skip_transient", "abstain"}

Creating == {"create_new", "create_version", "conflict_review"}
Supported == Outcomes \ {"abstain"}

Preview == [outcome : Outcomes, primary : Nat, seen : SUBSET (Nat \X Memory)]
Effect == [outcome : Outcomes, primary : Nat, made : Nat]
Audit == [hash : Preview, effect : Effect]
Row ==
    [status : Statuses, preview : Preview \cup {None}, audit : Audit \cup {None},
     created : Nat]

Steps == {"idle", "review", "expire", "persist", "apply"}
Call == [step : Steps, item : Items, read : Statuses, to : Statuses,
         hash : Preview \cup {None}]

Idle == [step |-> "idle", item |-> CHOOSE i \in Items : TRUE, read |-> "absent",
         to |-> "absent", hash |-> None]

-----------------------------------------------------------------------------
(* The preview. *)

Ids == DOMAIN memory
Exact(p) == {m \in Ids : memory[m].content = p.content}
Source(p) == {m \in Ids : p.ref # NoRef /\ memory[m].ref = p.ref}
Similar(p) == {m \in Ids : <<p.content, memory[m].content>> \in Near}
Target(p) == {m \in Ids : p.kind \in {"version", "conflict"} /\ m = p.target}

First(ms) == IF ms = {} THEN 0 ELSE CHOOSE m \in ms : \A n \in ms : m <= n

(* A conflict may be opened about a memory that is in force, or in conflict. *)
ConflictEligible(p) ==
    \E m \in Target(p) : memory[m].state \in {"validated", "conflicted"}

(* The outcome that the preview recommends, by the first rule that applies. *)
Outcome(p) ==
    IF p.kind = "transient" THEN "skip_transient"
    ELSE IF p.kind = "conflict" THEN
        IF ConflictEligible(p) THEN "conflict_review" ELSE "abstain"
    ELSE IF p.kind = "version" THEN
        IF Target(p) = {} THEN "abstain"
        ELSE IF Target(p) \subseteq Exact(p) THEN "duplicate_existing"
        ELSE "create_version"
    ELSE IF Source(p) # {} THEN
        IF Source(p) \cap Exact(p) # {} THEN "duplicate_existing"
        ELSE "reinforce_existing"
    ELSE IF Exact(p) # {} THEN "duplicate_existing"
    ELSE IF Similar(p) # {} THEN "abstain"
    ELSE "create_new"

(* The memory the outcome is about: the target, or the first match.         *)
Primary(p) ==
    IF Outcome(p) \in {"create_new", "skip_transient", "abstain"} THEN 0
    ELSE IF Target(p) # {} THEN First(Target(p))
    ELSE IF Source(p) # {} THEN First(Source(p))
    ELSE First(Exact(p))

Shortlist(p) == Exact(p) \cup Source(p) \cup Similar(p) \cup Target(p)

(* What reconciliation_preview_hash covers.                                 *)
PreviewOf(i) ==
    [outcome |-> Outcome(proposal[i]), primary |-> Primary(proposal[i]),
     seen |-> {<<m, memory[m]>> : m \in Shortlist(proposal[i])}]

-----------------------------------------------------------------------------
Init ==
    /\ memory = Pool
    /\ proposal \in Captured
    /\ item = [i \in Items |->
         [status |-> "absent", preview |-> None, audit |-> None, created |-> 0]]
    /\ lock = None
    /\ call = [o \in Operators |-> Idle]
    /\ done = [i \in Items |-> <<>>]
    /\ approvals = [i \in Items |-> 0]
    /\ overtaken = {}

Goto(o, c) == call' = [call EXCEPT ![o] = c]
Return(o) == Goto(o, Idle)
At(o, step) == call[o].step = step

(* A write waits for the lock of an apply.                                  *)
Writable == lock = None

(* create_capture_review_item: the proposal key is unique, so of two        *)
(* captures of one input the second finds the row or fails to insert it.    *)
Capture(i) ==
    /\ Writable
    /\ item[i].status = "absent"
    /\ item' = [item EXCEPT ![i].status = "pending"]
    /\ UNCHANGED <<memory, proposal, lock, call, done, approvals, overtaken>>

(* The row was written under another status than the one the call read.     *)
Overtakes(o) ==
    overtaken' = IF item[call[o].item].status = call[o].read THEN overtaken
                 ELSE overtaken \cup {call[o].item}

(* As ReviewReads, with a decision that was taken open to another. *)
ReviewReadsDecided(o, i, decision) ==
    /\ At(o, "idle")
    /\ item[i].status \in {"pending", "rejected", "applied"}
    /\ Goto(o, [Idle EXCEPT !.step = "review", !.item = i, !.read = item[i].status,
                            !.to = decision])
    /\ UNCHANGED <<memory, proposal, item, lock, done, approvals, overtaken>>

(* review_capture_item: the decision is checked against the status read.    *)
ReviewReads(o, i, decision) ==
    /\ At(o, "idle")
    /\ item[i].status = "pending"
    /\ Goto(o, [Idle EXCEPT !.step = "review", !.item = i, !.read = "pending",
                            !.to = decision])
    /\ UNCHANGED <<memory, proposal, item, lock, done, approvals, overtaken>>

(* Its UPDATE names the id only, and is committed at once.                  *)
ReviewWrites(o) ==
    LET i == call[o].item IN
    /\ At(o, "review")
    /\ Writable
    /\ item' = [item EXCEPT ![i].status = call[o].to]
    /\ approvals' = IF call[o].to = "approved"
                    THEN [approvals EXCEPT ![i] = @ + 1] ELSE approvals
    /\ Overtakes(o)
    /\ Return(o)
    /\ UNCHANGED <<memory, proposal, lock, done>>

(* expire_capture_item, in the same two steps.                              *)
ExpireReads(o, i) ==
    /\ At(o, "idle")
    /\ item[i].status \in Mutable
    /\ Goto(o, [Idle EXCEPT !.step = "expire", !.item = i, !.read = item[i].status,
                            !.to = "expired"])
    /\ UNCHANGED <<memory, proposal, item, lock, done, approvals, overtaken>>

ExpireWrites(o) ==
    /\ At(o, "expire")
    /\ Writable
    /\ item' = [item EXCEPT ![call[o].item].status = "expired"]
    /\ Overtakes(o)
    /\ Return(o)
    /\ UNCHANGED <<memory, proposal, lock, done, approvals>>

(* preview_memory_capture_reconciliation reads the row and the pool, and    *)
(* the row again to ask whether it may still be reconciled ...              *)
PreviewCompares(o, i) ==
    /\ At(o, "idle")
    /\ item[i].status \in Mutable
    /\ Goto(o, [Idle EXCEPT !.step = "persist", !.item = i, !.read = item[i].status,
                            !.hash = PreviewOf(i)])
    /\ UNCHANGED <<memory, proposal, item, lock, done, approvals, overtaken>>

(* ... and stores the preview by id: what reconciliation_json held goes,    *)
(* the audit of an apply with it.                                           *)
PreviewPersists(o) ==
    LET i == call[o].item IN
    /\ At(o, "persist")
    /\ Writable
    /\ item' = [item EXCEPT ![i].preview = call[o].hash, ![i].audit = None]
    /\ Overtakes(o)
    /\ Return(o)
    /\ UNCHANGED <<memory, proposal, lock, done, approvals>>

(* A deferred BEGIN takes none until the first write. *)
LocksLater(o) ==
    /\ Writable
    /\ UNCHANGED lock

(* BEGIN IMMEDIATE takes the write lock. *)
Locks(o) ==
    /\ Writable
    /\ lock' = o

(* An apply under the hash its operator has seen in the row.  After BEGIN   *)
(* IMMEDIATE the row is read: it must be approved and hold that hash, and   *)
(* the preview computed again must give it, with an outcome that can be     *)
(* carried out.  A refusal rolls back what is still nothing, and a row that *)
(* is applied already answers from its audit.                               *)
ApplyBegins(o, i) ==
    /\ At(o, "idle")
    /\ item[i].status = "approved"
    /\ item[i].preview # None
    /\ item[i].preview = PreviewOf(i)
    /\ item[i].preview.outcome \in Supported
    /\ Locks(o)
    /\ Goto(o, [Idle EXCEPT !.step = "apply", !.item = i, !.read = "approved",
                            !.hash = item[i].preview])
    /\ UNCHANGED <<memory, proposal, item, done, approvals, overtaken>>

(* The supersession preview inside the transaction refuses a memory that    *)
(* has a replacement.                                                       *)
Allowed(h) == h.outcome = "create_version" => memory[h.primary].by = 0

(* What becomes of the pool: a memory is added for the outcomes that create *)
(* one; a version replaces its target, a conflict marks both.               *)
PoolAfter(i, h) ==
    LET new == [content |-> proposal[i].content, ref |-> proposal[i].ref,
                state |-> IF h.outcome = "conflict_review" THEN "conflicted" ELSE "validated",
                by |-> 0]
        id == Len(memory) + 1
        old == CASE h.outcome = "create_version" ->
                      [memory EXCEPT ![h.primary].state = "superseded", ![h.primary].by = id]
                 [] h.outcome = "conflict_review" ->
                      [memory EXCEPT ![h.primary].state = "conflicted"]
                 [] OTHER -> memory
    IN  IF h.outcome \in Creating THEN Append(old, new) ELSE memory

EffectOf(h) ==
    [outcome |-> h.outcome, primary |-> h.primary,
     made |-> IF h.outcome \in Creating THEN Len(memory) + 1 ELSE 0]

(* The effect is in the pool and the row does not say so. *)
AppliedLater(row, h) ==
    [row EXCEPT !.created = EffectOf(h).made,
                !.audit = [hash |-> h, effect |-> EffectOf(h)]]

(* The plan is stored where the audit belongs. *)
AppliedUnaudited(row, h) ==
    [row EXCEPT !.status = "applied", !.created = EffectOf(h).made, !.audit = h]

(* mark_capture_review_item_applied. *)
Applied(row, h) ==
    [row EXCEPT !.status = "applied", !.created = EffectOf(h).made,
                !.audit = [hash |-> h, effect |-> EffectOf(h)]]

(* Pool, events and row change in the one transaction, or it rolls back.    *)
ApplyCommits(o) ==
    LET i == call[o].item
        h == call[o].hash
    IN
    /\ At(o, "apply")
    /\ \/ /\ Allowed(h)
          /\ item[i].status = "approved"
          /\ memory' = PoolAfter(i, h)
          /\ item' = [item EXCEPT ![i] = Applied(@, h)]
          /\ done' = [done EXCEPT ![i] = Append(@, EffectOf(h))]
       \/ /\ ~Allowed(h) \/ item[i].status # "approved"
          /\ UNCHANGED <<memory, item, done>>
    /\ Return(o)
    /\ lock' = None
    /\ UNCHANGED <<proposal, approvals, overtaken>>

(* The process dies, a statement fails or a wait for the lock is given up:  *)
(* the transaction, if there is one, is rolled back.                        *)
Abandons(o) ==
    /\ ~At(o, "idle")
    /\ Return(o)
    /\ lock' = IF lock = o THEN None ELSE lock
    /\ UNCHANGED <<memory, proposal, item, done, approvals, overtaken>>

(* The other tools write the pool: a memory is saved, one is archived.      *)
Save(c, r) ==
    /\ Writable
    /\ Len(memory) < MaxMemory
    /\ memory' = Append(memory, [content |-> c, ref |-> r, state |-> "validated", by |-> 0])
    /\ UNCHANGED <<proposal, item, lock, call, done, approvals, overtaken>>

Archive(m) ==
    /\ Writable
    /\ memory[m].state = "validated"
    /\ memory' = [memory EXCEPT ![m].state = "archived"]
    /\ UNCHANGED <<proposal, item, lock, call, done, approvals, overtaken>>

Review(o) ==
    \/ \E i \in Items, d \in {"approved", "rejected"} : ReviewReads(o, i, d)
    \/ ReviewWrites(o)
    \/ \E i \in Items : ExpireReads(o, i)
    \/ ExpireWrites(o)

Reconcile(o) ==
    \/ \E i \in Items : PreviewCompares(o, i)
    \/ PreviewPersists(o)
    \/ \E i \in Items : ApplyBegins(o, i)
    \/ ApplyCommits(o)

Next ==
    \/ \E i \in Items : Capture(i)
    \/ \E o \in Operators : Review(o) \/ Reconcile(o) \/ Abandons(o)
    \/ \E cr \in Saved : Save(cr[1], cr[2])
    \/ \E m \in Ids : Archive(m)

Spec == Init /\ [][Next]_vars

-----------------------------------------------------------------------------
(* Rows, calls and the pool have their types.                               *)
TypeOK ==
    /\ memory \in Seq(Memory)
    /\ proposal \in [Items -> Proposal]
    /\ item \in [Items -> Row]
    /\ lock \in Operators \cup {None}
    /\ call \in [Operators -> Call]
    /\ done \in [Items -> Seq(Effect)]
    /\ approvals \in [Items -> Nat]
    /\ overtaken \in SUBSET Items

(* A capture that was applied as new is new: when it was added no memory    *)
(* held its content.  Two approved captures of one text, or a capture and a *)
(* direct save, race here.                                                  *)
NoTwins ==
    \A i \in Items : \A k \in DOMAIN done[i] :
        done[i][k].outcome = "create_new" =>
            \A m \in Ids :
                m < done[i][k].made => memory[m].content # memory[done[i][k].made].content

(* However calls overtake each other, each effect of an item has an         *)
(* approval of its own: an apply uses one up.                               *)
EveryEffectApproved == \A i \in Items : Len(done[i]) <= approvals[i]

(* Unless a call wrote over a change it had not seen, the row tells what    *)
(* became of its item: one effect if it says applied, none otherwise, and   *)
(* its audit and created_memory_id are of that effect.                      *)
LedgerTrue(i) ==
    /\ item[i].status # "applied" => done[i] = <<>> /\ item[i].created = 0
    /\ item[i].status = "applied" =>
         /\ Len(done[i]) = 1
         /\ item[i].audit = [hash |-> item[i].preview, effect |-> done[i][1]]
         /\ item[i].created = done[i][1].made

LedgerTrueUnlessOvertaken == \A i \in Items \ overtaken : LedgerTrue(i)

(* What the operator agreed to is what is done: at the moment of the change *)
(* the pool still gives the preview whose hash was confirmed.               *)
AgreedIsDone ==
    [][\A i \in Items : done'[i] # done[i] => item'[i].audit.hash = PreviewOf(i)]_vars
=============================================================================
