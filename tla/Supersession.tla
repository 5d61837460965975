---------------------------- MODULE Supersession ----------------------------
(***************************************************************************)
(* mapi_core/memory/supersession.py: one memory replaces another, under a  *)
(* preview whose hash the caller must hand back, and can be rolled back.   *)
(*                                                                         *)
(* Each element of Operators is a thread inside one of the tools: preview, *)
(* apply, rollback.  An apply looks its operation key up, previews again,  *)
(* compares hashes, reads the pair, and only then opens the transaction    *)
(* that compares the pair once more and writes.  A rollback compares first *)
(* and writes in a transaction that compares nothing.  Every SELECT is on  *)
(* its own, so whatever another thread or process commits comes between    *)
(* two of these steps; a transaction is atomic, SQLite refusing the write  *)
(* of one whose reads are no longer current.                               *)
(*                                                                         *)
(* Left out: updated_at, which has a resolution of one second, so that two *)
(* writes may carry the same stamp and no comparison can rest on it; the   *)
(* event log, which nothing reads back; and memory_v2_status, which        *)
(* follows the state.  One preview, which reads row after row, is one      *)
(* step.                                                                   *)
(***************************************************************************)
EXTENDS Naturals, Sequences, FiniteSets

CONSTANTS
    Memories,     \* rows of table memories
    Operators,    \* threads that may be inside the tools at once
    Reasons,      \* relation_kind and reason: two calls differ in them or not
    None,         \* NULL
    Domain,       \* Domain[m]: project_key and scope_code of m
    InitialState, \* InitialState[m]: state of m before anything happens
    Weak,         \* memories whose truth_kind is dream or proposal
    Firm,         \* facts and decisions that need no confirmation
    Protected,    \* core or identity layer, decisions, critical memories
    Confirming,   \* operators that pass confirm_protected
    Archivable    \* memories somebody may archive with archive_memory_v2

States == {"candidate", "validated", "stale", "conflicted", "archived", "superseded"}

ASSUME ConstantsAssumption ==
    /\ None \notin Memories
    /\ IsFiniteSet(Memories)
    /\ InitialState \in [Memories -> States \ {"superseded"}]
    /\ Weak \cup Firm \cup Protected \cup Archivable \subseteq Memories

VARIABLES
    memory, \* memory[m]: state, activity and lineage pointers of m
    links,  \* the rows of memory_links with relation_type supersedes, by id
    runs,   \* runs[k]: the row of operation key k in memory_lifecycle_snapshots
    op      \* op[p]: what operator p is doing

vars == <<memory, links, runs, op>>

-----------------------------------------------------------------------------
(* Tables. *)

Memory ==
    [state : States,
     active : BOOLEAN,
     supersedes : Memories \cup {None},
     superseded_by : Memories \cup {None}]

Link == [from : Memories, to : Memories, archived : BOOLEAN]

(* The operation key is a hash of exactly these. *)
OperationKey == [new : Memories, old : Memories, reason : Reasons]

NoRun == [status |-> "none"]

Children(m) == {c \in Memories : memory[c].supersedes = m}

(* The supersedes links between two memories, archived ones included. *)
PairLinks(table, new, old) ==
    [i \in {i \in DOMAIN table : {table[i].from, table[i].to} = {new, old}}
       |-> table[i]]

(* What apply and rollback compare: both rows and the links of the pair.    *)
Pair(new, old) ==
    [new |-> memory[new], old |-> memory[old], links |-> PairLinks(links, new, old)]

ActiveLinks(pairLinks, from, to) ==
    {i \in DOMAIN pairLinks :
        pairLinks[i] = [from |-> from, to |-> to, archived |-> FALSE]}

-----------------------------------------------------------------------------
(* The lineage graph. *)

(* The least set that contains S and the successors of its members.         *)
Closed(S, successors) ==
    {T \in SUBSET Memories : S \subseteq T /\ \A m \in T : successors[m] \subseteq T}

Closure(S, successors) ==
    LET closed == Closed(S, successors)
    IN  {m \in Memories : \A T \in closed : m \in T}

Parents(m) == {memory[m].supersedes} \ {None}

Replacements(m) == {memory[m].superseded_by} \ {None}

Ancestors(m) == Closure(Parents(m), [x \in Memories |-> Parents(x)])

Descendants(m) == Closure(Children(m), [x \in Memories |-> Children(x)])

Lineage(m) == Ancestors(m) \cup Descendants(m)

Neighbours(m) == Parents(m) \cup Replacements(m) \cup Children(m)

(* load_lifecycle_graph, for both memories of a pair.                       *)
Graph(new, old) == Closure({new, old}, [x \in Memories |-> Neighbours(x)])

LinkPairs(graph) ==
    {<<links[i].from, links[i].to>> :
        i \in {i \in DOMAIN links : {links[i].from, links[i].to} \cap graph # {}}}

IsHead(m) ==
    memory[m].superseded_by = None /\ memory[m].state \notin {"archived", "superseded"}

(* Memories joined by a pointer or by a link, whichever way it points.      *)
Component(m, graph, pairs) ==
    LET joined == [x \in Memories |->
          {y \in graph : \/ y \in Parents(x) \/ x \in Parents(y)
                         \/ <<x, y>> \in pairs \/ <<y, x>> \in pairs}]
    IN  Closure({m}, joined)

(* evaluate_lifecycle_integrity_graph: the memories of every finding that   *)
(* blocks a preview.                                                        *)
Findings(graph) ==
    LET pairs == LinkPairs(graph)
        child == {m \in graph : memory[m].supersedes # None}
        parent(m) == memory[m].supersedes
        replaced == {m \in graph : memory[m].superseded_by # None}
        replacement(m) == memory[m].superseded_by
    IN  {{m, parent(m)} \cup Replacements(parent(m)) :
            m \in {m \in child : replacement(parent(m)) # m}}
        \cup {{m, parent(m)} :
            m \in {m \in child : \/ <<m, parent(m)>> \notin pairs
                                 \/ Domain[m] # Domain[parent(m)]}}
        \cup {{m, replacement(m)} \cup Parents(replacement(m)) :
            m \in {m \in replaced : parent(replacement(m)) # m}}
        \cup {{m, replacement(m)} :
            m \in {m \in replaced : memory[m].state \notin {"superseded", "archived"}}}
        \cup {{m} :
            m \in {m \in graph \ (child \cup replaced) :
                     /\ memory[m].state = "superseded"
                     /\ \A pair \in pairs : m \notin {pair[1], pair[2]}}}
        \cup {{pair[1], pair[2]} :
            pair \in {pair \in pairs : /\ pair[1] \in graph
                                       /\ parent(pair[1]) # pair[2]}}
        \cup {{m} \cup Children(m) :
            m \in {m \in graph : Cardinality(Children(m)) > 1}}
        \cup {Ancestors(m) : m \in {m \in graph : m \in Ancestors(m)}}
        \cup {heads \in {{h \in Component(m, graph, pairs) : IsHead(h)} : m \in graph} :
                Cardinality(heads) > 1}

(* Whatever the integrity findings let through is ready. *)
IntegritySuffices(new, old) ==
    /\ new # old
    /\ \A ids \in Findings(Graph(new, old)) : {new, old} \cap ids = {}
    /\ Domain[new] = Domain[old]

(* A memory may have two replacements. *)
BranchAllowed(new, old) ==
    /\ IntegritySuffices(new, old)
    /\ memory[new].state \notin {"archived", "superseded"}
    /\ old \notin Lineage(new)
    /\ new \notin Lineage(old)

(* preview_memory_supersession_payload says preview_ready.                  *)
PreviewReady(new, old) ==
    /\ new # old
    /\ \A ids \in Findings(Graph(new, old)) : {new, old} \cap ids = {}
    /\ Domain[new] = Domain[old]
    /\ memory[new].state \notin {"archived", "superseded"}
    /\ memory[old].state # "candidate"
    /\ ~(new \in Weak /\ old \in Firm)
    /\ memory[old].superseded_by \in {None, new}
    /\ old \notin Lineage(new)
    /\ new \notin Lineage(old)

(* _minimal_lineage_snapshot: activity_state is not in it.                  *)
LineageRow(m) == <<memory[m].state, memory[m].supersedes, memory[m].superseded_by>>

(* What preview_hash covers, beside the key, when the preview is ready.     *)
Fingerprint(new, old) ==
    [new |-> LineageRow(new), old |-> LineageRow(old),
     newLineage |-> Lineage(new), oldLineage |-> Lineage(old)]

-----------------------------------------------------------------------------
(* Operators. *)

Idle == [step |-> "idle"]

Init ==
    /\ memory = [m \in Memories |->
         [state |-> InitialState[m], active |-> InitialState[m] # "archived",
          supersedes |-> None, superseded_by |-> None]]
    /\ links = <<>>
    /\ runs = [k \in OperationKey |-> NoRun]
    /\ op = [p \in Operators |-> Idle]

(* preview_memory_supersession: the caller keeps the hash.  A preview that  *)
(* is not ready leads nowhere.                                              *)
Preview(p, k) ==
    /\ op[p] = Idle
    /\ PreviewReady(k.new, k.old)
    /\ op' = [op EXCEPT ![p] =
         [step |-> "previewed", key |-> k, hash |-> Fingerprint(k.new, k.old)]]
    /\ UNCHANGED <<memory, links, runs>>

(* An apply that has read what it wanted, and goes on.                      *)
Goto(p, step) ==
    /\ op' = [op EXCEPT ![p] = [step |-> step, key |-> op[p].key, hash |-> op[p].hash]]
    /\ UNCHANGED <<memory, links, runs>>

(* apply: the operation key is looked up; a run that exists, applied or     *)
(* rolled back, ends the call.                                              *)
ApplyLooksUp(p) ==
    /\ op[p].step = "previewed"
    /\ runs[op[p].key] = NoRun
    /\ Goto(p, "new_key")

(* The preview is computed again and must give the hash the caller has.     *)
ApplyPreviewsAgain(p) ==
    LET k == op[p].key IN
    /\ op[p].step = "new_key"
    /\ PreviewReady(k.new, k.old)
    /\ Fingerprint(k.new, k.old) = op[p].hash
    /\ Goto(p, "fresh")

(* The pair is read for the snapshot; what blocks here is protection and    *)
(* the links of the pair, not the state the preview judged.                 *)
ApplyReads(p) ==
    LET k == op[p].key
        pair == Pair(k.new, k.old)
    IN
    /\ op[p].step = "fresh"
    /\ {k.new, k.old} \cap Protected # {} => p \in Confirming
    /\ Cardinality(ActiveLinks(pair.links, k.new, k.old)) <= 1
    /\ ActiveLinks(pair.links, k.old, k.new) = {}
    /\ op' = [op EXCEPT ![p] =
         [step |-> "read", key |-> k, hash |-> op[p].hash, before |-> pair]]
    /\ UNCHANGED <<memory, links, runs>>

(* The snapshot is not compared with what the transaction reads. *)
NeverStale(p) == TRUE

Unchanged(p) ==
    LET k == op[p].key IN Pair(k.new, k.old) = op[p].before

(* The row id is taken before the row is inserted. *)
LastRowId(k, pairLinks) == Len(links)

(* A link that is there is used, otherwise one is inserted. *)
LinkOf(k, pairLinks) ==
    IF ActiveLinks(pairLinks, k.new, k.old) = {} THEN Len(links) + 1
    ELSE CHOOSE i \in ActiveLinks(pairLinks, k.new, k.old) : TRUE

(* The replaced memory is made superseded only. *)
ForwardPointerForgotten(k) ==
    [memory EXCEPT ![k.new].supersedes = k.old, ![k.old].state = "superseded"]

Superseded(k) ==
    [memory EXCEPT ![k.new].supersedes = k.old,
                   ![k.old].superseded_by = k.new,
                   ![k.old].state = "superseded"]

(* The transaction of apply: compare, link, write both rows, and record the *)
(* run under its key, which must not have been used.                        *)
ApplyCommits(p) ==
    LET k == op[p].key
        id == LinkOf(k, op[p].before.links)
    IN
    /\ op[p].step = "read"
    /\ Unchanged(p)
    /\ runs[k] = NoRun
    /\ memory' = Superseded(k)
    /\ links' = IF id \in DOMAIN links THEN links
                ELSE Append(links, [from |-> k.new, to |-> k.old, archived |-> FALSE])
    /\ runs' = [runs EXCEPT ![k] =
         [status |-> "applied",
          before |-> op[p].before,
          after |-> [new |-> memory'[k.new], old |-> memory'[k.old],
                     links |-> PairLinks(links', k.new, k.old)],
          created |-> id \notin DOMAIN links,
          link |-> id,
          order |-> Cardinality({j \in OperationKey : runs[j] # NoRun})]]
    /\ op' = [op EXCEPT ![p] = Idle]

(* The run may have been rolled back already. *)
RollbackAgain(k) == runs[k] # NoRun

MayRollBack(k) == runs[k].status = "applied"

(* The pair is not looked at. *)
RollbackUnchecked(p, k) ==
    /\ op[p] = Idle
    /\ MayRollBack(k)
    /\ op' = [op EXCEPT ![p] = [step |-> "checked", key |-> k]]
    /\ UNCHANGED <<memory, links, runs>>

(* preview_memory_supersession_rollback, and rollback's own preview: the    *)
(* pair must be as the run left it.  The hash the caller hands back is a    *)
(* function of the run alone, as nothing else can vary then.                *)
RollbackChecks(p, k) ==
    /\ op[p] = Idle
    /\ MayRollBack(k)
    /\ Pair(k.new, k.old) = runs[k].after
    /\ op' = [op EXCEPT ![p] = [step |-> "checked", key |-> k]]
    /\ UNCHANGED <<memory, links, runs>>

(* Only the state of the two memories is put back. *)
PointersKept(k) ==
    LET before == runs[k].before IN
    [memory EXCEPT ![k.new].state = before.new.state, ![k.old].state = before.old.state]

Restored(k) ==
    LET before == runs[k].before IN
    [memory EXCEPT ![k.new].supersedes = before.new.supersedes,
                   ![k.new].state = before.new.state,
                   ![k.old].superseded_by = before.old.superseded_by,
                   ![k.old].state = before.old.state]

(* The row goes, and its key with it. *)
RunForgotten(run) == NoRun

RolledBack(run) == [run EXCEPT !.status = "rolled_back"]

(* The transaction of rollback: it compares nothing but the run's status,   *)
(* and archives the link the run created.                                   *)
RollbackCommits(p) ==
    LET k == op[p].key IN
    /\ op[p].step = "checked"
    /\ MayRollBack(k)
    /\ memory' = Restored(k)
    /\ links' = IF runs[k].created
                THEN [links EXCEPT ![runs[k].link].archived = TRUE] ELSE links
    /\ runs' = [runs EXCEPT ![k] = RolledBack(@)]
    /\ op' = [op EXCEPT ![p] = Idle]

(* A call that is refused, loses the write lock, raises or dies with its    *)
(* process writes nothing; a caller may also never follow up on a preview.  *)
Leaves(p) ==
    /\ op[p] # Idle
    /\ op' = [op EXCEPT ![p] = Idle]
    /\ UNCHANGED <<memory, links, runs>>

(* archive_memory_v2 archives whatever it is given: state_code, and         *)
(* activity_state, which nothing here sets back.                            *)
Archived(row) == [row EXCEPT !.state = "archived", !.active = FALSE]

Archive(m) ==
    /\ memory' = [memory EXCEPT ![m] = Archived(@)]
    /\ memory' # memory
    /\ UNCHANGED <<links, runs, op>>

Step(p) ==
    \/ \E k \in OperationKey : Preview(p, k) \/ RollbackChecks(p, k)
    \/ ApplyLooksUp(p)
    \/ ApplyPreviewsAgain(p)
    \/ ApplyReads(p)
    \/ ApplyCommits(p)
    \/ RollbackCommits(p)
    \/ Leaves(p)

Next ==
    \/ \E p \in Operators : Step(p)
    \/ \E m \in Archivable : Archive(m)

Spec == Init /\ [][Next]_vars

-----------------------------------------------------------------------------
(* Properties. *)

Applied(k) == runs[k].status = "applied"

IsSnapshot(pair) ==
    /\ {pair.new, pair.old} \subseteq Memory
    /\ \A i \in DOMAIN pair.links : i \in DOMAIN links /\ pair.links[i] \in Link

IsRun(run) ==
    /\ DOMAIN run = {"status", "before", "after", "created", "link", "order"}
    /\ run.status \in {"applied", "rolled_back"}
    /\ IsSnapshot(run.before)
    /\ IsSnapshot(run.after)
    /\ run.link \in DOMAIN links

IsCall(o) ==
    /\ o.step \in {"previewed", "new_key", "fresh", "read", "checked"}
    /\ o.key \in OperationKey

(* Rows and locals hold what their columns and the code can put there, and  *)
(* a run names a link that exists.                                          *)
TypeOK ==
    /\ memory \in [Memories -> Memory]
    /\ links \in Seq(Link)
    /\ DOMAIN runs = OperationKey
    /\ \A k \in OperationKey : runs[k] # NoRun => IsRun(runs[k])
    /\ DOMAIN op = Operators
    /\ \A p \in Operators : op[p] # Idle => IsCall(op[p])

Later(j, k) == runs[j] # NoRun /\ runs[k] # NoRun /\ runs[j].order > runs[k].order

Touches(j, k) == {j.new, j.old} \cap {k.new, k.old} # {}

(* Nobody else at work on these memories: what an applied run did is still  *)
(* there.  The replaced memory is out of the active state and points at its *)
(* replacement, a link says so, and the replacement points back unless it   *)
(* has replaced another one since.  And no pointer comes from elsewhere.    *)
LineageIntact ==
    /\ \A k \in OperationKey : Applied(k) =>
         /\ memory[k.old].superseded_by = k.new
         /\ memory[k.old].state \in {"superseded", "archived"}
         /\ ~links[runs[k].link].archived
         /\ \/ memory[k.new].supersedes = k.old
            \/ \E j \in OperationKey : Applied(j) /\ Later(j, k) /\ j.new = k.new
    /\ \A m, n \in Memories :
         memory[m].superseded_by = n \/ memory[n].supersedes = m =>
             \E k \in OperationKey : Applied(k) /\ k.old = m /\ k.new = n

(* Likewise no memory is its own ancestor, however previews, applies,       *)
(* rollbacks and archivals follow one another.                              *)
Acyclic == \A m \in Memories : m \notin Ancestors(m)

(* Likewise memories joined by lineage have at most one active head,        *)
(* so the current state of what they say is never ambiguous.                *)
OneHead ==
    \A m \in Memories :
        Cardinality({h \in Component(m, Memories, {}) : IsHead(h)}) <= 1

(* Likewise of two runs that share a memory the later one must be           *)
(* rolled back first.                                                       *)
LastInFirstOut ==
    [][\A j, k \in OperationKey :
          Applied(k) /\ ~Applied(k)' /\ Touches(j, k) /\ Later(j, k) => ~Applied(j)
      ]_vars

(* Any number of operators: two memories are never joined by two active     *)
(* supersedes links, whatever the order the inserts come in.                *)
OneActiveLink ==
    \A i, j \in DOMAIN links : i # j /\ ~links[i].archived /\ ~links[j].archived =>
        {links[i].from, links[i].to} # {links[j].from, links[j].to}

(* Any number of operators: a key is used once for ever, what a run         *)
(* recorded is never rewritten, and it is rolled back at most once.         *)
RunHistoryFinal ==
    [][\A k \in OperationKey : runs[k] # NoRun =>
          \/ runs'[k] = runs[k]
          \/ Applied(k) /\ runs'[k] = [runs[k] EXCEPT !.status = "rolled_back"]]_vars

(* Any number of operators: the snapshots a rollback will rely on are what  *)
(* the tables held right before and right after the run, although the first *)
(* was read outside the transaction.                                        *)
UndoRecordTrue ==
    [][\A k \in OperationKey : runs[k] = NoRun /\ runs'[k] # NoRun =>
          /\ runs'[k].before = Pair(k.new, k.old)
          /\ runs'[k].after = [new |-> memory'[k.new], old |-> memory'[k.old],
                               links |-> PairLinks(links', k.new, k.old)]]_vars

(* Any number of operators: a memory only ever changes along with a run     *)
(* that names it, or by being archived.  In particular a rollback that      *)
(* comes second does not restore once more.                                 *)
EveryChangeAudited ==
    [][\A m \in Memories : memory'[m] # memory[m] =>
          \/ memory'[m] = Archived(memory[m])
          \/ \E k \in OperationKey : runs'[k] # runs[k] /\ m \in {k.new, k.old}]_vars

-----------------------------------------------------------------------------
(* What the documentation and the code say of themselves, and the code does *)
(* not do: see the README.                                                  *)

(* A rollback of a pair that nothing has touched puts it back: the links of *)
(* the pair are again those the run found, as its preview plans.            *)
RollbackRestoresLinks ==
    [][\A k \in OperationKey :
          /\ Applied(k) /\ ~Applied(k)'
          /\ Pair(k.new, k.old) = runs[k].after
          => PairLinks(links', k.new, k.old) = runs[k].before.links]_vars

(* A preview that is acted upon is not stale: the hash the caller confirmed *)
(* is that of the state the run changes.                                    *)
StaleHashRejected ==
    [][\A p \in Operators :
          op[p].step = "read" /\ op'[p] = Idle /\ runs' # runs =>
             op[p].hash = Fingerprint(op[p].key.new, op[p].key.old)]_vars
=============================================================================
