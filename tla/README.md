# MAPI: a TLA+ verification project

MAPI is a memory server for language models. Clients call tools over MCP (stdio
or HTTP); the tools read and write memories in one SQLite database, and, where an
operator enables it, files and Git repositories of the host. Nothing of the
mutable state belongs to one thread: FastMCP runs synchronous tools on a thread
pool, several server processes may open the same database, a client may repeat a
call whose answer it never saw, and any process may die between two commits.

This directory models the parts where that matters: what is written to one place
on the strength of what was read in another, and what a later caller can conclude
from it. The modules are translated from the code under `src/`; every definition is
mapped to its lines in `PROJECT.json`. Paths below are relative to `src/`.

    OnceOnly      <-- implements --  Idempotency          Idempotency_proofs
                                     Supersession         Supersession_proofs
                                     WriterGuard          WriterGuard_proofs
    AuditedFile   <-- implements --  FileWrites           FileWrites_proofs
                                                          AuditedFile_proofs
                                     CaptureReview        CaptureReview_proofs
                                     GitLedger            GitLedger_proofs
                                     Retention            Retention_proofs

Each `MC*` module instantiates one of them for TLC, each `.cfg` is one run.


## Inventory

| Part | State it keeps | Operations | Hard about it |
|---|---|---|---|
| Idempotent mutations, `app/workshops/idempotency.py` | `mcp_idempotency_requests`: one row per key | `prepare_request`, handler, `complete_request`, `mark_in_doubt`, all in `execute_idempotent` | races on one key, crash between handler and record, retry with another payload |
| Memory supersession, `mapi_core/memory/supersession.py`, `lifecycle_snapshots.py` | pointers and states in `memories`, rows of `memory_links`, `memory_lifecycle_snapshots` | preview, apply, rollback preview, rollback | a preview that is acted upon later, three separate reads before the transaction, runs that share memories |
| Lifecycle integrity, `mapi_core/memory/lifecycle_integrity.py` | none; reads the lineage graph | findings, of which some block | decides what supersession may do, so a wrong finding blocks for good |
| Single-writer lease, `app/runtime/writer_guard.py` | one lease file, `lease_held` in memory | configure, heartbeat, release | create-then-write, judge-then-unlink, deadlines, pids of dead processes |
| Audited file writes, `mapi_capabilities/file_writes.py` | the target file, its backup, `file_operations` | preview, apply, rollback preview, rollback | the file and its row cannot change together; lock per service object |
| Direct memory tools, `server_core.py` | `memories`, `memory_links` | create, confirm, archive, mark stale, supersede, version, link | single statements that race with the reviewed protocols above |
| Capture review, reconciliation, `mapi_core/memory/capture_queue.py`, `reconciliation*.py` | `memory_capture_review_items`, the memory pool | capture, review, expire, preview, apply | transition checked and then written by id, previews stored late, one transaction per effect |
| Audited Git staging and commits, `mapi_capabilities/git_staging.py`, `git_commits.py` | index, HEAD, two ledgers | preview, apply, rollback | several Git commands in one call, recovery by hand after each, people as a further writer |
| Retention, `mapi_core/memory/retention*.py` | memories, `memory_retention_review_items`, backup files | save, decide, apply, batch, rollback | an apply long after its review, batches against single applies, rollbacks that race |
| OAuth tokens, `app/runtime/remote_auth*.py` | clients, codes, tokens, rate buckets | authorize, exchange, refresh, revoke | several commits in one exchange, one-time codes, rotation |
| Gemma jobs, `app/gemma_worker_*.py` | job rows | enqueue, transition, run | check, then update |
| Everything else (search, diagnostics, imports, installers, reports) | see `components` in `PROJECT.json` | | no protocol between actors: read only, sequential, or I/O |

How they interact. The workshop runner and the direct tools enter every mutation
that carries an `idempotency_key` through `execute_idempotent`, so a supersession,
a file write or a memory tool is its handler. Every mutation first asks the writer
guard whether this process holds the lease (`app/runtime/freshness.py:550-577`).
Supersession asks the integrity report for the findings of the pair. A capture that
is applied as a version calls supersession inside its own transaction. All of them
share one SQLite database, where a transaction is atomic and a single SELECT sees
one committed state, and nothing else is. That is the one assumption about the
database in all modules.

What makes each part correct:

* *Idempotency*: the effect behind a key happens at most once, whatever is lost or
  repeated; a client is only ever shown the outcome of the request that owns the
  key; a recorded outcome is final; calls return.
* *Supersession*: lineage stays one acyclic chain with one head; a key is used
  once; the undo record of a run is true, so that a rollback restores what was;
  nothing changes without a record.
* *Writer lease*: at most one process writes; a process that lives keeps its lease;
  the lease of a dead one is in nobody's way; a start ends.
* *Capture review*: what an operator agreed to is what is done, once per approval,
  and the queue tells what became of each item; nothing is captured twice as new.
* *Git*: the ledger records what was confirmed; what fails leaves nothing; other
  people's commits stay.
* *Retention*: an item is applied to the memory its reviewer saw; rollbacks restore
  history in order; a batch is all or nothing, with a backup.
* *File writes*: no write is lost; the ledger explains what the file holds; a row
  that says `rolled_back` tells the truth, whatever fails before it is committed. (What
  fails after its commit makes a row lie: see the module.)


## The modules and the code

### OnceOnly, Idempotency

`OnceOnly` is the promise: a key is claimed by one request for ever, its operation
runs at most once, settles on one result, and every answer carries that result.

`Idempotency` is the code. `row` is the table; `call[c]` is where a thread is in
`execute_idempotent`: `prepare` (the SELECT, `PrepareFindsNothing`, `PrepareRefuses`,
`PrepareReplays`), `insert` (the INSERT that one wins and the others lose by
`IntegrityError`, which sends them back to the SELECT), `run` and `running` (the
handler, which may have had its effect by the time it returns, raises or dies),
`complete` or `doubt` (the two conditional UPDATEs) and `answer`. A request is the
pair of operation name and payload fingerprint; rows are never deleted. `Crash`
throws the locals of a call away at any step, and `Receive` lets any client send
any request under any key at any time, so retries after a crash or a lost answer
are just more calls. `CompleteRaises` takes all three outcomes that a failing
`complete_request` followed by `mark_in_doubt` can leave in the row.
`executions`, `produced` and `answers` record history for the properties.

The refinement maps `claim` to the request in the row, `ran` to the keys whose
handler started, `settled` to the recorded result (`KeepsPromise`).

### Supersession

`memory[m]` holds state, activity and the two lineage pointers of a memory, `links`
the `supersedes` rows of `memory_links` by id, `runs[k]` the snapshot row of an
operation key (which hashes the pair, the relation kind and the reason), and `op[p]`
what a thread in one of the tools knows. One step is one read or one transaction:

    Preview             preview_memory_supersession_payload; the caller keeps the hash
    ApplyLooksUp        the operation key has no run
    ApplyPreviewsAgain  a fresh preview gives the confirmed hash
    ApplyReads          the pair is read for the snapshot
    ApplyCommits        BEGIN IMMEDIATE ... COMMIT: compare the pair, link, write, record
    RollbackChecks      rollback preview: the pair is as the run left it
    RollbackCommits     the transaction, which compares the status of the run only
    Leaves              refused, raised, lost the write lock, died, or not followed up
    Archive             archive_memory_v2, by anybody, at any time

`PreviewReady` is the whole list of blockers, `Findings` the integrity findings
that block (the graph is collected as `load_lifecycle_graph` does it, with archived
links), `Fingerprint` what the preview hash covers, `Pair` what the transaction
compares. One preview reads row after row in the code and is one step here.
The loops that walk the pointers until they meet nothing new, or something seen, are
`Closure`: the least set of memories that contains the start and what its members
point at.
Left out: `updated_at` and `valid_to`, which have a resolution of one second
(`mapi_core/core/time_score.py:13-14`), so that two writes may carry one stamp and
no comparison can rest on them; the event log, which nothing reads back;
`memory_v2_status`, which follows the state.

### WriterGuard

`file` is the lease, with an owner, whether its content is `written` yet, and
whether its heartbeat is `fresh`; `main[p]` and `beat[p]` are the two threads of a
server process, `held[p]` the flag `lease_held` in memory, and `Writers` are the
processes that hold it. The loop of
`configure_writer_guard` is `CreateSucceeds`/`CreateFails`, `WriteRecord`,
`ReadRecord`, `Refuse`/`Reclaim`, `Unlink`; the heartbeat reads, then replaces;
`release_writer_guard` stops the thread, waits two seconds, reads, unlinks. A
process dies at any step, a restart is another element of `Instances`. `LeaseAges`
is the passing of `stale_seconds`. `raced` and `stalled` are history: which
processes started while another start was under way or while a survivor of such a race
still lived, and whether a process that lived missed a
deadline (the file aged although its owner was alive, or `join(timeout=2)` gave up).
Left out: disabled and read-only modes, which never touch the file; a configured
instance key (the default is random per process); pids that are used again; the
Windows `tasklist` call; and what a process may still change after its release, which
clears `enabled` along with the lease (207-218), so that `mutation_writer_guard` allows
everything from then on (315-321): the release runs at exit. Unlinking and clearing `lease_held` in a release are one
step, as the state lock is held over both.

The survivors are in `raced` because of what they may still do. One process creates
the lease; a second reads it while it is empty and judges it inactive; the first goes
on to serve and to stop, and its release has read its own record when the second unlinks
that lease and dies. A third now starts alone and creates its own, which the release of
the first then unlinks by path, so a fourth becomes a writer beside the third. This
takes four processes, so the run, with three, does not meet it; the proof does.

### AuditedFile, FileWrites

`AuditedFile` is the promise: a write adds a row as it changes the file, a rollback
undoes one applied row if the file still holds what that row wrote, and if a crash
ever comes between (`torn`) the file holds something some call wanted there. One more
failure shows in it: a call whose row is written may yet put the file back, and the row
is `belied`.

`FileWrites` is the code, for one target path. A call of a thread goes
`previewed`, `checked` (the lock of its service object, the second preview and the
last reads of file and backup), `replaced`, for a write `verified`, then by `Record` or
`Mark` to `recorded`, where the row is committed, and `Returns`; an exception after the
replacement, and in a rollback from the restoration on, goes to `failed`, from where
`Recover` or `Redo` put the file back. `Crash` is the process dying, or the recovery
itself raising. `Service[w]` is the `FileWriteService` that
thread `w` calls: the lock is one per object. `Settled`, the refinement mapping of
the file, is what it holds without the change that is under way.

The step `recorded` is there because the committed row is read back inside the `try`
(`file_writes.py:304`, 486). If that SELECT raises, on a database that another
connection has locked, say, the `except` branch runs as if nothing had been committed: it
answers an error and puts the file back, the row keeps saying `applied` or
`rolled_back`, and a failed write deletes the backup that its row names. This needs one
thread, one service object and no crash, so the code does not keep what a test says of a
rollback (`tests/test_common_host_capabilities.py:92-93`) even where the lock works. A
write that is belied over an existing file can never be rolled back, for want of its
backup (`backups`, `MayRollBack`); one that created its file can be, if the file happens
to be made again with the same text. `belied` records these rows with the status they
had; `LedgerBalances` counts their changes backwards, `RolledBackIsRestored` speaks of
the histories without them, and `KeepsLedger` has a step of the abstract file for them.

`NoLostUpdate` and all other properties but `TypeOK` are about one shared service object,
as the class is written and tested. The tools do not share one
(`capability_tools.py:26-27`): that is the run `file_writes_per_call`.
Left out: file modes, size and sensitivity gates and project bindings, which only
refuse; edits by other programs; damage to backups, whose hash is checked before
use; the fixed name of the temporary file of a rollback.

### CaptureReview

`item[i]` is a row of the queue, `memory` the pool of one project and scope by id,
`call[o]` what an operator is in the middle of, `lock` the write lock of the
database. `Outcome` is the decision list of the preview, `Primary` and `Shortlist`
what its hash covers; `Near` stands for both the lexical and the semantic measure
that make a capture ambiguous. The steps:

    Capture                          create_capture_review_item, proposal_key unique
    ReviewReads, ReviewWrites        the transition is checked, then UPDATE ... WHERE id
    ExpireReads, ExpireWrites        the same for an expiry
    PreviewCompares, PreviewPersists the preview is computed, then stored by id
    ApplyBegins                      BEGIN IMMEDIATE, status, stored hash, fresh preview
    ApplyCommits                     pool, events and row in one commit, or a rollback
    Abandons                         death, failure, a lock that does not come
    Save, Archive                    other tools, which wait for the write lock

Review, expire and the storing of a preview name the row by its id alone. A call
that comes late therefore overwrites a decision it has not seen: it may reopen an
applied item, which can then be applied again under a new approval, or drop the
audit of an apply. `overtaken` collects those items, and `LedgerTrueUnlessOvertaken`
speaks of the others; what survives in any case is one approval per effect
(`EveryEffectApproved`), no twins, and that what is done is what was confirmed.
An approved item with a preview stays approved until somebody acts: that is not a
fault. One thing the model leaves out is worth knowing: Sandman queues proposals
under `sandman:<fingerprint>` (`app/sandman_agent.py:340`), and an apply accepts
`capture:<fingerprint>` only (`reconciliation_apply.py:298-299`), so those items can be
approved and never applied.

### GitLedger

`commits`, `head`, `index`, `work` and `pushed` are the repository, `rows` the two
ledgers in one sequence, `call[w]` a call of the tools. Each step is one Git command
or one transaction, in the order of the code: `StageChecks`, `StageAdds` per path,
`StageRecords`, or `StageFails` with the index file put back; `CommitChecks`,
`CommitWritesTree` (`write-tree` reads the index again), `CommitMovesHead`
(`update-ref` with the old value), `CommitReads`, `CommitRecords`, or `CommitGivesUp`,
`CommitUnread`, `CommitFails`, `CommitResets`; `UndoChecks`, `UndoActs`,
`UndoRecords`, `UndoFails`. `Dies` is the process, or a recovery that fails itself.
People edit, add, commit and push; they are external, as is Git.

The tools make a service object per call (`capability_tools.py:34-39`), so its lock
excludes nobody, and Git itself guards one command at a time. `raced` becomes true
when anybody acts while a call is past its checks. After that nothing can be said,
and this is by the code: a commit may hold another tree than the one previewed
(`git_commits.py:225`), its row may name a commit made by somebody else (246),
`reset --soft` names no old value (194) and takes away whatever is on top, and
`_restore_index` (`git_staging.py:270`) overwrites what others staged meanwhile. Until
then the three properties hold, whatever fails at which step. Here too a committed row is
read back inside the `try` (`git_commits.py:286`, 416, `git_staging.py:395`, 533):
`ReadsBack` may end in `unread`, and the recovery then restores HEAD and index while the
row stays. `AllOrNothingUnlessRaced` is about HEAD and index; that such a row lies is
the same fault as in the file writes. A crash between a change and its row leaves the change without a
row; `settled` allows for that.

### Retention

`memory[m]` is the part of a row that an apply changes and a rollback restores
(`life`) and the time of its last recall; `item[i]` a review item with what its
preview saw; `backups` the files batches wrote; `now` a clock of the resolution of
`utc_now_iso`, so that several things happen at one time. `Proposed` is
`evaluate_retention_policy` as far as it proposes an action. `ApplyBegins` takes the
write lock, checks every item again and remembers the logical state; a batch then
`BacksUp` over another connection and checks once more (`BatchCommits`). A rollback
looks before the lock (`RollbackReads`) and under it (`RollbackActs`). `Recall`,
`Reject` and `SetDue` are tools that change a memory without `updated_at`; they are
why an apply compares all of the memory.
`save_memory_retention_review` computes a preview and inserts it in two steps; they
are one here, as a change between them makes the item stale exactly as one after
them does. Not visible in the model: the age rule for operational memories with a
transient marker is never reached, since a memory with such a marker is of class
`temporary` (`retention.py:141`, 236). After a rollback, the preview for the same date
is the one already saved, so its operation key is used up and saving it again
answers `already_exists`; a later date is needed. `archived_at` is in what a rollback
compares and not in what the preview hash covers.


## Runs

| Run | Instance | States | Shows |
|---|---|---|---|
| `idempotency` | 3 threads, 1 key, 2 requests, 2 results | 4 177 | `AtMostOnce`, `AnswersAreFaithful`, `OutcomesAreFinal`, `EveryCallReturns`, the invariant of the proofs, and `KeepsPromise` |
| `supersession_serial` | 1 operator, 4 memories (one weak candidate, one stale and protected) | 75 409 | `LineageIntact`, `Acyclic`, `OneHead`, `LastInFirstOut` |
| `supersession_concurrent` | 2 operators, 3 memories, symmetric | 328 719 | what survives interleaving: `OneActiveLink`, `RunHistoryFinal`, `UndoRecordTrue`, `EveryChangeAudited` |
| `supersession_undo`, `_stale_hash` | as the two above | | a violation each, see Findings |
| `writer_guard` | 2 processes on one host, 1 on another, 2 attempts | 379 253 | `OneWriterUnlessRaced`, `LeaseKeptUnlessRaced`, `NeverGivesUpUnlessRaced`, `EveryStartEnds` |
| `writer_guard_race` | 2 processes on one host | | a violation of `SingleWriter` |
| `file_writes` | 2 threads, 1 service, 3 contents with "no file", 3 rows | 723 578 | `NoLostUpdate`, `LedgerBalances`, `RolledBackIsRestored`, the invariant of the proofs, and `KeepsLedger` |
| `file_writes_per_call` | 2 threads, a service each, 1 row | | a violation of `RolledBackIsRestored` |
| `capture_review` | 2 operators, 2 items in 4 pairings, pool of 1, one further save | 2.2 million | `NoTwins`, `EveryEffectApproved`, `LedgerTrueUnlessOvertaken`, `AgreedIsDone` |
| `git_ledger` | 2 callers, 2 paths, 2 contents, 3 commits, 2 rows, 2 acts of people | 2.3 million | `ConfirmedUnlessRaced`, `OthersStayUnlessRaced`, `AllOrNothingUnlessRaced` |
| `retention` | 2 connections, 2 items, 2 memories, 2 dates | 4.4 million | `AppliedAsReviewed`, `LedgerExplains`, `BatchFromBackup` |

Why the bounds are enough.

* *Idempotency*. Keys do not interact, so one is enough. Two requests are the one
  that owns the key and another; two results tell a replay from a second run; of
  three threads one can hold the key, one race with it, one come late. There is no
  bound on retries or crashes: the state space is finite.
* *Supersession*. An operation touches a pair. With three memories every pair has
  an outsider that may have replaced or been replaced by one of its members; with
  four, two pairs are disjoint and a chain of three runs closes. One reason per
  pair makes one key per ordered pair, each used once for ever, so runs and links
  are bounded by the code itself. `Weak`, `Firm`, `Protected`, `Confirming` and
  `InitialState` differ between the memories of the serial run so that every
  blocker is met. The serial run has one operator because its four properties are
  false with two that share a memory (next paragraph); it still has somebody who archives in between.
* *WriterGuard*. Two on a host and one elsewhere is the least that has both ways of
  judging a lease and a third process that comes between two. That it takes a fourth
  for some behaviours is a reason why this module has a proof for any number of them;
  its invariant was checked with four on one host and on two before it was proved.
* *FileWrites*. `MaxOps`, the one bound in a guard, limits rows: with three, a row can
  be rolled back around one that stays applied. Two contents and "no file" allow a
  file to return to an earlier content by another way, and as there is no file at first,
  rows that create it and rows that have a backup both occur, belied or not.
* *CaptureReview*. Two proposals are what a race over the pool takes, and `Captured` lists
  the pairings in which they meet: the same text twice (with a save of it by somebody
  else), a repeated source and a version of one memory, a conflict and a version of
  one memory, and the outcomes that are never applied beside each other. `MaxMemory`
  bounds what others save, not what applies create.
* *GitLedger*. Two paths let a stage fail half way and leave a path unselected; three
  commits are the first one, one by a call and one on top of it. `MaxCommits` and
  `MaxRows` stop new calls from beginning, and `MaxActs` people. The constraint
  `UpToRace` follows a behaviour up to its first race, beyond which the properties
  are true by their form, and `FewTogether` stops it where rows and acts of people are
  more than three: people act twice around one row, which is enough for a commit on top
  of it and its push, and once around two rows. The proofs know neither bound.
* *Retention*. The two memories are one that can be expired and then archived, and one
  that can be revalidated and then expired, so both orders of two actions on one
  memory, a batch of both, and a rollback below a later apply occur. `MaxNow` bounds
  the clock, and `Touched` how much other tools do: the life of one memory, once, and
  its recalls at any time.

With two operators `LineageIntact`, `Acyclic`, `OneHead` and `LastInFirstOut` fail:
two applies may pass their fresh previews before either commits, and only the pair,
not its lineage, is compared in the transaction. The finding `StaleHashRejected` is
the root of these.

Fairness. `Idempotency!FairSpec` lets a thread inside `execute_idempotent` go on
until it returns, which assumes that handlers terminate; nothing forces a client to
call or a process to stay alive. `WriterGuard!FairSpec` does the same for the
start-up loop. Neither assumes that an INSERT or a create ever succeeds. The other
runs check safety only, where fairness plays no part.

Deadlock is checked in `idempotency` and in the two file runs. Supersession may end
with every memory archived or superseded and every key used, and a world of dead
server processes stands still; queues end with every item decided, and the bounds of
the Git run with every row made. So the other runs allow a final state.

Every property has a mutant in `PROJECT.json`: a change of one definition that a
plausible bug in the mapped code would be (kept in the modules beside the
definition it changes), under which TLC finds the property violated.


## What is proved

The proofs are for any number of threads, keys, memories, contents and rows; the
runs above check the same formulas on small instances first.

**Idempotency_proofs.** `IInv == TypeOK /\ Inductive`. `AtMostOnce` is not inductive:
that a thread about to run the handler finds no earlier run depends on nobody else
holding the key. `Inductive` says that one thread holds a key at a time
(`OneHolder`), what a holder knows of its row (`CallInv`: still started, with its own
request, and run once or not yet), and what a row says about the past (`RowInv`).
One lemma per action shows that the step preserves it, most of the work being that
*other* holders of the same key cannot exist. From it: `TypeCorrect`, `RunsAtMostOnce`,
`FaithfulAnswers`, `FinalOutcomes`, and `CodeKeepsPromise`, where every step of the
code is shown to be a claim, a run, a settlement, an answer or a stutter of
`OnceOnly`.

**Supersession_proofs.** `IInv` joins `TypeOK`, `OneActiveLink` and `ReadsGuarded` (what
`ApplyReads` established of the pair it read, carried in a local to the
transaction). `OneLinkPerPair` needs the last: the insert is safe because the links
compared in the transaction are the ones the read found free. `FinalRunHistory`,
`TrueUndoRecord` and `AuditedChanges` are action properties from the same invariant.
They hold for any operators: these are the guarantees that do not depend on who
else is at work.

The lineage theorems hold of behaviours that are always `Apart`: of two calls that are both
past their fresh preview (an apply) or their check (a rollback), none touches a memory of
the other's pair. Any number of operators may be at work, over any memories, reasons
and domains, previewing and looking keys up whenever they like, and archiving at any step.
One operator is always `Apart` (`OneOperatorApart`), which is the instance the serial run
checks. So what breaks lineage when two are at work is only that calls over a common
memory overlap in that window; it is not needed that lineages are disjoint.
`LInv` says where lineage comes from. Runs are numbered in the order of their
transactions (`Numbered`). Every forward pointer is that of the one applied run that
replaced the memory (`RunsStand`, `ReplacedOnce`, `ForwardFromRuns`). As one memory may
replace several, its applied runs form a stack: its pointer back is to what the latest
of them replaced, and each run has recorded what the one before it replaced
(`Stacked`). A memory is replaced only after it has replaced others (`OldToNew`). And what
an operator found before a transaction, that the two are ends of lineages or that the
pair is as the run left it, still holds in it, since archiving moves no pointer
(`CallsKnow`). `ReadyMeansEnds` is where the integrity findings come in: a preview that is
ready means that neither memory of the pair is replaced. Then

* `LineageStands` is `LInv` read off for each run and each pointer;
* `NoCycles`: along the pointers back the numbers of the runs fall (`OldToNew`), so the set
  of memories replaced no later than the parent holds all ancestors and not the memory;
* `HeadIsUnique`: a head and its ancestors (`Chain`) form a set that no pointer enters or
  leaves, because a memory has one child at most (`OneChild`) and a head has none, so it is
  the component of each of its members, and whatever in it is not the head is replaced;
* `RunsAreStacked`: a rollback takes the top of a stack (`TopOfStack`), whose replacement is
  not replaced, and a later run that shares a memory with it would be above it.

`Closure` is a least set and not a recursion, so all this needs no induction over data:
`ClosureStarts`, `ClosureGrows` and `ClosureLeast` are all that is used of it. `LInv` itself
was checked on the instance of the serial run first.

**WriterGuard_proofs.** For any processes on any hosts. `IInv` follows the processes that
are not in `raced`. While one of them starts, nobody else starts and no survivor of a race
lives (`StartsAlone`). From the moment it has created the file until it gives it up, the
file is its own, whoever has read it has seen its record, and nobody else is at a
step that writes, replaces or unlinks (`OwnsFile`, `KeepsOff`). A record is of a process that
was started, and is fresh while that lives (`OwnersKnown`), so a judge refuses; and a second
attempt finds the file gone (`OnTime`). All but the types and what the two threads of a process
know of each other (`Threads`) is claimed until `stalled`, as the properties are. From it:
`TypeCorrect`, `OneWriter`, `LeaseKept`, `NeverGivesUp`.

**AuditedFile_proofs, FileWrites_proofs.** `TypeCorrect` holds for any assignment of
service objects. The other theorems assume `OneService`: all threads call the same
object. Then no two calls are past their last checks (`OneLocked`), what those checks
saw, and what a call has committed, stays so while it is at work (`Inductive`), and so no
write is lost (`NoWriteIsLost`) and every step of the code is a step of `AuditedFile` or
a stutter (`KeepsAuditedFile`): a failure before the commit stutters, one after it is
`PutBack`. In the abstract module it is proved once by counting that arrivals less
departures of applied rows, with those of belied rows the other way, lead from the first
content to the present one (`LedgerExplainsFile`); `LedgerIsBalanced` carries that over
to the code through the refinement, and `RollbackRestores` is its case where every row is
rolled back and none is belied. The run with a
service per call shows that the assumption cannot be dropped.

**CaptureReview_proofs.** `IInv` says of each call in the transaction of an apply that
it holds the write lock, that its row is still approved under the hash it read, and
that the preview computed now is that hash, together with what the rows tell of the
items no call has overtaken. The lock is what makes it inductive: every action that
writes asks for `Writable`, so nothing moves between `ApplyBegins` and `ApplyCommits`.
From it: `WhatIsAgreedIsDone`, `NewCapturesAreNew` (an outcome `create_new` means that no
memory had the content, and ids only grow), `EffectsAreApproved` by counting, and
`LedgerIsTrue`.

**GitLedger_proofs.** Until the first race at most one call is past its checks, and
`IInv` gives for each of its steps what HEAD and index are: where the checks found
them, moved by exactly the commands of this call so far. Recovery from any step then
leads back to `settled` (`FailedCallsLeaveNothing`), and a row is written over a
repository that holds what was confirmed (`RowsAreConfirmed`). This includes the calls
whose row is committed and could not be read back. `OthersCommitsStay` rests
on lemmas about `History`, which is defined without recursion as the smallest set of
commits closed under parents, so that they need no induction.

**Retention_proofs.** `LedgerExplains` is not inductive: when the last item of a memory
is rolled back, the one before it must become the explanation. `IInv` therefore says
that the standing items of a memory form a stack: each was applied to the life that
the one below it left, the lowest to the first life, times grow with turns, and
two items of one turn are of different memories. A rollback takes the top of the
stack: times equal within a second do no harm, because the life of the memory would
have to be that of the lower item, which `MayRollBack` compares.
`BatchesAreBackedUp` and `WhatWasReviewedIsApplied` follow from what a call past
`ApplyBegins` knows under the lock.

Assumptions on constants are the named `ASSUME`s of the modules: `None` is not one
of the values it stands beside nor a lease record, sets are sets of memories, the
memories are finite, and a start has at least two attempts (the
loop has `range(2)`, `writer_guard.py:256`).

Only model-checked: liveness (`EveryCallReturns`, `EveryStartEnds`), which is out of
reach of the provers used here. Every other property of a passing run is a theorem.
`Apart` and `OneService` are not conveniences: with two operators that share a memory
the four lineage properties fail (see Runs), and the run with a service per call refutes
`RolledBackIsRestored`.


## Findings

Each is a run that must end in a violation; quotes and lines are in `PROJECT.json`.

1. `RollbackRestoresLinks`: a rollback archives the link it should take back, and the
   integrity report counts archived links; the pair can never be superseded again.
2. `StaleHashRejected`: apply compares the confirmed hash before its transaction and
   the pair inside it; a commit between the two goes unnoticed.
3. `SingleWriter`: the lease file exists empty before it is written; a process that
   starts at that moment takes it for garbage and both become writers until the next
   heartbeat.
4. `RolledBackIsRestored`: the tools make one `FileWriteService`, hence one lock, per
   call; of two rollbacks at once the loser writes the new text back over the
   restored file.

Known and not a run of their own. A row that is committed is read back inside the `try`
(`file_writes.py:304`, 486; the Git services likewise): when that read fails, file, index
or HEAD go back and the row stays, so the ledger says the opposite of what happened. The
models have it as `belied` and `unread`, and the properties say what is left.

A memory has one `supersedes_memory_id`, and apply
sets it whatever it was (`supersession.py:880`), so a memory that supersedes a second
one points back at the second only. `LineageIntact` allows for that: it asks for the
forward pointer of every applied run, and for the backward one unless the
replacement has replaced another memory since.


## Not modelled, and the plan

Beside what "left out" names above, of memory supersession: the direct tools that
write the same columns (`server_core.py:9408-9926` except `archive_memory_v2`), the
direct transition (`mapi_core/memory/current_state.py:609-701`) and self healing. Of
the lease: no document promises that a writer comes back, so nothing is claimed
about a heartbeat that fails and leaves the lease of a live process behind.

Order of the modules, done and to come:

1. `OnceOnly`, `Idempotency` with proofs: every mutation passes here. *Done.*
2. `Supersession` with proofs: the core protocol over memories. *Done.*
3. `WriterGuard` with proofs: starts that do not overlap. *Done.*
4. `AuditedFile`, `FileWrites` with proofs. *Done.*
5. `CaptureReview` with proofs: check-then-write by operators against the claim under
   `BEGIN IMMEDIATE`. *Done.*
6. `GitLedger` with proofs: HEAD and index in the pattern of `AuditedFile`. *Done.*
7. `Retention` with proofs: review, apply, batch, rollback. *Done.*
8. OAuth tokens (`remote_auth.py`): codes used once, pairs, rotation, revocation,
   crashes between the commits of an exchange. The body of an exchange does not await,
   so on one event loop it is not interleaved; but it does not look again at the token
   that was loaded before it, in a call of its own. To model: what happens between
   load and exchange, crashes between the commits of an exchange, several processes
   over one store, and revocations from the command line.
   Abstract specification: a family of tokens of which one generation is alive.
9. The direct memory tools and the direct transition as further actions of
   `Supersession`, with the lineage properties restated for what they leave true.
10. Gemma jobs, whose transitions check and then update.

The rest stays out for the reasons given per component in `PROJECT.json`: it is I/O,
read-only ranking and reporting, one-off scripts, or prompts and heuristics whose
results enter the system through the queues and tools that are modelled.
