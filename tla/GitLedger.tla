----------------------------- MODULE GitLedger -----------------------------
(***************************************************************************)
(* Audited Git operations of one repository: git_staging.py and            *)
(* git_commits.py of mapi_capabilities, as capability_tools.py calls them. *)
(*                                                                         *)
(* A tool stages tracked paths, commits the index, or rolls one of these   *)
(* back.  Each call previews the repository, is confirmed, previews again, *)
(* runs Git commands one after another and writes a ledger row; what fails *)
(* between is undone by hand.  The tools make a service object, and with   *)
(* it a lock, for each call, so nothing keeps calls apart; nor the people  *)
(* who work in the same repository, whose commands are actions here.       *)
(*                                                                         *)
(* A commit is its parent and its tree, HEAD and the index are what a      *)
(* preview hash covers of them.  Left out: branches, the size, path and    *)
(* sensitivity gates, and the backup files, which only refuse.             *)
(***************************************************************************)
EXTENDS Naturals, Sequences

CONSTANTS
    Workers,     \* calls of the tools that may be in progress at once
    Paths,       \* the tracked paths
    Contents,    \* contents of a path; one of them may mean "deleted"
    Initial,     \* the tree of the first commit, and the index
    Edited,      \* the work trees there may be at first
    MaxCommits,  \* bound: no commit is begun while there are this many
    MaxRows,     \* bound: no stage or commit is begun while there are this many
    MaxActs      \* bound: people act this often

Tree == [Paths -> Contents]

ASSUME ConstantsAssumption ==
    /\ Initial \in Tree
    /\ Edited \subseteq Tree
    /\ MaxCommits \in Nat
    /\ MaxRows \in Nat
    /\ MaxActs \in Nat

VARIABLES
    commits,   \* the commit objects, by id
    head,      \* the commit HEAD is at
    index,     \* the index
    work,      \* the work tree
    pushed,    \* commits that a remote ref contains
    rows,      \* git_stage_operations and git_commit_operations, in order
    call,      \* call[w]: what worker w is in the middle of
    acts,      \* how often people have acted
    foreign,   \* history: commits that were not made by a call
    settled,   \* history: HEAD and index as the last finished act left them
    raced      \* history: someone acted, or passed its checks, while a call
               \* was past its own

vars == <<commits, head, index, work, pushed, rows, call, acts, foreign, settled, raced>>

repo == [head |-> head, index |-> index]

Kinds == {"stage", "commit", "undo"}
Commit == [parent : Nat, tree : Tree]
Repo == [head : Nat, index : Tree]
Row ==
    [kind : {"stage", "commit"}, status : {"applied", "rolled_back"},
     paths : SUBSET Paths, before : Repo, after : Repo]

(* The steps in which a call may change the repository.                     *)
Changing == {"apply", "written", "moved", "read", "reset", "undone", "unread"}
Steps == Changing \cup {"idle", "previewed"}

(* want: the contents a stage has previewed; todo: its paths still to add;  *)
(* saw and later: the repository as previewed, and as read after a commit.  *)
Call ==
    [step : Steps, kind : Kinds, row : Nat, want : Tree, paths : SUBSET Paths,
     todo : SUBSET Paths, saw : Repo, made : Nat, later : Repo]

Idle ==
    [step |-> "idle", kind |-> "undo", row |-> 0, want |-> Initial, paths |-> {},
     todo |-> {}, saw |-> [head |-> 1, index |-> Initial], made |-> 0,
     later |-> [head |-> 1, index |-> Initial]]

At(w, kind, step) == call[w].kind = kind /\ call[w].step = step
Busy(w) == call[w].step \in Changing

Goto(w, c) == call' = [call EXCEPT ![w] = c]
Step(w, step) == Goto(w, [call[w] EXCEPT !.step = step])
Return(w) == Goto(w, Idle)

(* A call passes its checks, or HEAD, the index or the remote change, while *)
(* a call of somebody else is past its checks.                              *)
Touches(others) == raced' = (raced \/ \E v \in others : Busy(v))

-----------------------------------------------------------------------------
Init ==
    /\ commits = <<[parent |-> 0, tree |-> Initial]>>
    /\ head = 1
    /\ index = Initial
    /\ work \in Edited
    /\ pushed = {}
    /\ rows = <<>>
    /\ call = [w \in Workers |-> Idle]
    /\ acts = 0
    /\ foreign = {1}
    /\ settled = [head |-> 1, index |-> Initial]
    /\ raced = FALSE

ghosts == <<foreign, settled, raced>>
repository == <<commits, head, index, pushed>>

(* A call that ends well: its act is finished as it stands.                 *)
Settles(w) ==
    /\ settled' = repo
    /\ Return(w)
    /\ UNCHANGED <<foreign, raced>>

(* The row is committed and read back on the same connection.  The call     *)
(* ends well with what it reads; if the SELECT raises, the except block     *)
(* that answers a failed INSERT or UPDATE still runs, and the row stays.    *)
ReadsBack(w) == Settles(w) \/ (Step(w, "unread") /\ UNCHANGED ghosts)

-----------------------------------------------------------------------------
(* GitStageService. *)

HeadTree == commits[head].tree
Changed(ps) == {p \in ps : work[p] # HeadTree[p]}
Staged(ps, want) == \A p \in ps : index[p] = want[p]

(* preview_stage of paths that differ from HEAD, and are not all staged.    *)
StagePreviews(w, ps) ==
    LET previewed == [p \in Paths |-> IF p \in ps THEN work[p] ELSE Initial[p]] IN
    /\ call[w].step = "idle"
    /\ Len(rows) < MaxRows
    /\ ps # {}
    /\ Changed(ps) = ps
    /\ ~Staged(ps, work)
    /\ Goto(w, [Idle EXCEPT !.step = "previewed", !.kind = "stage", !.want = previewed,
                            !.paths = ps, !.saw = repo])
    /\ UNCHANGED <<repository, work, rows, ghosts>>

(* apply_stage previews again and compares the hash; the index is read for  *)
(* the backup and compared once more.                                       *)
StageChecks(w) ==
    LET c == call[w] IN
    /\ At(w, "stage", "previewed")
    /\ IF repo = c.saw /\ \A p \in c.paths : work[p] = c.want[p]
       THEN Goto(w, [c EXCEPT !.step = "apply", !.todo = c.paths]) /\ Touches(Workers \ {w})
       ELSE Return(w) /\ UNCHANGED raced
    /\ UNCHANGED <<repository, work, rows, foreign, settled>>

(* _apply_entry: the blob of the path, if it is still the one previewed.    *)
StageAdds(w, p) ==
    LET c == call[w] IN
    /\ At(w, "stage", "apply")
    /\ p \in c.todo
    /\ work[p] = c.want[p]
    /\ index' = [index EXCEPT ![p] = work[p]]
    /\ Goto(w, [c EXCEPT !.todo = @ \ {p}])
    /\ Touches(Workers \ {w})
    /\ UNCHANGED <<commits, head, pushed, work, rows, foreign, settled>>

(* All entries verified, the row is inserted.                               *)
StageRecords(w) ==
    LET c == call[w] IN
    /\ At(w, "stage", "apply")
    /\ c.todo = {}
    /\ index # c.saw.index
    /\ Staged(c.paths, c.want)
    /\ rows' = Append(rows, [kind |-> "stage", status |-> "applied", paths |-> c.paths,
                             before |-> c.saw, after |-> [c.saw EXCEPT !.index = index]])
    /\ ReadsBack(w)
    /\ UNCHANGED <<repository, work>>

(* As StageFails, with the entries left as they are. *)
StageLeaves(w) ==
    /\ At(w, "stage", "apply")
    /\ Return(w)
    /\ UNCHANGED <<repository, work, rows, ghosts>>

(* A Git command, a verification, the INSERT or the read-back fails:        *)
(* _restore_index puts the whole index back.                                *)
StageFails(w) ==
    /\ At(w, "stage", "apply") \/ At(w, "stage", "unread")
    /\ index' = call[w].saw.index
    /\ Touches(Workers \ {w})
    /\ Return(w)
    /\ UNCHANGED <<commits, head, pushed, work, rows, foreign, settled>>

-----------------------------------------------------------------------------
(* GitCommitService. *)

(* preview_commit. *)
CommitPreviews(w) ==
    /\ call[w].step = "idle"
    /\ Len(rows) < MaxRows
    /\ Len(commits) < MaxCommits
    /\ index # HeadTree
    /\ Goto(w, [Idle EXCEPT !.step = "previewed", !.kind = "commit", !.saw = repo])
    /\ UNCHANGED <<repository, work, rows, ghosts>>

(* The hash the caller confirmed is taken for that of the repository. *)
CommitTrustsPreview(w) ==
    /\ At(w, "commit", "previewed")
    /\ Step(w, "apply")
    /\ Touches(Workers \ {w})
    /\ UNCHANGED <<repository, work, rows, foreign, settled>>

(* apply_commit previews again and compares the hash.                       *)
CommitChecks(w) ==
    /\ At(w, "commit", "previewed")
    /\ IF repo = call[w].saw
       THEN Step(w, "apply") /\ Touches(Workers \ {w})
       ELSE Return(w) /\ UNCHANGED raced
    /\ UNCHANGED <<repository, work, rows, foreign, settled>>

(* The commit is named and never written. *)
CommitWritesNothing(w) ==
    /\ At(w, "commit", "apply")
    /\ Goto(w, [call[w] EXCEPT !.step = "written", !.made = Len(commits) + 1])
    /\ UNCHANGED <<repository, work, rows, ghosts>>

(* write-tree and commit-tree: whatever is in the index by now.             *)
CommitWritesTree(w) ==
    LET c == call[w] IN
    /\ At(w, "commit", "apply")
    /\ commits' = Append(commits, [parent |-> c.saw.head, tree |-> index])
    /\ Goto(w, [c EXCEPT !.step = "written", !.made = Len(commits) + 1])
    /\ UNCHANGED <<head, index, pushed, work, rows, ghosts>>

(* update-ref HEAD new old; it refuses another HEAD.                        *)
CommitMovesHead(w) ==
    LET c == call[w] IN
    /\ At(w, "commit", "written")
    /\ IF head = c.saw.head
       THEN /\ head' = c.made
            /\ Step(w, "moved")
            /\ Touches(Workers \ {w})
       ELSE /\ Return(w)
            /\ UNCHANGED <<head, raced>>
    /\ UNCHANGED <<commits, index, pushed, work, rows, foreign, settled>>

(* HEAD and index are read for the row.                                     *)
CommitReads(w) ==
    /\ At(w, "commit", "moved")
    /\ IF head = call[w].saw.head THEN Return(w)
       ELSE Goto(w, [call[w] EXCEPT !.step = "read", !.later = repo])
    /\ UNCHANGED <<repository, work, rows, ghosts>>

CommitRecords(w) ==
    LET c == call[w] IN
    /\ At(w, "commit", "read")
    /\ rows' = Append(rows, [kind |-> "commit", status |-> "applied", paths |-> Paths,
                             before |-> c.saw, after |-> c.later])
    /\ ReadsBack(w)
    /\ UNCHANGED <<repository, work>>

(* A Git command fails before HEAD has moved: nothing to undo.              *)
CommitGivesUp(w) ==
    /\ At(w, "commit", "apply") \/ At(w, "commit", "written")
    /\ Return(w)
    /\ UNCHANGED <<repository, work, rows, ghosts>>

(* HEAD or index cannot be read: reset, whatever HEAD is by then.           *)
CommitUnread(w) ==
    /\ At(w, "commit", "moved")
    /\ Step(w, "reset")
    /\ UNCHANGED <<repository, work, rows, ghosts>>

(* The INSERT or the read-back fails: reset if HEAD is still the one read.  *)
CommitFails(w) ==
    /\ At(w, "commit", "read") \/ At(w, "commit", "unread")
    /\ IF head = call[w].later.head THEN Step(w, "reset") ELSE Return(w)
    /\ UNCHANGED <<repository, work, rows, ghosts>>

(* _reset_soft names no old value.                                          *)
CommitResets(w) ==
    /\ At(w, "commit", "reset")
    /\ head' = call[w].saw.head
    /\ Touches(Workers \ {w})
    /\ Return(w)
    /\ UNCHANGED <<commits, index, pushed, work, rows, foreign, settled>>

-----------------------------------------------------------------------------
(* rollback of either service. *)

(* preview_rollback without the remote refs. *)
MayUndoPushed(r) ==
    /\ rows[r].status = "applied"
    /\ repo = rows[r].after

(* preview_rollback: HEAD and index are those the row left behind, and a    *)
(* commit is on no remote.                                                  *)
MayUndo(r) ==
    /\ rows[r].status = "applied"
    /\ repo = rows[r].after
    /\ rows[r].kind = "commit" => rows[r].after.head \notin pushed

(* rollback asks this again; the hash it compares covers nothing else.      *)
UndoChecks(w, r) ==
    /\ call[w].step = "idle"
    /\ MayUndo(r)
    /\ Goto(w, [Idle EXCEPT !.step = "apply", !.row = r, !.saw = repo])
    /\ Touches(Workers \ {w})
    /\ UNCHANGED <<repository, work, rows, foreign, settled>>

(* The backup replaces the index, or HEAD is reset.                         *)
UndoActs(w) ==
    LET r == rows[call[w].row] IN
    /\ At(w, "undo", "apply")
    /\ IF r.kind = "stage"
       THEN index' = r.before.index /\ UNCHANGED head
       ELSE head' = r.before.head /\ UNCHANGED index
    /\ Step(w, "undone")
    /\ Touches(Workers \ {w})
    /\ UNCHANGED <<commits, pushed, work, rows, foreign, settled>>

Restored(r) == IF r.kind = "stage" THEN index = r.before.index ELSE head = r.before.head

(* Verified, and the row marked WHERE status='applied'.                     *)
UndoRecords(w) ==
    LET r == call[w].row IN
    /\ At(w, "undo", "undone")
    /\ Restored(rows[r])
    /\ rows[r].status = "applied"
    /\ rows' = [rows EXCEPT ![r].status = "rolled_back"]
    /\ ReadsBack(w)
    /\ UNCHANGED <<repository, work>>

(* The verification, the UPDATE or the read-back fails: the index as read   *)
(* before, or the commit, comes back.                                       *)
UndoFails(w) ==
    LET c == call[w] IN
    /\ At(w, "undo", "undone") \/ At(w, "undo", "unread")
    /\ IF rows[c.row].kind = "stage"
       THEN index' = c.saw.index /\ UNCHANGED head
       ELSE head' = rows[c.row].after.head /\ UNCHANGED index
    /\ Touches(Workers \ {w})
    /\ Return(w)
    /\ UNCHANGED <<commits, pushed, work, rows, foreign, settled>>

-----------------------------------------------------------------------------
(* The process dies, or an undo by hand fails: index.lock exists, or a      *)
(* reset is refused.  What it has changed stays, without a row.             *)
Dies(w) ==
    /\ call[w].step # "idle"
    /\ settled' = IF Busy(w) THEN repo ELSE settled
    /\ Return(w)
    /\ UNCHANGED <<repository, work, rows, foreign, raced>>

(* People at the same repository, one Git command at a time.                *)
Edit(p, c) ==
    /\ work[p] # c
    /\ work' = [work EXCEPT ![p] = c]
    /\ UNCHANGED <<repository, rows, call, ghosts>>

Add(p) ==
    /\ index[p] # work[p]
    /\ index' = [index EXCEPT ![p] = work[p]]
    /\ settled' = [settled EXCEPT !.index = index']
    /\ Touches(Workers)
    /\ UNCHANGED <<commits, head, pushed, work, rows, call, foreign>>

ForeignCommit ==
    /\ Len(commits) < MaxCommits
    /\ index # HeadTree
    /\ commits' = Append(commits, [parent |-> head, tree |-> index])
    /\ head' = Len(commits) + 1
    /\ foreign' = foreign \cup {head'}
    /\ settled' = [settled EXCEPT !.head = head']
    /\ Touches(Workers)
    /\ UNCHANGED <<index, pushed, work, rows, call>>

(* The commits from a commit back to the first: what every set that holds   *)
(* it, and the parent of each of its commits, has in common.                *)
Closed(ids) == \A k \in ids : commits[k].parent \in ids \cup {0}

History(id) ==
    {k \in DOMAIN commits :
       \A ids \in SUBSET DOMAIN commits : id \in ids /\ Closed(ids) => k \in ids}

Push ==
    /\ head \notin pushed
    /\ pushed' = pushed \cup History(head)
    /\ Touches(Workers)
    /\ UNCHANGED <<commits, head, index, work, rows, call, foreign, settled>>

Stage(w) ==
    \/ \E ps \in SUBSET Paths : StagePreviews(w, ps)
    \/ StageChecks(w)
    \/ \E p \in Paths : StageAdds(w, p)
    \/ StageRecords(w)
    \/ StageFails(w)

MakeCommit(w) ==
    \/ CommitPreviews(w)
    \/ CommitChecks(w)
    \/ CommitWritesTree(w)
    \/ CommitMovesHead(w)
    \/ CommitReads(w)
    \/ CommitRecords(w)
    \/ CommitGivesUp(w)
    \/ CommitUnread(w)
    \/ CommitFails(w)
    \/ CommitResets(w)

Undo(w) ==
    \/ \E r \in DOMAIN rows : UndoChecks(w, r)
    \/ UndoActs(w)
    \/ UndoRecords(w)
    \/ UndoFails(w)

People ==
    \/ \E p \in Paths, c \in Contents : Edit(p, c)
    \/ \E p \in Paths : Add(p)
    \/ ForeignCommit
    \/ Push

Next ==
    \/ \E w \in Workers :
         (Stage(w) \/ MakeCommit(w) \/ Undo(w) \/ Dies(w)) /\ UNCHANGED acts
    \/ acts < MaxActs /\ acts' = acts + 1 /\ People

Spec == Init /\ [][Next]_vars

-----------------------------------------------------------------------------
(* Repository, ledger and calls have their types.                           *)
TypeOK ==
    /\ commits \in Seq(Commit)
    /\ head \in DOMAIN commits
    /\ index \in Tree /\ work \in Tree
    /\ pushed \subseteq DOMAIN commits
    /\ rows \in Seq(Row)
    /\ call \in [Workers -> Call]
    /\ acts \in Nat
    /\ foreign \subseteq DOMAIN commits
    /\ settled \in Repo
    /\ raced \in BOOLEAN

(* What a row records is what was confirmed: a stage changed its paths and  *)
(* nothing else, a commit has the tree and the parent that were previewed.  *)
(* Git reads the index again after the checks, so this holds only as long   *)
(* as nobody acts between them and the row.                                 *)
Confirmed(r) ==
    IF r.kind = "stage"
    THEN \A p \in Paths \ r.paths : r.after.index[p] = r.before.index[p]
    ELSE commits[r.after.head] = [parent |-> r.before.head, tree |-> r.before.index]

ConfirmedUnlessRaced == raced \/ \A r \in DOMAIN rows : Confirmed(rows[r])

(* No rollback, and no recovery of a failed call, takes from the branch a   *)
(* commit that somebody else made or that has been pushed.                  *)
OthersStayUnlessRaced == raced \/ foreign \cup pushed \subseteq History(head)

(* A call that fails and lives leaves HEAD and index as they were, though   *)
(* a row may stay that could not be read back: between calls HEAD and index *)
(* are what the last call that ended well, the last that died or the last   *)
(* command of a person made them.                                           *)
AllOrNothingUnlessRaced ==
    raced \/ (\E w \in Workers : Busy(w)) \/ repo = settled
=============================================================================
