-------------------------- MODULE GitLedger_proofs --------------------------
(***************************************************************************)
(* Proofs about module GitLedger, for any workers, paths, contents and     *)
(* bounds.  Types hold whatever happens; the rest holds until the first    *)
(* race.  Until then one call at a time is past its checks, it knows where *)
(* HEAD and the index are, and rows name commits that are as confirmed.    *)
(***************************************************************************)
EXTENDS GitLedger, TLAPS

(* What a call and a row name exists. *)
Refers(c) ==
    /\ c.saw.head \in DOMAIN commits
    /\ c.later.head \in DOMAIN commits
    /\ c.step = "written" => c.made \in DOMAIN commits
    /\ c.kind = "undo" /\ c.step \in Changing => c.row \in DOMAIN rows

RowRefers(r) == r.before.head \in DOMAIN commits /\ r.after.head \in DOMAIN commits

ParentsExist == \A k \in DOMAIN commits : commits[k].parent \in DOMAIN commits \cup {0}

TypeInv ==
    /\ TypeOK
    /\ ParentsExist
    /\ \A w \in Workers : Refers(call[w])
    /\ \A r \in DOMAIN rows : RowRefers(rows[r])

(* The commit of a call is the one confirmed, and nobody else's.            *)
IsMade(c) ==
    /\ c.made \in DOMAIN commits
    /\ commits[c.made] = [parent |-> c.saw.head, tree |-> c.saw.index]
    /\ c.made \notin foreign \cup pushed

(* What a call past its checks knows. *)
CallOK(w) ==
    LET c == call[w]
        r == rows[c.row]
    IN
    /\ Busy(w) => settled = c.saw
    /\ c.kind = "stage" /\ c.step \in {"apply", "unread"} =>
         /\ head = c.saw.head
         /\ \A p \in Paths \ c.paths : index[p] = c.saw.index[p]
         /\ c.todo \subseteq c.paths
    /\ At(w, "commit", "apply") => repo = c.saw
    /\ At(w, "commit", "written") => repo = c.saw /\ IsMade(c)
    /\ c.kind = "commit" /\ c.step \in {"moved", "read", "reset", "unread"} =>
         head = c.made /\ index = c.saw.index /\ IsMade(c)
    /\ c.kind = "commit" /\ c.step \in {"read", "unread"} => c.later = repo
    /\ At(w, "undo", "apply") => MayUndo(c.row) /\ repo = c.saw
    /\ c.kind = "undo" /\ c.step \in {"undone", "unread"} =>
         /\ r.after = c.saw
         /\ r.kind = "stage" => head = r.after.head /\ index = r.before.index
         /\ r.kind = "commit" =>
              head = r.before.head /\ index = r.after.index /\ r.after.head \notin pushed

(* A row is as confirmed, and its commit is nobody else's.                  *)
RowOK(r) == Confirmed(r) /\ (r.kind = "commit" => r.after.head \notin foreign)

OneBusy == \A v, w \in Workers : Busy(v) /\ Busy(w) => v = w
CallsOK == \A w \in Workers : CallOK(w)
RowsOK == \A r \in DOMAIN rows : RowOK(rows[r])
OthersStay == foreign \cup pushed \subseteq History(head)
AtRest == (\E w \in Workers : Busy(w)) \/ repo = settled

Clean == OneBusy /\ CallsOK /\ RowsOK /\ OthersStay /\ AtRest

IInv == TypeInv /\ (raced \/ Clean)

-----------------------------------------------------------------------------
(* Histories of commits. *)

(* Adding commits changes no history of an earlier one.                     *)
LEMMA HistoryGrows ==
    ASSUME ParentsExist, DOMAIN commits \subseteq DOMAIN commits',
           \A k \in DOMAIN commits : commits'[k] = commits[k],
           NEW id, id \in DOMAIN commits
    PROVE  History(id) \subseteq History(id)'
<1> SUFFICES ASSUME NEW k \in History(id), NEW ids \in SUBSET DOMAIN commits',
                    id \in ids, Closed(ids)'
             PROVE  k \in ids
  BY DEF History
<1> DEFINE old == ids \cap DOMAIN commits
<1>1. id \in old /\ old \in SUBSET DOMAIN commits
  OBVIOUS
<1>2. ASSUME NEW j \in old PROVE commits[j].parent \in old \cup {0}
  <2>1. commits[j].parent \in ids \cup {0}
    BY DEF Closed
  <2>2. commits[j].parent \in DOMAIN commits \cup {0}
    BY DEF ParentsExist
  <2> QED BY <2>1, <2>2
<1>3. Closed(old)
  BY <1>2 DEF Closed
<1> HIDE DEF old
<1>4. k \in old
  BY <1>1, <1>3 DEF History
<1> QED BY <1>4 DEF old

(* A commit is in its own history. *)
LEMMA HistoryHolds ==
    ASSUME NEW id \in DOMAIN commits
    PROVE  id \in History(id)
BY DEF History

(* The history of a commit holds that of its parent ...                     *)
LEMMA HistoryOfParent ==
    ASSUME NEW id \in DOMAIN commits, commits[id].parent \in DOMAIN commits,
           commits[id].parent # 0
    PROVE  History(commits[id].parent) \subseteq History(id)
<1> SUFFICES ASSUME NEW k \in History(commits[id].parent), NEW ids \in SUBSET DOMAIN commits,
                    id \in ids, Closed(ids)
             PROVE  k \in ids
  BY DEF History
<1>1. CASE commits[id].parent \in ids
  BY <1>1 DEF History
<1>2. commits[id].parent \in ids
  BY DEF Closed
<1> QED BY <1>1, <1>2

(* ... and nothing else but the commit.                                     *)
LEMMA HistoryWithout ==
    ASSUME NEW id \in DOMAIN commits, commits[id].parent \in DOMAIN commits
    PROVE  History(id) \subseteq History(commits[id].parent) \cup {id}
<1> SUFFICES ASSUME NEW k \in History(id), k # id, NEW ids \in SUBSET DOMAIN commits,
                    commits[id].parent \in ids, Closed(ids)
             PROVE  k \in ids
  BY DEF History
<1>1. Closed(ids \cup {id})
  BY DEF Closed
<1>2. k \in ids \cup {id}
  <2> DEFINE more == ids \cup {id}
  <2>1. more \in SUBSET DOMAIN commits /\ id \in more /\ Closed(more)
    BY <1>1
  <2> HIDE DEF more
  <2>2. k \in more
    BY <2>1 DEF History
  <2> QED BY <2>2 DEF more
<1> QED BY <1>2

-----------------------------------------------------------------------------
(* Types. *)

(* What a call holds when it goes on. *)
LEMMA GotoCall ==
    ASSUME TypeOK, NEW w \in Workers, NEW c \in Call, Goto(w, c)
    PROVE  call' \in [Workers -> Call] /\ call' = [call EXCEPT ![w] = c]
BY DEF TypeOK, Goto

(* A step changes nothing else of the call. *)
LEMMA StepCall ==
    ASSUME TypeOK, NEW w \in Workers, NEW step \in Steps, Step(w, step)
    PROVE  /\ [call[w] EXCEPT !.step = step] \in Call
           /\ [call[w] EXCEPT !.step = step].step = step
           /\ call' = [call EXCEPT ![w] = [call[w] EXCEPT !.step = step]]
           /\ call'[w] = [call[w] EXCEPT !.step = step]
           /\ call'[w].step = step /\ call'[w].kind = call[w].kind
           /\ call'[w].saw = call[w].saw /\ call'[w].later = call[w].later
           /\ call'[w].made = call[w].made /\ call'[w].row = call[w].row
           /\ call'[w].paths = call[w].paths /\ call'[w].todo = call[w].todo
<1> DEFINE c == call[w]
           d == [c EXCEPT !.step = step]
<1>1. c \in Call /\ call \in [Workers -> Call]
  BY DEF TypeOK
<1>2. /\ d \in Call /\ d.step = step /\ d.kind = c.kind /\ d.saw = c.saw
      /\ d.later = c.later /\ d.made = c.made /\ d.row = c.row
      /\ d.paths = c.paths /\ d.todo = c.todo
  BY <1>1 DEF Call
<1>3. Goto(w, d)
  BY DEF Step
<1> HIDE DEF d
<1>4. call' = [call EXCEPT ![w] = d] /\ call'[w] = d
  BY <1>1, <1>2, <1>3, GotoCall
<1>5. /\ d \in Call /\ d.step = step /\ call' = [call EXCEPT ![w] = d] /\ call'[w] = d
      /\ call'[w].step = step /\ call'[w].kind = c.kind /\ call'[w].saw = c.saw
      /\ call'[w].later = c.later /\ call'[w].made = c.made /\ call'[w].row = c.row
      /\ call'[w].paths = c.paths /\ call'[w].todo = c.todo
  BY <1>2, <1>4
<1> QED BY <1>5 DEF d

(* A call that is not under way is a call.                                  *)
LEMMA IdleType == Idle \in Call
BY ConstantsAssumption DEF Idle, Call, Steps, Kinds, Repo, Tree

(* A step of one call, with what it has to show.                            *)
LEMMA TypeStep ==
    ASSUME TypeInv, NEW w \in Workers, NEW c \in Call, Goto(w, c),
           commits' \in Seq(Commit), ParentsExist',
           DOMAIN commits \subseteq DOMAIN commits',
           head' \in DOMAIN commits', index' \in Tree, pushed' \subseteq DOMAIN commits',
           rows' \in Seq(Row), DOMAIN rows \subseteq DOMAIN rows',
           \A r \in DOMAIN rows' : /\ rows'[r].before.head \in DOMAIN commits'
                                   /\ rows'[r].after.head \in DOMAIN commits',
           c.saw.head \in DOMAIN commits', c.later.head \in DOMAIN commits',
           c.step = "written" => c.made \in DOMAIN commits',
           c.kind = "undo" /\ c.step \in Changing => c.row \in DOMAIN rows',
           foreign' \subseteq DOMAIN commits', settled' \in Repo, raced' \in BOOLEAN,
           work' = work, acts' = acts
    PROVE  TypeInv'
<1>1. call' \in [Workers -> Call] /\ call' = [call EXCEPT ![w] = c]
  BY GotoCall DEF TypeInv
<1>2. TypeOK'
  BY <1>1 DEF TypeInv, TypeOK
<1>3. ASSUME NEW v \in Workers PROVE Refers(call[v])'
  <2>1. CASE v = w
    BY <2>1, <1>1 DEF Refers, TypeInv, TypeOK
  <2>2. CASE v # w
    <3>1. call'[v] = call[v] /\ Refers(call[v])
      BY <2>2, <1>1 DEF TypeInv, TypeOK
    <3> QED BY <3>1 DEF Refers
  <2> QED BY <2>1, <2>2
<1>4. \A r \in DOMAIN rows' : RowRefers(rows[r])'
  BY DEF RowRefers
<1> QED BY <1>2, <1>3, <1>4 DEF TypeInv

(* The facts about the parts of the state that the steps below use.         *)
LEMMA Parts ==
    ASSUME TypeInv, NEW w \in Workers
    PROVE  /\ call[w] \in Call /\ Refers(call[w])
           /\ repo \in Repo /\ settled \in Repo /\ raced \in BOOLEAN
           /\ commits \in Seq(Commit) /\ head \in DOMAIN commits /\ index \in Tree
           /\ rows \in Seq(Row) /\ foreign \subseteq DOMAIN commits
           /\ pushed \subseteq DOMAIN commits
           /\ \A r \in DOMAIN rows :
                /\ rows[r] \in Row
                /\ rows[r].before.head \in DOMAIN commits
                /\ rows[r].after.head \in DOMAIN commits
BY DEF TypeInv, TypeOK, Refers, RowRefers, repo, Repo

(* A step that adds no commit and no row. *)
LEMMA ChangeTypes ==
    ASSUME TypeInv, NEW w \in Workers, NEW c \in Call, Goto(w, c),
           UNCHANGED <<commits, pushed, work, acts, foreign, rows>>,
           head' \in DOMAIN commits, index' \in Tree,
           settled' \in Repo, raced' \in BOOLEAN,
           c.saw.head \in DOMAIN commits, c.later.head \in DOMAIN commits,
           c.step = "written" => c.made \in DOMAIN commits,
           c.kind = "undo" /\ c.step \in Changing => c.row \in DOMAIN rows
    PROVE  TypeInv'
<1>1. commits' = commits /\ rows' = rows /\ pushed' = pushed /\ foreign' = foreign
  OBVIOUS
<1>2. /\ commits \in Seq(Commit) /\ pushed \subseteq DOMAIN commits
      /\ foreign \subseteq DOMAIN commits /\ rows \in Seq(Row)
      /\ \A r \in DOMAIN rows : /\ rows[r].before.head \in DOMAIN commits
                                /\ rows[r].after.head \in DOMAIN commits
  BY DEF TypeInv, TypeOK, RowRefers
<1>3. ParentsExist'
  BY <1>1 DEF TypeInv, ParentsExist
<1> QED BY <1>1, <1>2, <1>3, TypeStep

(* A call that returns, however the repository is by then.                  *)
LEMMA ReturnTypes ==
    ASSUME TypeInv, NEW w \in Workers, Return(w),
           UNCHANGED <<commits, pushed, work, acts, foreign, rows>>,
           head' \in DOMAIN commits, index' \in Tree,
           settled' \in Repo, raced' \in BOOLEAN
    PROVE  TypeInv'
<1>1. Idle.saw.head = 1 /\ Idle.later.head = 1 /\ Idle.step = "idle"
  BY DEF Idle
<1>2. 1 \in DOMAIN commits
  BY DEF TypeInv, TypeOK
<1> QED BY <1>1, <1>2, IdleType, ChangeTypes DEF Return, Changing

(* A call that ends with a row, new or changed.                             *)
LEMMA RecordTypes ==
    ASSUME TypeInv, NEW w \in Workers, Settles(w),
           UNCHANGED <<repository, work, acts>>,
           rows' \in Seq(Row), DOMAIN rows \subseteq DOMAIN rows',
           \A r \in DOMAIN rows' : /\ rows'[r].before.head \in DOMAIN commits
                                   /\ rows'[r].after.head \in DOMAIN commits
    PROVE  TypeInv'
<1>1. Idle.saw.head = 1 /\ Idle.later.head = 1 /\ Idle.step = "idle" /\ Goto(w, Idle)
  BY DEF Idle, Settles, Return
<1>2. /\ commits \in Seq(Commit) /\ pushed \subseteq DOMAIN commits
      /\ foreign \subseteq DOMAIN commits /\ head \in DOMAIN commits /\ index \in Tree
      /\ 1 \in DOMAIN commits /\ raced \in BOOLEAN /\ repo \in Repo
  BY Parts DEF TypeInv, TypeOK
<1>3. /\ commits' = commits /\ head' = head /\ index' = index /\ pushed' = pushed
      /\ foreign' = foreign /\ settled' = repo /\ raced' = raced
      /\ work' = work /\ acts' = acts
  BY DEF repository, Settles
<1>4. ParentsExist'
  BY <1>3 DEF TypeInv, ParentsExist
<1> QED BY <1>1, <1>2, <1>3, <1>4, IdleType, TypeStep DEF Changing

(* A row, new or changed, that is read back or cannot be.                   *)
LEMMA ReadBackTypes ==
    ASSUME TypeInv, NEW w \in Workers, ReadsBack(w), Busy(w),
           UNCHANGED <<repository, work, acts>>,
           rows' \in Seq(Row), DOMAIN rows \subseteq DOMAIN rows',
           \A r \in DOMAIN rows' : /\ rows'[r].before.head \in DOMAIN commits
                                   /\ rows'[r].after.head \in DOMAIN commits
    PROVE  TypeInv'
<1>1. CASE Settles(w)
  BY <1>1, RecordTypes
<1>2. CASE Step(w, "unread") /\ UNCHANGED ghosts
  <2> DEFINE d == [call[w] EXCEPT !.step = "unread"]
  <2>1. call[w] \in Call /\ Refers(call[w]) /\ settled \in Repo /\ raced \in BOOLEAN
    BY Parts
  <2>2. d \in Call /\ d.saw = call[w].saw /\ d.later = call[w].later /\ d.step = "unread"
        /\ d.kind = call[w].kind /\ d.row = call[w].row
    BY <2>1 DEF Call, Steps, Changing
  <2>3. Goto(w, d)
    BY <1>2 DEF Step
  <2>4. /\ d.saw.head \in DOMAIN commits /\ d.later.head \in DOMAIN commits
        /\ d.kind = "undo" => d.row \in DOMAIN rows
    BY <2>1, <2>2 DEF Refers, Busy
  <2> HIDE DEF d
  <2>5. /\ commits \in Seq(Commit) /\ pushed \subseteq DOMAIN commits
        /\ foreign \subseteq DOMAIN commits /\ head \in DOMAIN commits /\ index \in Tree
    BY DEF TypeInv, TypeOK
  <2>6. /\ commits' = commits /\ head' = head /\ index' = index /\ pushed' = pushed
        /\ foreign' = foreign /\ settled' = settled /\ raced' = raced
        /\ work' = work /\ acts' = acts
    BY <1>2 DEF repository, ghosts
  <2>7. ParentsExist'
    BY <2>6 DEF TypeInv, ParentsExist
  <2> QED BY <2>1, <2>2, <2>3, <2>4, <2>5, <2>6, <2>7, TypeStep
<1> QED BY <1>1, <1>2 DEF ReadsBack

(* A commit that is added leaves the others as they are.                    *)
LEMMA CommitAdded ==
    ASSUME TypeInv, NEW par \in DOMAIN commits, NEW tree \in Tree,
           commits' = Append(commits, [parent |-> par, tree |-> tree])
    PROVE  /\ commits' \in Seq(Commit) /\ ParentsExist'
           /\ DOMAIN commits \subseteq DOMAIN commits'
           /\ Len(commits) + 1 \in DOMAIN commits'
           /\ Len(commits) + 1 \notin DOMAIN commits
           /\ commits'[Len(commits) + 1] = [parent |-> par, tree |-> tree]
           /\ \A k \in DOMAIN commits : commits'[k] = commits[k]
<1>0. commits \in Seq(Commit)
  BY DEF TypeInv, TypeOK
<1>1. [parent |-> par, tree |-> tree] \in Commit
  BY <1>0 DEF Commit
<1>2. /\ commits' \in Seq(Commit)
      /\ DOMAIN commits \subseteq DOMAIN commits'
      /\ Len(commits) + 1 \in DOMAIN commits'
      /\ Len(commits) + 1 \notin DOMAIN commits
      /\ commits'[Len(commits) + 1] = [parent |-> par, tree |-> tree]
      /\ \A k \in DOMAIN commits : commits'[k] = commits[k]
      /\ \A k \in DOMAIN commits' : k \in DOMAIN commits \/ k = Len(commits) + 1
  BY <1>0, <1>1
<1>3. ParentsExist'
  BY <1>2 DEF ParentsExist, TypeInv
<1> QED BY <1>2, <1>3

(* A row that is added names commits that exist. *)
LEMMA RowAdded ==
    ASSUME TypeInv, NEW r \in Row, rows' = Append(rows, r),
           r.before.head \in DOMAIN commits, r.after.head \in DOMAIN commits
    PROVE  /\ rows' \in Seq(Row) /\ DOMAIN rows \subseteq DOMAIN rows'
           /\ \A k \in DOMAIN rows' : /\ rows'[k].before.head \in DOMAIN commits
                                      /\ rows'[k].after.head \in DOMAIN commits
           /\ \A k \in DOMAIN rows' : (k \in DOMAIN rows /\ rows'[k] = rows[k]) \/ rows'[k] = r
           /\ \A k \in DOMAIN rows : rows'[k] = rows[k]
<1>1. rows \in Seq(Row)
  BY DEF TypeInv, TypeOK
<1>2. \A k \in DOMAIN rows : /\ rows[k].before.head \in DOMAIN commits
                             /\ rows[k].after.head \in DOMAIN commits
  BY DEF TypeInv, RowRefers
<1> DEFINE more == Append(rows, r)
<1>3. /\ more \in Seq(Row) /\ DOMAIN rows \subseteq DOMAIN more
      /\ \A k \in DOMAIN more : (k \in DOMAIN rows /\ more[k] = rows[k]) \/ more[k] = r
      /\ \A k \in DOMAIN rows : more[k] = rows[k]
  BY <1>1
<1> HIDE DEF more
<1>4. rows' = more
  BY DEF more
<1> QED BY <1>2, <1>3, <1>4

(* A stage keeps the types. *)
LEMMA StageTypes ==
    ASSUME TypeInv, NEW w \in Workers, Stage(w), acts' = acts
    PROVE  TypeInv'
<1> DEFINE c == call[w]
<1>0. /\ c \in Call /\ c.saw \in Repo
      /\ c.saw.head \in DOMAIN commits /\ c.later.head \in DOMAIN commits
      /\ repo \in Repo /\ settled \in Repo /\ raced \in BOOLEAN
      /\ head \in DOMAIN commits /\ index \in Tree /\ rows \in Seq(Row)
  BY Parts DEF Refers, Call
<1>1. ASSUME NEW ps \in SUBSET Paths, StagePreviews(w, ps) PROVE TypeInv'
  <2> DEFINE previewed == [p \in Paths |-> IF p \in ps THEN work[p] ELSE Initial[p]]
             d == [Idle EXCEPT !.step = "previewed", !.kind = "stage", !.want = previewed,
                               !.paths = ps, !.saw = repo]
  <2>1. previewed \in Tree
    BY ConstantsAssumption DEF Tree, TypeInv, TypeOK
  <2>2. d \in Call /\ d.step = "previewed" /\ d.saw.head = head /\ d.later.head = 1
    BY <1>0, <2>1, IdleType DEF Call, Steps, Kinds, Idle, repo
  <2>3. Goto(w, d) /\ UNCHANGED <<repository, work, rows, ghosts>>
    BY <1>1 DEF StagePreviews
  <2>4. 1 \in DOMAIN commits
    BY DEF TypeInv, TypeOK
  <2>5. d.step # "written" /\ d.step \notin Changing
    BY <2>2 DEF Changing
  <2> HIDE DEF d
  <2> QED BY <1>0, <2>2, <2>3, <2>4, <2>5, ChangeTypes DEF repository, ghosts
<1>2. CASE StageChecks(w)
  <2> DEFINE d == [c EXCEPT !.step = "apply", !.todo = c.paths]
  <2>1. /\ d \in Call /\ d.saw = c.saw /\ d.later = c.later /\ d.kind = c.kind
        /\ d.step = "apply"
    BY <1>0 DEF Call, Steps, Changing
  <2>2. CASE Goto(w, d) /\ Touches(Workers \ {w})
    <3>1. d.kind # "undo" /\ raced' \in BOOLEAN
      BY <1>2, <1>0, <2>1, <2>2 DEF StageChecks, At, Touches
    <3>2. UNCHANGED <<repository, work, rows, foreign, settled>>
      BY <1>2 DEF StageChecks
    <3> HIDE DEF d
    <3> QED BY <1>0, <2>1, <2>2, <3>1, <3>2, ChangeTypes DEF repository
  <2>3. CASE Return(w) /\ UNCHANGED raced
    BY <1>0, <1>2, <2>3, ReturnTypes DEF StageChecks, repository
  <2> QED BY <1>2, <2>2, <2>3 DEF StageChecks
<1>3. ASSUME NEW p \in Paths, StageAdds(w, p) PROVE TypeInv'
  <2> DEFINE d == [c EXCEPT !.todo = @ \ {p}]
  <2>1. d \in Call /\ d.saw = c.saw /\ d.later = c.later /\ d.kind = c.kind /\ d.step = c.step
    BY <1>0 DEF Call
  <2>2. d.kind # "undo" /\ d.step # "written" /\ raced' \in BOOLEAN
    BY <1>3, <2>1, <1>0 DEF StageAdds, At, Touches
  <2>3. index' \in Tree
    BY <1>3, <1>0 DEF StageAdds, Tree, TypeInv, TypeOK
  <2>4. Goto(w, d) /\ UNCHANGED <<commits, head, pushed, work, rows, foreign, settled>>
    BY <1>3 DEF StageAdds
  <2> HIDE DEF d
  <2> QED BY <1>0, <2>1, <2>2, <2>3, <2>4, ChangeTypes
<1>4. CASE StageRecords(w)
  <2> DEFINE r == [kind |-> "stage", status |-> "applied", paths |-> c.paths,
                   before |-> c.saw, after |-> [c.saw EXCEPT !.index = index]]
  <2>1. r \in Row /\ r.before.head \in DOMAIN commits /\ r.after.head \in DOMAIN commits
    BY <1>0 DEF Row, Call, Repo
  <2>2. /\ rows' = Append(rows, r) /\ ReadsBack(w) /\ Busy(w)
        /\ UNCHANGED <<repository, work>>
    BY <1>4 DEF StageRecords, At, Busy, Changing
  <2> HIDE DEF r
  <2> QED BY <1>0, <2>1, <2>2, RowAdded, ReadBackTypes
<1>5. CASE StageFails(w)
  <2>1. index' \in Tree /\ raced' \in BOOLEAN
    BY <1>0, <1>5 DEF StageFails, Touches, Repo
  <2> QED BY <1>0, <1>5, <2>1, ReturnTypes DEF StageFails
<1> QED BY <1>1, <1>2, <1>3, <1>4, <1>5 DEF Stage

(* A step of a call that is past its preview keeps what it names.           *)
LEMMA StepTypes ==
    ASSUME TypeInv, NEW w \in Workers, NEW step \in Steps, Step(w, step), step # "written",
           UNCHANGED <<commits, pushed, work, acts, foreign, rows, settled>>,
           head' \in DOMAIN commits, index' \in Tree, raced' \in BOOLEAN,
           call[w].kind = "undo" => call[w].step \in Changing
    PROVE  TypeInv'
<1> DEFINE c == call[w]
           d == [c EXCEPT !.step = step]
<1>1. c \in Call /\ Refers(c) /\ settled \in Repo
  BY Parts
<1>2. d \in Call /\ d.saw = c.saw /\ d.later = c.later /\ d.kind = c.kind /\ d.step = step
      /\ d.row = c.row
  BY <1>1 DEF Call
<1>3. Goto(w, d)
  BY DEF Step
<1>4. /\ c.saw.head \in DOMAIN commits /\ c.later.head \in DOMAIN commits
      /\ c.kind = "undo" => c.row \in DOMAIN rows
  BY <1>1 DEF Refers
<1> HIDE DEF d
<1> QED BY <1>1, <1>2, <1>3, <1>4, ChangeTypes

(* A commit keeps the types. *)
LEMMA CommitTypes ==
    ASSUME TypeInv, NEW w \in Workers, MakeCommit(w), acts' = acts
    PROVE  TypeInv'
<1> DEFINE c == call[w]
<1>0. /\ c \in Call /\ c.saw \in Repo
      /\ c.saw.head \in DOMAIN commits /\ c.later.head \in DOMAIN commits
      /\ repo \in Repo /\ settled \in Repo /\ raced \in BOOLEAN
      /\ head \in DOMAIN commits /\ index \in Tree /\ rows \in Seq(Row)
      /\ c.step = "written" => c.made \in DOMAIN commits
      /\ commits \in Seq(Commit) /\ pushed \subseteq DOMAIN commits
      /\ foreign \subseteq DOMAIN commits
  BY Parts DEF Refers, Call
<1>s. {"apply", "moved", "reset"} \subseteq Steps
  BY DEF Steps, Changing
<1>1. CASE CommitPreviews(w)
  <2> DEFINE d == [Idle EXCEPT !.step = "previewed", !.kind = "commit", !.saw = repo]
  <2>1. d \in Call /\ d.step = "previewed" /\ d.saw.head = head /\ d.later.head = 1
    BY <1>0, IdleType DEF Call, Steps, Kinds, Idle, repo
  <2>2. Goto(w, d) /\ UNCHANGED <<repository, work, rows, ghosts>>
    BY <1>1 DEF CommitPreviews
  <2>3. 1 \in DOMAIN commits
    BY DEF TypeInv, TypeOK
  <2>4. d.step # "written" /\ d.step \notin Changing
    BY <2>1 DEF Changing
  <2> HIDE DEF d
  <2> QED BY <1>0, <2>1, <2>2, <2>3, <2>4, ChangeTypes DEF repository, ghosts
<1>2. CASE CommitChecks(w)
  <2>1. CASE Step(w, "apply") /\ Touches(Workers \ {w})
    BY <1>0, <1>s, <1>2, <2>1, StepTypes DEF CommitChecks, At, Touches, repository
  <2>2. CASE Return(w) /\ UNCHANGED raced
    BY <1>0, <1>2, <2>2, ReturnTypes DEF CommitChecks, repository
  <2> QED BY <1>2, <2>1, <2>2 DEF CommitChecks
<1>3. CASE CommitWritesTree(w)
  <2> DEFINE d == [c EXCEPT !.step = "written", !.made = Len(commits) + 1]
  <2>0. Len(commits) + 1 \in Nat
    BY <1>0
  <2>1. d \in Call /\ d.saw = c.saw /\ d.later = c.later /\ d.kind = c.kind
        /\ d.step = "written" /\ d.made = Len(commits) + 1
    BY <1>0, <2>0 DEF Call, Steps, Changing
  <2>2. /\ Goto(w, d) /\ UNCHANGED <<head, index, pushed, work, rows, ghosts>>
        /\ commits' = Append(commits, [parent |-> c.saw.head, tree |-> index])
        /\ c.kind = "commit"
    BY <1>3 DEF CommitWritesTree, At
  <2>3. /\ commits' \in Seq(Commit) /\ ParentsExist'
        /\ DOMAIN commits \subseteq DOMAIN commits'
        /\ Len(commits) + 1 \in DOMAIN commits'
    BY <1>0, <2>2, CommitAdded
  <2>4. rows' = rows /\ \A r \in DOMAIN rows : /\ rows[r].before.head \in DOMAIN commits
                                               /\ rows[r].after.head \in DOMAIN commits
    BY <2>2, Parts
  <2> HIDE DEF d
  <2> QED BY <1>0, <2>1, <2>2, <2>3, <2>4, TypeStep DEF ghosts
<1>4. CASE CommitMovesHead(w)
  <2>1. CASE head' = c.made /\ Step(w, "moved") /\ Touches(Workers \ {w})
    BY <1>0, <1>s, <1>4, <2>1, StepTypes DEF CommitMovesHead, At, Touches
  <2>2. CASE Return(w) /\ UNCHANGED <<head, raced>>
    BY <1>0, <1>4, <2>2, ReturnTypes DEF CommitMovesHead
  <2> QED BY <1>4, <2>1, <2>2 DEF CommitMovesHead
<1>5. CASE CommitReads(w)
  <2> DEFINE d == [c EXCEPT !.step = "read", !.later = repo]
  <2>1. d \in Call /\ d.saw = c.saw /\ d.later.head = head /\ d.kind = c.kind
        /\ d.step = "read"
    BY <1>0 DEF Call, Steps, Changing, repo
  <2>2. CASE Goto(w, d)
    <3>1. UNCHANGED <<repository, work, rows, ghosts>> /\ c.kind = "commit"
      BY <1>5 DEF CommitReads, At
    <3> HIDE DEF d
    <3> QED BY <1>0, <2>1, <2>2, <3>1, ChangeTypes DEF repository, ghosts
  <2>3. CASE Return(w)
    BY <1>0, <1>5, <2>3, ReturnTypes DEF CommitReads, repository, ghosts
  <2> QED BY <1>5, <2>2, <2>3 DEF CommitReads
<1>6. CASE CommitRecords(w)
  <2> DEFINE r == [kind |-> "commit", status |-> "applied", paths |-> Paths,
                   before |-> c.saw, after |-> c.later]
  <2>1. r \in Row /\ r.before.head \in DOMAIN commits /\ r.after.head \in DOMAIN commits
    BY <1>0 DEF Row, Call, Repo
  <2>2. /\ rows' = Append(rows, r) /\ ReadsBack(w) /\ Busy(w)
        /\ UNCHANGED <<repository, work>>
    BY <1>6 DEF CommitRecords, At, Busy, Changing
  <2> HIDE DEF r
  <2> QED BY <1>0, <2>1, <2>2, RowAdded, ReadBackTypes
<1>7. CASE CommitGivesUp(w)
  BY <1>0, <1>7, ReturnTypes DEF CommitGivesUp, repository, ghosts
<1>8. CASE CommitUnread(w)
  BY <1>0, <1>s, <1>8, StepTypes DEF CommitUnread, At, repository, ghosts
<1>9. CASE CommitFails(w)
  <2>1. CASE Step(w, "reset")
    BY <1>0, <1>s, <1>9, <2>1, StepTypes DEF CommitFails, At, repository, ghosts
  <2>2. CASE Return(w)
    BY <1>0, <1>9, <2>2, ReturnTypes DEF CommitFails, repository, ghosts
  <2> QED BY <1>9, <2>1, <2>2 DEF CommitFails
<1>10. CASE CommitResets(w)
  BY <1>0, <1>10, ReturnTypes DEF CommitResets, Touches
<1> QED BY <1>1, <1>2, <1>3, <1>4, <1>5, <1>6, <1>7, <1>8, <1>9, <1>10 DEF MakeCommit

(* A rollback and a crash keep the types. *)
LEMMA UndoTypes ==
    ASSUME TypeInv, NEW w \in Workers, Undo(w) \/ Dies(w), acts' = acts
    PROVE  TypeInv'
<1> DEFINE c == call[w]
           r == rows[c.row]
<1>0. /\ c \in Call /\ c.saw \in Repo
      /\ c.saw.head \in DOMAIN commits /\ c.later.head \in DOMAIN commits
      /\ repo \in Repo /\ settled \in Repo /\ raced \in BOOLEAN
      /\ head \in DOMAIN commits /\ index \in Tree /\ rows \in Seq(Row)
      /\ c.kind = "undo" /\ c.step \in Changing => c.row \in DOMAIN rows
  BY Parts DEF Refers, Call
<1>s. "undone" \in Steps /\ {"apply", "undone", "unread"} \subseteq Changing
  BY DEF Steps, Changing
<1>r. \A k \in DOMAIN rows :
         /\ rows[k] \in Row /\ rows[k].before \in Repo /\ rows[k].after \in Repo
         /\ rows[k].before.head \in DOMAIN commits /\ rows[k].after.head \in DOMAIN commits
  BY Parts DEF Row
<1>1. ASSUME NEW k \in DOMAIN rows, UndoChecks(w, k) PROVE TypeInv'
  <2> DEFINE d == [Idle EXCEPT !.step = "apply", !.row = k, !.saw = repo]
  <2>0. k \in Nat
    BY <1>0
  <2>1. d \in Call /\ d.step = "apply" /\ d.saw.head = head /\ d.later.head = 1 /\ d.row = k
    BY <1>0, <2>0, IdleType DEF Call, Steps, Changing, Idle, repo
  <2>2. Goto(w, d) /\ UNCHANGED <<repository, work, rows, foreign, settled>>
        /\ raced' \in BOOLEAN
    BY <1>0, <1>1 DEF UndoChecks, Touches
  <2>3. 1 \in DOMAIN commits
    BY DEF TypeInv, TypeOK
  <2> HIDE DEF d
  <2> QED BY <1>0, <2>1, <2>2, <2>3, ChangeTypes DEF repository
<1>2. CASE UndoActs(w)
  <2>1. /\ head' \in DOMAIN commits /\ index' \in Tree /\ raced' \in BOOLEAN
        /\ c.step \in Changing /\ Step(w, "undone")
        /\ UNCHANGED <<commits, pushed, work, rows, foreign, settled>>
    BY <1>0, <1>s, <1>r, <1>2 DEF UndoActs, At, Touches, Repo
  <2> QED BY <1>s, <2>1, StepTypes
<1>3. CASE UndoRecords(w)
  <2> DEFINE fixed == [rows EXCEPT ![c.row].status = "rolled_back"]
  <2>1. c.row \in DOMAIN rows
    BY <1>0, <1>s, <1>3 DEF UndoRecords, At
  <2>2. rows' = fixed /\ ReadsBack(w) /\ Busy(w) /\ UNCHANGED <<repository, work>>
    BY <1>3 DEF UndoRecords, At, Busy, Changing
  <2>3. /\ fixed \in Seq(Row) /\ DOMAIN fixed = DOMAIN rows
        /\ \A k \in DOMAIN fixed : fixed[k].before = rows[k].before
                                   /\ fixed[k].after = rows[k].after
    <3>1. [r EXCEPT !.status = "rolled_back"] \in Row
      BY <1>r, <2>1 DEF Row
    <3>2. fixed = [rows EXCEPT ![c.row] = [r EXCEPT !.status = "rolled_back"]]
      OBVIOUS
    <3>3. [r EXCEPT !.status = "rolled_back"].before = r.before
          /\ [r EXCEPT !.status = "rolled_back"].after = r.after
      BY <1>r, <2>1 DEF Row
    <3> QED BY <1>0, <2>1, <3>1, <3>2, <3>3
  <2> HIDE DEF fixed
  <2> QED BY <1>r, <2>2, <2>3, ReadBackTypes
<1>4. CASE UndoFails(w)
  <2>1. /\ head' \in DOMAIN commits /\ index' \in Tree /\ raced' \in BOOLEAN
        /\ Return(w) /\ UNCHANGED <<commits, pushed, work, rows, foreign, settled>>
    BY <1>0, <1>s, <1>r, <1>4 DEF UndoFails, At, Touches, Repo
  <2> QED BY <1>0, <2>1, ReturnTypes
<1>5. CASE Dies(w)
  BY <1>0, <1>5, ReturnTypes DEF Dies, repository
<1> QED BY <1>1, <1>2, <1>3, <1>4, <1>5 DEF Undo

(* People keep the types. *)
LEMMA PeopleTypes ==
    ASSUME TypeInv, People, acts' = acts + 1
    PROVE  TypeInv'
<1>0. /\ settled \in Repo /\ raced \in BOOLEAN /\ acts' \in Nat
      /\ head \in DOMAIN commits /\ index \in Tree /\ work \in Tree /\ rows \in Seq(Row)
      /\ commits \in Seq(Commit) /\ pushed \subseteq DOMAIN commits
      /\ foreign \subseteq DOMAIN commits /\ call \in [Workers -> Call]
      /\ \A r \in DOMAIN rows : /\ rows[r].before.head \in DOMAIN commits
                                /\ rows[r].after.head \in DOMAIN commits
  BY DEF TypeInv, TypeOK, RowRefers
<1>1. ASSUME UNCHANGED <<commits, head, rows, call, foreign>>, index' \in Tree,
             work' \in Tree, pushed' \subseteq DOMAIN commits,
             settled' \in Repo, raced' \in BOOLEAN
      PROVE  TypeInv'
  <2>1. TypeOK'
    BY <1>0, <1>1 DEF TypeOK
  <2>2. ParentsExist'
    BY <1>1 DEF TypeInv, ParentsExist
  <2>3. \A v \in Workers : Refers(call[v])'
    BY <1>1 DEF TypeInv, Refers
  <2>4. \A r \in DOMAIN rows' : RowRefers(rows[r])'
    BY <1>0, <1>1 DEF RowRefers
  <2> QED BY <2>1, <2>2, <2>3, <2>4 DEF TypeInv
<1>2. ASSUME NEW p \in Paths, NEW c \in Contents, Edit(p, c) PROVE TypeInv'
  <2>1. work' \in Tree
    BY <1>0, <1>2 DEF Edit, Tree
  <2> QED BY <1>0, <1>1, <1>2, <2>1 DEF Edit, repository, ghosts
<1>3. ASSUME NEW p \in Paths, Add(p) PROVE TypeInv'
  <2>1. index' \in Tree
    BY <1>0, <1>3 DEF Add, Tree
  <2>2. settled' \in Repo /\ raced' \in BOOLEAN
    BY <1>0, <1>3, <2>1 DEF Add, Repo, Touches
  <2> QED BY <1>0, <1>1, <1>3, <2>1, <2>2 DEF Add
<1>4. CASE ForeignCommit
  <2>1. /\ commits' \in Seq(Commit) /\ ParentsExist'
        /\ DOMAIN commits \subseteq DOMAIN commits'
        /\ head' \in DOMAIN commits'
    BY <1>0, <1>4, CommitAdded DEF ForeignCommit
  <2>2. head' \in Nat
    BY <1>0, <1>4 DEF ForeignCommit
  <2>3. settled' \in Repo /\ raced' \in BOOLEAN /\ foreign' \subseteq DOMAIN commits'
    BY <1>0, <1>4, <2>1, <2>2 DEF ForeignCommit, Repo, Touches
  <2>4. UNCHANGED <<index, pushed, work, rows, call>>
    BY <1>4 DEF ForeignCommit
  <2>5. TypeOK'
    BY <1>0, <2>1, <2>3, <2>4 DEF TypeOK
  <2>6. \A v \in Workers : Refers(call[v])'
    BY <2>1, <2>4 DEF TypeInv, Refers
  <2>7. \A r \in DOMAIN rows' : RowRefers(rows[r])'
    BY <1>0, <2>1, <2>4 DEF RowRefers
  <2> QED BY <2>1, <2>5, <2>6, <2>7 DEF TypeInv
<1>5. CASE Push
  <2>1. pushed' \subseteq DOMAIN commits /\ raced' \in BOOLEAN
    BY <1>0, <1>5 DEF Push, History, Touches
  <2> QED BY <1>0, <1>1, <1>5, <2>1 DEF Push
<1> QED BY <1>2, <1>3, <1>4, <1>5 DEF People

-----------------------------------------------------------------------------
(* One call at a time. *)

(* What depends on neither the index nor the calls. *)
LEMMA KeepRows ==
    ASSUME RowsOK, UNCHANGED <<commits, rows, foreign>>
    PROVE  RowsOK'
BY DEF RowsOK, RowOK, Confirmed

(* What is said of the commits of others depends on history and HEAD only.  *)
LEMMA KeepOthers ==
    ASSUME OthersStay, UNCHANGED <<commits, head, pushed, foreign>>
    PROVE  OthersStay'
BY DEF OthersStay, History, Closed

(* A step of the only call that is past its checks.                         *)
LEMMA AloneClean ==
    ASSUME NEW w \in Workers, NEW c \in Call, call' = [call EXCEPT ![w] = c],
           call \in [Workers -> Call],
           \A v \in Workers \ {w} : ~Busy(v),
           CallOK(w)', RowsOK', OthersStay', c.step \in Changing \/ repo' = settled'
    PROVE  Clean'
<1>1. call'[w] = c /\ \A v \in Workers \ {w} : call'[v] = call[v]
  OBVIOUS
<1>2. \A v \in Workers \ {w} : ~Busy(v)'
  BY <1>1 DEF Busy
<1>3. OneBusy'
  BY <1>2 DEF OneBusy
<1>4. ASSUME NEW v \in Workers \ {w} PROVE CallOK(v)'
  BY <1>2 DEF CallOK, Busy, At, Changing
<1>5. AtRest'
  BY <1>1 DEF AtRest, Busy
<1> QED BY <1>3, <1>4, <1>5 DEF Clean, CallsOK

(* A call that has nothing to do any more.                                  *)
LEMMA IdleOK ==
    ASSUME NEW w \in Workers, call[w].step \notin Changing
    PROVE  CallOK(w)
BY DEF CallOK, Busy, At, Changing

(* The only call past its checks returns.                                   *)
LEMMA ReturnClean ==
    ASSUME TypeOK, NEW w \in Workers, Return(w), \A v \in Workers \ {w} : ~Busy(v),
           RowsOK', OthersStay', repo' = settled'
    PROVE  Clean'
<1>1. call' = [call EXCEPT ![w] = Idle] /\ call \in [Workers -> Call]
  BY IdleType, GotoCall DEF Return, TypeOK
<1>2. call'[w].step \notin Changing
  BY <1>1 DEF Idle, Changing
<1>3. CallOK(w)'
  BY <1>2 DEF CallOK, Busy, At, Changing
<1> QED BY <1>1, <1>3, IdleType, AloneClean

(* The only call past its checks has committed its row.                     *)
LEMMA ReadBackClean ==
    ASSUME TypeOK, NEW w \in Workers, ReadsBack(w), \A v \in Workers \ {w} : ~Busy(v),
           UNCHANGED repository, RowsOK', OthersStay',
           Step(w, "unread") /\ settled' = settled => CallOK(w)'
    PROVE  Clean'
<1>1. CASE Settles(w)
  <2>1. repo' = settled' /\ Return(w)
    BY <1>1 DEF Settles, repository, repo
  <2> QED BY <2>1, ReturnClean
<1>2. CASE Step(w, "unread") /\ UNCHANGED ghosts
  <2> DEFINE d == [call[w] EXCEPT !.step = "unread"]
  <2>1. "unread" \in Steps /\ "unread" \in Changing
    BY DEF Steps, Changing
  <2>2. /\ d \in Call /\ d.step \in Changing /\ call' = [call EXCEPT ![w] = d]
        /\ call \in [Workers -> Call]
    BY <1>2, <2>1, StepCall DEF TypeOK
  <2>3. CallOK(w)'
    BY <1>2 DEF ghosts
  <2> HIDE DEF d
  <2> QED BY <2>2, <2>3, AloneClean
<1> QED BY <1>1, <1>2 DEF ReadsBack

(* A call before its checks changes nothing, whoever is busy.               *)
LEMMA QuietClean ==
    ASSUME TypeOK, Clean, NEW w \in Workers, ~Busy(w),
           NEW c \in Call, Goto(w, c), c.step \notin Changing,
           UNCHANGED <<commits, head, index, pushed, rows, foreign, settled>>
    PROVE  Clean'
<1>1. call' = [call EXCEPT ![w] = c] /\ call \in [Workers -> Call]
  BY GotoCall DEF TypeOK
<1>2. call'[w] = c /\ \A v \in Workers \ {w} : call'[v] = call[v]
  BY <1>1
<1>3. ~Busy(w)' /\ \A v \in Workers \ {w} : Busy(v)' = Busy(v)
  BY <1>2 DEF Busy
<1>4. OneBusy' /\ AtRest'
  BY <1>3 DEF Clean, OneBusy, AtRest, repo
<1>5. ASSUME NEW v \in Workers PROVE CallOK(v)'
  <2>1. CASE v = w
    BY <1>3, <2>1 DEF CallOK, Busy, At, Changing
  <2>2. CASE v # w
    <3>1. CallOK(v) /\ call'[v] = call[v]
      BY <1>2, <2>2 DEF Clean, CallsOK
    <3> QED BY <3>1 DEF CallOK, Busy, At, MayUndo, IsMade, repo
  <2> QED BY <2>1, <2>2
<1>6. RowsOK' /\ OthersStay'
  BY KeepRows, KeepOthers DEF Clean
<1> QED BY <1>4, <1>5, <1>6 DEF Clean, CallsOK

(* Until the first race a call that is past its checks is alone ...         *)
LEMMA BusyAlone ==
    ASSUME Clean, NEW w \in Workers, Busy(w)
    PROVE  CallOK(w) /\ settled = call[w].saw /\ \A v \in Workers \ {w} : ~Busy(v)
BY DEF Clean, OneBusy, CallsOK, CallOK

(* ... and one that passes them finds everything settled.                   *)
LEMMA ChecksAlone ==
    ASSUME Clean, NEW w \in Workers, ~Busy(w), Touches(Workers \ {w}), ~raced'
    PROVE  repo = settled /\ \A v \in Workers \ {w} : ~Busy(v)
BY DEF Clean, AtRest, Touches

(* What a preview covers is HEAD and the index.                             *)
LEMMA RepoParts ==
    ASSUME NEW r \in Repo
    PROVE  r = [head |-> r.head, index |-> r.index]
BY DEF Repo

(* A row that is added leaves the others as confirmed as they were.         *)
LEMMA RowsKept ==
    ASSUME RowsOK, rows \in Seq(Row), NEW r \in Row, rows' = Append(rows, r),
           UNCHANGED <<commits, foreign>>, RowOK(r)
    PROVE  RowsOK'
<1>1. \A k \in DOMAIN rows' : (k \in DOMAIN rows /\ rows'[k] = rows[k]) \/ rows'[k] = r
  OBVIOUS
<1>2. ASSUME NEW k \in DOMAIN rows' PROVE RowOK(rows[k])'
  BY <1>1 DEF RowsOK, RowOK, Confirmed
<1> QED BY <1>2 DEF RowsOK

(* A stage keeps the repository clean. *)
LEMMA StageClean ==
    ASSUME TypeInv, Clean, ~raced', NEW w \in Workers, Stage(w)
    PROVE  Clean'
<1> DEFINE c == call[w]
<1>0. TypeOK /\ c \in Call /\ c.saw \in Repo /\ repo \in Repo /\ rows \in Seq(Row)
      /\ call \in [Workers -> Call] /\ index \in Tree
  BY Parts DEF Call, TypeInv, TypeOK
<1>i. Idle.step \notin Changing /\ "previewed" \notin Changing
      /\ {"apply", "unread"} \subseteq Changing /\ "unread" \in Steps
  BY DEF Idle, Changing, Steps
<1>1. ASSUME NEW ps \in SUBSET Paths, StagePreviews(w, ps) PROVE Clean'
  <2> DEFINE previewed == [p \in Paths |-> IF p \in ps THEN work[p] ELSE Initial[p]]
             d == [Idle EXCEPT !.step = "previewed", !.kind = "stage", !.want = previewed,
                               !.paths = ps, !.saw = repo]
  <2>1. previewed \in Tree
    BY ConstantsAssumption DEF Tree, TypeInv, TypeOK
  <2>2. d \in Call /\ d.step = "previewed"
    BY <1>0, <2>1, IdleType DEF Call, Steps, Kinds, Idle
  <2>3. Goto(w, d) /\ UNCHANGED <<repository, work, rows, ghosts>> /\ c.step = "idle"
    BY <1>1 DEF StagePreviews
  <2>4. ~Busy(w)
    BY <2>3 DEF Busy, Changing
  <2> HIDE DEF d
  <2> QED BY <1>0, <1>i, <2>2, <2>3, <2>4, QuietClean DEF repository, ghosts
<1>2. CASE StageChecks(w)
  <2> DEFINE d == [c EXCEPT !.step = "apply", !.todo = c.paths]
             same == repo = c.saw /\ \A p \in c.paths : work[p] = c.want[p]
  <2>0. ~Busy(w) /\ c.kind = "stage"
        /\ UNCHANGED <<commits, head, index, pushed, work, rows, foreign, settled>>
    BY <1>2, <1>i DEF StageChecks, At, Busy, repository
  <2>1. /\ d \in Call /\ d.saw = c.saw /\ d.kind = c.kind /\ d.step = "apply"
        /\ d.todo = c.paths /\ d.paths = c.paths
    BY <1>0 DEF Call, Steps, Changing
  <2>2. CASE same
    <3>1. repo = c.saw /\ Goto(w, d) /\ Touches(Workers \ {w})
      BY <1>2, <2>2 DEF StageChecks
    <3>2. repo = settled /\ \A v \in Workers \ {w} : ~Busy(v)
      BY <2>0, <3>1, ChecksAlone
    <3>3. call' = [call EXCEPT ![w] = d] /\ call'[w] = d
      BY <1>0, <2>1, <3>1, GotoCall
    <3> HIDE DEF d
    <3>4. CallOK(w)'
      BY <2>0, <2>1, <3>1, <3>2, <3>3 DEF CallOK, Busy, At, repo
    <3>5. RowsOK' /\ OthersStay'
      BY <2>0, KeepRows, KeepOthers DEF Clean
    <3> QED BY <1>0, <1>i, <2>1, <3>2, <3>3, <3>4, <3>5, AloneClean
  <2>3. CASE ~same
    <3>1. Return(w)
      BY <1>2, <2>3 DEF StageChecks
    <3> QED BY <1>0, <1>i, <2>0, <3>1, IdleType, QuietClean DEF Return
  <2> QED BY <2>2, <2>3
<1>3. ASSUME NEW p \in Paths, StageAdds(w, p) PROVE Clean'
  <2> DEFINE d == [c EXCEPT !.todo = @ \ {p}]
  <2>1. d \in Call /\ d.saw = c.saw /\ d.kind = c.kind /\ d.step = c.step
        /\ d.paths = c.paths /\ d.todo = c.todo \ {p}
    BY <1>0 DEF Call
  <2>2. /\ c.kind = "stage" /\ c.step = "apply" /\ p \in c.todo
        /\ index' = [index EXCEPT ![p] = work[p]]
        /\ Goto(w, d) /\ UNCHANGED <<commits, head, pushed, work, rows, foreign, settled>>
    BY <1>3 DEF StageAdds, At
  <2>3. CallOK(w) /\ settled = c.saw /\ \A v \in Workers \ {w} : ~Busy(v)
    BY <1>i, <2>2, BusyAlone DEF Busy
  <2>4. call' = [call EXCEPT ![w] = d] /\ call'[w] = d
    BY <1>0, <2>1, <2>2, GotoCall
  <2> HIDE DEF d
  <2>5. /\ head = c.saw.head /\ c.todo \subseteq c.paths
        /\ \A q \in Paths \ c.paths : index[q] = c.saw.index[q]
    BY <2>2, <2>3 DEF CallOK, At
  <2>6. \A q \in Paths \ c.paths : index'[q] = c.saw.index[q]
    BY <1>0, <2>2, <2>5 DEF Tree
  <2>7. CallOK(w)'
    BY <2>1, <2>2, <2>3, <2>4, <2>5, <2>6 DEF CallOK, Busy, At
  <2>8. RowsOK' /\ OthersStay'
    BY <2>2, KeepRows, KeepOthers DEF Clean
  <2> QED BY <1>0, <1>i, <2>1, <2>2, <2>3, <2>4, <2>7, <2>8, AloneClean
<1>4. CASE StageRecords(w)
  <2> DEFINE r == [kind |-> "stage", status |-> "applied", paths |-> c.paths,
                   before |-> c.saw, after |-> [c.saw EXCEPT !.index = index]]
  <2>1. r \in Row /\ r.kind = "stage" /\ r.paths = c.paths /\ r.before.index = c.saw.index
        /\ r.after.index = index
    BY <1>0 DEF Row, Call, Repo
  <2>2. rows' = Append(rows, r) /\ ReadsBack(w) /\ UNCHANGED <<repository, work>>
        /\ c.kind = "stage" /\ c.step = "apply"
    BY <1>4 DEF StageRecords, At
  <2>3. CallOK(w) /\ settled = c.saw /\ \A v \in Workers \ {w} : ~Busy(v)
    BY <1>i, <2>2, BusyAlone DEF Busy
  <2>4. /\ head = c.saw.head /\ c.todo \subseteq c.paths
        /\ \A q \in Paths \ c.paths : index[q] = c.saw.index[q]
    BY <2>2, <2>3 DEF CallOK
  <2>5. RowOK(r)
    BY <2>1, <2>4 DEF RowOK, Confirmed
  <2> HIDE DEF r
  <2>6. RowsOK'
    BY <1>0, <2>1, <2>2, <2>5, RowsKept DEF repository, ReadsBack, Settles, ghosts, Clean
  <2>7. OthersStay'
    BY <2>2, KeepOthers DEF repository, ReadsBack, Settles, ghosts, Clean
  <2>8. ASSUME Step(w, "unread"), settled' = settled PROVE CallOK(w)'
    <3>1. /\ call'[w].step = "unread" /\ call'[w].kind = "stage" /\ call'[w].saw = c.saw
          /\ call'[w].paths = c.paths /\ call'[w].todo = c.todo
      BY <1>0, <1>i, <2>2, <2>8, StepCall
    <3>2. head' = head /\ index' = index
      BY <2>2 DEF repository
    <3> QED BY <2>3, <2>4, <2>8, <3>1, <3>2 DEF CallOK, At
  <2> QED BY <1>0, <2>2, <2>3, <2>6, <2>7, <2>8, ReadBackClean
<1>5. CASE StageFails(w)
  <2>1. CallOK(w) /\ settled = c.saw /\ head = c.saw.head
        /\ \A v \in Workers \ {w} : ~Busy(v)
    BY <1>i, <1>5, BusyAlone DEF Busy, StageFails, At, CallOK
  <2>2. RowsOK' /\ OthersStay' /\ Return(w)
    BY <1>5, KeepRows, KeepOthers DEF Clean, StageFails
  <2>3. head' = c.saw.head /\ index' = c.saw.index /\ settled' = c.saw
    <3>1. head' = head /\ settled' = settled /\ index' = c.saw.index
      BY <1>5 DEF StageFails
    <3> QED BY <2>1, <3>1
  <2>4. repo' = settled'
    BY <1>0, <2>3, RepoParts DEF repo
  <2> QED BY <1>0, <2>1, <2>2, <2>4, ReturnClean
<1> QED BY <1>1, <1>2, <1>3, <1>4, <1>5 DEF Stage

(* A commit that is added, and perhaps somebody else's, changes no row ...  *)
LEMMA GrownRows ==
    ASSUME RowsOK, rows' = rows, DOMAIN commits \subseteq DOMAIN commits',
           \A k \in DOMAIN commits : commits'[k] = commits[k],
           foreign' \cap DOMAIN commits \subseteq foreign,
           \A r \in DOMAIN rows : rows[r].after.head \in DOMAIN commits
    PROVE  RowsOK'
<1>1. ASSUME NEW r \in DOMAIN rows PROVE RowOK(rows[r])'
  BY DEF RowsOK, RowOK, Confirmed
<1> QED BY <1>1 DEF RowsOK

(* ... and takes nothing from the history of HEAD.                          *)
LEMMA GrownOthers ==
    ASSUME TypeInv, OthersStay, DOMAIN commits \subseteq DOMAIN commits',
           \A k \in DOMAIN commits : commits'[k] = commits[k],
           UNCHANGED <<head, foreign, pushed>>
    PROVE  OthersStay'
<1>1. head \in DOMAIN commits /\ ParentsExist
  BY DEF TypeInv, TypeOK
<1>2. History(head) \subseteq History(head)'
  BY <1>1, HistoryGrows
<1> QED BY <1>2 DEF OthersStay

(* The commit of a call has everything that HEAD had.                       *)
LEMMA MadeHolds ==
    ASSUME TypeInv, NEW c \in Call, IsMade(c), c.saw.head \in DOMAIN commits
    PROVE  History(c.saw.head) \subseteq History(c.made)
           /\ History(c.made) \subseteq History(c.saw.head) \cup {c.made}
<1>1. c.made \in DOMAIN commits /\ commits[c.made].parent = c.saw.head
  BY DEF IsMade
<1>2. c.saw.head # 0
  BY DEF TypeInv, TypeOK
<1> QED BY <1>1, <1>2, HistoryOfParent, HistoryWithout

(* A commit keeps the repository clean. *)
LEMMA CommitClean ==
    ASSUME TypeInv, Clean, ~raced', NEW w \in Workers, MakeCommit(w)
    PROVE  Clean'
<1> DEFINE c == call[w]
<1>0. TypeOK /\ c \in Call /\ c.saw \in Repo /\ repo \in Repo /\ rows \in Seq(Row)
      /\ call \in [Workers -> Call] /\ index \in Tree /\ commits \in Seq(Commit)
      /\ head \in DOMAIN commits /\ c.saw.head \in DOMAIN commits
      /\ foreign \subseteq DOMAIN commits /\ pushed \subseteq DOMAIN commits
  BY Parts DEF Call, TypeInv, TypeOK, Refers
<1>i. Idle.step \notin Changing /\ "previewed" \notin Changing
      /\ {"apply", "written", "moved", "read", "reset", "unread"} \subseteq Changing
  BY DEF Idle, Changing
<1>s. Changing \subseteq Steps
  BY DEF Steps
<1>c. ASSUME NEW step \in Steps, Step(w, step)
      PROVE  /\ [c EXCEPT !.step = step] \in Call
             /\ call' = [call EXCEPT ![w] = [c EXCEPT !.step = step]]
             /\ call'[w] = [c EXCEPT !.step = step]
             /\ call'[w].step = step /\ call'[w].kind = c.kind /\ call'[w].saw = c.saw
             /\ call'[w].made = c.made /\ call'[w].later = c.later
  BY <1>0, <1>c, StepCall
<1>1. CASE CommitPreviews(w)
  <2> DEFINE d == [Idle EXCEPT !.step = "previewed", !.kind = "commit", !.saw = repo]
  <2>1. d \in Call /\ d.step = "previewed"
    BY <1>0, IdleType DEF Call, Steps, Kinds, Idle
  <2>2. Goto(w, d) /\ UNCHANGED <<repository, work, rows, ghosts>> /\ c.step = "idle"
    BY <1>1 DEF CommitPreviews
  <2>3. ~Busy(w)
    BY <2>2 DEF Busy, Changing
  <2> HIDE DEF d
  <2> QED BY <1>0, <1>i, <2>1, <2>2, <2>3, QuietClean DEF repository, ghosts
<1>2. CASE CommitChecks(w)
  <2>0. ~Busy(w) /\ c.kind = "commit"
        /\ UNCHANGED <<commits, head, index, pushed, work, rows, foreign, settled>>
    BY <1>2, <1>i DEF CommitChecks, At, Busy, repository
  <2>1. CASE repo = c.saw
    <3>1. Step(w, "apply") /\ Touches(Workers \ {w})
      BY <1>2, <2>1 DEF CommitChecks
    <3>2. repo = settled /\ \A v \in Workers \ {w} : ~Busy(v)
      BY <2>0, <3>1, ChecksAlone
    <3>3. CallOK(w)'
      BY <1>c, <1>i, <1>s, <2>0, <2>1, <3>1, <3>2 DEF CallOK, Busy, At, repo
    <3>4. RowsOK' /\ OthersStay'
      BY <2>0, KeepRows, KeepOthers DEF Clean
    <3>5. [c EXCEPT !.step = "apply"].step = "apply"
      BY <1>0 DEF Call
    <3> QED BY <1>0, <1>c, <1>i, <1>s, <3>1, <3>2, <3>3, <3>4, <3>5, AloneClean
  <2>2. CASE repo # c.saw
    <3>1. Return(w)
      BY <1>2, <2>2 DEF CommitChecks
    <3> QED BY <1>0, <1>i, <2>0, <3>1, IdleType, QuietClean DEF Return
  <2> QED BY <2>1, <2>2
<1>3. CASE CommitWritesTree(w)
  <2> DEFINE d == [c EXCEPT !.step = "written", !.made = Len(commits) + 1]
  <2>0. Len(commits) + 1 \in Nat
    BY <1>0
  <2>1. d \in Call /\ d.saw = c.saw /\ d.kind = c.kind /\ d.step = "written"
        /\ d.made = Len(commits) + 1
    BY <1>0, <2>0 DEF Call, Steps, Changing
  <2>2. /\ Goto(w, d) /\ UNCHANGED <<head, index, pushed, work, rows, foreign, settled>>
        /\ commits' = Append(commits, [parent |-> c.saw.head, tree |-> index])
        /\ c.kind = "commit" /\ c.step = "apply"
    BY <1>3 DEF CommitWritesTree, At, ghosts
  <2>3. /\ DOMAIN commits \subseteq DOMAIN commits'
        /\ Len(commits) + 1 \in DOMAIN commits'
        /\ Len(commits) + 1 \notin DOMAIN commits
        /\ commits'[Len(commits) + 1] = [parent |-> c.saw.head, tree |-> index]
        /\ \A k \in DOMAIN commits : commits'[k] = commits[k]
    BY <1>0, <2>2, CommitAdded
  <2>4. CallOK(w) /\ settled = c.saw /\ \A v \in Workers \ {w} : ~Busy(v)
    BY <1>i, <2>2, BusyAlone DEF Busy
  <2>5. repo = c.saw
    BY <2>2, <2>4 DEF CallOK, At
  <2>6. call' = [call EXCEPT ![w] = d] /\ call'[w] = d
    BY <1>0, <2>1, <2>2, GotoCall
  <2> HIDE DEF d
  <2>7. IsMade(call[w])'
    BY <1>0, <2>1, <2>2, <2>3, <2>5, <2>6 DEF IsMade, repo
  <2>8. CallOK(w)'
    BY <2>1, <2>2, <2>4, <2>5, <2>6, <2>7 DEF CallOK, Busy, At, repo
  <2>9. RowsOK'
    BY <1>0, <2>2, <2>3, Parts, GrownRows DEF Clean
  <2>10. OthersStay'
    BY <1>0, <2>2, <2>3, GrownOthers DEF Clean
  <2> QED BY <1>0, <1>i, <2>1, <2>4, <2>6, <2>8, <2>9, <2>10, AloneClean
<1>4. CASE CommitMovesHead(w)
  <2>1. /\ c.kind = "commit" /\ c.step = "written"
        /\ UNCHANGED <<commits, index, pushed, work, rows, foreign, settled>>
    BY <1>4 DEF CommitMovesHead, At
  <2>2. CallOK(w) /\ settled = c.saw /\ \A v \in Workers \ {w} : ~Busy(v)
    BY <1>i, <2>1, BusyAlone DEF Busy
  <2>3. repo = c.saw /\ IsMade(c)
    BY <2>1, <2>2 DEF CallOK, At
  <2>4. head = c.saw.head /\ index = c.saw.index
    BY <2>3 DEF repo
  <2>5. head' = c.made /\ Step(w, "moved")
    BY <1>4, <2>4 DEF CommitMovesHead
  <2>6. IsMade(call[w])'
    BY <1>c, <1>i, <1>s, <2>1, <2>3, <2>5 DEF IsMade
  <2>7. CallOK(w)'
    BY <1>c, <1>i, <1>s, <2>1, <2>2, <2>4, <2>5, <2>6 DEF CallOK, Busy, At
  <2>8. RowsOK'
    BY <2>1, KeepRows DEF Clean
  <2>9. OthersStay'
    <3>1. History(head) \subseteq History(c.made)
      BY <1>0, <2>3, <2>4, MadeHolds
    <3>2. History(head)' = History(c.made)
      BY <2>1, <2>5 DEF History, Closed
    <3> QED BY <2>1, <3>1, <3>2 DEF Clean, OthersStay
  <2>10. [c EXCEPT !.step = "moved"].step = "moved"
    BY <1>0 DEF Call
  <2> QED BY <1>0, <1>c, <1>i, <1>s, <2>2, <2>5, <2>7, <2>8, <2>9, <2>10, AloneClean
<1>5. CASE CommitReads(w)
  <2> DEFINE d == [c EXCEPT !.step = "read", !.later = repo]
  <2>0. /\ c.kind = "commit" /\ c.step = "moved"
        /\ UNCHANGED <<commits, head, index, pushed, work, rows, foreign, settled>>
    BY <1>5 DEF CommitReads, At, repository, ghosts
  <2>1. CallOK(w) /\ settled = c.saw /\ \A v \in Workers \ {w} : ~Busy(v)
    BY <1>i, <2>0, BusyAlone DEF Busy
  <2>2. head = c.made /\ index = c.saw.index /\ IsMade(c)
    BY <2>0, <2>1 DEF CallOK, At
  <2>3. RowsOK' /\ OthersStay'
    BY <2>0, KeepRows, KeepOthers DEF Clean
  <2>4. CASE head = c.saw.head
    <3>1. Return(w)
      BY <1>5, <2>4 DEF CommitReads
    <3>2. repo' = settled'
      BY <1>0, <2>0, <2>1, <2>2, <2>4, RepoParts DEF repo
    <3> QED BY <1>0, <2>1, <2>3, <3>1, <3>2, ReturnClean
  <2>5. CASE head # c.saw.head
    <3>1. d \in Call /\ d.saw = c.saw /\ d.kind = c.kind /\ d.step = "read"
          /\ d.made = c.made /\ d.later = repo
      BY <1>0 DEF Call, Steps, Changing
    <3>2. Goto(w, d)
      BY <1>5, <2>5 DEF CommitReads
    <3>3. call' = [call EXCEPT ![w] = d] /\ call'[w] = d
      BY <1>0, <3>1, <3>2, GotoCall
    <3> HIDE DEF d
    <3>4. IsMade(call[w])'
      BY <2>0, <2>2, <3>1, <3>3 DEF IsMade
    <3>5. CallOK(w)'
      BY <2>0, <2>1, <2>2, <3>1, <3>3, <3>4 DEF CallOK, Busy, At, repo
    <3> QED BY <1>0, <1>i, <2>1, <2>3, <3>1, <3>3, <3>5, AloneClean
  <2> QED BY <2>4, <2>5
<1>6. CASE CommitRecords(w)
  <2> DEFINE r == [kind |-> "commit", status |-> "applied", paths |-> Paths,
                   before |-> c.saw, after |-> c.later]
  <2>1. r \in Row /\ r.kind = "commit" /\ r.before = c.saw /\ r.after = c.later
    BY <1>0 DEF Row, Call, Repo
  <2>2. rows' = Append(rows, r) /\ ReadsBack(w) /\ UNCHANGED <<repository, work>>
        /\ c.kind = "commit" /\ c.step = "read"
    BY <1>6 DEF CommitRecords, At
  <2>3. CallOK(w) /\ settled = c.saw /\ \A v \in Workers \ {w} : ~Busy(v)
    BY <1>i, <2>2, BusyAlone DEF Busy
  <2>4. head = c.made /\ index = c.saw.index /\ IsMade(c) /\ c.later = repo
    BY <2>2, <2>3 DEF CallOK
  <2>5. RowOK(r)
    BY <2>1, <2>4 DEF RowOK, Confirmed, IsMade, repo
  <2> HIDE DEF r
  <2>6. RowsOK'
    BY <1>0, <2>1, <2>2, <2>5, RowsKept DEF repository, ReadsBack, Settles, ghosts, Clean
  <2>7. OthersStay'
    BY <2>2, KeepOthers DEF repository, ReadsBack, Settles, ghosts, Clean
  <2>8. ASSUME Step(w, "unread"), settled' = settled PROVE CallOK(w)'
    <3>1. UNCHANGED <<commits, head, index, pushed, foreign>>
      BY <2>2, <2>8 DEF repository, ReadsBack, Settles, ghosts
    <3>2. IsMade(call[w])'
      BY <1>c, <1>i, <1>s, <2>4, <2>8, <3>1 DEF IsMade
    <3> QED BY <1>c, <1>i, <1>s, <2>2, <2>3, <2>4, <2>8, <3>1, <3>2 DEF CallOK, At, repo
  <2> QED BY <1>0, <2>2, <2>3, <2>6, <2>7, <2>8, ReadBackClean
<1>7. CASE CommitGivesUp(w)
  <2>1. /\ c.kind = "commit" /\ c.step \in {"apply", "written"} /\ Return(w)
        /\ UNCHANGED <<commits, head, index, pushed, work, rows, foreign, settled>>
    BY <1>7 DEF CommitGivesUp, At, repository, ghosts
  <2>2. CallOK(w) /\ settled = c.saw /\ \A v \in Workers \ {w} : ~Busy(v)
    BY <1>i, <2>1, BusyAlone DEF Busy
  <2>3. repo' = settled'
    BY <2>1, <2>2 DEF CallOK, At, repo
  <2>4. RowsOK' /\ OthersStay'
    BY <2>1, KeepRows, KeepOthers DEF Clean
  <2> QED BY <1>0, <2>1, <2>2, <2>3, <2>4, ReturnClean
<1>8. ASSUME c.kind = "commit", c.step \in {"moved", "read", "unread"}, Step(w, "reset"),
             UNCHANGED <<repository, work, rows, ghosts>>
      PROVE  Clean'
  <2>1. UNCHANGED <<commits, head, index, pushed, work, rows, foreign, settled>>
    BY <1>8 DEF repository, ghosts
  <2>2. CallOK(w) /\ settled = c.saw /\ \A v \in Workers \ {w} : ~Busy(v)
    BY <1>i, <1>8, BusyAlone DEF Busy
  <2>3. head = c.made /\ index = c.saw.index /\ IsMade(c)
    BY <1>8, <2>2 DEF CallOK
  <2>4. IsMade(call[w])'
    BY <1>c, <1>i, <1>s, <1>8, <2>1, <2>3 DEF IsMade
  <2>5. CallOK(w)'
    BY <1>c, <1>i, <1>s, <1>8, <2>1, <2>2, <2>3, <2>4 DEF CallOK, Busy, At
  <2>6. RowsOK' /\ OthersStay'
    BY <2>1, KeepRows, KeepOthers DEF Clean
  <2> DEFINE d == [c EXCEPT !.step = "reset"]
  <2>7. d.step \in Changing
    BY <1>0, <1>i DEF Call
  <2>8. d \in Call /\ call' = [call EXCEPT ![w] = d]
    BY <1>c, <1>i, <1>s, <1>8
  <2> HIDE DEF d
  <2> QED BY <1>0, <2>2, <2>5, <2>6, <2>7, <2>8, AloneClean
<1>9. CASE CommitUnread(w)
  BY <1>8, <1>9 DEF CommitUnread, At
<1>10. CASE CommitFails(w)
  <2>1. /\ c.kind = "commit" /\ c.step \in {"read", "unread"}
        /\ UNCHANGED <<repository, work, rows, ghosts>>
    BY <1>10 DEF CommitFails, At
  <2>2. CallOK(w)
    BY <1>i, <2>1, BusyAlone DEF Busy
  <2>3. head = c.later.head
    BY <2>1, <2>2 DEF CallOK, At, repo
  <2> QED BY <1>8, <1>10, <2>1, <2>3 DEF CommitFails
<1>11. CASE CommitResets(w)
  <2>1. /\ c.kind = "commit" /\ c.step = "reset" /\ Return(w) /\ head' = c.saw.head
        /\ UNCHANGED <<commits, index, pushed, work, rows, foreign, settled>>
    BY <1>11 DEF CommitResets, At
  <2>2. CallOK(w) /\ settled = c.saw /\ \A v \in Workers \ {w} : ~Busy(v)
    BY <1>i, <2>1, BusyAlone DEF Busy
  <2>3. head = c.made /\ index = c.saw.index /\ IsMade(c)
    BY <2>1, <2>2 DEF CallOK
  <2>4. repo' = settled'
    BY <1>0, <2>1, <2>2, <2>3, RepoParts DEF repo
  <2>5. RowsOK'
    BY <2>1, KeepRows DEF Clean
  <2>6. OthersStay'
    <3>1. History(c.made) \subseteq History(c.saw.head) \cup {c.made}
          /\ c.made \notin foreign \cup pushed
      BY <1>0, <2>3, MadeHolds DEF IsMade
    <3>2. History(head)' = History(c.saw.head)
      BY <2>1 DEF History, Closed
    <3> QED BY <2>1, <2>3, <3>1, <3>2 DEF Clean, OthersStay
  <2> QED BY <1>0, <2>1, <2>2, <2>4, <2>5, <2>6, ReturnClean
<1> QED BY <1>1, <1>2, <1>3, <1>4, <1>5, <1>6, <1>7, <1>9, <1>10, <1>11 DEF MakeCommit

(* Marking a row changes nothing of what rows record ...                    *)
LEMMA MarkKeeps ==
    ASSUME rows \in Seq(Row), NEW k \in DOMAIN rows, NEW j \in DOMAIN rows,
           rows' = [rows EXCEPT ![k].status = "rolled_back"]
    PROVE  /\ rows'[j].kind = rows[j].kind /\ rows'[j].paths = rows[j].paths
           /\ rows'[j].before = rows[j].before /\ rows'[j].after = rows[j].after
<1>1. rows[j] \in Row
  OBVIOUS
<1>2. rows'[j] = rows[j] \/ rows'[j] = [rows[j] EXCEPT !.status = "rolled_back"]
  OBVIOUS
<1> QED BY <1>1, <1>2 DEF Row

(* ... and they are as confirmed as they were.                              *)
LEMMA RowsMarked ==
    ASSUME RowsOK, rows \in Seq(Row), NEW k \in DOMAIN rows,
           rows' = [rows EXCEPT ![k].status = "rolled_back"],
           UNCHANGED <<commits, foreign>>
    PROVE  RowsOK'
<1>1. ASSUME NEW j \in DOMAIN rows PROVE RowOK(rows[j])'
  BY MarkKeeps DEF RowsOK, RowOK, Confirmed
<1>2. DOMAIN rows' = DOMAIN rows
  OBVIOUS
<1> QED BY <1>1, <1>2 DEF RowsOK

(* A rollback and a crash keep the repository clean. *)
LEMMA UndoClean ==
    ASSUME TypeInv, Clean, ~raced', NEW w \in Workers, Undo(w) \/ Dies(w)
    PROVE  Clean'
<1> DEFINE c == call[w]
           r == rows[c.row]
<1>0. TypeOK /\ c \in Call /\ c.saw \in Repo /\ repo \in Repo /\ rows \in Seq(Row)
      /\ call \in [Workers -> Call] /\ index \in Tree /\ commits \in Seq(Commit)
      /\ head \in DOMAIN commits /\ c.saw.head \in DOMAIN commits
      /\ foreign \subseteq DOMAIN commits /\ pushed \subseteq DOMAIN commits
      /\ (c.kind = "undo" /\ c.step \in Changing => c.row \in DOMAIN rows)
  BY Parts DEF Call, TypeInv, TypeOK, Refers
<1>i. Idle.step \notin Changing /\ "idle" \notin Changing /\ "unread" \in Steps
      /\ {"apply", "undone", "unread"} \subseteq Changing
  BY DEF Idle, Changing, Steps
<1>r. \A k \in DOMAIN rows :
         /\ rows[k] \in Row /\ rows[k].before \in Repo /\ rows[k].after \in Repo
         /\ rows[k].before.head \in DOMAIN commits /\ rows[k].after.head \in DOMAIN commits
         /\ rows[k].kind \in {"stage", "commit"} /\ RowOK(rows[k])
  BY Parts DEF Row, Clean, RowsOK
<1>h. ASSUME NEW k \in DOMAIN rows, rows[k].kind = "commit"
      PROVE  /\ History(rows[k].before.head) \subseteq History(rows[k].after.head)
             /\ History(rows[k].after.head)
                  \subseteq History(rows[k].before.head) \cup {rows[k].after.head}
             /\ rows[k].after.head \notin foreign
  <2>0. Confirmed(rows[k]) /\ rows[k].after.head \notin foreign
    BY <1>r, <1>h DEF RowOK
  <2>1. commits[rows[k].after.head].parent = rows[k].before.head
    BY <1>h, <2>0 DEF Confirmed
  <2>2. rows[k].before.head # 0
    BY <1>0, <1>r
  <2> QED BY <1>r, <2>0, <2>1, <2>2, HistoryOfParent, HistoryWithout
<1>1. ASSUME NEW k \in DOMAIN rows, UndoChecks(w, k) PROVE Clean'
  <2> DEFINE d == [Idle EXCEPT !.step = "apply", !.row = k, !.saw = repo]
  <2>0. k \in Nat
    BY <1>0
  <2>1. d \in Call /\ d.step = "apply" /\ d.kind = "undo" /\ d.row = k /\ d.saw = repo
    BY <1>0, <2>0, IdleType DEF Call, Steps, Changing, Idle
  <2>2. Goto(w, d) /\ Touches(Workers \ {w}) /\ MayUndo(k) /\ c.step = "idle"
        /\ UNCHANGED <<commits, head, index, pushed, work, rows, foreign, settled>>
    BY <1>1 DEF UndoChecks, repository
  <2>3. repo = settled /\ \A v \in Workers \ {w} : ~Busy(v)
    BY <1>i, <2>2, ChecksAlone DEF Busy
  <2>4. call' = [call EXCEPT ![w] = d] /\ call'[w] = d
    BY <1>0, <2>1, <2>2, GotoCall
  <2> HIDE DEF d
  <2>5. MayUndo(k)'
    BY <2>2 DEF MayUndo, repo
  <2>6. CallOK(w)'
    BY <2>1, <2>2, <2>3, <2>4, <2>5 DEF CallOK, Busy, At, repo
  <2>7. RowsOK' /\ OthersStay'
    BY <2>2, KeepRows, KeepOthers DEF Clean
  <2> QED BY <1>0, <1>i, <2>1, <2>3, <2>4, <2>6, <2>7, AloneClean
<1>2. CASE UndoActs(w)
  <2> DEFINE d == [c EXCEPT !.step = "undone"]
  <2>0. /\ c.kind = "undo" /\ c.step = "apply" /\ Step(w, "undone")
        /\ UNCHANGED <<commits, pushed, work, rows, foreign, settled>>
    BY <1>2 DEF UndoActs, At
  <2>1. d \in Call /\ d.step = "undone" /\ d.kind = "undo" /\ d.row = c.row /\ d.saw = c.saw
    BY <1>0, <2>0 DEF Call, Steps, Changing
  <2>2. Goto(w, d)
    BY <2>0 DEF Step
  <2>3. call' = [call EXCEPT ![w] = d] /\ call'[w] = d
    BY <1>0, <2>1, <2>2, GotoCall
  <2> HIDE DEF d
  <2>4. CallOK(w) /\ settled = c.saw /\ \A v \in Workers \ {w} : ~Busy(v)
    BY <1>i, <2>0, BusyAlone DEF Busy
  <2>5. MayUndo(c.row) /\ repo = c.saw /\ c.row \in DOMAIN rows
    BY <1>0, <1>i, <2>0, <2>4 DEF CallOK, At
  <2>6. /\ r.after = c.saw
        /\ head = r.after.head /\ index = r.after.index
        /\ r.kind = "commit" => r.after.head \notin pushed
    BY <2>5 DEF MayUndo, repo
  <2>7. RowsOK'
    BY <2>0, KeepRows DEF Clean
  <2>8. CASE r.kind = "stage"
    <3>1. index' = r.before.index /\ head' = head
      BY <1>2, <2>8 DEF UndoActs
    <3>2. CallOK(w)'
      BY <2>0, <2>1, <2>3, <2>4, <2>6, <2>8, <3>1 DEF CallOK, Busy, At
    <3>3. OthersStay'
      BY <2>0, <3>1, KeepOthers DEF Clean
    <3> QED BY <1>0, <1>i, <2>1, <2>3, <2>4, <2>7, <3>2, <3>3, AloneClean
  <2>9. CASE r.kind = "commit"
    <3>1. head' = r.before.head /\ index' = index
      BY <1>2, <2>9 DEF UndoActs
    <3>2. CallOK(w)'
      BY <2>0, <2>1, <2>3, <2>4, <2>6, <2>9, <3>1 DEF CallOK, Busy, At
    <3>3. OthersStay'
      <4>1. History(head)' = History(r.before.head)
        BY <2>0, <3>1 DEF History, Closed
      <4> QED BY <1>h, <2>0, <2>5, <2>6, <2>9, <4>1 DEF Clean, OthersStay
    <3> QED BY <1>0, <1>i, <2>1, <2>3, <2>4, <2>7, <3>2, <3>3, AloneClean
  <2> QED BY <1>r, <2>5, <2>8, <2>9
<1>3. CASE UndoRecords(w)
  <2>1. /\ c.kind = "undo" /\ c.step = "undone" /\ ReadsBack(w)
        /\ rows' = [rows EXCEPT ![c.row].status = "rolled_back"]
        /\ UNCHANGED <<repository, work>>
    BY <1>3 DEF UndoRecords, At
  <2>2. CallOK(w) /\ settled = c.saw /\ c.row \in DOMAIN rows
        /\ \A v \in Workers \ {w} : ~Busy(v)
    BY <1>0, <1>i, <2>1, BusyAlone DEF Busy
  <2>3. UNCHANGED <<commits, head, index, pushed, foreign>>
    BY <2>1 DEF repository, ReadsBack, Settles, ghosts
  <2>4. RowsOK' /\ OthersStay'
    BY <1>0, <2>1, <2>2, <2>3, RowsMarked, KeepOthers DEF Clean
  <2>5. ASSUME Step(w, "unread"), settled' = settled PROVE CallOK(w)'
    <3>1. /\ call'[w].step = "unread" /\ call'[w].kind = "undo"
          /\ call'[w].saw = c.saw /\ call'[w].row = c.row
      BY <1>0, <1>i, <2>1, <2>5, StepCall
    <3>2. rows'[c.row].kind = r.kind /\ rows'[c.row].before = r.before
          /\ rows'[c.row].after = r.after
      BY <1>0, <2>1, <2>2, MarkKeeps
    <3> QED BY <2>1, <2>2, <2>3, <2>5, <3>1, <3>2 DEF CallOK, At
  <2> QED BY <1>0, <2>1, <2>2, <2>4, <2>5, ReadBackClean
<1>4. CASE UndoFails(w)
  <2>0. /\ c.kind = "undo" /\ c.step \in {"undone", "unread"} /\ Return(w)
        /\ UNCHANGED <<commits, pushed, work, rows, foreign, settled>>
    BY <1>4 DEF UndoFails, At
  <2>1. CallOK(w) /\ settled = c.saw /\ c.row \in DOMAIN rows
        /\ \A v \in Workers \ {w} : ~Busy(v)
    BY <1>0, <1>i, <2>0, BusyAlone DEF Busy
  <2>2. /\ r.after = c.saw
        /\ r.kind = "stage" => head = r.after.head /\ index = r.before.index
        /\ r.kind = "commit" =>
             head = r.before.head /\ index = r.after.index /\ r.after.head \notin pushed
    BY <2>0, <2>1 DEF CallOK, At
  <2>3. RowsOK'
    BY <2>0, KeepRows DEF Clean
  <2>4. CASE r.kind = "stage"
    <3>1. index' = c.saw.index /\ head' = head
      BY <1>4, <2>4 DEF UndoFails
    <3>2. repo' = settled'
      BY <1>0, <2>0, <2>1, <2>2, <2>4, <3>1, RepoParts DEF repo
    <3>3. OthersStay'
      BY <2>0, <3>1, KeepOthers DEF Clean
    <3> QED BY <1>0, <2>0, <2>1, <2>3, <3>2, <3>3, ReturnClean
  <2>5. CASE r.kind = "commit"
    <3>1. head' = r.after.head /\ index' = index
      BY <1>4, <2>5 DEF UndoFails
    <3>2. repo' = settled'
      BY <1>0, <2>0, <2>1, <2>2, <2>5, <3>1, RepoParts DEF repo
    <3>3. OthersStay'
      <4>1. History(head)' = History(r.after.head)
        BY <2>0, <3>1 DEF History, Closed
      <4> QED BY <1>h, <2>0, <2>1, <2>2, <2>5, <4>1 DEF Clean, OthersStay
    <3> QED BY <1>0, <2>0, <2>1, <2>3, <3>2, <3>3, ReturnClean
  <2> QED BY <1>r, <2>1, <2>4, <2>5
<1>5. CASE Dies(w)
  <2>1. Return(w) /\ UNCHANGED <<commits, head, index, pushed, work, rows, foreign>>
    BY <1>5 DEF Dies, repository
  <2>2. RowsOK' /\ OthersStay'
    BY <2>1, KeepRows, KeepOthers DEF Clean
  <2>3. CASE Busy(w)
    <3>1. repo' = settled'
      BY <1>5, <2>1, <2>3 DEF Dies, repo
    <3> QED BY <1>0, <2>1, <2>2, <2>3, <3>1, BusyAlone, ReturnClean
  <2>4. CASE ~Busy(w)
    <3>1. settled' = settled
      BY <1>5, <2>4 DEF Dies
    <3> QED BY <1>0, <1>i, <2>1, <2>4, <3>1, IdleType, QuietClean DEF Return
  <2> QED BY <2>3, <2>4
<1> QED BY <1>1, <1>2, <1>3, <1>4, <1>5 DEF Undo

(* People keep the repository clean as long as they race with no call.      *)
LEMMA PeopleClean ==
    ASSUME TypeInv, Clean, ~raced', People
    PROVE  Clean'
<1>0. /\ head \in DOMAIN commits /\ ParentsExist /\ commits \in Seq(Commit)
      /\ index \in Tree /\ settled \in Repo /\ foreign \subseteq DOMAIN commits
      /\ pushed \subseteq DOMAIN commits
      /\ \A r \in DOMAIN rows : rows[r].after.head \in DOMAIN commits
  BY DEF TypeInv, TypeOK, RowRefers
<1>1. ASSUME call' = call, Touches(Workers), RowsOK', OthersStay', repo' = settled'
      PROVE  Clean'
  <2>1. \A v \in Workers : ~Busy(v)'
    BY <1>1 DEF Touches, Busy
  <2>2. ASSUME NEW v \in Workers PROVE CallOK(v)'
    BY <2>1 DEF CallOK, Busy, At, Changing
  <2> QED BY <1>1, <2>1, <2>2 DEF Clean, OneBusy, CallsOK, AtRest
<1>2. ASSUME Touches(Workers) PROVE repo = settled
  BY <1>2 DEF Touches, Clean, AtRest
<1>3. ASSUME NEW p \in Paths, NEW c \in Contents, Edit(p, c) PROVE Clean'
  <2>1. UNCHANGED <<commits, head, index, pushed, rows, call, foreign, settled>>
    BY <1>3 DEF Edit, repository, ghosts
  <2>2. RowsOK' /\ OthersStay'
    BY <2>1, KeepRows, KeepOthers DEF Clean
  <2>3. OneBusy' /\ AtRest'
    BY <2>1 DEF Clean, OneBusy, AtRest, Busy, repo
  <2>4. ASSUME NEW v \in Workers PROVE CallOK(v)'
    BY <2>1 DEF Clean, CallsOK, CallOK, Busy, At, MayUndo, IsMade, repo
  <2> QED BY <2>2, <2>3, <2>4 DEF Clean, CallsOK
<1>4. ASSUME NEW p \in Paths, Add(p) PROVE Clean'
  <2>1. UNCHANGED <<commits, head, pushed, rows, call, foreign>> /\ Touches(Workers)
        /\ settled' = [settled EXCEPT !.index = index']
    BY <1>4 DEF Add
  <2>2. repo' = settled'
    BY <1>2, <2>1 DEF repo
  <2>3. RowsOK' /\ OthersStay'
    BY <2>1, KeepRows, KeepOthers DEF Clean
  <2> QED BY <1>1, <2>1, <2>2, <2>3
<1>5. CASE ForeignCommit
  <2> DEFINE id == Len(commits) + 1
  <2>1. /\ commits' = Append(commits, [parent |-> head, tree |-> index])
        /\ head' = id /\ foreign' = foreign \cup {id}
        /\ settled' = [settled EXCEPT !.head = head']
        /\ Touches(Workers) /\ UNCHANGED <<index, pushed, work, rows, call>>
    BY <1>5 DEF ForeignCommit
  <2>2. /\ DOMAIN commits \subseteq DOMAIN commits'
        /\ id \in DOMAIN commits' /\ id \notin DOMAIN commits /\ ParentsExist'
        /\ commits'[id] = [parent |-> head, tree |-> index]
        /\ \A k \in DOMAIN commits : commits'[k] = commits[k]
    BY <1>0, <2>1, CommitAdded
  <2> HIDE DEF id
  <2>3. repo' = settled'
    BY <1>2, <2>1 DEF repo
  <2>4. RowsOK'
    BY <1>0, <2>1, <2>2, GrownRows DEF Clean
  <2>5. OthersStay'
    <3>1. ASSUME NEW k \in foreign \cup pushed, NEW ids \in SUBSET DOMAIN commits',
                 id \in ids, Closed(ids)'
          PROVE  k \in ids
      <4> DEFINE old == ids \cap DOMAIN commits
      <4>1. head \in old
        BY <1>0, <2>2, <3>1 DEF Closed
      <4>2. ASSUME NEW j \in old PROVE commits[j].parent \in old \cup {0}
        <5>1. commits[j].parent \in ids \cup {0}
          BY <2>2, <3>1 DEF Closed
        <5> QED BY <1>0, <5>1 DEF ParentsExist
      <4>3. Closed(old) /\ old \in SUBSET DOMAIN commits
        BY <4>2 DEF Closed
      <4> HIDE DEF old
      <4>4. k \in old
        BY <4>1, <4>3 DEF Clean, OthersStay, History
      <4> QED BY <4>4 DEF old
    <3>2. ASSUME NEW k \in foreign' \cup pushed' PROVE k \in History(head)'
      BY <1>0, <2>1, <2>2, <3>1 DEF History
    <3> QED BY <3>2 DEF OthersStay
  <2> QED BY <1>1, <2>1, <2>3, <2>4, <2>5
<1>6. CASE Push
  <2>1. UNCHANGED <<commits, head, index, rows, call, foreign, settled>>
        /\ pushed' = pushed \cup History(head) /\ Touches(Workers)
    BY <1>6 DEF Push
  <2>2. RowsOK'
    BY <2>1, KeepRows DEF Clean
  <2>3. OthersStay'
    <3>1. History(head)' = History(head)
      BY <2>1 DEF History, Closed
    <3> QED BY <2>1, <3>1 DEF Clean, OthersStay
  <2>4. repo' = settled'
    BY <1>2, <2>1 DEF repo
  <2> QED BY <1>1, <2>1, <2>2, <2>3, <2>4
<1> QED BY <1>3, <1>4, <1>5, <1>6 DEF People

-----------------------------------------------------------------------------
(* At first there is one commit, which somebody made, and nobody is busy.   *)
LEMMA InitInv == Init => IInv
<1> SUFFICES ASSUME Init PROVE IInv
  OBVIOUS
<1>1. /\ commits \in Seq(Commit) /\ DOMAIN commits = {1}
      /\ commits[1] = [parent |-> 0, tree |-> Initial]
  <2>1. [parent |-> 0, tree |-> Initial] \in Commit
    BY ConstantsAssumption DEF Commit
  <2> QED BY <2>1 DEF Init
<1>2. TypeOK
  <2>1. work \in Tree /\ settled \in Repo /\ index \in Tree
    BY ConstantsAssumption DEF Init, Repo
  <2>2. rows \in Seq(Row) /\ call \in [Workers -> Call]
    BY IdleType DEF Init
  <2> QED BY <1>1, <2>1, <2>2 DEF Init, TypeOK
<1>3. ParentsExist /\ (\A w \in Workers : Refers(call[w])) /\ DOMAIN rows = {}
  BY <1>1 DEF Init, ParentsExist, Refers, Idle, Changing
<1>4. \A w \in Workers : ~Busy(w) /\ CallOK(w)
  BY DEF Init, CallOK, Busy, At, Changing, Idle
<1>5. OthersStay
  BY <1>1, HistoryHolds DEF Init, OthersStay
<1>6. AtRest
  BY DEF Init, AtRest, repo
<1> QED BY <1>2, <1>3, <1>4, <1>5, <1>6
        DEF IInv, TypeInv, Clean, OneBusy, CallsOK, RowsOK

(* A race is not forgotten. *)
LEMMA RacedStays ==
    ASSUME (\E w \in Workers : Stage(w) \/ MakeCommit(w) \/ Undo(w) \/ Dies(w)) \/ People,
           ~raced'
    PROVE  ~raced
<1>1. ASSUME NEW w \in Workers, Stage(w) PROVE ~raced
  BY <1>1 DEF Stage, StagePreviews, StageChecks, StageAdds, StageRecords, StageFails,
              Touches, ReadsBack, Settles, ghosts
<1>2. ASSUME NEW w \in Workers, MakeCommit(w) PROVE ~raced
  BY <1>2 DEF MakeCommit, CommitPreviews, CommitChecks, CommitWritesTree, CommitMovesHead,
              CommitReads, CommitRecords, CommitGivesUp, CommitUnread, CommitFails,
              CommitResets, Touches, ReadsBack, Settles, ghosts
<1>3. ASSUME NEW w \in Workers, Undo(w) \/ Dies(w) PROVE ~raced
  BY <1>3 DEF Undo, UndoChecks, UndoActs, UndoRecords, UndoFails, Dies,
              Touches, ReadsBack, Settles, ghosts
<1>4. CASE People
  BY <1>4 DEF People, Edit, Add, ForeignCommit, Push, Touches, ghosts
<1> QED BY <1>1, <1>2, <1>3, <1>4

(* Every step keeps the invariant.                                          *)
LEMMA NextInv == IInv /\ [Next]_vars => IInv'
<1> SUFFICES ASSUME IInv, [Next]_vars PROVE IInv'
  OBVIOUS
<1>0. TypeInv /\ (~raced => Clean)
  BY DEF IInv
<1>1. ASSUME NEW w \in Workers, Stage(w) \/ MakeCommit(w) \/ Undo(w) \/ Dies(w),
             acts' = acts
      PROVE  IInv'
  <2>1. TypeInv'
    BY <1>0, <1>1, StageTypes, CommitTypes, UndoTypes
  <2>2. ASSUME ~raced' PROVE Clean'
    <3>1. ~raced
      BY <1>1, <2>2, RacedStays
    <3> QED BY <1>0, <1>1, <2>2, <3>1, StageClean, CommitClean, UndoClean
  <2> QED BY <2>1, <2>2 DEF IInv
<1>2. CASE People /\ acts' = acts + 1
  <2>1. TypeInv'
    BY <1>0, <1>2, PeopleTypes
  <2>2. ASSUME ~raced' PROVE Clean'
    <3>1. ~raced
      BY <1>2, <2>2, RacedStays
    <3> QED BY <1>0, <1>2, <2>2, <3>1, PeopleClean
  <2> QED BY <2>1, <2>2 DEF IInv
<1>3. CASE UNCHANGED vars
  <2>1. TypeInv'
    BY <1>0, <1>3
    DEF vars, TypeInv, TypeOK, ParentsExist, Refers, RowRefers
  <2>2. Clean' = Clean
    BY <1>3 DEF vars, Clean, OneBusy, CallsOK, CallOK, RowsOK, RowOK, Confirmed, OthersStay,
                History, Closed, AtRest, Busy, At, MayUndo, IsMade, repo
  <2> QED BY <1>0, <1>3, <2>1, <2>2 DEF IInv, vars
<1> QED BY <1>1, <1>2, <1>3 DEF Next

(* The invariant of a repository that calls and people share: types and     *)
(* references always; until the first race one call at a time is past its   *)
(* checks and knows HEAD and index, rows are as confirmed, and no commit of *)
(* others has left the branch.                                              *)
THEOREM InductiveInvariant == Spec => []IInv
BY InitInv, NextInv, PTL DEF Spec

(* Repository, ledger and calls have their types, raced or not.             *)
THEOREM TypeCorrect == Spec => []TypeOK
<1>1. IInv => TypeOK
  BY DEF IInv, TypeInv
<1> QED BY <1>1, InductiveInvariant, PTL

(* As long as nobody acts between a call's checks and its row, every row    *)
(* records what its caller confirmed: apply_stage and apply_commit.         *)
THEOREM RowsAreConfirmed == Spec => []ConfirmedUnlessRaced
<1>1. IInv => ConfirmedUnlessRaced
  BY DEF IInv, Clean, RowsOK, RowOK, ConfirmedUnlessRaced
<1> QED BY <1>1, InductiveInvariant, PTL

(* Without a race neither rollback nor the recovery of a failed call takes  *)
(* a commit of others, or a pushed one, from the branch: rollback and       *)
(* _reset_soft.                                                             *)
THEOREM OthersCommitsStay == Spec => []OthersStayUnlessRaced
<1>1. IInv => OthersStayUnlessRaced
  BY DEF IInv, Clean, OthersStay, OthersStayUnlessRaced
<1> QED BY <1>1, InductiveInvariant, PTL

(* Without a race a call that fails puts HEAD and the index back: the       *)
(* except blocks of apply_stage, apply_commit and rollback, which also see  *)
(* a failure after the commit of the row.                                   *)
THEOREM FailedCallsLeaveNothing == Spec => []AllOrNothingUnlessRaced
<1>1. IInv => AllOrNothingUnlessRaced
  BY DEF IInv, Clean, AtRest, AllOrNothingUnlessRaced
<1> QED BY <1>1, InductiveInvariant, PTL
=============================================================================
