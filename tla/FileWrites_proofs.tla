------------------------- MODULE FileWrites_proofs -------------------------
(***************************************************************************)
(* Proofs about module FileWrites, for any workers, contents and bound.    *)
(* They assume one service object for all calls where they say so: then    *)
(* its lock lets one call at a time past its last checks, what these saw   *)
(* stays so until the call has acted, and the ledger can be trusted.       *)
(***************************************************************************)
EXTENDS FileWrites, FiniteSetTheorems, TLAPS

IInv == TypeOK /\ Inductive

Locked == {w \in Workers : call[w].step \notin {"idle", "previewed"}}

(* With one service no two calls are past their last checks.                *)
LEMMA OneLocked ==
    ASSUME TypeOK, OneService
    PROVE  \A v, w \in Locked : v = w
BY DEF TypeOK, OneService, Locked

(* An idle call is one, with no row.                                        *)
LEMMA IdleIs ==
    /\ Idle \in Call
    /\ Idle = [step |-> "idle", op |-> 0, row |-> 0, from |-> Initial, to |-> Initial]
BY ConstantsAssumption DEF Idle, Preview, Call, Steps

(* The initial states satisfy the invariant.                                *)
LEMMA InitInv == Init => IInv
<1> SUFFICES ASSUME Init PROVE IInv
  OBVIOUS
<1>1. Idle \in Call /\ Initial \in Contents /\ None \notin Workers
  BY IdleIs, ConstantsAssumption
<1>2. /\ call \in [Workers -> Call]
      /\ lock \in [Services -> Workers \cup {None}]
      /\ ops \in Seq(Operation) /\ Len(ops) = 0 /\ DOMAIN ops = {}
  BY <1>1 DEF Init
<1>3. \A w \in Workers : call[w] = Idle /\ lock[Service[w]] = None
  BY DEF Init, Services
<1>4. TypeOK
  <2>1. ASSUME NEW w \in Workers
        PROVE  /\ {call[w].op, call[w].row} \subseteq 0 .. Len(ops)
               /\ lock[Service[w]] = w <=> call[w].step \notin {"idle", "previewed"}
    <3>1. call[w].op = 0 /\ call[w].row = 0 /\ call[w].step = "idle"
      BY <1>3, IdleIs
    <3>2. lock[Service[w]] # w
      BY <1>1, <1>3
    <3> QED BY <1>2, <3>1, <3>2
  <2> QED BY <1>1, <1>2, <2>1 DEF Init, TypeOK
<1>5. Inductive
  BY <1>2, <1>3, IdleIs DEF Inductive, CallInv, RowInv, BeliedInv, IsWrite, Committed
<1> QED BY <1>4, <1>5 DEF IInv

(* A call that ends leaves the locks well typed, and does not hold its own. *)
LEMMA EndsTypes ==
    ASSUME TypeOK, NEW w \in Workers, Ends(w)
    PROVE  /\ call' \in [Workers -> Call]
           /\ lock' \in [Services -> Workers \cup {None}]
           /\ call'[w] = Idle
           /\ \A v \in Workers : v # w => call'[v] = call[v]
           /\ lock'[Service[w]] # w
           /\ \A v \in Workers : v # w => (lock'[Service[v]] = v <=> lock[Service[v]] = v)
<1>1. Idle \in Call /\ None \notin Workers
  BY IdleIs, ConstantsAssumption
<1> QED BY <1>1 DEF Ends, TypeOK, Services

(* A call that takes its lock.                                              *)
LEMMA LocksTypes ==
    ASSUME TypeOK, NEW w \in Workers, Locks(w)
    PROVE  /\ lock' \in [Services -> Workers \cup {None}]
           /\ lock'[Service[w]] = w
           /\ \A v \in Workers : v # w => (lock'[Service[v]] = v <=> lock[Service[v]] = v)
BY ConstantsAssumption DEF Locks, TypeOK, Services

(* A call that goes on.                                                     *)
LEMMA GotoTypes ==
    ASSUME TypeOK, NEW w \in Workers,
           NEW step \in Steps, Goto(w, step)
    PROVE  /\ call' \in [Workers -> Call]
           /\ call'[w].step = step
           /\ call'[w].op = call[w].op
           /\ call'[w].row = call[w].row
           /\ call'[w].from = call[w].from
           /\ call'[w].to = call[w].to
           /\ \A v \in Workers : v # w => call'[v] = call[v]
<1>1. call[w] \in Call
  BY DEF TypeOK
<1>2. [call[w] EXCEPT !.step = step] \in Call
  BY <1>1 DEF Call
<1> QED BY <1>1, <1>2 DEF Goto, TypeOK, Call

(* A call that has committed row id.                                        *)
LEMMA CommitTypes ==
    ASSUME TypeOK, NEW w \in Workers, NEW id \in Nat,
           call' = [call EXCEPT ![w].step = "recorded", ![w].row = id]
    PROVE  /\ call' \in [Workers -> Call]
           /\ call'[w].step = "recorded"
           /\ call'[w].op = call[w].op
           /\ call'[w].row = id
           /\ call'[w].from = call[w].from
           /\ call'[w].to = call[w].to
           /\ \A v \in Workers : v # w => call'[v] = call[v]
<1>1. call[w] \in Call
  BY DEF TypeOK
<1>2. [[call[w] EXCEPT !.step = "recorded"] EXCEPT !.row = id] \in Call
  BY <1>1 DEF Call, Steps
<1> QED BY <1>1, <1>2 DEF TypeOK, Call

-----------------------------------------------------------------------------
(* Type correctness, for any services. *)

(* A preview keeps the types.                                               *)
LEMMA PreviewTypes ==
    ASSUME TypeOK, NEW w \in Workers, NEW i \in 0 .. Len(ops),
           NEW from \in Contents, NEW to \in Contents,
           call[w] = Idle,
           call' = [call EXCEPT ![w] = Preview(i, from, to)],
           UNCHANGED <<file, ops, backups, lock, ghosts>>
    PROVE  TypeOK'
<1>1. Preview(i, from, to) \in Call
  BY DEF Call, Preview, Steps
<1>2. /\ call' \in [Workers -> Call]
      /\ call'[w] = Preview(i, from, to)
      /\ \A v \in Workers : v # w => call'[v] = call[v]
  BY <1>1 DEF TypeOK
<1> QED BY <1>2, IdleIs DEF TypeOK, Preview, ghosts

(* The rows a write adds and a rollback changes are rows.                   *)
LEMMA RowTypes ==
    ASSUME TypeOK, NEW w \in Workers
    PROVE  /\ Append(ops, [status |-> "applied", old |-> call[w].from, new |-> call[w].to])
                \in Seq(Operation)
           /\ \A i \in DOMAIN ops :
                /\ ops[i] \in Operation
                /\ [ops EXCEPT ![i].status = "rolled_back"] \in Seq(Operation)
                /\ DOMAIN [ops EXCEPT ![i].status = "rolled_back"] = DOMAIN ops
                /\ Len([ops EXCEPT ![i].status = "rolled_back"]) = Len(ops)
<1>1. call[w] \in Call /\ ops \in Seq(Operation)
  BY DEF TypeOK
<1>2. [status |-> "applied", old |-> call[w].from, new |-> call[w].to] \in Operation
  BY <1>1 DEF Call, Operation
<1>3. ASSUME NEW i \in DOMAIN ops
      PROVE  /\ ops[i] \in Operation
             /\ [ops[i] EXCEPT !.status = "rolled_back"] \in Operation
  <2>1. ops[i] \in Operation
    BY <1>1
  <2> QED BY <2>1 DEF Operation
<1> QED BY <1>1, <1>2, <1>3

(* Every step keeps the types, however many services there are.             *)
LEMMA StepTypes ==
    ASSUME TypeOK, [Next]_vars
    PROVE  TypeOK'
<1>1. CASE UNCHANGED vars
  BY <1>1 DEF vars, TypeOK
<1>2. ASSUME NEW w \in Workers,
             Apply(w) \/ Rollback(w) \/ Returns(w) \/ Leaves(w) \/ Crash(w)
      PROVE  TypeOK'
  <2> USE DEF IsWrite
  <2>0. call[w] \in Call /\ ops \in Seq(Operation) /\ Len(ops) \in Nat
    BY DEF TypeOK
  <2>1. ASSUME NEW new \in Contents, PreviewWrite(w, new) PROVE TypeOK'
    <3>1. file \in Contents /\ 0 \in 0 .. Len(ops)
      BY <2>0 DEF TypeOK
    <3> QED BY <2>1, <3>1, PreviewTypes DEF PreviewWrite
  <2>2. ASSUME NEW i \in DOMAIN ops, PreviewRollback(w, i) PROVE TypeOK'
    <3>1. ops[i] \in Operation /\ i \in 1 .. Len(ops)
      BY <2>0
    <3>2. ops[i].new \in Contents /\ ops[i].old \in Contents /\ i \in 0 .. Len(ops)
      BY <3>1 DEF Operation
    <3> QED BY <2>2, <3>2, PreviewTypes DEF PreviewRollback
  <2>3. CASE ApplyChecks(w) \/ RollbackChecks(w)
    <3>1. /\ call[w].step = "previewed" /\ Locks(w) /\ Goto(w, "checked")
          /\ UNCHANGED <<file, ops, backups, ghosts>>
      BY <2>3 DEF ApplyChecks, RollbackChecks
    <3>2. /\ call' \in [Workers -> Call]
          /\ call'[w].step = "checked"
          /\ call'[w].op = call[w].op /\ call'[w].row = call[w].row
          /\ \A v \in Workers : v # w => call'[v] = call[v]
      BY <3>1, GotoTypes DEF Steps
    <3> QED BY <2>0, <3>1, <3>2, LocksTypes DEF TypeOK, ghosts
  <2>4. CASE Replace(w) \/ Restore(w)
    <3>1. call[w].step = "checked" /\ Goto(w, "replaced") /\ file' = call[w].to
          /\ UNCHANGED <<ops, backups, lock, ghosts>>
      BY <2>4 DEF Replace, Restore
    <3>2. file' \in Contents
      BY <2>0, <3>1 DEF Call
    <3> QED BY <2>0, <3>1, <3>2, GotoTypes DEF TypeOK, Steps, ghosts
  <2>5. CASE Verify(w) \/ RecordFails(w) \/ RollbackFails(w)
    <3>1. PICK step \in {"verified", "failed"} :
             call[w].step \in {"checked", "replaced", "verified", "recorded"} /\ Goto(w, step)
          /\ UNCHANGED <<file, ops, backups, lock, ghosts>>
      BY <2>5 DEF Verify, RecordFails, RollbackFails
    <3>2. /\ call' \in [Workers -> Call]
          /\ call'[w].step = step
          /\ call'[w].op = call[w].op /\ call'[w].row = call[w].row
          /\ \A v \in Workers : v # w => call'[v] = call[v]
      BY <3>1, GotoTypes DEF Steps
    <3> QED BY <3>1, <3>2 DEF TypeOK, ghosts
  <2>6. CASE Recover(w) \/ Redo(w) \/ Returns(w) \/ Leaves(w) \/ Crash(w)
    <3>1. Ends(w) /\ UNCHANGED ops
      BY <2>6 DEF Recover, Redo, PutsBack, Returns, Leaves, Crash
    <3>2. file' \in Contents
      BY <2>0, <2>6 DEF Recover, Redo, PutsBack, Returns, Leaves, Crash, TypeOK, Call
    <3>3. backups' \subseteq DOMAIN ops /\ torn' \in BOOLEAN
      BY <2>6 DEF Recover, Redo, PutsBack, Returns, Leaves, Crash, TypeOK, ghosts
    <3>4. belied' \subseteq (DOMAIN ops) \X {"applied", "rolled_back"}
      <4>1. Committed(w) => <<call[w].row, Status(w)>> \in (DOMAIN ops) \X {"applied", "rolled_back"}
        BY <2>0 DEF TypeOK, Committed, Status
      <4> QED BY <2>6, <4>1
          DEF Recover, Redo, PutsBack, Returns, Leaves, Crash, TypeOK, ghosts
    <3> QED BY <2>0, <3>1, <3>2, <3>3, <3>4, EndsTypes, IdleIs DEF TypeOK
  <2>7. CASE Record(w)
    <3> DEFINE id == Len(ops) + 1
    <3>1. Len(ops') = id /\ ops' \in Seq(Operation) /\ DOMAIN ops' = 1 .. id
      BY <2>0, <2>7, RowTypes DEF Record
    <3>2. id \in Nat /\ id \in DOMAIN ops' /\ DOMAIN ops \subseteq DOMAIN ops'
      BY <2>0, <3>1
    <3>3. /\ call[w].step = "verified"
          /\ backups' \subseteq backups \cup {id}
          /\ call' = [call EXCEPT ![w].step = "recorded", ![w].row = id]
          /\ UNCHANGED <<file, lock, torn, belied>>
      BY <2>7 DEF Record, ghosts
    <3>4. backups' \subseteq DOMAIN ops' /\ belied' \subseteq (DOMAIN ops') \X {"applied", "rolled_back"}
      BY <3>2, <3>3 DEF TypeOK
    <3>5. /\ call' \in [Workers -> Call]
          /\ call'[w].step = "recorded" /\ call'[w].row = id
          /\ call'[w].op = call[w].op
          /\ call'[w].from = call[w].from /\ call'[w].to = call[w].to
          /\ \A v \in Workers : v # w => call'[v] = call[v]
      BY <3>2, <3>3, CommitTypes
    <3>6. ASSUME NEW v \in Workers
          PROVE  /\ {call'[v].op, call'[v].row} \subseteq 0 .. Len(ops')
                 /\ lock'[Service[v]] = v <=> call'[v].step \notin {"idle", "previewed"}
      <4>1. {call[v].op, call[v].row, id} \subseteq 0 .. id
        BY <2>0 DEF TypeOK
      <4>2. lock[Service[v]] = v <=> call[v].step \notin {"idle", "previewed"}
        BY DEF TypeOK
      <4> QED BY <3>1, <3>3, <3>5, <4>1, <4>2
    <3> QED BY <3>1, <3>3, <3>4, <3>5, <3>6 DEF TypeOK
  <2>8. CASE Mark(w)
    <3>1. call[w].op \in DOMAIN ops /\ call[w].op \in Nat
      BY <2>0, <2>8 DEF Mark, TypeOK, Call
    <3>2. Len(ops') = Len(ops) /\ ops' \in Seq(Operation) /\ DOMAIN ops' = DOMAIN ops
      BY <2>8, <3>1, RowTypes DEF Mark
    <3>3. /\ call[w].step = "replaced"
          /\ call' = [call EXCEPT ![w].step = "recorded", ![w].row = call[w].op]
          /\ UNCHANGED <<file, backups, lock, torn, belied>>
      BY <2>8 DEF Mark, ghosts
    <3>4. /\ call' \in [Workers -> Call]
          /\ call'[w].step = "recorded" /\ call'[w].row = call[w].op
          /\ call'[w].op = call[w].op
          /\ call'[w].from = call[w].from /\ call'[w].to = call[w].to
          /\ \A v \in Workers : v # w => call'[v] = call[v]
      BY <3>1, <3>3, CommitTypes
    <3>5. ASSUME NEW v \in Workers
          PROVE  /\ {call'[v].op, call'[v].row} \subseteq 0 .. Len(ops')
                 /\ lock'[Service[v]] = v <=> call'[v].step \notin {"idle", "previewed"}
      BY <3>2, <3>3, <3>4 DEF TypeOK
    <3> QED BY <3>2, <3>3, <3>4, <3>5 DEF TypeOK
  <2> QED BY <1>2, <2>1, <2>2, <2>3, <2>4, <2>5, <2>6, <2>7, <2>8 DEF Apply, Rollback
<1> QED BY <1>1, <1>2 DEF Next

(* The variables stay well typed, one service or many: a lock is held by a  *)
(* call in its locked part, and by no other.                                *)
THEOREM TypeCorrect == Spec => []TypeOK
<1>1. Init => TypeOK
  BY InitInv DEF IInv
<1> QED BY <1>1, StepTypes, PTL DEF Spec

-----------------------------------------------------------------------------
(* The invariant, for one service. *)

(* No step rewrites what a row says was replaced by what.                   *)
RowsKept ==
    \A i \in DOMAIN ops :
        i \in DOMAIN ops' /\ ops'[i].old = ops[i].old /\ ops'[i].new = ops[i].new

(* A row number that is not 0 names a row.                                  *)
LEMMA RowOfCall ==
    ASSUME TypeOK, NEW w \in Workers, ~IsWrite(w)
    PROVE  call[w].op \in DOMAIN ops /\ ops[call[w].op] \in Operation
<1>1. ops \in Seq(Operation) /\ call[w].op \in 0 .. Len(ops) /\ call[w].op # 0
  BY DEF TypeOK, IsWrite
<1> QED BY <1>1

(* Appending a row and changing the status of one both keep the rows.       *)
LEMMA RowsAreKept ==
    ASSUME TypeOK, NEW w \in Workers,
           UNCHANGED ops \/ Record(w) \/ Mark(w)
    PROVE  RowsKept
<1>0. ops \in Seq(Operation)
  BY DEF TypeOK
<1>1. CASE UNCHANGED ops
  BY <1>1 DEF RowsKept
<1>2. CASE Record(w)
  BY <1>0, <1>2 DEF Record, RowsKept
<1>3. CASE Mark(w)
  <2>1. call[w].op \in DOMAIN ops /\ ops[call[w].op] \in Operation
    BY <1>3, RowOfCall DEF Mark
  <2> QED BY <1>0, <1>3, <2>1 DEF Mark, RowsKept, Operation
<1> QED BY <1>1, <1>2, <1>3

(* A step of one call leaves what another one knows as it is: the step      *)
(* touches neither file nor rows, or the other call has not passed its last *)
(* checks.                                                                  *)
LEMMA OthersKnow ==
    ASSUME IInv, OneService, NEW w \in Workers, NEW v \in Workers, v # w,
           call'[v] = call[v], RowsKept,
           w \in Locked \/ UNCHANGED <<file, ops, belied>>
    PROVE  CallInv(v)' /\ RowInv(v)'
<1> USE DEF IsWrite, Committed, Status
<1>1. CallInv(v) /\ RowInv(v) /\ TypeOK
  BY DEF IInv, Inductive
<1>2. CASE UNCHANGED <<file, ops, belied>>
  BY <1>1, <1>2 DEF CallInv, RowInv
<1>3. CASE w \in Locked
  <2>1. call[v].step \in {"idle", "previewed"}
    BY <1>1, <1>3, OneLocked DEF Locked
  <2>2. ~IsWrite(v) => call[v].op \in DOMAIN ops
    BY <1>1, RowOfCall
  <2>3. CallInv(v)'
    BY <1>1, <2>1, <2>2 DEF CallInv, RowsKept
  <2>4. RowInv(v)'
    BY <1>1, <2>1 DEF RowInv
  <2> QED BY <2>3, <2>4
<1> QED BY <1>2, <1>3

(* A row is marked before it can be belied as rolled back, and never        *)
(* unmarked.                                                                *)
LEMMA BeliedStep ==
    ASSUME IInv, NEW w \in Workers,
           \/ UNCHANGED <<ops, belied>>
           \/ Record(w) \/ Mark(w)
           \/ PutsBack(w)
    PROVE  BeliedInv'
<1>0. /\ TypeOK /\ BeliedInv /\ RowInv(w) /\ ops \in Seq(Operation)
      /\ \A i, s : <<i, s>> \in belied => i \in DOMAIN ops
  BY DEF IInv, Inductive, TypeOK
<1>1. CASE UNCHANGED <<ops, belied>>
  BY <1>0, <1>1 DEF BeliedInv
<1>2. CASE Record(w)
  <2>1. belied' = belied /\ \A i \in DOMAIN ops : ops'[i] = ops[i]
    BY <1>0, <1>2 DEF Record, ghosts
  <2> QED BY <1>0, <2>1 DEF BeliedInv
<1>3. CASE Mark(w)
  <2>1. call[w].op \in DOMAIN ops /\ ops[call[w].op] \in Operation
    BY <1>0, <1>3, RowOfCall DEF Mark
  <2>2. /\ belied' = belied /\ DOMAIN ops' = DOMAIN ops
        /\ \A i \in DOMAIN ops : ops'[i].status \in {ops[i].status, "rolled_back"}
    BY <1>0, <1>3, <2>1 DEF Mark, ghosts, Operation
  <2> QED BY <1>0, <2>2 DEF BeliedInv
<1>4. CASE PutsBack(w)
  <2>1. ASSUME Committed(w) PROVE ops[call[w].row].status = Status(w)
    BY <1>0, <2>1 DEF RowInv
  <2>2. /\ UNCHANGED ops
        /\ belied' \subseteq belied \cup {<<call[w].row, Status(w)>>}
        /\ ~Committed(w) => belied' = belied
    BY <1>4 DEF PutsBack
  <2> QED BY <1>0, <2>1, <2>2 DEF BeliedInv
<1> QED BY <1>1, <1>2, <1>3, <1>4

(* With one service every step keeps what calls know.                       *)
LEMMA StepInductive ==
    ASSUME IInv, OneService, [Next]_vars
    PROVE  Inductive'
<1> USE DEF IsWrite, Committed, Status
<1>1. CASE UNCHANGED vars
  BY <1>1 DEF vars, IInv, Inductive, CallInv, RowInv, BeliedInv
<1>2. ASSUME NEW w \in Workers,
             Apply(w) \/ Rollback(w) \/ Returns(w) \/ Leaves(w) \/ Crash(w)
      PROVE  Inductive'
  <2>0. TypeOK /\ CallInv(w) /\ RowInv(w) /\ call[w] \in Call
    BY DEF IInv, Inductive, TypeOK
  <2>a. ASSUME \A v \in Workers : v # w => call'[v] = call[v],
               w \in Locked \/ UNCHANGED <<file, ops, belied>>,
               UNCHANGED ops \/ Record(w) \/ Mark(w),
               UNCHANGED <<ops, belied>> \/ Record(w) \/ Mark(w) \/ PutsBack(w),
               CallInv(w)', RowInv(w)'
        PROVE  Inductive'
    <3>1. RowsKept /\ BeliedInv'
      BY <2>0, <2>a, RowsAreKept, BeliedStep
    <3> QED BY <2>a, <3>1, OthersKnow DEF Inductive
  <2>1. ASSUME NEW new \in Contents, PreviewWrite(w, new) PROVE Inductive'
    <3>1. /\ call'[w] = Preview(0, file, new)
          /\ \A v \in Workers : v # w => call'[v] = call[v]
      BY <2>0, <2>1 DEF PreviewWrite, TypeOK
    <3>2. UNCHANGED <<file, ops, belied>> /\ file # new
      BY <2>1 DEF PreviewWrite, ghosts
    <3>3. CallInv(w)' /\ RowInv(w)'
      BY <3>1, <3>2 DEF Preview, CallInv, RowInv
    <3> QED BY <2>a, <3>1, <3>2, <3>3
  <2>2. ASSUME NEW i \in DOMAIN ops, PreviewRollback(w, i) PROVE Inductive'
    <3>1. /\ call'[w] = Preview(i, ops[i].new, ops[i].old)
          /\ \A v \in Workers : v # w => call'[v] = call[v]
      BY <2>0, <2>2 DEF PreviewRollback, TypeOK
    <3>2. UNCHANGED <<file, ops, belied>> /\ i # 0
      BY <2>0, <2>2 DEF PreviewRollback, ghosts, TypeOK
    <3>3. CallInv(w)' /\ RowInv(w)'
      BY <3>1, <3>2 DEF Preview, CallInv, RowInv
    <3> QED BY <2>a, <3>1, <3>2, <3>3
  <2>3. CASE ApplyChecks(w) \/ RollbackChecks(w)
    <3>1. Goto(w, "checked") /\ UNCHANGED <<file, ops, belied>> /\ call[w].step = "previewed"
      BY <2>3 DEF ApplyChecks, RollbackChecks, ghosts
    <3>2. CallInv(w)'
      BY <2>0, <2>3, <3>1, GotoTypes
         DEF ApplyChecks, RollbackChecks, MayRollBack, CallInv, RowInv, Steps
    <3>3. RowInv(w)'
      BY <2>0, <3>1, GotoTypes DEF RowInv, Steps
    <3> QED BY <2>0, <2>a, <3>1, <3>2, <3>3, GotoTypes DEF Steps
  <2>4. CASE Replace(w) \/ Restore(w)
    <3>1. /\ w \in Locked /\ Goto(w, "replaced") /\ UNCHANGED <<ops, belied>>
          /\ call[w].step = "checked" /\ file' = call[w].to
      BY <2>4 DEF Replace, Restore, Locked, ghosts
    <3>2. CallInv(w)'
      BY <2>0, <3>1, GotoTypes DEF CallInv, Steps
    <3>3. RowInv(w)'
      BY <2>0, <3>1, GotoTypes DEF RowInv, Steps
    <3> QED BY <2>0, <2>a, <3>1, <3>2, <3>3, GotoTypes DEF Steps
  <2>5. CASE Verify(w) \/ RecordFails(w) \/ RollbackFails(w)
    <3>1. PICK step \in {"verified", "failed"} :
            /\ Goto(w, step)
            /\ UNCHANGED <<file, ops, belied>>
            /\ IsWrite(w) \/ call[w].step \in {"checked", "replaced", "recorded"}
            /\ call[w].step # "idle"
            /\ step = "verified" => call[w].step = "replaced" /\ file = call[w].to /\ IsWrite(w)
      BY <2>5 DEF Verify, RecordFails, RollbackFails, ghosts
    <3>2. /\ call'[w].step = step
          /\ call'[w].op = call[w].op
          /\ call'[w].row = call[w].row
          /\ call'[w].from = call[w].from
          /\ call'[w].to = call[w].to
          /\ \A v \in Workers : v # w => call'[v] = call[v]
      BY <2>0, <3>1, GotoTypes DEF Steps
    <3>3. CallInv(w)'
      BY <2>0, <3>1, <3>2 DEF CallInv, RowInv
    <3>4. RowInv(w)'
      BY <2>0, <3>1, <3>2 DEF RowInv
    <3> QED BY <2>a, <3>1, <3>2, <3>3, <3>4
  <2>6. CASE Recover(w) \/ Redo(w) \/ Returns(w) \/ Leaves(w) \/ Crash(w)
    <3>1. /\ Ends(w)
          /\ w \in Locked \/ UNCHANGED <<file, ops, belied>>
          /\ UNCHANGED ops
          /\ UNCHANGED belied \/ PutsBack(w)
      BY <2>6 DEF Recover, Redo, PutsBack, Returns, Leaves, Crash, Locked, ghosts
    <3>2. CallInv(w)' /\ RowInv(w)'
      BY <2>0, <3>1, EndsTypes, IdleIs DEF CallInv, RowInv
    <3> QED BY <2>0, <2>a, <3>1, <3>2, EndsTypes
  <2>7. CASE Record(w)
    <3> DEFINE id == Len(ops) + 1
    <3>1. /\ call[w].step = "verified" /\ w \in Locked
          /\ UNCHANGED <<file, belied>>
          /\ call' = [call EXCEPT ![w].step = "recorded", ![w].row = id]
      BY <2>7 DEF Record, ghosts, Locked
    <3>2. id \in Nat /\ id # 0 /\ id \notin DOMAIN ops
      BY <2>0 DEF TypeOK
    <3>3. ops'[id] = [status |-> "applied", old |-> call[w].from, new |-> call[w].to]
      BY <2>0, <2>7 DEF Record, TypeOK
    <3>4. <<id, "applied">> \notin belied
      BY <2>0, <3>2 DEF TypeOK
    <3> HIDE DEF id
    <3>5. /\ call' \in [Workers -> Call]
          /\ call'[w].step = "recorded" /\ call'[w].row = id
          /\ call'[w].op = call[w].op
          /\ call'[w].from = call[w].from /\ call'[w].to = call[w].to
          /\ \A v \in Workers : v # w => call'[v] = call[v]
      BY <2>0, <3>1, <3>2, CommitTypes
    <3>6. CallInv(w)'
      BY <2>0, <3>1, <3>2, <3>5 DEF CallInv
    <3>7. RowInv(w)'
      <4>1. IsWrite(w) /\ file = call[w].to
        BY <2>0, <3>1 DEF CallInv
      <4> QED BY <3>1, <3>2, <3>3, <3>4, <3>5, <4>1 DEF RowInv
    <3> QED BY <2>7, <2>a, <3>1, <3>5, <3>6, <3>7
  <2>8. CASE Mark(w)
    <3>1. /\ call[w].step = "replaced" /\ w \in Locked /\ ~IsWrite(w)
          /\ UNCHANGED <<file, belied>>
          /\ call' = [call EXCEPT ![w].step = "recorded", ![w].row = call[w].op]
          /\ ops[call[w].op].status = "applied"
      BY <2>8 DEF Mark, ghosts, Locked
    <3>2. call[w].op \in Nat /\ call[w].op \in DOMAIN ops /\ ops[call[w].op] \in Operation
      BY <2>0, <3>1, RowOfCall DEF Call
    <3>3. /\ ops'[call[w].op].status = "rolled_back"
          /\ ops'[call[w].op].old = ops[call[w].op].old
          /\ ops'[call[w].op].new = ops[call[w].op].new
      BY <2>8, <3>2 DEF Mark, Operation
    <3>4. <<call[w].op, "rolled_back">> \notin belied
      BY <3>1, <3>2 DEF IInv, Inductive, BeliedInv
    <3>5. /\ call' \in [Workers -> Call]
          /\ call'[w].step = "recorded" /\ call'[w].row = call[w].op
          /\ call'[w].op = call[w].op
          /\ call'[w].from = call[w].from /\ call'[w].to = call[w].to
          /\ \A v \in Workers : v # w => call'[v] = call[v]
      BY <2>0, <3>1, <3>2, CommitTypes
    <3>6. /\ call[w].op # 0 /\ file = call[w].to
          /\ ops[call[w].op].new = call[w].from /\ ops[call[w].op].old = call[w].to
      BY <2>0, <3>1 DEF CallInv
    <3>7. CallInv(w)'
      BY <3>1, <3>3, <3>5, <3>6 DEF CallInv
    <3>8. RowInv(w)'
      BY <3>1, <3>3, <3>4, <3>5, <3>6 DEF RowInv
    <3> QED BY <2>8, <2>a, <3>1, <3>5, <3>7, <3>8
  <2> QED BY <1>2, <2>1, <2>2, <2>3, <2>4, <2>5, <2>6, <2>7, <2>8 DEF Apply, Rollback
<1> QED BY <1>1, <1>2 DEF Next

(* What its last checks saw is so when a call acts, and what it has         *)
(* committed stands until it returns or puts the file back: with one        *)
(* service, nobody touches file or row between.                             *)
THEOREM InductiveInvariant ==
    ASSUME OneService
    PROVE  Spec => []Inductive
<1>1. Init => IInv
  BY InitInv
<1>2. IInv /\ [Next]_vars => IInv'
  BY StepTypes, StepInductive DEF IInv
<1>3. IInv => Inductive
  BY DEF IInv
<1> QED BY <1>1, <1>2, <1>3, PTL DEF Spec

(* With one service no concurrent write is lost: what a call replaces is    *)
(* what its preview showed.                                                 *)
THEOREM NoWriteIsLost ==
    ASSUME OneService
    PROVE  Spec => NoLostUpdate
<1>1. Inductive => \A w \in Workers : call[w].step = "checked" => file = call[w].from
  BY DEF Inductive, CallInv
<1>2. Inductive /\ [Next]_vars =>
        [\A w \in Workers :
           call[w].step = "checked" /\ call'[w].step = "replaced" => file = call[w].from]_vars
  BY <1>1
<1> QED BY <1>2, InductiveInvariant, PTL DEF Spec, NoLostUpdate

-----------------------------------------------------------------------------
(* The audited file is implemented, for one service. *)

(* A call that is changing the file is the only one, and what counts is     *)
(* still what it found.                                                     *)
LEMMA SettledIsFrom ==
    ASSUME TypeOK, OneService, NEW w \in Changing
    PROVE  Settled = call[w].from
<1>1. \A v \in Changing : v = w
  BY OneLocked DEF Changing, Locked
<1> QED BY <1>1 DEF Settled

(* A call that only looks leaves what counts alone.                         *)
LEMMA SettledUntouched ==
    ASSUME TypeOK, OneService, NEW w \in Workers,
           \A v \in Workers : v # w => call'[v] = call[v],
           w \notin Changing, w \notin Changing', file' = file
    PROVE  Settled' = Settled
<1>1. Changing' = Changing
  BY DEF Changing, Committed
<1>2. (CHOOSE v \in Changing' : TRUE) = (CHOOSE v \in Changing : TRUE)
  BY <1>1
<1>3. CASE Changing = {}
  BY <1>1, <1>3 DEF Settled
<1>4. ASSUME NEW v \in Changing PROVE Settled' = Settled
  <2>1. Changing = {v}
    BY OneLocked DEF Changing, Locked
  <2>2. v \in Workers /\ v # w
    BY DEF Changing
  <2>3. call'[v] = call[v]
    BY <2>2
  <2> QED BY <1>1, <2>1, <2>3 DEF Settled
<1> QED BY <1>3, <1>4

(* While a call has its lock and is not changing the file, what the file    *)
(* holds counts.                                                            *)
LEMMA SettledIsFile ==
    ASSUME TypeOK, OneService, NEW w \in Locked, w \notin Changing
    PROVE  Settled = file
<1>1. Changing = {}
  BY OneLocked DEF Changing, Locked
<1> QED BY <1>1 DEF Settled

(* What counts when a call past its last checks has committed or ended is   *)
(* what it left.                                                            *)
LEMMA SettledAfter ==
    ASSUME TypeOK, OneService, NEW w \in Locked,
           \A v \in Workers : v # w => call'[v] = call[v],
           w \notin Changing'
    PROVE  Settled' = file'
<1>1. \A v \in Workers : v # w => v \notin Changing
  BY OneLocked DEF Changing, Locked
<1>2. Changing' = {}
  BY <1>1 DEF Changing, Committed
<1> QED BY <1>2 DEF Settled

(* Nothing has been written at first.                                       *)
LEMMA InitKeepsLedger == Init => Promise!Init
<1> SUFFICES ASSUME Init PROVE Promise!Init
  OBVIOUS
<1>1. Changing = {}
  BY IdleIs DEF Init, Changing
<1> QED BY <1>1 DEF Init, Settled, Promise!Init

(* Every step is a write, a rollback, a change put back after its row, a    *)
(* crash that tears, or nothing to the audited file.                        *)
LEMMA StepKeepsLedger ==
    ASSUME IInv, IInv', OneService, [Next]_vars
    PROVE  [Promise!Next]_(Promise!vars)
<1> USE DEF Promise!vars
<1>1. CASE UNCHANGED vars
  BY <1>1 DEF vars, Settled, Changing, Committed
<1>2. ASSUME NEW w \in Workers,
             Apply(w) \/ Rollback(w) \/ Returns(w) \/ Leaves(w) \/ Crash(w)
      PROVE  [Promise!Next]_(Promise!vars)
  <2>0. TypeOK /\ TypeOK' /\ CallInv(w) /\ RowInv(w) /\ call[w] \in Call
    BY DEF IInv, Inductive, TypeOK
  <2>a. ASSUME \A v \in Workers : v # w => call'[v] = call[v],
               w \notin Changing, w \notin Changing',
               UNCHANGED <<file, ops, torn, belied>>
        PROVE  UNCHANGED Promise!vars
    BY <2>0, <2>a, SettledUntouched
  <2>1. ASSUME NEW c, c.step = "previewed",
               call[w] = Idle, call' = [call EXCEPT ![w] = c],
               UNCHANGED <<file, ops, backups, lock, ghosts>>
        PROVE  UNCHANGED Promise!vars
    <3>1. call'[w].step = "previewed" /\ \A v \in Workers : v # w => call'[v] = call[v]
      BY <2>0, <2>1 DEF TypeOK
    <3>2. w \notin Changing /\ w \notin Changing'
      BY <2>1, <3>1, IdleIs DEF Changing
    <3> QED BY <2>1, <2>a, <3>1, <3>2 DEF ghosts
  <2>2. CASE \/ \E new \in Contents : PreviewWrite(w, new)
             \/ \E i \in DOMAIN ops : PreviewRollback(w, i)
    BY <2>1, <2>2 DEF PreviewWrite, PreviewRollback, Preview
  <2>3. CASE ApplyChecks(w) \/ RollbackChecks(w)
    <3>1. /\ call[w].step = "previewed" /\ Goto(w, "checked")
          /\ UNCHANGED <<file, ops, torn, belied>>
      BY <2>3 DEF ApplyChecks, RollbackChecks, ghosts
    <3>2. call'[w].step = "checked" /\ \A v \in Workers : v # w => call'[v] = call[v]
      BY <2>0, <3>1, GotoTypes DEF Steps
    <3>3. w \notin Changing /\ w \notin Changing'
      BY <3>1, <3>2 DEF Changing
    <3> QED BY <2>a, <3>1, <3>2, <3>3
  <2>4. CASE Leaves(w) \/ Returns(w)
    <3>1. /\ call'[w] = Idle /\ \A v \in Workers : v # w => call'[v] = call[v]
          /\ UNCHANGED <<file, ops, torn, belied>>
      BY <2>0, <2>4, EndsTypes DEF Leaves, Returns, ghosts
    <3>2. w \notin Changing /\ w \notin Changing'
      BY <2>4, <3>1, IdleIs DEF Leaves, Returns, Changing
    <3> QED BY <2>a, <3>1, <3>2
  <2>5. CASE Replace(w) \/ Restore(w) \/ Verify(w) \/ RecordFails(w) \/ RollbackFails(w)
    <3>1. PICK step \in {"replaced", "verified", "failed"} :
            /\ call[w].step \in {"checked", "replaced", "verified", "recorded"}
            /\ call[w].step = "recorded" => step = "failed" /\ UNCHANGED file
            /\ Goto(w, step)
            /\ UNCHANGED <<ops, torn, belied>>
      BY <2>5 DEF Replace, Restore, Verify, RecordFails, RollbackFails, ghosts
    <3>2. /\ call'[w].step = step /\ call'[w].from = call[w].from /\ call'[w].row = call[w].row
          /\ \A v \in Workers : v # w => call'[v] = call[v]
      BY <2>0, <3>1, GotoTypes DEF Steps
    <3>3. CASE Committed(w)
      <4>1. call[w].step = "recorded"
        BY <2>0, <3>1, <3>3 DEF RowInv
      <4>2. w \notin Changing /\ w \notin Changing'
        BY <3>2, <3>3 DEF Changing, Committed
      <4> QED BY <2>a, <3>1, <3>2, <4>1, <4>2
    <3>4. CASE ~Committed(w)
      <4>1. call[w].step # "recorded"
        BY <2>0, <3>4 DEF RowInv
      <4>2. w \in Changing'
        BY <3>1, <3>2, <3>4 DEF Changing, Committed
      <4>3. OneService'
        BY DEF OneService
      <4>4. Settled' = call'[w].from
        <5>1. \A v \in Changing' : v = w
          BY <2>0, <4>2, <4>3, OneLocked, SMTT(30) DEF Changing, TypeOK, OneService
        <5> QED BY <4>2, <5>1 DEF Settled
      <4>5. Settled = call[w].from
        <5>1. CASE w \in Changing
          BY <2>0, <5>1, SettledIsFrom
        <5>2. CASE w \notin Changing
          <6>1. w \in Locked /\ call[w].step = "checked"
            BY <3>1, <3>4, <4>1, <5>2 DEF Changing, Locked
          <6> QED BY <2>0, <5>2, <6>1, SettledIsFile DEF CallInv
        <5> QED BY <5>1, <5>2
      <4> QED BY <3>1, <3>2, <4>4, <4>5
    <3> QED BY <3>3, <3>4
  <2>6. CASE Record(w) \/ Mark(w)
    <3>1. PICK id \in Nat : /\ call' = [call EXCEPT ![w].step = "recorded", ![w].row = id]
                            /\ call[w].step \in {"verified", "replaced"}
                            /\ UNCHANGED <<file, torn, belied>>
      BY <2>0, <2>6 DEF Record, Mark, ghosts, Call, TypeOK
    <3>2. call'[w].step = "recorded" /\ \A v \in Workers : v # w => call'[v] = call[v]
      BY <2>0, <3>1, CommitTypes
    <3>3. w \in Locked /\ w \in Changing /\ w \notin Changing'
      BY <2>0, <3>1, <3>2 DEF Locked, Changing, RowInv
    <3>4. Settled = call[w].from /\ Settled' = file
      BY <2>0, <3>1, <3>2, <3>3, SettledIsFrom, SettledAfter
    <3>5. file = call[w].to
      BY <2>0, <3>1 DEF CallInv
    <3>6. CASE Record(w)
      <4>1. IsWrite(w) /\ call[w].to # call[w].from /\ call[w].to \in Contents
        BY <2>0, <3>6 DEF Record, CallInv, Call
      <4> QED BY <3>1, <3>4, <3>5, <3>6, <4>1 DEF Record, Promise!Next, Promise!Write
    <3>7. CASE Mark(w)
      <4>1. ~IsWrite(w) /\ call[w].op \in DOMAIN ops
        BY <2>0, <3>7, RowOfCall DEF Mark
      <4>2. ops[call[w].op].new = call[w].from /\ ops[call[w].op].old = call[w].to
        BY <2>0, <4>1 DEF CallInv
      <4> QED BY <3>1, <3>4, <3>5, <3>7, <4>1, <4>2 DEF Mark, Promise!Next, Promise!Rollback
    <3> QED BY <2>6, <3>6, <3>7
  <2>7. CASE Recover(w) \/ Redo(w)
    <3>1. /\ call[w].step = "failed" /\ Ends(w) /\ file' = call[w].from /\ UNCHANGED <<ops, torn>>
          /\ belied' = IF Committed(w) THEN belied \cup {<<call[w].row, Status(w)>>} ELSE belied
      BY <2>7 DEF Recover, Redo, PutsBack
    <3>2. call'[w] = Idle /\ \A v \in Workers : v # w => call'[v] = call[v]
      BY <2>0, <3>1, EndsTypes
    <3>3. w \in Locked /\ w \notin Changing'
      BY <3>1, <3>2, IdleIs DEF Locked, Changing
    <3>4. Settled' = call[w].from
      BY <2>0, <3>1, <3>2, <3>3, SettledAfter
    <3>5. CASE ~Committed(w)
      <4>1. w \in Changing
        BY <3>1, <3>5 DEF Changing
      <4> QED BY <2>0, <3>1, <3>4, <3>5, <4>1, SettledIsFrom
    <3>6. CASE Committed(w)
      <4> DEFINE i == call[w].row
      <4>1. i \in DOMAIN ops
        BY <2>0, <3>6 DEF Committed, TypeOK
      <4>2. Settled = call[w].to
        <5>1. w \notin Changing
          BY <3>6 DEF Changing
        <5> QED BY <2>0, <3>3, <3>6, <5>1, SettledIsFile DEF RowInv
      <4>3. /\ ops[i].status = Status(w) /\ <<i, ops[i].status>> \notin belied
            /\ Promise!From(i, ops[i].status) = call[w].from
            /\ Promise!To(i, ops[i].status) = call[w].to
        BY <2>0, <3>6 DEF RowInv, CallInv, IsWrite, Status, Promise!From, Promise!To
      <4> QED BY <3>1, <3>4, <3>6, <4>1, <4>2, <4>3 DEF Promise!Next, Promise!PutBack
    <3> QED BY <3>5, <3>6
  <2>8. CASE Crash(w)
    <3>1. /\ call[w].step \in {"replaced", "verified", "failed"} /\ Ends(w)
          /\ torn' = TRUE /\ UNCHANGED <<ops, belied>>
      BY <2>8 DEF Crash
    <3>2. call'[w] = Idle /\ \A v \in Workers : v # w => call'[v] = call[v]
      BY <2>0, <3>1, EndsTypes
    <3>3. w \in Locked /\ w \notin Changing'
      BY <3>1, <3>2, IdleIs DEF Locked, Changing
    <3>4. Settled' = file' /\ file' \in Contents
      BY <2>0, <3>2, <3>3, SettledAfter DEF TypeOK
    <3> QED BY <3>1, <3>4 DEF Promise!Next, Promise!Tear
  <2> QED BY <1>2, <2>2, <2>3, <2>4, <2>5, <2>6, <2>7, <2>8 DEF Apply, Rollback
<1> QED BY <1>1, <1>2 DEF Next

(* File and ledger implement the audited file, if all calls share one       *)
(* service: a call adds up to a write with its row, a rollback with its     *)
(* row, one of these that is then put back while the row stays, or nothing; *)
(* only a crash can do worse.                                               *)
THEOREM KeepsAuditedFile ==
    ASSUME OneService
    PROVE  Spec => KeepsLedger
<1>1. Init => IInv
  BY InitInv
<1>2. IInv /\ [Next]_vars => IInv'
  BY StepTypes, StepInductive DEF IInv
<1>3. Init => Promise!Init
  BY InitKeepsLedger
<1>4. IInv /\ IInv' /\ [Next]_vars => [Promise!Next]_(Promise!vars)
  BY StepKeepsLedger
<1> QED BY <1>1, <1>2, <1>3, <1>4, PTL DEF Spec, KeepsLedger, Promise!Spec

Audited == INSTANCE AuditedFile_proofs WITH content <- Settled, ledger <- ops

(* With one service and no crash between a change and its row, the ledger   *)
(* and the rows that are belied explain what the file holds, however many   *)
(* calls run and wherever they fail.                                        *)
THEOREM LedgerIsBalanced ==
    ASSUME OneService
    PROVE  Spec => []LedgerBalances
<1>1. Initial \in Contents
  BY ConstantsAssumption
<1>2. Audited!Spec => []Audited!Balances
  BY <1>1, Audited!LedgerExplainsFile
<1>3. Promise!Init => Audited!Init
  BY DEF Promise!Init, Audited!Init
<1>4. [Promise!Next]_(Promise!vars) => [Audited!Next]_(Audited!vars)
  BY DEF Promise!vars, Audited!vars, Promise!Next, Audited!Next, Promise!Write,
         Audited!Write, Promise!Rollback, Audited!Rollback, Promise!Tear, Audited!Tear,
         Promise!PutBack, Audited!PutBack, Promise!From, Audited!From, Promise!To, Audited!To
<1>5. Audited!Balances => Promise!Balances
  <2>1. \A c : /\ Audited!Applied("new", c) = Promise!Applied("new", c)
               /\ Audited!Applied("old", c) = Promise!Applied("old", c)
    BY DEF Promise!Applied, Audited!Applied
  <2>4. \A c : /\ Audited!BeliedFrom(c) = Promise!BeliedFrom(c)
               /\ Audited!BeliedTo(c) = Promise!BeliedTo(c)
    BY DEF Promise!BeliedFrom, Audited!BeliedFrom, Promise!BeliedTo, Audited!BeliedTo,
           Promise!From, Audited!From, Promise!To, Audited!To
  <2>2. \A x, c : Audited!Is(x, c) = Promise!Is(x, c)
    BY DEF Promise!Is, Audited!Is
  <2>3. \A S : Audited!Cardinality(S) = Promise!Cardinality(S)
    BY DEF Promise!Cardinality, Audited!Cardinality
  <2> QED BY <2>1, <2>2, <2>3, <2>4 DEF Promise!Balances, Audited!Balances
<1> QED BY <1>2, <1>3, <1>4, <1>5, KeepsAuditedFile, PTL
    DEF KeepsLedger, Promise!Spec, Audited!Spec, LedgerBalances

(* With one service "rolled_back" can be believed, as long as no call has   *)
(* failed after its commit.                                                 *)
THEOREM RollbackRestores ==
    ASSUME OneService
    PROVE  Spec => []RolledBackIsRestored
<1>1. LedgerBalances => RolledBackIsRestored
  <2> SUFFICES ASSUME LedgerBalances, ~torn, belied = {},
                      \A w \in Workers : call[w] = Idle,
                      \A i \in DOMAIN ops : ops[i].status = "rolled_back"
               PROVE  file = Initial
    BY DEF RolledBackIsRestored
  <2>1. Settled = file
    BY IdleIs DEF Settled, Changing
  <2>2. /\ \A field : Promise!Applied(field, Initial) = {}
        /\ Promise!BeliedFrom(Initial) = {} /\ Promise!BeliedTo(Initial) = {}
    BY DEF Promise!Applied, Promise!BeliedFrom, Promise!BeliedTo
  <2>3. Promise!Cardinality({}) = 0
    <3>1. \A S : Promise!Cardinality(S) = Cardinality(S)
      BY DEF Promise!Cardinality, Cardinality
    <3> QED BY <3>1, FS_EmptySet
  <2>4. Promise!Is(Initial, Initial) + 0 + 0 = Promise!Is(file, Initial) + 0 + 0
    BY <2>1, <2>2, <2>3, ConstantsAssumption DEF LedgerBalances, Promise!Balances
  <2> QED BY <2>4 DEF Promise!Is
<1> QED BY <1>1, LedgerIsBalanced, PTL
=============================================================================
