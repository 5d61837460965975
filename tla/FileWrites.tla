----------------------------- MODULE FileWrites -----------------------------
(***************************************************************************)
(* mapi_capabilities/file_writes.py: audited writes of a text file, and    *)
(* their rollback.                                                         *)
(*                                                                         *)
(* Each element of Workers is a thread that handles one call at a time.  A *)
(* call uses the FileWriteService object Service[w], whose lock it holds   *)
(* from its last checks to its end.  The file and its row of the ledger    *)
(* change one after the other: the temporary file replaces the target,     *)
(* the target is read back, the row is inserted or updated and committed,  *)
(* and then read back too.  An exception anywhere after the replacement    *)
(* puts the file back, also one after the commit: the row then says the    *)
(* opposite of what has become of the file.                                *)
(*                                                                         *)
(* One target path: rows of other files play no part.  Left out: modes,    *)
(* size and sensitivity checks, project bindings, and edits of the file by *)
(* other programs.  Backups are read back as they were written: their hash *)
(* is checked before they are used.                                        *)
(***************************************************************************)
EXTENDS Naturals, Sequences, FiniteSets

CONSTANTS
    Workers,   \* threads that may be inside a call
    Service,   \* Service[w]: the FileWriteService object that w calls
    Contents,  \* what the file may hold, Missing for no file among them
    Missing,
    Initial,   \* what the file holds at first
    None,      \* a lock that is free
    MaxOps     \* bound: writes that begin when the ledger has this many rows are left out

ASSUME ConstantsAssumption ==
    /\ None \notin Workers
    /\ {Missing, Initial} \subseteq Contents
    /\ MaxOps \in Nat

VARIABLES
    file,      \* what the target holds
    ops,       \* the rows of file_operations, by id
    backups,   \* the rows whose backup file is there
    lock,      \* lock[s]: who holds the lock of service s
    call,      \* call[w]: what w is doing
    torn,      \* history: a crash came between a change of the file and its row
    belied     \* history: rows, with their status, whose change of the file was
               \* put back after the commit

vars == <<file, ops, backups, lock, call, torn, belied>>

ghosts == <<torn, belied>>

Services == {Service[w] : w \in Workers}

Operation ==
    [status : {"applied", "rolled_back"}, old : Contents, new : Contents]

(* A call is to change the file from one content to another: for a write    *)
(* (op = 0) from what the preview saw to the new text, for a rollback of    *)
(* row op from what that row wrote to what it replaced.  Once the call has  *)
(* committed its row, it knows the row.                                     *)
Steps == {"idle", "previewed", "checked", "replaced", "verified", "recorded", "failed"}

Call == [step : Steps, op : Nat, row : Nat, from : Contents, to : Contents]

Preview(op, from, to) ==
    [step |-> "previewed", op |-> op, row |-> 0, from |-> from, to |-> to]

Idle == [Preview(0, Initial, Initial) EXCEPT !.step = "idle"]

IsWrite(w) == call[w].op = 0
Committed(w) == call[w].row # 0

(* What the row of the call says once it is committed.                      *)
Status(w) == IF IsWrite(w) THEN "applied" ELSE "rolled_back"

Init ==
    /\ file = Initial
    /\ ops = <<>>
    /\ backups = {}
    /\ lock = [s \in Services |-> None]
    /\ call = [w \in Workers |-> Idle]
    /\ torn = FALSE
    /\ belied = {}

Goto(w, step) == call' = [call EXCEPT ![w].step = step]

(* The lock is released by hand, and not on this path. *)
EndsLocked(w) ==
    /\ call' = [call EXCEPT ![w] = Idle]
    /\ UNCHANGED lock

(* The call returns, or is gone, and with it its hold on the lock.          *)
Ends(w) ==
    /\ call' = [call EXCEPT ![w] = Idle]
    /\ lock' = IF lock[Service[w]] = w THEN [lock EXCEPT ![Service[w]] = None] ELSE lock

(* The lock of an object made for this call alone. *)
LockNothing(w) == UNCHANGED lock

Locks(w) ==
    /\ lock[Service[w]] = None
    /\ lock' = [lock EXCEPT ![Service[w]] = w]

-----------------------------------------------------------------------------
(* Writes. *)

(* preview_write: no change, no preview.                                    *)
PreviewWrite(w, new) ==
    /\ call[w] = Idle
    /\ new \notin {file, Missing}
    /\ call' = [call EXCEPT ![w] = Preview(0, file, new)]
    /\ UNCHANGED <<file, ops, backups, lock, ghosts>>

(* The file is not read again. *)
ApplyTrustsPreview(w) ==
    /\ call[w].step = "previewed" /\ IsWrite(w)
    /\ Len(ops) < MaxOps
    /\ Locks(w)
    /\ Goto(w, "checked")
    /\ UNCHANGED <<file, ops, backups, ghosts>>

(* apply_write takes the lock, previews again, compares hashes, reads the   *)
(* file once more and backs it up.                                          *)
ApplyChecks(w) ==
    /\ call[w].step = "previewed" /\ IsWrite(w)
    /\ Len(ops) < MaxOps
    /\ Locks(w)
    /\ file = call[w].from
    /\ Goto(w, "checked")
    /\ UNCHANGED <<file, ops, backups, ghosts>>

Replace(w) ==
    /\ call[w].step = "checked" /\ IsWrite(w)
    /\ file' = call[w].to
    /\ Goto(w, "replaced")
    /\ UNCHANGED <<ops, backups, lock, ghosts>>

(* post_write_hash_mismatch, if not. *)
Verify(w) ==
    /\ call[w].step = "replaced" /\ IsWrite(w)
    /\ file = call[w].to
    /\ Goto(w, "verified")
    /\ UNCHANGED <<file, ops, backups, lock, ghosts>>

(* The INSERT and its commit.                                               *)
Record(w) ==
    LET id == Len(ops) + 1 IN
    /\ call[w].step = "verified"
    /\ ops' = Append(ops, [status |-> "applied", old |-> call[w].from, new |-> call[w].to])
    /\ backups' = IF call[w].from = Missing THEN backups ELSE backups \cup {id}
    /\ call' = [call EXCEPT ![w].step = "recorded", ![w].row = id]
    /\ UNCHANGED <<file, lock, ghosts>>

(* Any exception once the target is replaced: a file that is not what was   *)
(* written, a database that is locked for the INSERT, or, with the row      *)
(* committed, for the SELECT that reads it back.                            *)
RecordFails(w) ==
    /\ call[w].step \in {"replaced", "verified", "recorded"} /\ IsWrite(w)
    /\ Goto(w, "failed")
    /\ UNCHANGED <<file, ops, backups, lock, ghosts>>

(* The new text stays. *)
LeaveAsIs(w) ==
    /\ call[w].step = "failed" /\ IsWrite(w)
    /\ Ends(w)
    /\ UNCHANGED <<file, ops, backups, ghosts>>

(* The except branches put back what the call found, whether or not the row *)
(* is committed, and leave the row alone.                                   *)
PutsBack(w) ==
    /\ call[w].step = "failed"
    /\ file' = call[w].from
    /\ belied' = IF Committed(w) THEN belied \cup {<<call[w].row, Status(w)>>} ELSE belied
    /\ Ends(w)
    /\ UNCHANGED <<ops, torn>>

(* file_write_audit_failed: the backup is deleted too.                      *)
Recover(w) ==
    /\ IsWrite(w)
    /\ PutsBack(w)
    /\ backups' = backups \ {call[w].row}

-----------------------------------------------------------------------------
(* Rollbacks. *)

MayRollBack(i) ==
    /\ ops[i].status = "applied"
    /\ file = ops[i].new
    /\ ops[i].old # Missing => i \in backups

(* preview_rollback.  Its hash is a function of the row.                    *)
PreviewRollback(w, i) ==
    /\ call[w] = Idle
    /\ MayRollBack(i)
    /\ call' = [call EXCEPT ![w] = Preview(i, ops[i].new, ops[i].old)]
    /\ UNCHANGED <<file, ops, backups, lock, ghosts>>

(* Only the status of the row is looked at again. *)
RollbackTrustsPreview(w) ==
    /\ call[w].step = "previewed" /\ ~IsWrite(w)
    /\ Locks(w)
    /\ ops[call[w].op].status = "applied"
    /\ Goto(w, "checked")
    /\ UNCHANGED <<file, ops, backups, ghosts>>

(* rollback takes the lock, previews again and reads row, file and backup.  *)
RollbackChecks(w) ==
    /\ call[w].step = "previewed" /\ ~IsWrite(w)
    /\ Locks(w)
    /\ MayRollBack(call[w].op)
    /\ Goto(w, "checked")
    /\ UNCHANGED <<file, ops, backups, ghosts>>

(* The backup replaces the target; a file that the row created is removed,  *)
(* and must be there for that.                                              *)
Restore(w) ==
    /\ call[w].step = "checked" /\ ~IsWrite(w)
    /\ call[w].to = Missing => file # Missing
    /\ file' = call[w].to
    /\ Goto(w, "replaced")
    /\ UNCHANGED <<ops, backups, lock, ghosts>>

(* The UPDATE finds its row still applied, and is committed.                *)
Mark(w) ==
    LET op == call[w].op IN
    /\ call[w].step = "replaced" /\ ~IsWrite(w)
    /\ ops[op].status = "applied"
    /\ ops' = [ops EXCEPT ![op].status = "rolled_back"]
    /\ call' = [call EXCEPT ![w].step = "recorded", ![w].row = op]
    /\ UNCHANGED <<file, backups, lock, ghosts>>

(* rollback_audit_state_changed, or any other exception from the            *)
(* restoration on, up to that of _load_operation after the commit.          *)
RollbackFails(w) ==
    /\ call[w].step \in {"checked", "replaced", "recorded"} /\ ~IsWrite(w)
    /\ Goto(w, "failed")
    /\ UNCHANGED <<file, ops, backups, lock, ghosts>>

(* rollback_audit_failed: what the rollback found is written again.         *)
Redo(w) ==
    /\ ~IsWrite(w)
    /\ PutsBack(w)
    /\ UNCHANGED backups

-----------------------------------------------------------------------------
(* The committed row has been read back: the call returns.                  *)
Returns(w) ==
    /\ call[w].step = "recorded"
    /\ Ends(w)
    /\ UNCHANGED <<file, ops, backups, ghosts>>

(* A call that is refused, fails before it touches the file, or whose       *)
(* caller never applies what it previewed.                                  *)
Leaves(w) ==
    /\ call[w].step \in {"previewed", "checked"}
    /\ Ends(w)
    /\ UNCHANGED <<file, ops, backups, ghosts>>

(* The process dies, or the recovery itself raises, in a call that has      *)
(* changed the file and not its row, or that puts the file back: before it  *)
(* has done so, or after and before the backup is deleted.                  *)
Crash(w) ==
    /\ call[w].step \in {"replaced", "verified", "failed"}
    /\ \/ UNCHANGED file
       \/ call[w].step = "failed" /\ file' = call[w].from
    /\ torn' = TRUE
    /\ Ends(w)
    /\ UNCHANGED <<ops, backups, belied>>

Apply(w) ==
    \/ \E new \in Contents : PreviewWrite(w, new)
    \/ ApplyChecks(w)
    \/ Replace(w)
    \/ Verify(w)
    \/ Record(w)
    \/ RecordFails(w)
    \/ Recover(w)

Rollback(w) ==
    \/ \E i \in DOMAIN ops : PreviewRollback(w, i)
    \/ RollbackChecks(w)
    \/ Restore(w)
    \/ Mark(w)
    \/ RollbackFails(w)
    \/ Redo(w)

Next ==
    \E w \in Workers : Apply(w) \/ Rollback(w) \/ Returns(w) \/ Leaves(w) \/ Crash(w)

Spec == Init /\ [][Next]_vars

-----------------------------------------------------------------------------
(* Properties. *)

(* Variables hold what their columns and the code can put there; a call     *)
(* names a row there is, and holds its lock in its locked part only.        *)
TypeOK ==
    /\ file \in Contents
    /\ ops \in Seq(Operation)
    /\ backups \subseteq DOMAIN ops
    /\ lock \in [Services -> Workers \cup {None}]
    /\ call \in [Workers -> Call]
    /\ torn \in BOOLEAN
    /\ belied \subseteq (DOMAIN ops) \X {"applied", "rolled_back"}
    /\ \A w \in Workers :
         /\ {call[w].op, call[w].row} \subseteq 0 .. Len(ops)
         /\ lock[Service[w]] = w <=> call[w].step \notin {"idle", "previewed"}

(* Every worker calls the same object.                                      *)
OneService == \A v, w \in Workers : Service[v] = Service[w]

(* Calls that have changed the file, or are about to put it back, with no   *)
(* row that says so.                                                        *)
Changing ==
    {w \in Workers : call[w].step \in {"replaced", "verified", "failed"} /\ ~Committed(w)}

(* What the file holds as far as the ledger knows: a change that is under   *)
(* way does not count yet.                                                  *)
Settled == IF Changing = {} THEN file ELSE call[CHOOSE w \in Changing : TRUE].from

(* One service: a call replaces exactly the content its preview showed the  *)
(* client, so that no concurrent write is lost.                             *)
NoLostUpdate ==
    [][\A w \in Workers :
          call[w].step = "checked" /\ call'[w].step = "replaced" => file = call[w].from
      ]_vars

(* What a call knows of the file and of the row it is about.                *)
CallInv(w) ==
    LET c == call[w] IN
    /\ c.step # "idle" /\ IsWrite(w) => c.to # c.from
    /\ ~IsWrite(w) => ops[c.op].new = c.from /\ ops[c.op].old = c.to
    /\ c.step = "checked" => file = c.from
    /\ c.step \in {"replaced", "verified", "recorded"} => file = c.to
    /\ c.step = "verified" => IsWrite(w)
    /\ ~IsWrite(w) /\ ~Committed(w) /\ c.step \in {"checked", "replaced", "failed"} =>
         ops[c.op].status = "applied"

(* What a call knows of the row it has committed: the row tells what the    *)
(* call did to the file, and nobody has put that back.                      *)
RowInv(w) ==
    LET c == call[w]
        r == ops[c.row] IN
    /\ Committed(w) => c.step \in {"recorded", "failed"}
    /\ c.step = "recorded" => Committed(w)
    /\ Committed(w) =>
         /\ file = c.to
         /\ r.status = Status(w)
         /\ IF IsWrite(w) THEN r.old = c.from /\ r.new = c.to ELSE c.row = c.op
         /\ <<c.row, Status(w)>> \notin belied

(* A row is belied with a status it has or had.                             *)
BeliedInv ==
    \A i \in DOMAIN ops : <<i, "rolled_back">> \in belied => ops[i].status = "rolled_back"

(* One service: why the properties below hold.  What the last checks of a   *)
(* call established, of the file and of the row, is still so when the call  *)
(* acts on it, and what it committed is still so when it fails afterwards,  *)
(* as calls that could undo it wait for the lock.                           *)
Inductive ==
    /\ \A w \in Workers : CallInv(w) /\ RowInv(w)
    /\ BeliedInv

(* One service: file and ledger implement the audited file.                 *)
Promise ==
    INSTANCE AuditedFile WITH content <- Settled, ledger <- ops

KeepsLedger == Promise!Spec

(* One service, no crash between a change and its row: the ledger explains  *)
(* what the file holds, whatever was rolled back in whatever order and      *)
(* wherever a call failed, if one knows which rows are belied.              *)
LedgerBalances == Promise!Balances

(* "rolled_back" means that the text from before is back: once every row    *)
(* says so and no call is at work, the file is what it was.  A read-back    *)
(* that fails after the commit breaks this with one thread; this is about   *)
(* the calls without such a failure.                                        *)
RolledBackIsRestored ==
    /\ ~torn /\ belied = {} /\ ops # <<>>
    /\ \A w \in Workers : call[w] = Idle
    /\ \A i \in DOMAIN ops : ops[i].status = "rolled_back"
    => file = Initial
=============================================================================
