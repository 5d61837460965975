----------------------------- MODULE WriterGuard -----------------------------
(***************************************************************************)
(* app/runtime/writer_guard.py: one lease file beside the database decides *)
(* which server process may mutate it.                                     *)
(*                                                                         *)
(* An element of Instances is one server process from its start to its     *)
(* death; a restart is another instance, with another pid and, by default, *)
(* another random instance key.  Its main thread configures the guard at   *)
(* start-up and releases it at exit; a daemon thread refreshes the lease.  *)
(* The file system gives an exclusive create, an atomic replace and an     *)
(* unlink of whatever the path names; between two of those anybody else    *)
(* may act.  A file is created empty and filled by a second call, which    *)
(* fills the file that was created, be it still at the path or not.        *)
(***************************************************************************)
EXTENDS Naturals, FiniteSets

CONSTANTS
    Instances, \* server processes, each started at most once
    Host,      \* Host[p]: where p runs
    Attempts,  \* rounds of the loop in configure_writer_guard
    None

ASSUME InstancesAssumption ==
    /\ None \notin Instances
    /\ DOMAIN Host = Instances

(* A round to find the lease of a dead process and one to take it: the code *)
(* has these two.                                                           *)
ASSUME AttemptsAssumption == Attempts \in Nat /\ Attempts >= 2

VARIABLES
    file,    \* the lease file, or None
    main,    \* main[p]: main thread of p
    beat,    \* beat[p]: heartbeat thread of p
    held,    \* held[p]: lease_held in p
    raced,   \* history: instances whose start-up overlapped another one, or
             \* met a living process of which that is true
    stalled  \* history: some process was too slow for a deadline

vars == <<file, main, beat, held, raced, stalled>>

(* "written" is FALSE between the exclusive create and the write; "fresh"   *)
(* is whether heartbeat_epoch is less than stale_seconds ago.               *)
File == [owner : Instances, written : BOOLEAN, fresh : BOOLEAN]

ASSUME RecordsAssumption == None \notin File

Lease(p) == [owner |-> p, written |-> TRUE, fresh |-> TRUE]

(* _read_record: nothing, or nothing that parses, is no record.             *)
Record == IF file # None /\ file.written THEN file ELSE None

Names(record, p) == record # None /\ record.owner = p

Main ==
    [step : {"down", "create", "opened", "exists", "judge", "unlink", "gave_up",
             "serving", "stopping", "unlinking", "released", "dead"},
     attempt : 1..Attempts,
     seen : File \cup {None}]

(* A main thread that is not in the loop of configure_writer_guard. *)
At(step) == [step |-> step, attempt |-> 1, seen |-> None]

Starting(p) == main[p].step \in {"create", "opened", "exists", "judge", "unlink"}

Alive(p) == main[p].step \notin {"down", "gave_up", "dead"}

(* What the file, the two threads and the guard's memory can hold; the loop *)
(* never counts past its last attempt.                                      *)
TypeOK ==
    /\ file \in File \cup {None}
    /\ main \in [Instances -> Main]
    /\ beat \in [Instances -> {"off", "wait", "write", "lost", "failed"}]
    /\ held \in [Instances -> BOOLEAN]
    /\ raced \subseteq Instances
    /\ stalled \in BOOLEAN

Init ==
    /\ file = None
    /\ main = [p \in Instances |-> At("down")]
    /\ beat = [p \in Instances |-> "off"]
    /\ held = [p \in Instances |-> FALSE]
    /\ raced = {}
    /\ stalled = FALSE

-----------------------------------------------------------------------------
(* configure_writer_guard. *)

Start(p) ==
    LET others == {q \in Instances : Starting(q)}
        survivors == {q \in raced : Alive(q)}
    IN
    /\ main[p].step = "down"
    /\ main' = [main EXCEPT ![p] = At("create")]
    /\ raced' = IF others \cup survivors = {} THEN raced ELSE raced \cup others \cup {p}
    /\ UNCHANGED <<file, beat, held, stalled>>

(* O_CREAT | O_EXCL. *)
CreateSucceeds(p) ==
    /\ main[p].step = "create"
    /\ file = None
    /\ file' = [owner |-> p, written |-> FALSE, fresh |-> TRUE]
    /\ main' = [main EXCEPT ![p].step = "opened"]
    /\ UNCHANGED <<beat, held, raced, stalled>>

CreateFails(p) ==
    /\ main[p].step = "create"
    /\ file # None
    /\ main' = [main EXCEPT ![p].step = "exists"]
    /\ UNCHANGED <<file, beat, held, raced, stalled>>

(* The write goes to the file that was created, which may be gone from the  *)
(* path; the lease is held all the same, and the heartbeat starts.          *)
WriteRecord(p) ==
    /\ main[p].step = "opened"
    /\ file' = IF file # None /\ file.owner = p THEN Lease(p) ELSE file
    /\ held' = [held EXCEPT ![p] = TRUE]
    /\ beat' = [beat EXCEPT ![p] = "wait"]
    /\ main' = [main EXCEPT ![p] = At("serving")]
    /\ UNCHANGED <<raced, stalled>>

ReadRecord(p) ==
    /\ main[p].step = "exists"
    /\ main' = [main EXCEPT ![p].step = "judge", ![p].seen = Record]
    /\ UNCHANGED <<file, beat, held, raced, stalled>>

(* A pid that is not found on this host is taken for dead. *)
LocalPidOnly(p, record) ==
    record # None /\ Host[record.owner] = Host[p] /\ Alive(record.owner)

(* _record_is_active: on the same host the owner's process decides, on      *)
(* another host its last heartbeat does.                                    *)
RecordIsActive(p, record) ==
    /\ record # None
    /\ IF Host[record.owner] = Host[p] THEN Alive(record.owner) ELSE record.fresh

(* single_writer_lease_held: the server ends. *)
Refuse(p) ==
    /\ main[p].step = "judge"
    /\ RecordIsActive(p, main[p].seen)
    /\ main' = [main EXCEPT ![p] = At("dead")]
    /\ UNCHANGED <<file, beat, held, raced, stalled>>

Reclaim(p) ==
    /\ main[p].step = "judge"
    /\ ~RecordIsActive(p, main[p].seen)
    /\ main' = [main EXCEPT ![p].step = "unlink", ![p].seen = None]
    /\ UNCHANGED <<file, beat, held, raced, stalled>>

(* The loop goes round until it gets somewhere. *)
TryForEver(p) == [step |-> "create", attempt |-> main[p].attempt, seen |-> None]

(* An attempt more than there are. *)
AttemptTooMany(p) ==
    IF main[p].attempt <= Attempts
    THEN [step |-> "create", attempt |-> main[p].attempt + 1, seen |-> None]
    ELSE At("gave_up")

(* The file that was in the way is unlinked and not tried again. *)
OneRound(p) == At("gave_up")

NextAttempt(p) ==
    IF main[p].attempt < Attempts
    THEN [step |-> "create", attempt |-> main[p].attempt + 1, seen |-> None]
    ELSE At("gave_up")

(* Whatever the path names by now is unlinked. *)
Unlink(p) ==
    /\ main[p].step = "unlink"
    /\ file' = None
    /\ main' = [main EXCEPT ![p] = NextAttempt(p)]
    /\ UNCHANGED <<beat, held, raced, stalled>>

-----------------------------------------------------------------------------
(* _heartbeat_loop. *)

HeartbeatReads(p) ==
    /\ beat[p] = "wait"
    /\ Names(Record, p)
    /\ beat' = [beat EXCEPT ![p] = "write"]
    /\ UNCHANGED <<file, main, held, raced, stalled>>

HeartbeatLosesLease(p) ==
    /\ beat[p] = "wait"
    /\ ~Names(Record, p)
    /\ held' = [held EXCEPT ![p] = FALSE]
    /\ beat' = [beat EXCEPT ![p] = "lost"]
    /\ UNCHANGED <<file, main, raced, stalled>>

(* The replace does not look at what it replaces.  The loop ends if release *)
(* has set the stop event meanwhile.                                        *)
HeartbeatWrites(p) ==
    /\ beat[p] = "write"
    /\ file' = Lease(p)
    /\ beat' = [beat EXCEPT ![p] = IF main[p].step = "serving" THEN "wait" ELSE "off"]
    /\ UNCHANGED <<main, held, raced, stalled>>

(* OSError: the thread ends and the lease file stays. *)
HeartbeatFails(p) ==
    /\ beat[p] = "write"
    /\ held' = [held EXCEPT ![p] = FALSE]
    /\ beat' = [beat EXCEPT ![p] = "failed"]
    /\ UNCHANGED <<file, main, raced, stalled>>

-----------------------------------------------------------------------------
(* release_writer_guard, at exit. *)

(* The stop event wakes a heartbeat that waits; one that is about to write  *)
(* goes on.                                                                 *)
ReleaseStops(p) ==
    /\ main[p].step = "serving"
    /\ main' = [main EXCEPT ![p].step = "stopping"]
    /\ beat' = [beat EXCEPT ![p] = IF @ = "wait" THEN "off" ELSE @]
    /\ UNCHANGED <<file, held, raced, stalled>>

(* The heartbeat is not waited for. *)
WithoutJoin(p) == stalled' = stalled

(* join(timeout=2): a heartbeat that takes longer is left behind.           *)
Join(p) == stalled' = (stalled \/ beat[p] = "write")

ReleaseReads(p) ==
    /\ main[p].step = "stopping"
    /\ Join(p)
    /\ main' = [main EXCEPT ![p].step =
         IF Names(Record, p) THEN "unlinking" ELSE "released"]
    /\ held' = IF Names(Record, p) THEN held ELSE [held EXCEPT ![p] = FALSE]
    /\ UNCHANGED <<file, beat, raced>>

(* The state lock is held from the read until lease_held is cleared, so the *)
(* unlink and that are one step for whoever asks.                           *)
ReleaseUnlinks(p) ==
    /\ main[p].step = "unlinking"
    /\ file' = None
    /\ main' = [main EXCEPT ![p].step = "released"]
    /\ held' = [held EXCEPT ![p] = FALSE]
    /\ UNCHANGED <<beat, raced, stalled>>

(* The process ends: after a release, or without one.                       *)
Dies(p) ==
    /\ Alive(p)
    /\ main' = [main EXCEPT ![p] = At("dead")]
    /\ beat' = [beat EXCEPT ![p] = "off"]
    /\ held' = [held EXCEPT ![p] = FALSE]
    /\ UNCHANGED <<file, raced, stalled>>

(* stale_seconds go by without a heartbeat.  They are three heartbeats at   *)
(* least, so an owner that lives was stalled, or could not write.           *)
LeaseAges ==
    /\ file # None
    /\ file.fresh
    /\ file' = [file EXCEPT !.fresh = FALSE]
    /\ stalled' = (stalled \/ Alive(file.owner))
    /\ UNCHANGED <<main, beat, held, raced>>

-----------------------------------------------------------------------------

Configure(p) ==
    \/ CreateSucceeds(p)
    \/ CreateFails(p)
    \/ WriteRecord(p)
    \/ ReadRecord(p)
    \/ Refuse(p)
    \/ Reclaim(p)
    \/ Unlink(p)

Heartbeat(p) ==
    \/ HeartbeatReads(p)
    \/ HeartbeatLosesLease(p)
    \/ HeartbeatWrites(p)
    \/ HeartbeatFails(p)

Release(p) ==
    \/ ReleaseStops(p)
    \/ ReleaseReads(p)
    \/ ReleaseUnlinks(p)

Next ==
    \/ \E p \in Instances :
         Start(p) \/ Configure(p) \/ Heartbeat(p) \/ Release(p) \/ Dies(p)
    \/ LeaseAges

Spec == Init /\ [][Next]_vars

(* A main thread that starts up is scheduled. *)
FairSpec == Spec /\ \A p \in Instances : WF_vars(Configure(p))

-----------------------------------------------------------------------------
(* Properties. *)

(* The processes that hold the lease, by the flag in memory that            *)
(* mutation_writer_guard goes by.  A release clears the flag and turns the  *)
(* guard off, at exit.                                                      *)
Writers == {p \in Instances : held[p]}

(* Of the processes that started while no other did, and while none was     *)
(* left of an earlier race, at most one may write, if all meet their        *)
(* deadlines: an exclusive create, a judgement of the owner, an unlink and  *)
(* a replace that look at nothing add up to a lease.  The survivors of a    *)
(* race are in the way for as long as they live: one that is about to       *)
(* unlink or to replace the lease it once read takes away that of whoever   *)
(* started since.                                                           *)
OneWriterUnlessRaced == ~stalled => Cardinality(Writers \ raced) <= 1

(* Such a process never finds its lease gone: one that came later, be it    *)
(* together with others, did not take it away.                              *)
LeaseKeptUnlessRaced == ~stalled => \A p \in Instances \ raced : beat[p] # "lost"

(* Two attempts are enough for it.  In particular the lease of a process    *)
(* that died at any point, while it started too, is in nobody's way.        *)
NeverGivesUpUnlessRaced ==
    ~stalled => \A p \in Instances \ raced : main[p].step # "gave_up"

(* A start-up ends, with the lease or without, even against an owner whose  *)
(* heartbeat keeps writing the file it unlinks.                             *)
EveryStartEnds == \A p \in Instances : Starting(p) ~> ~Starting(p)

(* "Concurrent writers | Writer guard": there is one writer at most.        *)
SingleWriter == Cardinality(Writers) <= 1
=============================================================================
