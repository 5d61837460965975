-------------------------- MODULE WriterGuard_proofs --------------------------
(***************************************************************************)
(* Proofs about module WriterGuard, for any number of processes on any     *)
(* hosts.  The invariant follows the processes that are not in raced:      *)
(* while one of them starts nobody else does, and from the moment it has   *)
(* created the lease file until it gives it up nobody else is at a step    *)
(* that writes, replaces or unlinks the file.                              *)
(***************************************************************************)
EXTENDS WriterGuard, FiniteSetTheorems, TLAPS

Undisturbed == Instances \ raced

(* From the exclusive create until the release. *)
HasLease(p) == main[p].step \in {"opened", "serving", "stopping", "unlinking"}

(* q is not at a step that writes, replaces or unlinks the lease file.      *)
KeepsOff(q) ==
    /\ main[q].step \notin {"opened", "unlink", "serving", "stopping", "unlinking"}
    /\ beat[q] # "write"

(* What the two threads of a process know of each other. *)
Threads ==
    \A p \in Instances :
        /\ held[p] => main[p].step \in {"serving", "stopping", "unlinking"}
        /\ beat[p] = "wait" => main[p].step = "serving"
        /\ beat[p] # "off" => main[p].step \in {"serving", "stopping", "unlinking", "released"}
        /\ ~stalled /\ beat[p] = "write" => main[p].step \in {"serving", "stopping"}

(* A record is of a process that was started, and is fresh while that lives. *)
Known(record) ==
    record # None =>
        /\ main[record.owner].step # "down"
        /\ record.fresh \/ ~Alive(record.owner)

OwnersKnown == Known(file) /\ \A p \in Instances : Known(main[p].seen)

StartsAlone ==
    \A p \in Undisturbed : Starting(p) =>
        \A q \in Instances \ {p} : ~Starting(q) /\ (Alive(q) => q \notin raced)

(* From the create until the release the file is that of p, nobody else is  *)
(* about to change it, and whoever has read it has seen p.                  *)
OwnsFile(p) ==
    /\ file # None /\ file.owner = p
    /\ main[p].step # "opened" => file.written
    /\ \A q \in Instances \ {p} :
         /\ KeepsOff(q)
         /\ main[q].step = "judge" /\ main[p].step # "opened" =>
              main[q].seen # None /\ main[q].seen.owner = p

HoldersAlone == \A p \in Undisturbed : HasLease(p) => OwnsFile(p)

(* The second attempt finds the file gone, and succeeds. *)
OnTime(p) ==
    /\ main[p].step # "gave_up"
    /\ beat[p] # "lost"
    /\ main[p].step \in {"exists", "judge", "unlink"} => main[p].attempt = 1
    /\ main[p].step = "create" /\ main[p].attempt # 1 => file = None

AllOnTime == \A p \in Undisturbed : OnTime(p)

Orderly == OwnersKnown /\ StartsAlone /\ HoldersAlone /\ AllOnTime

IInv == TypeOK /\ Threads /\ (~stalled => Orderly)

-----------------------------------------------------------------------------
(* The invariant is inductive. *)

(* A file that is there is not taken for one that is missing. *)
LEMMA RecordIsNotNone ==
    ASSUME NEW p \in Instances, NEW w \in BOOLEAN, NEW f \in BOOLEAN
    PROVE  [owner |-> p, written |-> w, fresh |-> f] # None
<1>1. [owner |-> p, written |-> w, fresh |-> f] \in File
  BY DEF File
<1> QED BY <1>1, RecordsAssumption

(* A process that starts alone, and finds no survivor, is undisturbed.      *)
LEMMA StartInv ==
    ASSUME IInv, NEW p \in Instances, Start(p)
    PROVE  IInv'
<1>1. TypeOK'
  BY AttemptsAssumption DEF IInv, TypeOK, Main, Start, At
<1>2. Threads'
  BY DEF IInv, Threads, Start
<1> SUFFICES ASSUME ~stalled' PROVE Orderly'
  BY <1>1, <1>2 DEF IInv
<1>3. ~stalled /\ Orderly
  BY DEF IInv, Start
<1>4. OwnersKnown'
  BY <1>3 DEF Orderly, OwnersKnown, Known, Alive, Start, At
<1>5. StartsAlone'
  BY DEF StartsAlone, Undisturbed, Starting, Alive, Start
<1>6. HoldersAlone'
  BY <1>3 DEF Orderly, HoldersAlone, OwnsFile, HasLease, KeepsOff,
     Undisturbed, Start, At
<1>7. AllOnTime'
  BY <1>3 DEF Orderly, Undisturbed, AllOnTime, OnTime, Start, At
<1> QED BY <1>4, <1>5, <1>6, <1>7 DEF Orderly

(* No undisturbed process had the lease, or its file would be there; whoever *)
(* else lives is undisturbed too, and so keeps off.                         *)
LEMMA CreateSucceedsInv ==
    ASSUME IInv, NEW p \in Instances, CreateSucceeds(p)
    PROVE  IInv'
<1>1. TypeOK'
  BY DEF IInv, TypeOK, Main, File, CreateSucceeds
<1>2. Threads'
  BY DEF IInv, Threads, CreateSucceeds
<1> SUFFICES ASSUME ~stalled' PROVE Orderly'
  BY <1>1, <1>2 DEF IInv
<1>3. ~stalled /\ Orderly
  BY DEF IInv, CreateSucceeds
<1>4. OwnersKnown'
  BY <1>3 DEF Orderly, OwnersKnown, Known, Alive, CreateSucceeds
<1>5. StartsAlone'
  BY <1>3 DEF Orderly, StartsAlone, Undisturbed, Starting, Alive,
     CreateSucceeds
<1>6. HoldersAlone'
  <2> SUFFICES ASSUME NEW r \in Undisturbed, HasLease(r)'
               PROVE  /\ file' # None /\ file'.owner = r
                      /\ main'[r].step # "opened" => file'.written
                      /\ \A q \in Instances \ {r} :
                           /\ KeepsOff(q)'
                           /\ main'[q].step = "judge" /\ main'[r].step # "opened" =>
                                main'[q].seen # None /\ main'[q].seen.owner = r
    BY DEF HoldersAlone, OwnsFile, Undisturbed, CreateSucceeds
  <2>1. \A q \in Undisturbed : ~HasLease(q)
    BY <1>3 DEF CreateSucceeds, Orderly, HoldersAlone, OwnsFile
  <2>2. r = p /\ main'[p].step = "opened"
    BY <2>1 DEF HasLease, CreateSucceeds
  <2>3. ASSUME NEW q \in Instances \ {p} PROVE KeepsOff(q)
    <3>1. ~Starting(q) /\ (Alive(q) => q \in Undisturbed)
      BY <1>3, <2>2 DEF Orderly, StartsAlone, Starting, Undisturbed,
         CreateSucceeds
    <3>2. main[q].step \notin {"opened", "unlink", "serving", "stopping", "unlinking"}
      BY <2>1, <3>1 DEF Starting, Alive, HasLease
    <3> QED BY <1>3, <3>2 DEF KeepsOff, IInv, Threads
  <2>4. \A q \in Instances \ {p} : KeepsOff(q)'
    BY <2>3 DEF KeepsOff, CreateSucceeds
  <2>5. file' # None /\ file'.owner = p
    BY RecordIsNotNone DEF CreateSucceeds
  <2> QED BY <2>2, <2>4, <2>5
<1>7. AllOnTime'
  BY <1>1, <1>3 DEF TypeOK, Orderly, StartsAlone, Undisturbed, Starting,
     AllOnTime, OnTime, CreateSucceeds
<1> QED BY <1>4, <1>5, <1>6, <1>7 DEF Orderly

(* Only the reader moves.                                                   *)
LEMMA CreateFailsInv ==
    ASSUME IInv, NEW p \in Instances, CreateFails(p)
    PROVE  IInv'
<1>1. TypeOK'
  BY DEF IInv, TypeOK, Main, CreateFails
<1>2. Threads'
  BY DEF IInv, Threads, CreateFails
<1> SUFFICES ASSUME ~stalled' PROVE Orderly'
  BY <1>1, <1>2 DEF IInv
<1>3. ~stalled /\ Orderly
  BY DEF IInv, CreateFails
<1>4. OwnersKnown'
  BY <1>3 DEF Orderly, OwnersKnown, Known, Alive, CreateFails, At
<1>5. StartsAlone'
  BY <1>3 DEF Orderly, StartsAlone, Undisturbed, Starting, Alive, CreateFails
<1>6. HoldersAlone'
  BY <1>3 DEF Orderly, HoldersAlone, OwnsFile, HasLease, KeepsOff,
     Undisturbed, CreateFails
<1>7. AllOnTime'
  BY <1>3 DEF Orderly, Undisturbed, AllOnTime, OnTime, CreateFails
<1> QED BY <1>4, <1>5, <1>6, <1>7 DEF Orderly

(* Nobody has come between the exclusive create and the write.              *)
LEMMA WriteRecordInv ==
    ASSUME IInv, NEW p \in Instances, WriteRecord(p)
    PROVE  IInv'
<1>1. TypeOK'
  BY AttemptsAssumption DEF IInv, TypeOK, Main, File, WriteRecord, Lease, At
<1>2. Threads'
  BY DEF IInv, TypeOK, Threads, WriteRecord, At
<1> SUFFICES ASSUME ~stalled' PROVE Orderly'
  BY <1>1, <1>2 DEF IInv
<1>3. ~stalled /\ Orderly
  BY DEF IInv, WriteRecord
<1>4. OwnersKnown'
  BY <1>3 DEF Orderly, OwnersKnown, Known, Alive, WriteRecord, Lease, At
<1>5. StartsAlone'
  BY <1>3 DEF Orderly, StartsAlone, Undisturbed, Starting, Alive, WriteRecord
<1>6. HoldersAlone'
  <2> SUFFICES ASSUME NEW r \in Undisturbed, HasLease(r)'
               PROVE  /\ file' # None /\ file'.owner = r
                      /\ main'[r].step # "opened" => file'.written
                      /\ \A q \in Instances \ {r} :
                           /\ KeepsOff(q)'
                           /\ main'[q].step = "judge" /\ main'[r].step # "opened" =>
                                main'[q].seen # None /\ main'[q].seen.owner = r
    BY DEF HoldersAlone, OwnsFile, Undisturbed, WriteRecord
  <2>1. HasLease(r)
    BY DEF HasLease, WriteRecord
  <2>2. r = p
    BY <1>3, <2>1 DEF Orderly, HoldersAlone, OwnsFile, KeepsOff, WriteRecord
  <2>3. file # None /\ file.owner = p
    BY <1>3, <2>1, <2>2 DEF Orderly, HoldersAlone, OwnsFile
  <2>4. ASSUME NEW q \in Instances \ {p}
        PROVE  KeepsOff(q) /\ main[q].step # "judge"
    <3>1. KeepsOff(q)
      BY <1>3, <2>1, <2>2 DEF Orderly, HoldersAlone, OwnsFile
    <3>2. ~Starting(q)
      BY <1>3, <2>2 DEF Orderly, StartsAlone, Starting, WriteRecord
    <3> QED BY <3>1, <3>2 DEF Starting
  <2>5. \A q \in Instances \ {p} : KeepsOff(q)' /\ main'[q].step # "judge"
    BY <2>4 DEF KeepsOff, WriteRecord
  <2>6. file' # None /\ file'.owner = p /\ file'.written
    BY <2>3, RecordIsNotNone DEF WriteRecord, Lease
  <2> QED BY <2>2, <2>5, <2>6
<1>7. AllOnTime'
  BY <1>3 DEF Orderly, Undisturbed, AllOnTime, OnTime, WriteRecord, At
<1> QED BY <1>4, <1>5, <1>6, <1>7 DEF Orderly

(* Who reads while an undisturbed process has the lease sees its record.    *)
LEMMA ReadRecordInv ==
    ASSUME IInv, NEW p \in Instances, ReadRecord(p)
    PROVE  IInv'
<1>1. TypeOK'
  <2>1. Record \in File \cup {None}
    BY DEF IInv, TypeOK, Record
  <2> QED BY <2>1, ZenonT(30) DEF IInv, TypeOK, Main, ReadRecord
<1>2. Threads'
  BY DEF IInv, TypeOK, Threads, ReadRecord
<1> SUFFICES ASSUME ~stalled' PROVE Orderly'
  BY <1>1, <1>2 DEF IInv
<1>3. ~stalled /\ Orderly
  BY DEF IInv, ReadRecord
<1>4. OwnersKnown'
  BY DEF IInv, TypeOK, Main, File, Orderly, OwnersKnown, Known, Alive,
     ReadRecord, At
<1>5. StartsAlone'
  BY <1>1, <1>3 DEF TypeOK, Orderly, StartsAlone, Undisturbed, Starting,
     Alive, ReadRecord
<1>6. HoldersAlone'
  BY <1>1, <1>3 DEF TypeOK, Orderly, HoldersAlone, OwnsFile, HasLease,
     KeepsOff, Undisturbed, ReadRecord, Record
<1>7. AllOnTime'
  BY <1>1, <1>3 DEF TypeOK, Orderly, Undisturbed, AllOnTime, OnTime,
     ReadRecord
<1> QED BY <1>4, <1>5, <1>6, <1>7 DEF Orderly

(* Only the reader moves, and dies.                                         *)
LEMMA RefuseInv ==
    ASSUME IInv, NEW p \in Instances, Refuse(p)
    PROVE  IInv'
<1>1. TypeOK'
  BY AttemptsAssumption DEF IInv, TypeOK, Main, Refuse, At
<1>2. Threads'
  BY DEF IInv, Threads, Refuse
<1> SUFFICES ASSUME ~stalled' PROVE Orderly'
  BY <1>1, <1>2 DEF IInv
<1>3. ~stalled /\ Orderly
  BY DEF IInv, Refuse
<1>4. OwnersKnown'
  BY <1>3 DEF Orderly, OwnersKnown, Known, Alive, Refuse, At
<1>5. StartsAlone'
  BY <1>3 DEF Orderly, StartsAlone, Undisturbed, Starting, Alive, Refuse
<1>6. HoldersAlone'
  BY <1>3 DEF Orderly, HoldersAlone, OwnsFile, HasLease, KeepsOff,
     Undisturbed, Refuse, At
<1>7. AllOnTime'
  BY <1>3 DEF Orderly, Undisturbed, AllOnTime, OnTime, Refuse, At
<1> QED BY <1>4, <1>5, <1>6, <1>7 DEF Orderly

(* The owner that a judge has seen is taken for dead only if it is dead.    *)
LEMMA ReclaimInv ==
    ASSUME IInv, NEW p \in Instances, Reclaim(p)
    PROVE  IInv'
<1>1. TypeOK'
  BY ZenonT(30) DEF IInv, TypeOK, Main, Reclaim
<1>2. Threads'
  BY DEF IInv, TypeOK, Threads, Reclaim
<1> SUFFICES ASSUME ~stalled' PROVE Orderly'
  BY <1>1, <1>2 DEF IInv
<1>3. ~stalled /\ Orderly
  BY DEF IInv, Reclaim
<1>4. OwnersKnown'
  BY <1>3 DEF IInv, TypeOK, Main, File, Orderly, OwnersKnown, Known, Alive,
     Reclaim, RecordIsActive, At
<1>5. StartsAlone'
  BY <1>1, <1>3 DEF TypeOK, Orderly, StartsAlone, Undisturbed, Starting,
     Alive, Reclaim
<1>6. HoldersAlone'
  BY <1>1, <1>3 DEF TypeOK, Main, Orderly, StartsAlone, HoldersAlone,
     OwnsFile, HasLease, Undisturbed, Starting, Reclaim, At
<1>7. AllOnTime'
  BY <1>1, <1>3 DEF TypeOK, Orderly, Undisturbed, AllOnTime, OnTime, Reclaim
<1> QED BY <1>4, <1>5, <1>6, <1>7 DEF Orderly

(* An undisturbed process has no lease when another one unlinks.            *)
LEMMA UnlinkInv ==
    ASSUME IInv, NEW p \in Instances, Unlink(p)
    PROVE  IInv'
<1>1. TypeOK'
  BY AttemptsAssumption DEF IInv, TypeOK, Main, Unlink, NextAttempt, At
<1>2. Threads'
  BY DEF IInv, Threads, Unlink
<1> SUFFICES ASSUME ~stalled' PROVE Orderly'
  BY <1>1, <1>2 DEF IInv
<1>3. ~stalled /\ Orderly
  BY DEF IInv, Unlink
<1>4. OwnersKnown'
  BY <1>3 DEF Orderly, OwnersKnown, Known, Alive, Unlink, NextAttempt, At
<1>5. StartsAlone'
  BY <1>3 DEF Orderly, StartsAlone, Undisturbed, Starting, Alive, Unlink
<1>6. HoldersAlone'
  BY <1>3 DEF Orderly, HoldersAlone, OwnsFile, HasLease, KeepsOff,
     Undisturbed, Unlink, NextAttempt, At
<1>7. AllOnTime'
  <2> SUFFICES ASSUME NEW r \in Undisturbed
               PROVE  OnTime(r)'
    BY DEF AllOnTime, Undisturbed, Unlink
  <2>1. CASE r = p
    <3>1. main[p].attempt < Attempts
      BY <1>3, <2>1, AttemptsAssumption DEF Orderly, AllOnTime, OnTime, Unlink
    <3>2. main'[p].step = "create" /\ file' = None /\ beat' = beat
      BY <3>1 DEF IInv, TypeOK, Unlink, NextAttempt
    <3> QED BY <1>3, <2>1, <3>2 DEF Orderly, AllOnTime, OnTime
  <2>2. CASE r # p
    BY <1>3, <2>2 DEF Orderly, AllOnTime, OnTime, Unlink
  <2> QED BY <2>1, <2>2
<1> QED BY <1>4, <1>5, <1>6, <1>7 DEF Orderly

(* Who is about to write a heartbeat has the lease.                         *)
LEMMA HeartbeatReadsInv ==
    ASSUME IInv, NEW p \in Instances, HeartbeatReads(p)
    PROVE  IInv'
<1>1. TypeOK'
  BY DEF IInv, TypeOK, HeartbeatReads
<1>2. Threads'
  BY DEF IInv, Threads, HeartbeatReads
<1> SUFFICES ASSUME ~stalled' PROVE Orderly'
  BY <1>1, <1>2 DEF IInv
<1>3. ~stalled /\ Orderly
  BY DEF IInv, HeartbeatReads
<1>4. OwnersKnown'
  BY <1>3 DEF Orderly, OwnersKnown, Known, Alive, HeartbeatReads
<1>5. StartsAlone'
  BY <1>3 DEF Orderly, StartsAlone, Undisturbed, Starting, Alive,
     HeartbeatReads
<1>6. HoldersAlone'
  BY DEF IInv, Orderly, Threads, HoldersAlone, OwnsFile, HasLease, KeepsOff,
     Undisturbed, HeartbeatReads
<1>7. AllOnTime'
  BY <1>3 DEF Orderly, Undisturbed, AllOnTime, OnTime, HeartbeatReads
<1> QED BY <1>4, <1>5, <1>6, <1>7 DEF Orderly

(* The heartbeat of an undisturbed process finds its record.                *)
LEMMA HeartbeatLosesLeaseInv ==
    ASSUME IInv, NEW p \in Instances, HeartbeatLosesLease(p)
    PROVE  IInv'
<1>1. TypeOK'
  BY DEF IInv, TypeOK, HeartbeatLosesLease
<1>2. Threads'
  BY DEF IInv, Threads, HeartbeatLosesLease
<1> SUFFICES ASSUME ~stalled' PROVE Orderly'
  BY <1>1, <1>2 DEF IInv
<1>3. ~stalled /\ Orderly
  BY DEF IInv, HeartbeatLosesLease
<1>4. OwnersKnown'
  BY <1>3 DEF Orderly, OwnersKnown, Known, Alive, HeartbeatLosesLease
<1>5. StartsAlone'
  BY <1>3 DEF Orderly, StartsAlone, Undisturbed, Starting, Alive,
     HeartbeatLosesLease
<1>6. HoldersAlone'
  BY <1>3 DEF Orderly, HoldersAlone, OwnsFile, HasLease, KeepsOff,
     Undisturbed, HeartbeatLosesLease
<1>7. AllOnTime'
  BY DEF IInv, Orderly, Threads, HoldersAlone, OwnsFile, HasLease,
     Undisturbed, AllOnTime, OnTime, HeartbeatLosesLease, Names, Record
<1> QED BY <1>4, <1>5, <1>6, <1>7 DEF Orderly

(* The record replaced is the writer's own.                                 *)
LEMMA HeartbeatWritesInv ==
    ASSUME IInv, NEW p \in Instances, HeartbeatWrites(p)
    PROVE  IInv'
<1>1. TypeOK'
  BY DEF IInv, TypeOK, File, HeartbeatWrites, Lease
<1>2. Threads'
  BY DEF IInv, Threads, HeartbeatWrites
<1> SUFFICES ASSUME ~stalled' PROVE Orderly'
  BY <1>1, <1>2 DEF IInv
<1>3. ~stalled /\ Orderly
  BY DEF IInv, HeartbeatWrites
<1>4. OwnersKnown'
  <2>1. main[p].step # "down"
    BY DEF IInv, Threads, HeartbeatWrites
  <2>2. Known(file)'
    BY <2>1 DEF Known, HeartbeatWrites, Lease
  <2>3. \A q \in Instances : Known(main[q].seen)'
    BY <1>3 DEF Orderly, OwnersKnown, Known, Alive, HeartbeatWrites
  <2> QED BY <2>2, <2>3 DEF OwnersKnown
<1>5. StartsAlone'
  BY <1>3 DEF Orderly, StartsAlone, Undisturbed, Starting, Alive,
     HeartbeatWrites
<1>6. HoldersAlone'
  <2> SUFFICES ASSUME NEW r \in Undisturbed, HasLease(r)
               PROVE  /\ file' # None /\ file'.owner = r
                      /\ main[r].step # "opened" => file'.written
                      /\ \A q \in Instances \ {r} :
                           /\ KeepsOff(q)'
                           /\ main[q].step = "judge" /\ main[r].step # "opened" =>
                                main[q].seen # None /\ main[q].seen.owner = r
    BY DEF HoldersAlone, OwnsFile, Undisturbed, HasLease, HeartbeatWrites
  <2>1. r = p
    BY <1>3 DEF Orderly, HoldersAlone, OwnsFile, KeepsOff, HeartbeatWrites
  <2>2. file' # None /\ file'.owner = r /\ file'.written
    BY <2>1, RecordIsNotNone DEF HeartbeatWrites, Lease
  <2>3. \A q \in Instances \ {r} : KeepsOff(q)'
    BY <1>3 DEF Orderly, HoldersAlone, OwnsFile, KeepsOff, HeartbeatWrites
  <2> QED BY <1>3, <2>2, <2>3 DEF Orderly, HoldersAlone, OwnsFile
<1>7. AllOnTime'
  BY DEF IInv, Orderly, Threads, StartsAlone, HoldersAlone, OwnsFile,
     HasLease, Undisturbed, Starting, Alive, AllOnTime, OnTime, HeartbeatWrites
<1> QED BY <1>4, <1>5, <1>6, <1>7 DEF Orderly

(* The lease file stays.                                                    *)
LEMMA HeartbeatFailsInv ==
    ASSUME IInv, NEW p \in Instances, HeartbeatFails(p)
    PROVE  IInv'
<1>1. TypeOK'
  BY DEF IInv, TypeOK, HeartbeatFails
<1>2. Threads'
  BY DEF IInv, Threads, HeartbeatFails
<1> SUFFICES ASSUME ~stalled' PROVE Orderly'
  BY <1>1, <1>2 DEF IInv
<1>3. ~stalled /\ Orderly
  BY DEF IInv, HeartbeatFails
<1>4. OwnersKnown'
  BY <1>3 DEF Orderly, OwnersKnown, Known, Alive, HeartbeatFails
<1>5. StartsAlone'
  BY <1>3 DEF Orderly, StartsAlone, Undisturbed, Starting, Alive,
     HeartbeatFails
<1>6. HoldersAlone'
  BY <1>3 DEF Orderly, HoldersAlone, OwnsFile, HasLease, KeepsOff,
     Undisturbed, HeartbeatFails
<1>7. AllOnTime'
  BY <1>3 DEF Orderly, Undisturbed, AllOnTime, OnTime, HeartbeatFails
<1> QED BY <1>4, <1>5, <1>6, <1>7 DEF Orderly

(* The heartbeat stops, or is about to write.                               *)
LEMMA ReleaseStopsInv ==
    ASSUME IInv, NEW p \in Instances, ReleaseStops(p)
    PROVE  IInv'
<1>1. TypeOK'
  BY DEF IInv, TypeOK, Main, ReleaseStops
<1>2. Threads'
  BY DEF IInv, TypeOK, Threads, ReleaseStops
<1> SUFFICES ASSUME ~stalled' PROVE Orderly'
  BY <1>1, <1>2 DEF IInv
<1>3. ~stalled /\ Orderly
  BY DEF IInv, ReleaseStops
<1>4. OwnersKnown'
  BY <1>3 DEF Orderly, OwnersKnown, Known, Alive, ReleaseStops
<1>5. StartsAlone'
  BY <1>3 DEF Orderly, StartsAlone, Undisturbed, Starting, Alive, ReleaseStops
<1>6. HoldersAlone'
  BY <1>3 DEF Orderly, HoldersAlone, OwnsFile, HasLease, KeepsOff,
     Undisturbed, ReleaseStops
<1>7. AllOnTime'
  BY <1>3 DEF Orderly, Undisturbed, AllOnTime, OnTime, ReleaseStops
<1> QED BY <1>4, <1>5, <1>6, <1>7 DEF Orderly

(* A release that does not stall leaves no heartbeat behind.                *)
LEMMA ReleaseReadsInv ==
    ASSUME IInv, NEW p \in Instances, ReleaseReads(p)
    PROVE  IInv'
<1>1. TypeOK'
  BY DEF IInv, TypeOK, Main, ReleaseReads, Join
<1>2. Threads'
  BY ZenonT(30) DEF IInv, TypeOK, Threads, Main, ReleaseReads, Join
<1> SUFFICES ASSUME ~stalled' PROVE Orderly'
  BY <1>1, <1>2 DEF IInv
<1>3. ~stalled /\ Orderly
  BY DEF IInv, ReleaseReads, Join
<1>4. OwnersKnown'
  BY <1>3 DEF Orderly, OwnersKnown, Known, Alive, ReleaseReads, At
<1>5. StartsAlone'
  BY <1>3 DEF Orderly, StartsAlone, Undisturbed, Starting, Alive, ReleaseReads
<1>6. HoldersAlone'
  BY <1>3 DEF Orderly, HoldersAlone, OwnsFile, HasLease, KeepsOff,
     Undisturbed, ReleaseReads
<1>7. AllOnTime'
  BY <1>3 DEF Orderly, Undisturbed, AllOnTime, OnTime, ReleaseReads
<1> QED BY <1>4, <1>5, <1>6, <1>7 DEF Orderly

(* Only the owner unlinks its record.                                       *)
LEMMA ReleaseUnlinksInv ==
    ASSUME IInv, NEW p \in Instances, ReleaseUnlinks(p)
    PROVE  IInv'
<1>1. TypeOK'
  BY DEF IInv, TypeOK, Main, ReleaseUnlinks
<1>2. Threads'
  BY DEF IInv, TypeOK, Threads, ReleaseUnlinks
<1> SUFFICES ASSUME ~stalled' PROVE Orderly'
  BY <1>1, <1>2 DEF IInv
<1>3. ~stalled /\ Orderly
  BY DEF IInv, ReleaseUnlinks
<1>4. OwnersKnown'
  BY <1>3 DEF Orderly, OwnersKnown, Known, Alive, ReleaseUnlinks
<1>5. StartsAlone'
  BY <1>3 DEF Orderly, StartsAlone, Undisturbed, Starting, Alive,
     ReleaseUnlinks
<1>6. HoldersAlone'
  BY <1>1, <1>3 DEF TypeOK, Orderly, HoldersAlone, OwnsFile, HasLease,
     KeepsOff, Undisturbed, ReleaseUnlinks
<1>7. AllOnTime'
  BY <1>3 DEF Orderly, Undisturbed, AllOnTime, OnTime, ReleaseUnlinks
<1> QED BY <1>4, <1>5, <1>6, <1>7 DEF Orderly

(* A dead process does nothing, and its file stays.                         *)
LEMMA DiesInv ==
    ASSUME IInv, NEW p \in Instances, Dies(p)
    PROVE  IInv'
<1>1. TypeOK'
  BY AttemptsAssumption DEF IInv, TypeOK, Main, Dies, At
<1>2. Threads'
  BY DEF IInv, TypeOK, Threads, Dies
<1> SUFFICES ASSUME ~stalled' PROVE Orderly'
  BY <1>1, <1>2 DEF IInv
<1>3. ~stalled /\ Orderly
  BY DEF IInv, Dies
<1>4. OwnersKnown'
  BY <1>3 DEF Orderly, OwnersKnown, Known, Alive, Dies, At
<1>5. StartsAlone'
  BY <1>3 DEF Orderly, StartsAlone, Undisturbed, Starting, Alive, Dies, At
<1>6. HoldersAlone'
  BY <1>3 DEF Orderly, HoldersAlone, OwnsFile, HasLease, KeepsOff,
     Undisturbed, Dies, At
<1>7. AllOnTime'
  BY <1>3 DEF Orderly, Undisturbed, AllOnTime, OnTime, Dies, At
<1> QED BY <1>4, <1>5, <1>6, <1>7 DEF Orderly

(* A record goes stale only after its owner died.                           *)
LEMMA LeaseAgesInv ==
    ASSUME IInv, LeaseAges
    PROVE  IInv'
<1>1. TypeOK'
  BY DEF IInv, TypeOK, File, LeaseAges
<1>2. Threads'
  BY DEF IInv, Threads, LeaseAges
<1> SUFFICES ASSUME ~stalled' PROVE Orderly'
  BY <1>1, <1>2 DEF IInv
<1>3. ~stalled /\ Orderly /\ ~Alive(file.owner)
  BY DEF IInv, LeaseAges
<1>0. file \in File /\ file' = [file EXCEPT !.fresh = FALSE]
  BY DEF IInv, TypeOK, LeaseAges
<1>4. file' # None /\ file'.owner = file.owner /\ file'.written = file.written
  BY <1>0, RecordsAssumption DEF File
<1>5. OwnersKnown'
  BY <1>3 DEF Orderly, OwnersKnown, Known, Alive, LeaseAges
<1>6. StartsAlone'
  BY <1>3 DEF Orderly, StartsAlone, Undisturbed, Starting, Alive, LeaseAges
<1>7. HoldersAlone'
  BY <1>3, <1>4 DEF Orderly, HoldersAlone, OwnsFile, Undisturbed, HasLease,
     KeepsOff, LeaseAges
<1>8. AllOnTime'
  BY <1>3 DEF Orderly, AllOnTime, OnTime, Undisturbed, LeaseAges
<1> QED BY <1>5, <1>6, <1>7, <1>8 DEF Orderly

-----------------------------------------------------------------------------
(* The initial states satisfy the invariant. *)
LEMMA InitInv == Init => IInv
<1> SUFFICES ASSUME Init PROVE IInv
  OBVIOUS
<1>1. TypeOK
  <2>1. At("down") \in Main
    BY AttemptsAssumption DEF At, Main
  <2> QED BY <2>1 DEF Init, TypeOK
<1>2. \A p \in Instances : /\ main[p] = At("down") /\ beat[p] = "off" /\ held[p] = FALSE
  BY DEF Init
<1>3. Threads
  BY <1>2 DEF Threads
<1>4. OwnersKnown
  BY DEF Init, OwnersKnown, Known, At
<1>5. StartsAlone /\ HoldersAlone /\ AllOnTime
  BY <1>2 DEF StartsAlone, HoldersAlone, AllOnTime, OnTime, Undisturbed,
     Starting, HasLease, At
<1> QED BY <1>1, <1>3, <1>4, <1>5 DEF IInv, Orderly

(* Every step keeps it. *)
LEMMA NextInv == IInv /\ [Next]_vars => IInv'
<1> SUFFICES ASSUME IInv, [Next]_vars PROVE IInv'
  OBVIOUS
<1>1. ASSUME NEW p \in Instances, Configure(p) PROVE IInv'
  BY <1>1, CreateSucceedsInv, CreateFailsInv, WriteRecordInv, ReadRecordInv,
     RefuseInv, ReclaimInv, UnlinkInv DEF Configure
<1>2. ASSUME NEW p \in Instances, Heartbeat(p) PROVE IInv'
  BY <1>2, HeartbeatReadsInv, HeartbeatLosesLeaseInv, HeartbeatWritesInv,
     HeartbeatFailsInv DEF Heartbeat
<1>3. ASSUME NEW p \in Instances, Release(p) PROVE IInv'
  BY <1>3, ReleaseStopsInv, ReleaseReadsInv, ReleaseUnlinksInv DEF Release
<1>4. CASE UNCHANGED vars
  BY <1>4 DEF vars, IInv, TypeOK, Threads, Orderly, OwnersKnown, Known,
     StartsAlone, HoldersAlone, OwnsFile, AllOnTime, OnTime, Undisturbed,
     HasLease, KeepsOff, Starting, Alive
<1> QED BY <1>1, <1>2, <1>3, <1>4, StartInv, DiesInv, LeaseAgesInv DEF Next

(* Every reachable state satisfies it, for any processes on any hosts. *)
THEOREM InductiveInvariant == Spec => []IInv
<1> QED BY InitInv, NextInv, PTL DEF Spec

(* The lease file, the threads and the memory of the guard hold what the    *)
(* code can put there, and no start tries more often than the loop of       *)
(* configure_writer_guard says (writer_guard.py:256).                       *)
THEOREM TypeCorrect == Spec => []TypeOK
<1>1. IInv => TypeOK
  BY DEF IInv
<1> QED BY <1>1, InductiveInvariant, PTL

(* Of the processes that started alone, and with no survivor of a race      *)
(* around, one at most holds the lease, unless one that lives missed a      *)
(* deadline (writer_guard.py:223-330).                                      *)
THEOREM OneWriter == Spec => []OneWriterUnlessRaced
<1>1. ASSUME IInv PROVE OneWriterUnlessRaced
  <2> SUFFICES ASSUME ~stalled PROVE Cardinality(Writers \ raced) <= 1
    BY DEF OneWriterUnlessRaced
  <2>1. ASSUME NEW p \in Writers \ raced, NEW q \in Writers \ raced PROVE p = q
    <3>1. HasLease(p) /\ ~KeepsOff(q)
      BY <1>1 DEF Writers, IInv, Threads, HasLease, KeepsOff
    <3> QED
      BY <1>1, <3>1 DEF Writers, IInv, Orderly, HoldersAlone, OwnsFile,
         Undisturbed
  <2>2. CASE Writers \ raced = {}
    BY <2>2, FS_EmptySet
  <2>3. CASE Writers \ raced # {}
    <3> PICK p : p \in Writers \ raced
      BY <2>3
    <3>1. Writers \ raced = {p}
      BY <2>1
    <3>2. Cardinality({p}) = 1
      BY FS_Singleton
    <3> QED BY <3>1, <3>2
  <2> QED BY <2>2, <2>3
<1> QED BY <1>1, InductiveInvariant, PTL

(* Its heartbeat always finds the lease it wrote: whoever comes later, in   *)
(* a race or not, refuses (writer_guard.py:149-190).                        *)
THEOREM LeaseKept == Spec => []LeaseKeptUnlessRaced
<1>1. IInv => LeaseKeptUnlessRaced
  BY DEF IInv, Orderly, AllOnTime, OnTime, Undisturbed, LeaseKeptUnlessRaced
<1> QED BY <1>1, InductiveInvariant, PTL

(* Its second round finds no file in the way, whatever the process before   *)
(* it left behind (writer_guard.py:256-330).                                *)
THEOREM NeverGivesUp == Spec => []NeverGivesUpUnlessRaced
<1>1. IInv => NeverGivesUpUnlessRaced
  BY DEF IInv, Orderly, AllOnTime, OnTime, Undisturbed,
     NeverGivesUpUnlessRaced
<1> QED BY <1>1, InductiveInvariant, PTL
=============================================================================
