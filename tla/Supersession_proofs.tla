------------------------ MODULE Supersession_proofs ------------------------
(***************************************************************************)
(* Proofs about module Supersession, for any memories, any number of       *)
(* operators and any domains, initial states and protections.  First what  *)
(* holds whatever the interleaving, then what lineage is as long as calls  *)
(* that overlap are about other memories: an invariant on where pointers   *)
(* come from, and the lemmas about least closed sets that its graph needs. *)
(***************************************************************************)
EXTENDS Supersession, FiniteSetTheorems, TLAPS

(* What an apply saw before its transaction: no active link the other way.  *)
ReadsGuarded ==
    \A p \in Operators : op[p].step = "read" =>
        ActiveLinks(op[p].before.links, op[p].key.old, op[p].key.new) = {}

IInv == TypeOK /\ OneActiveLink /\ ReadsGuarded

(* The links of a pair are rows of the table.                               *)
LEMMA PairLinksInTable ==
    ASSUME NEW table, NEW m, NEW n
    PROVE  /\ DOMAIN PairLinks(table, m, n) \subseteq DOMAIN table
           /\ \A i \in DOMAIN PairLinks(table, m, n) :
                PairLinks(table, m, n)[i] = table[i]
BY DEF PairLinks

(* A snapshot taken now is one, and stays one as links are added.           *)
LEMMA PairIsSnapshot ==
    ASSUME TypeOK, NEW m \in Memories, NEW n \in Memories
    PROVE  IsSnapshot(Pair(m, n))
<1>1. {Pair(m, n).new, Pair(m, n).old} \subseteq Memory
  BY DEF Pair, TypeOK
<1>2. ASSUME NEW i \in DOMAIN Pair(m, n).links
      PROVE  i \in DOMAIN links /\ Pair(m, n).links[i] \in Link
  <2>1. i \in DOMAIN PairLinks(links, m, n)
    BY <1>2 DEF Pair
  <2>2. i \in DOMAIN links /\ Pair(m, n).links[i] = links[i]
    BY <2>1, PairLinksInTable DEF Pair
  <2>3. links \in Seq(Link)
    BY DEF TypeOK
  <2> QED BY <2>2, <2>3
<1> QED BY <1>1, <1>2 DEF IsSnapshot

(* A snapshot stays one when the links only grow.                           *)
LEMMA SnapshotStays ==
    ASSUME NEW pair, IsSnapshot(pair), DOMAIN links \subseteq DOMAIN links'
    PROVE  IsSnapshot(pair)'
BY DEF IsSnapshot

(* Where an apply puts its link: on the active one of the pair, or after    *)
(* the last row.                                                            *)
LEMMA LinkPlace ==
    ASSUME TypeOK, NEW k \in OperationKey, NEW id,
           id = LinkOf(k, Pair(k.new, k.old).links)
    PROVE  \/ /\ id \in DOMAIN links
              /\ links[id] = [from |-> k.new, to |-> k.old, archived |-> FALSE]
           \/ /\ id = Len(links) + 1
              /\ id \notin DOMAIN links
              /\ ActiveLinks(Pair(k.new, k.old).links, k.new, k.old) = {}
<1> DEFINE pairLinks == PairLinks(links, k.new, k.old)
           active == ActiveLinks(pairLinks, k.new, k.old)
<1>0. Pair(k.new, k.old).links = pairLinks
  BY DEF Pair
<1>1. CASE active = {}
  <2>1. links \in Seq(Link)
    BY DEF TypeOK
  <2>2. id = Len(links) + 1
    BY <1>0, <1>1 DEF LinkOf
  <2> QED BY <1>0, <1>1, <2>1, <2>2
<1>2. CASE active # {}
  <2>1. id \in active
    BY <1>0, <1>2 DEF LinkOf
  <2>2. id \in DOMAIN pairLinks /\ pairLinks[id] = [from |-> k.new, to |-> k.old, archived |-> FALSE]
    BY <2>1 DEF ActiveLinks
  <2> QED BY <2>2, PairLinksInTable
<1> QED BY <1>1, <1>2

(* An active link between two memories is one of the links of their pair.   *)
LEMMA ActiveLinkIsInPair ==
    ASSUME TypeOK, NEW k \in OperationKey, NEW i \in DOMAIN links,
           ~links[i].archived, {links[i].from, links[i].to} = {k.new, k.old}
    PROVE  \/ i \in ActiveLinks(Pair(k.new, k.old).links, k.new, k.old)
           \/ i \in ActiveLinks(Pair(k.new, k.old).links, k.old, k.new)
<1>1. links[i] \in Link
  BY DEF TypeOK
<1>2. \/ links[i] = [from |-> k.new, to |-> k.old, archived |-> FALSE]
      \/ links[i] = [from |-> k.old, to |-> k.new, archived |-> FALSE]
  BY <1>1 DEF Link
<1>3. i \in DOMAIN PairLinks(links, k.new, k.old)
      /\ PairLinks(links, k.new, k.old)[i] = links[i]
  BY DEF PairLinks
<1> QED BY <1>2, <1>3 DEF ActiveLinks, Pair

-----------------------------------------------------------------------------
(* The invariant is inductive. *)

(* The initial states satisfy the invariant.                                *)
LEMMA InitInv == Init => IInv
<1> SUFFICES ASSUME Init PROVE IInv
  OBVIOUS
<1>1. TypeOK
  <2>1. memory \in [Memories -> Memory]
    BY ConstantsAssumption DEF Init, Memory
  <2>2. links \in Seq(Link)
    BY DEF Init
  <2> QED BY <2>1, <2>2 DEF Init, TypeOK
<1>2. OneActiveLink
  BY DEF Init, OneActiveLink
<1>3. ReadsGuarded
  BY DEF Init, Idle, ReadsGuarded
<1> QED BY <1>1, <1>2, <1>3 DEF IInv

(* A run stays legal while rows are only added to the links.                *)
LEMMA RunStays ==
    ASSUME NEW run, IsRun(run), DOMAIN links \subseteq DOMAIN links'
    PROVE  IsRun(run)'
<1>1. IsSnapshot(run.before)' /\ IsSnapshot(run.after)'
  BY SnapshotStays DEF IsRun
<1> QED BY <1>1 DEF IsRun

(* What an operator in the middle of a call may hold.                       *)
OpOK(o) ==
    /\ o # Idle => IsCall(o)
    /\ o.step = "read" => ActiveLinks(o.before.links, o.key.old, o.key.new) = {}

(* The steps that only read: whatever the operator keeps must be legal.     *)
LEMMA ReadingStepInv ==
    ASSUME IInv, UNCHANGED <<memory, links, runs>>,
           NEW p \in Operators, NEW o, OpOK(o), op' = [op EXCEPT ![p] = o]
    PROVE  IInv'
<1>1. DOMAIN op' = Operators
  BY DEF IInv, TypeOK
<1>2. \A q \in Operators : op'[q] = IF q = p THEN o ELSE op[q]
  BY DEF IInv, TypeOK
<1>3. TypeOK'
  <2>1. ASSUME NEW k \in OperationKey, runs'[k] # NoRun PROVE IsRun(runs[k])'
    <3> PICK run : run = runs[k]
      OBVIOUS
    <3>1. IsRun(run)
      BY <2>1 DEF IInv, TypeOK
    <3>2. IsRun(run)'
      BY <3>1, RunStays
    <3> QED BY <3>2
  <2>2. ASSUME NEW q \in Operators, op'[q] # Idle PROVE IsCall(op[q])'
    BY <1>2, <2>2 DEF IInv, TypeOK, OpOK, IsCall
  <2>3. memory' \in [Memories -> Memory] /\ links' \in Seq(Link) /\ DOMAIN runs' = OperationKey
    BY DEF IInv, TypeOK
  <2> QED BY <1>1, <2>1, <2>2, <2>3 DEF TypeOK
<1>4. OneActiveLink'
  BY DEF IInv, OneActiveLink
<1>5. ReadsGuarded'
  <2> SUFFICES ASSUME NEW q \in Operators, op'[q].step = "read"
               PROVE  ActiveLinks(op'[q].before.links, op'[q].key.old, op'[q].key.new) = {}
    BY DEF ReadsGuarded, ActiveLinks
  <2>1. CASE q = p
    BY <1>2, <2>1 DEF OpOK
  <2>2. CASE q # p
    BY <1>2, <2>2 DEF IInv, ReadsGuarded
  <2> QED BY <2>1, <2>2
<1> QED BY <1>3, <1>4, <1>5 DEF IInv

(* What an operator that is not idle knows of its key.                      *)
LEMMA KeyOfOp ==
    ASSUME IInv, NEW p \in Operators, op[p].step # "idle"
    PROVE  op[p] # Idle /\ op[p].key \in OperationKey
BY DEF IInv, TypeOK, Idle, IsCall

(* Preview keeps the invariant.                                             *)
LEMMA PreviewInv ==
    ASSUME IInv, NEW p \in Operators, NEW k \in OperationKey, Preview(p, k)
    PROVE  IInv'
<1> DEFINE o == [step |-> "previewed", key |-> k, hash |-> Fingerprint(k.new, k.old)]
<1>1. OpOK(o)
  BY DEF OpOK, IsCall
<1> HIDE DEF o
<1>2. op' = [op EXCEPT ![p] = o] /\ UNCHANGED <<memory, links, runs>>
  BY DEF o, Preview
<1> QED BY <1>1, <1>2, ReadingStepInv

(* RollbackChecks keeps the invariant.                                      *)
LEMMA RollbackChecksInv ==
    ASSUME IInv, NEW p \in Operators, NEW k \in OperationKey, RollbackChecks(p, k)
    PROVE  IInv'
<1> DEFINE o == [step |-> "checked", key |-> k]
<1>1. OpOK(o)
  BY DEF OpOK, IsCall
<1> HIDE DEF o
<1>2. op' = [op EXCEPT ![p] = o] /\ UNCHANGED <<memory, links, runs>>
  BY DEF o, RollbackChecks
<1> QED BY <1>1, <1>2, ReadingStepInv

(* Going on to the next read keeps the invariant.                           *)
LEMMA GotoInv ==
    ASSUME IInv, NEW p \in Operators, op[p].key \in OperationKey,
           NEW step \in {"new_key", "fresh"}, Goto(p, step)
    PROVE  IInv'
<1> DEFINE o == [step |-> step, key |-> op[p].key, hash |-> op[p].hash]
<1>1. OpOK(o)
  BY DEF OpOK, IsCall
<1> HIDE DEF o
<1>2. op' = [op EXCEPT ![p] = o] /\ UNCHANGED <<memory, links, runs>>
  BY DEF o, Goto
<1> QED BY <1>1, <1>2, ReadingStepInv

(* ApplyLooksUp keeps the invariant.                                        *)
LEMMA ApplyLooksUpInv ==
    ASSUME IInv, NEW p \in Operators, ApplyLooksUp(p)
    PROVE  IInv'
<1> QED BY KeyOfOp, GotoInv DEF ApplyLooksUp

(* ApplyPreviewsAgain keeps the invariant.                                  *)
LEMMA ApplyPreviewsAgainInv ==
    ASSUME IInv, NEW p \in Operators, ApplyPreviewsAgain(p)
    PROVE  IInv'
<1> QED BY KeyOfOp, GotoInv DEF ApplyPreviewsAgain

(* ApplyReads keeps the invariant.                                          *)
LEMMA ApplyReadsInv ==
    ASSUME IInv, NEW p \in Operators, ApplyReads(p)
    PROVE  IInv'
<1> DEFINE k == op[p].key
           o == [step |-> "read", key |-> k, hash |-> op[p].hash,
                 before |-> Pair(k.new, k.old)]
<1>1. k \in OperationKey
  BY KeyOfOp DEF ApplyReads
<1>2. ActiveLinks(Pair(k.new, k.old).links, k.old, k.new) = {}
  BY DEF ApplyReads
<1>3. OpOK(o)
  BY <1>1, <1>2 DEF OpOK, IsCall
<1> HIDE DEF o
<1>4. op' = [op EXCEPT ![p] = o] /\ UNCHANGED <<memory, links, runs>>
  BY DEF o, ApplyReads
<1> QED BY <1>3, <1>4, ReadingStepInv

(* Leaves keeps the invariant.                                              *)
LEMMA LeavesInv ==
    ASSUME IInv, NEW p \in Operators, Leaves(p)
    PROVE  IInv'
<1>1. OpOK(Idle)
  BY DEF OpOK, Idle
<1> QED BY <1>1, ReadingStepInv DEF Leaves

(* Archive keeps the invariant.                                             *)
LEMMA ArchiveInv ==
    ASSUME IInv, NEW m \in Memories, Archive(m)
    PROVE  IInv'
<1>1. memory' \in [Memories -> Memory]
  <2>1. memory[m] \in Memory
    BY DEF IInv, TypeOK
  <2>2. Archived(memory[m]) \in Memory
    BY <2>1 DEF Archived, Memory, States
  <2> QED BY <2>2 DEF IInv, TypeOK, Archive
<1>2. ASSUME NEW k \in OperationKey, runs'[k] # NoRun PROVE IsRun(runs[k])'
  <2> PICK run : run = runs[k]
    OBVIOUS
  <2>1. IsRun(run)
    BY <1>2 DEF IInv, TypeOK, Archive
  <2>2. IsRun(run)'
    BY <2>1, RunStays DEF Archive
  <2> QED BY <2>2 DEF Archive
<1>3. TypeOK'
  BY <1>1, <1>2 DEF IInv, TypeOK, Archive, IsCall
<1>4. OneActiveLink' /\ ReadsGuarded'
  BY DEF IInv, OneActiveLink, ReadsGuarded, Archive, ActiveLinks
<1> QED BY <1>3, <1>4 DEF IInv

(* A link the transaction of apply inserts joins two memories that no       *)
(* active link joins: it compared the links it had read and found neither   *)
(* direction among.                                                         *)
LEMMA NewLinkIsAlone ==
    ASSUME IInv, NEW p \in Operators, ApplyCommits(p),
           LinkOf(op[p].key, op[p].before.links) \notin DOMAIN links,
           NEW i \in DOMAIN links, ~links[i].archived
    PROVE  {links[i].from, links[i].to} # {op[p].key.new, op[p].key.old}
<1> PICK k : k = op[p].key
  OBVIOUS
<1>1. k \in OperationKey
  BY KeyOfOp DEF ApplyCommits
<1>2. op[p].before = Pair(k.new, k.old)
  BY DEF ApplyCommits, Unchanged
<1>3. ActiveLinks(Pair(k.new, k.old).links, k.old, k.new) = {}
  BY <1>2 DEF IInv, ReadsGuarded, ApplyCommits
<1>4. ActiveLinks(Pair(k.new, k.old).links, k.new, k.old) = {}
  BY <1>1, <1>2, LinkPlace DEF IInv
<1>5. SUFFICES ASSUME {links[i].from, links[i].to} = {k.new, k.old} PROVE FALSE
  OBVIOUS
<1> QED BY <1>1, <1>3, <1>4, <1>5, ActiveLinkIsInPair DEF IInv

(* A row stays a row when one of its columns is updated.                    *)
LEMMA UpdateRow ==
    ASSUME NEW f \in [Memories -> Memory], NEW m \in Memories,
           NEW n \in Memories \cup {None}, NEW s \in States
    PROVE  /\ [f EXCEPT ![m].supersedes = n] \in [Memories -> Memory]
           /\ [f EXCEPT ![m].superseded_by = n] \in [Memories -> Memory]
           /\ [f EXCEPT ![m].state = s] \in [Memories -> Memory]
<1>1. f[m] \in Memory
  OBVIOUS
<1>2. /\ [f[m] EXCEPT !.supersedes = n] \in Memory
      /\ [f[m] EXCEPT !.superseded_by = n] \in Memory
      /\ [f[m] EXCEPT !.state = s] \in Memory
  BY <1>1 DEF Memory
<1> QED BY <1>2

(* The tables after the transaction of apply.                               *)
LEMMA ApplyCommitsTables ==
    ASSUME IInv, NEW p \in Operators, ApplyCommits(p),
           NEW k \in OperationKey, k = op[p].key, NEW id, id = LinkOf(k, op[p].before.links)
    PROVE  /\ memory' \in [Memories -> Memory]
           /\ links' \in Seq(Link)
           /\ id \in DOMAIN links'
           /\ DOMAIN links \subseteq DOMAIN links'
           /\ \A i \in DOMAIN links : links'[i] = links[i]
           /\ \A i \in DOMAIN links' \ DOMAIN links :
                /\ i = id /\ id \notin DOMAIN links
                /\ links'[i] = [from |-> k.new, to |-> k.old, archived |-> FALSE]
<1> DEFINE link == [from |-> k.new, to |-> k.old, archived |-> FALSE]
<1>1. k.new \in Memories /\ k.old \in Memories
  BY DEF OperationKey
<1>2. memory' \in [Memories -> Memory]
  <2> DEFINE first == [memory EXCEPT ![k.new].supersedes = k.old]
             second == [first EXCEPT ![k.old].superseded_by = k.new]
             third == [second EXCEPT ![k.old].state = "superseded"]
  <2>1. first \in [Memories -> Memory]
    BY <1>1, UpdateRow DEF IInv, TypeOK, States
  <2> HIDE DEF first
  <2>2. second \in [Memories -> Memory]
    BY <1>1, <2>1, UpdateRow DEF States
  <2> HIDE DEF second
  <2>3. third \in [Memories -> Memory]
    BY <1>1, <2>2, UpdateRow DEF States
  <2>4. memory' = third
    BY DEF ApplyCommits, Superseded, first, second
  <2> QED BY <2>3, <2>4
<1>3. links \in Seq(Link) /\ link \in Link
  BY <1>1 DEF IInv, TypeOK, Link
<1>4. op[p].before = Pair(k.new, k.old)
  BY DEF ApplyCommits, Unchanged
<1>5. CASE id \in DOMAIN links
  <2>1. links' = links
    BY <1>5 DEF ApplyCommits
  <2> QED BY <1>2, <1>3, <1>5, <2>1
<1>6. CASE id \notin DOMAIN links
  <2>1. id = Len(links) + 1
    BY <1>4, <1>6, LinkPlace DEF IInv
  <2>2. links' = Append(links, link)
    BY <1>6 DEF ApplyCommits
  <2>3. links' \in Seq(Link) /\ DOMAIN links' = 1..(Len(links) + 1)
    BY <1>3, <2>2
  <2>4. links'[Len(links) + 1] = link /\ \A i \in DOMAIN links : links'[i] = links[i]
    BY <1>3, <2>2
  <2>5. DOMAIN links = 1..Len(links) /\ Len(links) \in Nat
    BY <1>3
  <2> QED BY <1>2, <1>6, <2>1, <2>3, <2>4, <2>5
<1> QED BY <1>5, <1>6

(* ApplyCommits keeps the invariant.                                        *)
LEMMA ApplyCommitsInv ==
    ASSUME IInv, NEW p \in Operators, ApplyCommits(p)
    PROVE  IInv'
<1> PICK k : k = op[p].key
  OBVIOUS
<1> PICK id : id = LinkOf(k, op[p].before.links)
  OBVIOUS
<1>1. k \in OperationKey /\ k.new \in Memories /\ k.old \in Memories
  BY KeyOfOp DEF ApplyCommits, OperationKey
<1>2. /\ memory' \in [Memories -> Memory]
      /\ links' \in Seq(Link)
      /\ id \in DOMAIN links'
      /\ DOMAIN links \subseteq DOMAIN links'
      /\ \A i \in DOMAIN links : links'[i] = links[i]
      /\ \A i \in DOMAIN links' \ DOMAIN links :
           /\ i = id /\ id \notin DOMAIN links
           /\ links'[i] = [from |-> k.new, to |-> k.old, archived |-> FALSE]
  BY <1>1, ApplyCommitsTables
<1>3. TypeOK'
  <2>1. ASSUME NEW j \in OperationKey, runs'[j] # NoRun PROVE IsRun(runs[j])'
    <3>1. CASE j = k
      <4> PICK before : before = op[p].before
        OBVIOUS
      <4> PICK after : after = [new |-> memory'[k.new], old |-> memory'[k.old],
                                links |-> PairLinks(links', k.new, k.old)]
        OBVIOUS
      <4>1. /\ DOMAIN runs'[k] = {"status", "before", "after", "created", "link", "order"}
            /\ runs'[k].status = "applied" /\ runs'[k].link = id
            /\ runs'[k].before = before /\ runs'[k].after = after
        BY <1>1 DEF ApplyCommits, IInv, TypeOK
      <4>2. before = Pair(k.new, k.old)
        BY DEF ApplyCommits, Unchanged
      <4>3. IsSnapshot(before)
        BY <1>1, <4>2, PairIsSnapshot DEF IInv
      <4>4. IsSnapshot(before)'
        BY <1>2, <4>3, SnapshotStays
      <4>5. \A i \in DOMAIN PairLinks(links', k.new, k.old) :
              i \in DOMAIN links' /\ PairLinks(links', k.new, k.old)[i] \in Link
        <5> PICK table : table = links'
          OBVIOUS
        <5> QED BY <1>2, PairLinksInTable
      <4>6. {after.new, after.old} \subseteq Memory
        BY <1>1, <1>2
      <4>7. IsSnapshot(after)'
        BY <4>5, <4>6 DEF IsSnapshot
      <4> QED BY <1>2, <3>1, <4>1, <4>4, <4>7 DEF IsRun
    <3>2. CASE j # k
      <4> PICK run : run = runs[j]
        OBVIOUS
      <4>1. runs'[j] = run
        BY <3>2 DEF ApplyCommits, IInv, TypeOK
      <4>2. IsRun(run)
        BY <2>1, <4>1 DEF IInv, TypeOK
      <4>3. IsRun(run)'
        BY <1>2, <4>2, RunStays
      <4> QED BY <4>1, <4>3
    <3> QED BY <3>1, <3>2
  <2>2. DOMAIN runs' = OperationKey /\ DOMAIN op' = Operators
    BY DEF ApplyCommits, IInv, TypeOK
  <2>3. ASSUME NEW q \in Operators, op'[q] # Idle PROVE IsCall(op[q])'
    BY <2>3 DEF ApplyCommits, IInv, TypeOK, IsCall
  <2> QED BY <1>2, <2>1, <2>2, <2>3 DEF TypeOK
<1>4. OneActiveLink'
  <2> SUFFICES ASSUME NEW i \in DOMAIN links', NEW j \in DOMAIN links',
                      i # j, ~links'[i].archived, ~links'[j].archived
               PROVE  {links'[i].from, links'[i].to} # {links'[j].from, links'[j].to}
    BY DEF OneActiveLink
  <2>1. CASE i \in DOMAIN links /\ j \in DOMAIN links
    BY <1>2, <2>1, ZenonT(30) DEF IInv, OneActiveLink
  <2>2. ASSUME NEW x \in DOMAIN links, NEW y \in DOMAIN links' \ DOMAIN links,
               ~links'[x].archived
        PROVE  {links'[x].from, links'[x].to} # {links'[y].from, links'[y].to}
    <3>1. id \notin DOMAIN links /\ ~links[x].archived
      BY <1>2, <2>2
    <3>2. {links[x].from, links[x].to} # {k.new, k.old}
      BY <3>1, NewLinkIsAlone
    <3>3. links'[y] = [from |-> k.new, to |-> k.old, archived |-> FALSE]
      BY <1>2
    <3>4. {links'[y].from, links'[y].to} = {k.new, k.old}
      BY <3>3
    <3>5. links'[x] = links[x]
      BY <1>2
    <3> QED BY <3>2, <3>4, <3>5
  <2>3. CASE i \in DOMAIN links /\ j \notin DOMAIN links
    BY <2>2, <2>3
  <2>5. CASE i \notin DOMAIN links /\ j \in DOMAIN links
    BY <2>2, <2>5
  <2>4. CASE i \notin DOMAIN links /\ j \notin DOMAIN links
    BY <1>2, <2>4
  <2> QED BY <2>1, <2>3, <2>4, <2>5
<1>5. ReadsGuarded'
  BY DEF ReadsGuarded, IInv, TypeOK, ApplyCommits, Idle, ActiveLinks
<1> QED BY <1>3, <1>4, <1>5 DEF IInv

(* RollbackCommits keeps the invariant.                                     *)
LEMMA RollbackCommitsInv ==
    ASSUME IInv, NEW p \in Operators, RollbackCommits(p)
    PROVE  IInv'
<1> PICK k : k = op[p].key
  OBVIOUS
<1>1. k \in OperationKey /\ k.new \in Memories /\ k.old \in Memories
  BY KeyOfOp DEF RollbackCommits, OperationKey
<1>2. runs[k].status = "applied" /\ runs[k] # NoRun /\ IsRun(runs[k])
  BY <1>1 DEF RollbackCommits, MayRollBack, NoRun, IInv, TypeOK
<1>3. memory' \in [Memories -> Memory]
  <2>1. runs[k].before.new \in Memory /\ runs[k].before.old \in Memory
    BY <1>2 DEF IsRun, IsSnapshot
  <2> PICK b : b = runs[k].before
    OBVIOUS
  <2> DEFINE first == [memory EXCEPT ![k.new].supersedes = b.new.supersedes]
             second == [first EXCEPT ![k.new].state = b.new.state]
             third == [second EXCEPT ![k.old].superseded_by = b.old.superseded_by]
             fourth == [third EXCEPT ![k.old].state = b.old.state]
  <2>2. /\ b.new.supersedes \in Memories \cup {None} /\ b.new.state \in States
        /\ b.old.superseded_by \in Memories \cup {None} /\ b.old.state \in States
    BY <2>1 DEF Memory
  <2>3. first \in [Memories -> Memory]
    BY <1>1, <2>2, UpdateRow DEF IInv, TypeOK
  <2> HIDE DEF first
  <2>4. second \in [Memories -> Memory]
    BY <1>1, <2>2, <2>3, UpdateRow
  <2> HIDE DEF second
  <2>5. third \in [Memories -> Memory]
    BY <1>1, <2>2, <2>4, UpdateRow, ZenonT(30)
  <2> HIDE DEF third
  <2>6. fourth \in [Memories -> Memory]
    BY <1>1, <2>2, <2>5, UpdateRow
  <2>7. memory' = fourth
    BY DEF RollbackCommits, Restored, first, second, third
  <2> QED BY <2>6, <2>7
<1>4. /\ DOMAIN links' = DOMAIN links
      /\ links' \in Seq(Link)
      /\ \A i \in DOMAIN links :
           /\ links'[i].from = links[i].from /\ links'[i].to = links[i].to
           /\ links[i].archived => links'[i].archived
  <2>1. links \in Seq(Link) /\ runs[k].link \in DOMAIN links
    BY <1>2 DEF IInv, TypeOK, IsRun
  <2>2. CASE runs[k].created
    <3>1. links' = [links EXCEPT ![runs[k].link].archived = TRUE]
      BY <2>2 DEF RollbackCommits
    <3>2. \A i \in DOMAIN links :
            links'[i] = IF i = runs[k].link THEN [links[i] EXCEPT !.archived = TRUE] ELSE links[i]
      BY <3>1
    <3>3. \A i \in DOMAIN links : links[i] \in Link
      BY <2>1
    <3>4. \A i \in DOMAIN links :
            /\ links'[i] \in Link
            /\ links'[i].from = links[i].from /\ links'[i].to = links[i].to
            /\ links[i].archived => links'[i].archived
      BY <3>2, <3>3 DEF Link
    <3>5. DOMAIN links' = DOMAIN links
      BY <3>1
    <3>6. links' \in Seq(Link)
      <4>1. DOMAIN links = 1..Len(links) /\ Len(links) \in Nat
        BY <2>1
      <4>2. links' = [i \in 1..Len(links) |-> links'[i]]
        BY <3>1, <4>1
      <4>3. links' \in [1..Len(links) -> Link]
        BY <3>4, <4>1, <4>2
      <4> QED BY <4>1, <4>3
    <3> QED BY <3>4, <3>5, <3>6
  <2>3. CASE ~runs[k].created
    BY <2>1, <2>3 DEF RollbackCommits
  <2> QED BY <2>2, <2>3
<1>5. TypeOK'
  <2>1. ASSUME NEW j \in OperationKey, runs'[j] # NoRun PROVE IsRun(runs[j])'
    <3> PICK run : run = runs[j]
      OBVIOUS
    <3>1. CASE j = k
      <4>1. IsRun(run)'
        BY <1>2, <1>4, <3>1, RunStays
      <4>2. runs'[j] = [run EXCEPT !.status = "rolled_back"]
        BY <1>1, <3>1 DEF RollbackCommits, RolledBack, IInv, TypeOK
      <4> QED BY <4>1, <4>2 DEF IsRun
    <3>2. CASE j # k
      <4>1. runs'[j] = run
        BY <3>2 DEF RollbackCommits, IInv, TypeOK
      <4>2. IsRun(run)
        BY <2>1, <4>1 DEF IInv, TypeOK
      <4>3. IsRun(run)'
        BY <1>4, <4>2, RunStays
      <4> QED BY <4>1, <4>3
    <3> QED BY <3>1, <3>2
  <2>2. DOMAIN runs' = OperationKey /\ DOMAIN op' = Operators
    BY DEF RollbackCommits, IInv, TypeOK
  <2>3. ASSUME NEW q \in Operators, op'[q] # Idle PROVE IsCall(op[q])'
    BY <2>3 DEF RollbackCommits, IInv, TypeOK, IsCall
  <2> QED BY <1>3, <1>4, <2>1, <2>2, <2>3 DEF TypeOK
<1>6. OneActiveLink'
  <2> SUFFICES ASSUME NEW i \in DOMAIN links', NEW j \in DOMAIN links',
                      i # j, ~links'[i].archived, ~links'[j].archived
               PROVE  {links'[i].from, links'[i].to} # {links'[j].from, links'[j].to}
    BY DEF OneActiveLink
  <2>1. i \in DOMAIN links /\ j \in DOMAIN links /\ ~links[i].archived /\ ~links[j].archived
    BY <1>4
  <2>2. {links[i].from, links[i].to} # {links[j].from, links[j].to}
    BY <2>1 DEF IInv, OneActiveLink
  <2> QED BY <1>4, <2>1, <2>2
<1>7. ReadsGuarded'
  BY DEF ReadsGuarded, IInv, TypeOK, RollbackCommits, Idle, ActiveLinks
<1> QED BY <1>5, <1>6, <1>7 DEF IInv

(* Every step of Next keeps the invariant.                                  *)
LEMMA NextInv == IInv /\ [Next]_vars => IInv'
<1> SUFFICES ASSUME IInv, [Next]_vars PROVE IInv'
  OBVIOUS
<1>1. ASSUME NEW p \in Operators, Step(p) PROVE IInv'
  <2>1. ASSUME NEW k \in OperationKey, Preview(p, k) PROVE IInv'
    BY <2>1, PreviewInv
  <2>2. ASSUME NEW k \in OperationKey, RollbackChecks(p, k) PROVE IInv'
    BY <2>2, RollbackChecksInv
  <2> QED
    BY <1>1, <2>1, <2>2, ApplyLooksUpInv, ApplyPreviewsAgainInv, ApplyReadsInv,
       ApplyCommitsInv, RollbackCommitsInv, LeavesInv DEF Step
<1>2. ASSUME NEW m \in Archivable, Archive(m) PROVE IInv'
  BY <1>2, ArchiveInv, ConstantsAssumption
<1>3. CASE UNCHANGED vars
  <2>1. UNCHANGED <<memory, links, runs>> /\ op' = op
    BY <1>3 DEF vars
  <2>2. ASSUME NEW k \in OperationKey, runs'[k] # NoRun PROVE IsRun(runs[k])'
    <3> PICK run : run = runs[k]
      OBVIOUS
    <3>1. IsRun(run)
      BY <2>1, <2>2 DEF IInv, TypeOK
    <3>2. IsRun(run)'
      BY <2>1, <3>1, RunStays
    <3> QED BY <2>1, <3>2
  <2>3. TypeOK'
    BY <2>1, <2>2 DEF IInv, TypeOK, IsCall
  <2>4. OneActiveLink' /\ ReadsGuarded'
    BY <2>1 DEF IInv, OneActiveLink, ReadsGuarded, ActiveLinks
  <2> QED BY <2>3, <2>4 DEF IInv
<1> QED BY <1>1, <1>2, <1>3 DEF Next

(* Every reachable state satisfies the invariant, for any number of         *)
(* memories and operators.                                                  *)
THEOREM InductiveInvariant == Spec => []IInv
<1> QED BY InitInv, NextInv, PTL DEF Spec

(* Rows and locals hold what their columns and the code can put there, and  *)
(* a run of apply names a link that exists (supersession.py).               *)
THEOREM TypeCorrect == Spec => []TypeOK
<1>1. IInv => TypeOK
  BY DEF IInv
<1> QED BY <1>1, InductiveInvariant, PTL

(* However many applies interleave, two memories are never joined by two    *)
(* active supersedes links: apply compares the links again in the           *)
(* transaction that inserts one (supersession.py:829-878).                  *)
THEOREM OneLinkPerPair == Spec => []OneActiveLink
<1>1. IInv => OneActiveLink
  BY DEF IInv
<1> QED BY <1>1, InductiveInvariant, PTL

(* The only steps that write runs or memory.                                *)
LEMMA OtherStepsWriteNothing ==
    ASSUME [Next]_vars
    PROVE  \/ \E p \in Operators : ApplyCommits(p) \/ RollbackCommits(p)
           \/ \E m \in Archivable : Archive(m)
           \/ UNCHANGED <<memory, links, runs>>
<1>1. ASSUME NEW p \in Operators, Step(p)
      PROVE  ApplyCommits(p) \/ RollbackCommits(p) \/ UNCHANGED <<memory, links, runs>>
  BY <1>1 DEF Step, Preview, RollbackChecks, ApplyLooksUp, ApplyPreviewsAgain,
              ApplyReads, Leaves, Goto
<1> QED BY <1>1 DEF Next, vars

(* What the two transactions do to the runs.                                *)
LEMMA CommitRecords ==
    ASSUME IInv, NEW p \in Operators, ApplyCommits(p), NEW k \in OperationKey, k = op[p].key
    PROVE  /\ runs[k] = NoRun /\ runs'[k].status = "applied"
           /\ runs'[k].before = Pair(k.new, k.old)
           /\ runs'[k].after = [new |-> memory'[k.new], old |-> memory'[k.old],
                                links |-> PairLinks(links', k.new, k.old)]
           /\ \A j \in OperationKey : j # k => runs'[j] = runs[j]
           /\ \A m \in Memories : m \notin {k.new, k.old} => memory'[m] = memory[m]
BY DEF ApplyCommits, Superseded, Unchanged, IInv, TypeOK

(* What the transaction of a rollback does to runs and memories.            *)
LEMMA RollbackRecords ==
    ASSUME IInv, NEW p \in Operators, RollbackCommits(p), NEW k \in OperationKey, k = op[p].key
    PROVE  /\ Applied(k) /\ runs[k] # NoRun
           /\ runs'[k] = [runs[k] EXCEPT !.status = "rolled_back"]
           /\ runs'[k].status = "rolled_back"
           /\ \A j \in OperationKey : j # k => runs'[j] = runs[j]
           /\ \A m \in Memories : m \notin {k.new, k.old} => memory'[m] = memory[m]
<1>1. Applied(k) /\ runs[k] # NoRun /\ IsRun(runs[k])
  BY DEF RollbackCommits, MayRollBack, Applied, NoRun, IInv, TypeOK
<1>2. runs'[k] = [runs[k] EXCEPT !.status = "rolled_back"]
  BY DEF RollbackCommits, RolledBack, IInv, TypeOK
<1>3. runs'[k].status = "rolled_back"
  BY <1>1, <1>2 DEF IsRun
<1>4. \A j \in OperationKey : j # k => runs'[j] = runs[j]
  BY DEF RollbackCommits, IInv, TypeOK
<1>5. \A m \in Memories : m \notin {k.new, k.old} => memory'[m] = memory[m]
  BY DEF RollbackCommits, Restored, IInv, TypeOK
<1> QED BY <1>1, <1>2, <1>3, <1>4, <1>5

(* A key is used once for ever, what its run recorded is never rewritten,   *)
(* and it is rolled back at most once (supersession.py, lifecycle_snapshots *)
(* .py).                                                                    *)
THEOREM FinalRunHistory == Spec => RunHistoryFinal
<1> DEFINE RunStep ==
      \A k \in OperationKey : runs[k] # NoRun =>
          \/ runs'[k] = runs[k]
          \/ Applied(k) /\ runs'[k] = [runs[k] EXCEPT !.status = "rolled_back"]
<1>1. ASSUME IInv, [Next]_vars PROVE RunStep
  <2>1. ASSUME NEW p \in Operators, ApplyCommits(p) PROVE RunStep
    <3>1. op[p].key \in OperationKey
      BY <1>1, <2>1, KeyOfOp DEF ApplyCommits
    <3> QED BY <1>1, <2>1, <3>1, CommitRecords
  <2>2. ASSUME NEW p \in Operators, RollbackCommits(p) PROVE RunStep
    <3>1. op[p].key \in OperationKey
      BY <1>1, <2>2, KeyOfOp DEF RollbackCommits
    <3> QED BY <1>1, <2>2, <3>1, RollbackRecords
  <2>3. ASSUME NEW m \in Archivable, Archive(m) PROVE RunStep
    BY <2>3 DEF Archive
  <2> QED BY <1>1, <2>1, <2>2, <2>3, OtherStepsWriteNothing
<1>2. IInv /\ [Next]_vars => [RunStep]_vars
  BY <1>1
<1> QED BY <1>2, InductiveInvariant, PTL DEF Spec, RunHistoryFinal

(* What a run recorded is what its transaction found and left, although the *)
(* snapshot was read before it began (supersession.py:777-849).             *)
THEOREM TrueUndoRecord == Spec => UndoRecordTrue
<1> DEFINE UndoStep ==
      \A k \in OperationKey : runs[k] = NoRun /\ runs'[k] # NoRun =>
          /\ runs'[k].before = Pair(k.new, k.old)
          /\ runs'[k].after = [new |-> memory'[k.new], old |-> memory'[k.old],
                               links |-> PairLinks(links', k.new, k.old)]
<1>1. ASSUME IInv, [Next]_vars PROVE UndoStep
  <2>1. ASSUME NEW p \in Operators, ApplyCommits(p) PROVE UndoStep
    <3>1. op[p].key \in OperationKey
      BY <1>1, <2>1, KeyOfOp DEF ApplyCommits
    <3> QED BY <1>1, <2>1, <3>1, CommitRecords
  <2>2. ASSUME NEW p \in Operators, RollbackCommits(p) PROVE UndoStep
    <3>1. op[p].key \in OperationKey
      BY <1>1, <2>2, KeyOfOp DEF RollbackCommits
    <3> QED BY <1>1, <2>2, <3>1, RollbackRecords
  <2>3. ASSUME NEW m \in Archivable, Archive(m) PROVE UndoStep
    BY <2>3 DEF Archive
  <2> QED BY <1>1, <2>1, <2>2, <2>3, OtherStepsWriteNothing
<1>2. IInv /\ [Next]_vars => [UndoStep]_vars
  BY <1>1
<1> QED BY <1>2, InductiveInvariant, PTL DEF Spec, UndoRecordTrue

(* A memory changes only with a run that names it, or by being archived     *)
(* (supersession.py, server_core.py:9484-9520).                             *)
THEOREM AuditedChanges == Spec => EveryChangeAudited
<1> DEFINE AuditStep ==
      \A m \in Memories : memory'[m] # memory[m] =>
          \/ memory'[m] = Archived(memory[m])
          \/ \E k \in OperationKey : runs'[k] # runs[k] /\ m \in {k.new, k.old}
<1>1. ASSUME IInv, [Next]_vars PROVE AuditStep
  <2>1. ASSUME NEW p \in Operators, ApplyCommits(p) PROVE AuditStep
    <3> PICK k : k = op[p].key
      OBVIOUS
    <3>1. k \in OperationKey
      BY <1>1, <2>1, KeyOfOp DEF ApplyCommits
    <3>2. runs'[k] # runs[k]
      <4>1. runs[k] = NoRun /\ runs'[k].status = "applied"
        BY <1>1, <2>1, <3>1, CommitRecords
      <4>2. NoRun.status = "none"
        BY DEF NoRun
      <4> QED BY <4>1, <4>2
    <3> QED BY <1>1, <2>1, <3>1, <3>2, CommitRecords
  <2>2. ASSUME NEW p \in Operators, RollbackCommits(p) PROVE AuditStep
    <3> PICK k : k = op[p].key
      OBVIOUS
    <3>1. k \in OperationKey
      BY <1>1, <2>2, KeyOfOp DEF RollbackCommits
    <3>2. runs'[k] # runs[k]
      BY <1>1, <2>2, <3>1, RollbackRecords DEF Applied
    <3> QED BY <1>1, <2>2, <3>1, <3>2, RollbackRecords
  <2>3. ASSUME NEW m \in Archivable, Archive(m) PROVE AuditStep
    BY <1>1, <2>3 DEF Archive, IInv, TypeOK
  <2> QED BY <1>1, <2>1, <2>2, <2>3, OtherStepsWriteNothing
<1>2. IInv /\ [Next]_vars => [AuditStep]_vars
  BY <1>1
<1> QED BY <1>2, InductiveInvariant, PTL DEF Spec, EveryChangeAudited
-----------------------------------------------------------------------------
(* The lineage, when calls that overlap are about other memories.  Then,    *)
(* between the fresh preview of an apply, or the check of a rollback, and   *)
(* its transaction, the pair may be archived but its pointers stay.  So     *)
(* every pointer comes from an applied run, the applied runs of one         *)
(* replacement form a stack, and runs are applied from the old end of a     *)
(* lineage to its new end.                                                  *)

(* Past its fresh preview, or its check. *)
Working(p) == op[p].step \in {"fresh", "read", "checked"}

Apart ==
    \A p, q \in Operators :
        p # q /\ Working(p) /\ Working(q) => ~Touches(op[p].key, op[q].key)

(* In particular when there is one operator, as in the serial run.          *)
LEMMA OneOperatorApart ==
    ASSUME \A p, q \in Operators : p = q
    PROVE  Apart
BY DEF Apart

Used == {k \in OperationKey : runs[k] # NoRun}

Order(k) == runs[k].order

(* Runs are numbered in the order of their transactions. *)
Numbered ==
    /\ IsFiniteSet(Used)
    /\ \A k \in Used : Order(k) \in Nat /\ Order(k) < Cardinality(Used)
    /\ \A j, k \in Used : Order(j) = Order(k) => j = k

(* What an applied run did to the memory it replaced and to the links, and  *)
(* what it found: two ends of lineages.                                     *)
Stands(k) ==
    /\ memory[k.old].superseded_by = k.new
    /\ memory[k.old].state \in {"superseded", "archived"}
    /\ links[runs[k].link] = [from |-> k.new, to |-> k.old, archived |-> FALSE]
    /\ runs[k].before.old.superseded_by = None
    /\ runs[k].after.new.superseded_by = None
    /\ runs[k].after.new.supersedes = k.old

RunsStand == \A k \in OperationKey : Applied(k) => Stands(k)

(* A memory is replaced once. *)
ReplacedOnce ==
    \A j, k \in OperationKey : Applied(j) /\ Applied(k) /\ j.old = k.old => j = k

(* A replacement was made before it was replaced in its turn.               *)
OldToNew ==
    \A j, k \in OperationKey :
        Applied(j) /\ Applied(k) /\ j.new = k.old => Order(j) < Order(k)

ForwardFromRuns ==
    \A m \in Memories : memory[m].superseded_by # None =>
        \E k \in OperationKey : Applied(k) /\ k.old = m

(* A pointer back is to what the latest of some runs replaced.              *)
IsLatest(pointer, keys) ==
    \/ pointer = None /\ keys = {}
    \/ \E k \in keys : k.old = pointer /\ \A j \in keys : j = k \/ Order(j) < Order(k)

Replacing(n) == {k \in OperationKey : Applied(k) /\ k.new = n}

Before(k) == {j \in Replacing(k.new) : Order(j) < Order(k)}

Stacked ==
    /\ \A n \in Memories : IsLatest(memory[n].supersedes, Replacing(n))
    /\ \A k \in OperationKey : Applied(k) =>
         IsLatest(runs[k].before.new.supersedes, Before(k))

(* What the operator found still holds when its transaction begins.         *)
ApplyKnows(k) ==
    /\ k.new # k.old
    /\ memory[k.old].superseded_by = None
    /\ memory[k.new].superseded_by = None

RollbackKnows(k) ==
    /\ Applied(k)
    /\ memory[k.new].supersedes = k.old
    /\ memory[k.new].superseded_by = None

CallsKnow ==
    \A p \in Operators :
        /\ op[p].step \in {"fresh", "read"} => ApplyKnows(op[p].key)
        /\ op[p].step = "checked" => RollbackKnows(op[p].key)

LInv ==
    /\ Numbered
    /\ RunsStand
    /\ ReplacedOnce
    /\ OldToNew
    /\ ForwardFromRuns
    /\ Stacked
    /\ CallsKnow

-----------------------------------------------------------------------------
(* What a closure is good for. *)

(* It holds what it starts from.                                            *)
LEMMA ClosureStarts ==
    ASSUME NEW S \in SUBSET Memories, NEW successors
    PROVE  S \subseteq Closure(S, successors)
BY DEF Closure, Closed

(* It holds the successors of its members.                                  *)
LEMMA ClosureGrows ==
    ASSUME NEW S, NEW successors, NEW m \in Closure(S, successors),
           NEW n \in successors[m], n \in Memories
    PROVE  n \in Closure(S, successors)
BY DEF Closure, Closed

(* It holds nothing else: a closed set that holds the start holds all.      *)
LEMMA ClosureLeast ==
    ASSUME NEW S, NEW successors, NEW T \in SUBSET Memories, S \subseteq T,
           \A m \in T : successors[m] \subseteq T
    PROVE  Closure(S, successors) \subseteq T
BY DEF Closure, Closed

(* A preview that is ready is of two ends: neither memory was replaced, or  *)
(* one of the integrity findings would name the pair.                       *)
LEMMA ReadyMeansEnds ==
    ASSUME TypeOK, NEW k \in OperationKey, PreviewReady(k.new, k.old)
    PROVE  ApplyKnows(k)
<1> DEFINE graph == Graph(k.new, k.old)
           findings == Findings(graph)
<1>1. k.new \in Memories /\ k.old \in Memories /\ k.new # k.old
  BY DEF OperationKey, PreviewReady
<1>2. \A ids \in findings : k.new \notin ids /\ k.old \notin ids
  BY DEF PreviewReady
<1>3. k.new \in graph /\ k.old \in graph
  BY <1>1, ClosureStarts DEF Graph
<1>4. \A m \in Memories : /\ memory[m] \in Memory
                          /\ memory[m].superseded_by \in Memories \cup {None}
                          /\ memory[m].supersedes \in Memories \cup {None}
  BY DEF TypeOK, Memory
<1>5. memory[k.new].superseded_by = None
  <2> SUFFICES ASSUME memory[k.new].superseded_by # None PROVE FALSE
    OBVIOUS
  <2>1. memory[k.new].state \notin {"superseded", "archived"}
    BY DEF PreviewReady
  <2>2. {k.new, memory[k.new].superseded_by} \in findings
    BY <1>3, <2>1 DEF Findings
  <2> QED BY <1>2, <2>2
<1>6. memory[k.old].superseded_by = None
  <2> SUFFICES ASSUME memory[k.old].superseded_by # None PROVE FALSE
    OBVIOUS
  <2>1. memory[k.old].superseded_by = k.new
    BY DEF PreviewReady
  <2>2. CASE memory[k.new].supersedes = k.old
    <3>1. k.old \in Parents(k.new)
      BY <1>1, <2>2, ConstantsAssumption DEF Parents
    <3>2. k.old \in Ancestors(k.new)
      <4>1. Parents(k.new) \in SUBSET Memories
        BY <1>1, <1>4 DEF Parents
      <4> QED BY <3>1, <4>1, ClosureStarts DEF Ancestors
    <3> QED BY <3>2 DEF PreviewReady, Lineage
  <2>3. CASE memory[k.new].supersedes # k.old
    <3>1. {k.old, k.new} \cup Parents(k.new) \in findings
      BY <1>1, <1>3, <2>1, <2>3 DEF Findings
    <3> QED BY <1>2, <3>1
  <2> QED BY <2>2, <2>3
<1> QED BY <1>1, <1>5, <1>6 DEF ApplyKnows

(* What the transaction of apply does to the columns of lineage.            *)
LEMMA CommitRows ==
    ASSUME IInv, NEW p \in Operators, ApplyCommits(p),
           NEW k \in OperationKey, k = op[p].key, k.new # k.old
    PROVE  \A m \in Memories :
             /\ memory'[m].superseded_by = IF m = k.old THEN k.new ELSE memory[m].superseded_by
             /\ memory'[m].supersedes = IF m = k.new THEN k.old ELSE memory[m].supersedes
             /\ memory'[m].state = IF m = k.old THEN "superseded" ELSE memory[m].state
<1>1. k.new \in Memories /\ k.old \in Memories
  BY DEF OperationKey
<1>2. memory' = [memory EXCEPT ![k.new].supersedes = k.old,
                               ![k.old].superseded_by = k.new,
                               ![k.old].state = "superseded"]
  BY DEF ApplyCommits, Superseded
<1> QED BY <1>1, <1>2 DEF IInv, TypeOK, Memory

(* And what the transaction of a rollback does to them.                     *)
LEMMA RollbackRows ==
    ASSUME IInv, NEW p \in Operators, RollbackCommits(p),
           NEW k \in OperationKey, k = op[p].key, k.new # k.old
    PROVE  \A m \in Memories :
             /\ memory'[m].superseded_by =
                  IF m = k.old THEN runs[k].before.old.superseded_by ELSE memory[m].superseded_by
             /\ memory'[m].supersedes =
                  IF m = k.new THEN runs[k].before.new.supersedes ELSE memory[m].supersedes
             /\ m \notin {k.new, k.old} => memory'[m].state = memory[m].state
<1> PICK b : b = runs[k].before
  OBVIOUS
<1>1. k.new \in Memories /\ k.old \in Memories
  BY DEF OperationKey
<1>2. memory' = [memory EXCEPT ![k.new].supersedes = b.new.supersedes,
                               ![k.new].state = b.new.state,
                               ![k.old].superseded_by = b.old.superseded_by,
                               ![k.old].state = b.old.state]
  BY DEF RollbackCommits, Restored
<1>3. /\ memory'[k.new] = [memory[k.new] EXCEPT !.supersedes = b.new.supersedes,
                                               !.state = b.new.state]
      /\ memory'[k.old] = [memory[k.old] EXCEPT !.superseded_by = b.old.superseded_by,
                                               !.state = b.old.state]
      /\ \A m \in Memories \ {k.new, k.old} : memory'[m] = memory[m]
  BY <1>1, <1>2 DEF IInv, TypeOK
<1>4. memory[k.new] \in Memory /\ memory[k.old] \in Memory
  BY <1>1 DEF IInv, TypeOK
<1>5. /\ memory'[k.new].superseded_by = memory[k.new].superseded_by
      /\ memory'[k.new].supersedes = b.new.supersedes
  BY <1>3, <1>4 DEF Memory
<1>6. /\ memory'[k.old].superseded_by = b.old.superseded_by
      /\ memory'[k.old].supersedes = memory[k.old].supersedes
  BY <1>3, <1>4 DEF Memory
<1> QED BY <1>3, <1>5, <1>6

(* A step that writes nothing keeps what the tables say of the lineage.     *)
LEMMA QuietStep ==
    ASSUME LInv, UNCHANGED <<memory, links, runs>>, CallsKnow'
    PROVE  LInv'
<1>1. Numbered' /\ ReplacedOnce' /\ OldToNew'
  BY DEF LInv, Numbered, Used, Order, ReplacedOnce, OldToNew, Applied
<1>2. RunsStand' /\ ForwardFromRuns'
  BY DEF LInv, RunsStand, Stands, ForwardFromRuns, Applied
<1>3. Stacked'
  BY DEF LInv, Stacked, IsLatest, Replacing, Before, Order, Applied
<1> QED BY <1>1, <1>2, <1>3 DEF LInv

(* The steps of an operator that only read.                                 *)
LEMMA ReadingKnows ==
    ASSUME IInv, LInv, NEW p \in Operators,
           \/ \E k \in OperationKey : Preview(p, k) \/ RollbackChecks(p, k)
           \/ ApplyLooksUp(p) \/ ApplyPreviewsAgain(p) \/ ApplyReads(p) \/ Leaves(p)
    PROVE  LInv'
<1>1. UNCHANGED <<memory, links, runs>>
  BY DEF Preview, RollbackChecks, ApplyLooksUp, ApplyPreviewsAgain, ApplyReads, Leaves, Goto
<1>2. DOMAIN op = Operators
  BY DEF IInv, TypeOK
<1>3. ApplyKnows(op[p].key)' <=> ApplyKnows(op'[p].key)
  BY <1>1 DEF ApplyKnows
<1>4. RollbackKnows(op[p].key)' <=> RollbackKnows(op'[p].key)
  BY <1>1 DEF RollbackKnows, Applied
<1>5. SUFFICES /\ op'[p].step \in {"fresh", "read"} => ApplyKnows(op'[p].key)
               /\ op'[p].step = "checked" => RollbackKnows(op'[p].key)
  <2>1. ASSUME NEW q \in Operators \ {p}
        PROVE  /\ op'[q] = op[q]
               /\ ApplyKnows(op[q].key)' <=> ApplyKnows(op[q].key)
               /\ RollbackKnows(op[q].key)' <=> RollbackKnows(op[q].key)
    <3>1. \E o : op' = [op EXCEPT ![p] = o]
      BY DEF Preview, RollbackChecks, ApplyLooksUp, ApplyPreviewsAgain, ApplyReads, Leaves, Goto
    <3>2. op'[q] = op[q]
      BY <1>2, <3>1
    <3> QED BY <1>1, <3>2 DEF ApplyKnows, RollbackKnows, Applied
  <2>2. CallsKnow'
    BY <1>3, <1>4, <1>5, <2>1 DEF LInv, CallsKnow
  <2> QED BY <1>1, <2>2, QuietStep
<1>6. ASSUME NEW k \in OperationKey, Preview(p, k) PROVE op'[p].step = "previewed"
  BY <1>2, <1>6 DEF Preview
<1>7. ASSUME NEW k \in OperationKey, RollbackChecks(p, k)
      PROVE  op'[p].step = "checked" /\ RollbackKnows(op'[p].key)
  <2>1. op'[p].step = "checked" /\ op'[p].key = k
    BY <1>2, <1>7 DEF RollbackChecks
  <2>2. Applied(k) /\ Stands(k) /\ memory[k.new] = runs[k].after.new
    BY <1>7 DEF RollbackChecks, MayRollBack, Applied, LInv, RunsStand, Pair
  <2> QED BY <2>1, <2>2 DEF RollbackKnows, Stands
<1>8. CASE ApplyLooksUp(p)
  BY <1>2, <1>8 DEF ApplyLooksUp, Goto
<1>9. CASE ApplyPreviewsAgain(p)
  <2>1. op'[p].step = "fresh" /\ op'[p].key = op[p].key
    BY <1>2, <1>9 DEF ApplyPreviewsAgain, Goto
  <2>2. op[p].key \in OperationKey
    BY <1>9, KeyOfOp DEF ApplyPreviewsAgain
  <2>3. ApplyKnows(op[p].key)
    BY <1>9, <2>2, ReadyMeansEnds DEF ApplyPreviewsAgain, IInv
  <2> QED BY <2>1, <2>3
<1>10. CASE ApplyReads(p)
  <2>1. op'[p].step = "read" /\ op'[p].key = op[p].key /\ op[p].step = "fresh"
    BY <1>2, <1>10 DEF ApplyReads
  <2> QED BY <2>1 DEF LInv, CallsKnow
<1>11. CASE Leaves(p)
  BY <1>2, <1>11 DEF Leaves, Idle
<1> QED BY <1>6, <1>7, <1>8, <1>9, <1>10, <1>11

(* Archiving moves no pointer.                                              *)
LEMMA ArchiveKnows ==
    ASSUME IInv, LInv, NEW m \in Memories, Archive(m)
    PROVE  LInv'
<1>1. UNCHANGED <<links, runs, op>>
  BY DEF Archive
<1>2. \A n \in Memories :
        /\ memory'[n].superseded_by = memory[n].superseded_by
        /\ memory'[n].supersedes = memory[n].supersedes
        /\ memory'[n].state \in {memory[n].state, "archived"}
  BY DEF Archive, Archived, IInv, TypeOK, Memory
<1>3. \A k \in OperationKey : k.new \in Memories /\ k.old \in Memories
  BY DEF OperationKey
<1>4. Numbered' /\ ReplacedOnce' /\ OldToNew'
  BY <1>1 DEF LInv, Numbered, Used, Order, ReplacedOnce, OldToNew, Applied
<1>5. RunsStand'
  BY <1>1, <1>2, <1>3 DEF LInv, RunsStand, Stands, Applied
<1>6. ForwardFromRuns'
  BY <1>1, <1>2 DEF LInv, ForwardFromRuns, Applied
<1>7. Stacked'
  BY <1>1, <1>2 DEF LInv, Stacked, IsLatest, Replacing, Before, Order, Applied
<1>8. CallsKnow'
  <2>1. \A p \in Operators : op[p].step # "idle" => op[p].key \in OperationKey
    BY KeyOfOp
  <2> QED BY <1>1, <1>2, <1>3, <2>1 DEF LInv, CallsKnow, ApplyKnows, RollbackKnows, Applied
<1> QED BY <1>4, <1>5, <1>6, <1>7, <1>8 DEF LInv

(* After a transaction the others know what they knew, if it did not touch  *)
(* what those know that are past their fresh preview or check.              *)
LEMMA OthersKnow ==
    ASSUME IInv, LInv, NEW p \in Operators, op'[p].step = "idle",
           \A q \in Operators \ {p} : op'[q] = op[q],
           \A q \in Operators \ {p}, j \in OperationKey : Working(q) /\ j = op[q].key =>
               /\ ApplyKnows(j) => ApplyKnows(j)'
               /\ RollbackKnows(j) => RollbackKnows(j)'
    PROVE  CallsKnow'
<1> SUFFICES ASSUME NEW q \in Operators \ {p}
             PROVE  /\ op'[q].step \in {"fresh", "read"} => ApplyKnows(op[q].key)'
                    /\ op'[q].step = "checked" => RollbackKnows(op[q].key)'
  BY DEF CallsKnow
<1>1. CASE ~Working(q)
  BY <1>1 DEF Working
<1>2. CASE Working(q)
  <2>1. PICK j \in OperationKey : j = op[q].key
    BY <1>2, KeyOfOp DEF Working
  <2>2. /\ ApplyKnows(j) => ApplyKnows(j)'
        /\ RollbackKnows(j) => RollbackKnows(j)'
    BY <1>2, <2>1
  <2>3. /\ op[q].step \in {"fresh", "read"} => ApplyKnows(j)
        /\ op[q].step = "checked" => RollbackKnows(j)
    BY <2>1 DEF LInv, CallsKnow
  <2> QED BY <2>1, <2>2, <2>3 DEF ApplyKnows, RollbackKnows, Applied
<1> QED BY <1>1, <1>2

(* The transaction of apply adds its run on top: no applied run is later,   *)
(* none has replaced the same memory, and none has replaced the new one.    *)
LEMMA CommitKnows ==
    ASSUME Apart, IInv, LInv, NEW p \in Operators, ApplyCommits(p)
    PROVE  LInv'
<1> PICK k : k = op[p].key
  OBVIOUS
<1> PICK id : id = LinkOf(k, op[p].before.links)
  OBVIOUS
<1> DEFINE link == [from |-> k.new, to |-> k.old, archived |-> FALSE]
<1>1. k \in OperationKey /\ \A j \in OperationKey : j.new \in Memories /\ j.old \in Memories
  BY KeyOfOp DEF ApplyCommits, OperationKey
<1>2. /\ k.new # k.old /\ memory[k.old].superseded_by = None
      /\ memory[k.new].superseded_by = None
  BY DEF LInv, CallsKnow, ApplyKnows, ApplyCommits
<1>3. \A m \in Memories :
        /\ memory'[m].superseded_by = IF m = k.old THEN k.new ELSE memory[m].superseded_by
        /\ memory'[m].supersedes = IF m = k.new THEN k.old ELSE memory[m].supersedes
        /\ memory'[m].state = IF m = k.old THEN "superseded" ELSE memory[m].state
  BY <1>1, <1>2, CommitRows
<1>4. /\ op[p].before = Pair(k.new, k.old)
      /\ runs[k] = NoRun
      /\ DOMAIN runs' = OperationKey
      /\ \A j \in OperationKey \ {k} : runs'[j] = runs[j]
  BY <1>1 DEF ApplyCommits, Unchanged, IInv, TypeOK
<1>5. /\ runs'[k].status = "applied" /\ runs'[k].link = id
      /\ runs'[k].order = Cardinality(Used)
      /\ runs'[k].before = Pair(k.new, k.old)
      /\ runs'[k].after.new = memory'[k.new]
  BY <1>1, <1>4 DEF ApplyCommits, Used, IInv, TypeOK
<1>6. runs'[k] # NoRun /\ NoRun.status = "none"
  BY <1>5 DEF NoRun
<1>7. \A j \in OperationKey : Applied(j)' <=> Applied(j) \/ j = k
  BY <1>1, <1>4, <1>5 DEF Applied
<1>8. ~Applied(k)
  BY <1>4, <1>6 DEF Applied
<1>9. \A j \in OperationKey \ {k} : Order(j)' = Order(j)
  BY <1>4 DEF Order
<1>10. Order(k)' = Cardinality(Used) /\ Cardinality(Used) \in Nat
  BY <1>5, FS_CardinalityType DEF Order, LInv, Numbered
<1>11. \A j \in OperationKey : Applied(j) =>
         /\ j \in Used /\ Order(j) \in Nat /\ Order(j) < Cardinality(Used)
         /\ Stands(j) /\ j.old # k.old /\ j.old # k.new
  <2> TAKE j \in OperationKey
  <2> HAVE Applied(j)
  <2>1. j \in Used
    BY <1>6 DEF Applied, Used
  <2>2. Stands(j)
    BY DEF LInv, RunsStand
  <2>3. memory[j.old].superseded_by # None
    BY <1>1, <2>2, ConstantsAssumption DEF Stands
  <2> QED BY <1>2, <2>1, <2>2, <2>3 DEF LInv, Numbered
<1>12. Numbered'
  <2>1. Used' = Used \cup {k} /\ k \notin Used
    BY <1>1, <1>4, <1>6 DEF Used
  <2>2. IsFiniteSet(Used) /\ Cardinality(Used) \in Nat
    BY <1>10 DEF LInv, Numbered
  <2>3. IsFiniteSet(Used') /\ Cardinality(Used') = Cardinality(Used) + 1
    BY <2>1, <2>2, FS_AddElement
  <2>4. \A j \in Used : Order(j)' = Order(j) /\ Order(j) \in Nat /\ Order(j) < Cardinality(Used)
    BY <1>9, <2>1 DEF LInv, Numbered, Used
  <2>5. \A j \in Used' : Order(j)' \in Nat /\ Order(j)' < Cardinality(Used')
    BY <1>10, <2>1, <2>2, <2>3, <2>4
  <2>6. \A i, j \in Used' : Order(i)' = Order(j)' => i = j
    <3> SUFFICES ASSUME NEW i \in Used', NEW j \in Used', Order(i)' = Order(j)' PROVE i = j
      OBVIOUS
    <3>1. CASE i = k \/ j = k
      BY <1>10, <2>1, <2>2, <2>4, <3>1
    <3>2. CASE i \in Used /\ j \in Used
      BY <2>4, <3>2 DEF LInv, Numbered
    <3> QED BY <2>1, <3>1, <3>2
  <2> QED BY <2>3, <2>5, <2>6 DEF Numbered
<1>13. RunsStand'
  <2>1. Stands(k)'
    <3>1. memory'[k.old].superseded_by = k.new /\ memory'[k.old].state = "superseded"
      BY <1>1, <1>3
    <3>2. links'[id] = link
      <4>1. CASE id \in DOMAIN links
        BY <1>1, <1>4, <4>1, LinkPlace DEF IInv, ApplyCommits, TypeOK
      <4>2. CASE id \notin DOMAIN links
        <5>1. id \in DOMAIN links' \ DOMAIN links
          BY <1>1, <4>2, ApplyCommitsTables
        <5>2. \A i \in DOMAIN links' \ DOMAIN links : links'[i] = link
          BY <1>1, ApplyCommitsTables
        <5> QED BY <5>1, <5>2
      <4> QED BY <4>1, <4>2
    <3>3. runs'[k].before.old.superseded_by = None
      BY <1>2, <1>5 DEF Pair
    <3>4. runs'[k].after.new.superseded_by = None /\ runs'[k].after.new.supersedes = k.old
      BY <1>1, <1>2, <1>3, <1>5
    <3> QED BY <1>5, <3>1, <3>2, <3>3, <3>4 DEF Stands
  <2>2. ASSUME NEW j \in OperationKey, Applied(j) PROVE Stands(j)'
    <3>1. runs'[j] = runs[j] /\ Stands(j) /\ j.old # k.old
      BY <1>4, <1>8, <1>11, <2>2
    <3>2. runs[j].link \in DOMAIN links /\ links'[runs[j].link] = links[runs[j].link]
      <4>1. runs[j].link \in DOMAIN links
        BY <1>6, <2>2 DEF IInv, TypeOK, IsRun, Applied
      <4> QED BY <1>1, <4>1, ApplyCommitsTables
    <3> QED BY <1>1, <1>3, <3>1, <3>2 DEF Stands
  <2> QED BY <1>7, <2>1, <2>2 DEF RunsStand
<1>14. ReplacedOnce'
  BY <1>7, <1>11 DEF LInv, ReplacedOnce
<1>15. OldToNew'
  <2> SUFFICES ASSUME NEW i \in OperationKey, NEW j \in OperationKey,
                      Applied(i)', Applied(j)', i.new = j.old
               PROVE  Order(i)' < Order(j)'
    BY DEF OldToNew
  <2>1. CASE Applied(i) /\ Applied(j)
    BY <1>8, <1>9, <2>1 DEF LInv, OldToNew
  <2>2. CASE i = k
    BY <1>2, <1>7, <1>11, <2>2
  <2>3. CASE j = k /\ i # k
    BY <1>7, <1>9, <1>10, <1>11, <2>3
  <2> QED BY <1>7, <2>1, <2>2, <2>3
<1>16. ForwardFromRuns'
  BY <1>1, <1>3, <1>7 DEF LInv, ForwardFromRuns
<1>17. Stacked'
  <2>1. ASSUME NEW n \in Memories, n # k.new PROVE IsLatest(memory[n].supersedes, Replacing(n))'
    <3>1. Replacing(n)' = Replacing(n) /\ k \notin Replacing(n)
      BY <1>7, <2>1 DEF Replacing
    <3>2. \A j \in Replacing(n) : Order(j)' = Order(j)
      BY <1>9, <3>1 DEF Replacing
    <3>3. IsLatest(memory[n].supersedes, Replacing(n))
      BY DEF LInv, Stacked
    <3> QED BY <1>3, <2>1, <3>1, <3>2, <3>3 DEF IsLatest
  <2>2. IsLatest(memory[k.new].supersedes, Replacing(k.new))'
    <3>1. k \in Replacing(k.new)' /\ memory'[k.new].supersedes = k.old
      BY <1>1, <1>3, <1>7 DEF Replacing
    <3>2. \A j \in Replacing(k.new)' : j = k \/ Order(j)' < Order(k)'
      BY <1>7, <1>9, <1>10, <1>11 DEF Replacing
    <3> QED BY <3>1, <3>2 DEF IsLatest
  <2>3. ASSUME NEW j \in OperationKey, Applied(j)
        PROVE  IsLatest(runs[j].before.new.supersedes, Before(j))'
    <3>1. j # k /\ runs'[j] = runs[j] /\ Order(j)' = Order(j)
      BY <1>4, <1>8, <1>9, <2>3
    <3>2. k \notin Before(j)'
      BY <1>10, <1>11, <2>3, <3>1 DEF LInv, Numbered, Before
    <3>3. Before(j)' = Before(j) /\ \A i \in Before(j) : Order(i)' = Order(i)
      BY <1>7, <1>8, <1>9, <3>1, <3>2 DEF Before, Replacing
    <3>4. IsLatest(runs[j].before.new.supersedes, Before(j))
      BY <2>3 DEF LInv, Stacked
    <3> QED BY <3>1, <3>3, <3>4 DEF IsLatest
  <2>4. IsLatest(runs[k].before.new.supersedes, Before(k))'
    <3>1. runs'[k].before.new.supersedes = memory[k.new].supersedes
      BY <1>5 DEF Pair
    <3>2. Before(k)' = Replacing(k.new)
      BY <1>7, <1>8, <1>9, <1>10, <1>11 DEF Before, Replacing
    <3>3. \A j \in Replacing(k.new) : Order(j)' = Order(j)
      BY <1>8, <1>9 DEF Replacing
    <3>4. IsLatest(memory[k.new].supersedes, Replacing(k.new))
      BY <1>1 DEF LInv, Stacked
    <3> QED BY <3>1, <3>2, <3>3, <3>4 DEF IsLatest
  <2> QED BY <1>7, <2>1, <2>2, <2>3, <2>4 DEF Stacked
<1>18. CallsKnow'
  <2>1. op'[p].step = "idle"
    BY DEF ApplyCommits, Idle, IInv, TypeOK
  <2>2. \A q \in Operators \ {p} : op'[q] = op[q]
    BY DEF ApplyCommits
  <2>3. ASSUME NEW q \in Operators \ {p}, NEW j \in OperationKey, Working(q), j = op[q].key
        PROVE  /\ ApplyKnows(j) => ApplyKnows(j)'
               /\ RollbackKnows(j) => RollbackKnows(j)'
    <3>1. {j.new, j.old} \cap {k.new, k.old} = {}
      BY <2>3 DEF Apart, Working, Touches, ApplyCommits
    <3>2. ApplyKnows(j) => ApplyKnows(j)'
      BY <1>1, <1>3, <3>1 DEF ApplyKnows
    <3>3. RollbackKnows(j) => RollbackKnows(j)'
      BY <1>1, <1>3, <1>7, <3>1 DEF RollbackKnows
    <3> QED BY <3>2, <3>3
  <2> QED BY <2>1, <2>2, <2>3, OthersKnow
<1> QED BY <1>12, <1>13, <1>14, <1>15, <1>16, <1>17, <1>18 DEF LInv

(* The run that a rollback takes back is the latest of its replacement: the *)
(* pointer back is to what it replaced.                                     *)
LEMMA TopOfStack ==
    ASSUME LInv, NEW k \in OperationKey, RollbackKnows(k)
    PROVE  \A j \in Replacing(k.new) : j = k \/ Order(j) < Order(k)
<1>1. k \in Replacing(k.new) /\ k.new \in Memories
  BY DEF RollbackKnows, Replacing, OperationKey
<1>2. PICK top \in Replacing(k.new) :
        /\ top.old = memory[k.new].supersedes
        /\ \A j \in Replacing(k.new) : j = top \/ Order(j) < Order(top)
  <2>1. IsLatest(memory[k.new].supersedes, Replacing(k.new))
    BY <1>1 DEF LInv, Stacked
  <2> QED BY <1>1, <2>1 DEF IsLatest
<1>3. top = k
  BY <1>1, <1>2 DEF RollbackKnows, Replacing, LInv, ReplacedOnce
<1> QED BY <1>2, <1>3

(* The transaction of a rollback takes the top of a stack: the pointer back *)
(* is to what the run replaced, so no other run of that replacement is      *)
(* later, and the pointer it restores is to what the next one replaced.     *)
LEMMA RollbackKeeps ==
    ASSUME Apart, IInv, LInv, NEW p \in Operators, RollbackCommits(p)
    PROVE  LInv'
<1> PICK k : k = op[p].key
  OBVIOUS
<1>1. k \in OperationKey /\ \A j \in OperationKey : j.new \in Memories /\ j.old \in Memories
  BY KeyOfOp DEF RollbackCommits, OperationKey
<1>2. RollbackKnows(k)
  BY DEF LInv, CallsKnow, RollbackCommits
<1>3. Applied(k) /\ Stands(k)
  BY <1>1, <1>2 DEF RollbackKnows, LInv, RunsStand
<1>4. k.new # k.old
  BY <1>1, <1>2, <1>3, ConstantsAssumption DEF RollbackKnows, Stands
<1>5. \A m \in Memories :
        /\ memory'[m].superseded_by = IF m = k.old THEN None ELSE memory[m].superseded_by
        /\ memory'[m].supersedes =
             IF m = k.new THEN runs[k].before.new.supersedes ELSE memory[m].supersedes
        /\ m \notin {k.new, k.old} => memory'[m].state = memory[m].state
  BY <1>1, <1>3, <1>4, RollbackRows DEF Stands
<1>6. /\ runs[k] # NoRun
      /\ runs'[k] = [runs[k] EXCEPT !.status = "rolled_back"]
      /\ runs'[k].status = "rolled_back"
      /\ \A j \in OperationKey \ {k} : runs'[j] = runs[j]
  BY <1>1, RollbackRecords
<1>7. \A j \in OperationKey : Applied(j)' <=> Applied(j) /\ j # k
  BY <1>6 DEF Applied
<1>8. \A j \in OperationKey : Order(j)' = Order(j)
  <2>1. runs'[k].order = runs[k].order
    BY <1>6
  <2> QED BY <1>6, <2>1 DEF Order
<1>9. \A j \in OperationKey : Applied(j) =>
        j \in Used /\ Order(j) \in Nat /\ (j # k => j.old # k.old /\ j.old # k.new)
  <2> TAKE j \in OperationKey
  <2> HAVE Applied(j)
  <2>1. j \in Used
    BY DEF Applied, Used, NoRun
  <2>2. memory[j.old].superseded_by # None
    BY <1>1, ConstantsAssumption DEF LInv, RunsStand, Stands
  <2> QED BY <1>1, <1>2, <1>3, <2>1, <2>2 DEF LInv, Numbered, ReplacedOnce, RollbackKnows
<1>10. \A j \in Replacing(k.new) : j = k \/ Order(j) < Order(k)
  BY <1>1, <1>2, TopOfStack
<1>11. Numbered'
  <2>1. runs'[k] # NoRun
    BY <1>6 DEF NoRun
  <2>2. Used' = Used
    BY <1>1, <1>6, <2>1 DEF Used
  <2> QED BY <1>8, <2>2 DEF LInv, Numbered, Used
<1>12. RunsStand'
  <2> SUFFICES ASSUME NEW j \in OperationKey, Applied(j), j # k PROVE Stands(j)'
    BY <1>7 DEF RunsStand
  <2>1. Stands(j) /\ runs'[j] = runs[j] /\ j.old # k.old /\ j.old # k.new
    BY <1>6, <1>9 DEF LInv, RunsStand
  <2>2. links'[runs[j].link] = links[runs[j].link]
    <3>1. links[runs[j].link] # links[runs[k].link]
      BY <1>3, <2>1 DEF Stands
    <3>2. runs[j].link # runs[k].link
      BY <3>1
    <3> QED BY <3>2 DEF RollbackCommits
  <2> QED BY <1>1, <1>5, <2>1, <2>2 DEF Stands
<1>13. ReplacedOnce' /\ OldToNew'
  BY <1>7, <1>8 DEF LInv, ReplacedOnce, OldToNew
<1>14. ForwardFromRuns'
  <2> SUFFICES ASSUME NEW m \in Memories, m # k.old, memory[m].superseded_by # None
               PROVE  \E j \in OperationKey : Applied(j)' /\ j.old = m
    BY <1>5 DEF ForwardFromRuns
  <2>1. PICK j \in OperationKey : Applied(j) /\ j.old = m
    BY DEF LInv, ForwardFromRuns
  <2> QED BY <1>7, <2>1
<1>15. Stacked'
  <2>1. ASSUME NEW n \in Memories, n # k.new PROVE IsLatest(memory[n].supersedes, Replacing(n))'
    <3>1. Replacing(n)' = Replacing(n)
      BY <1>7, <2>1 DEF Replacing
    <3>2. \A j \in Replacing(n) : Order(j)' = Order(j)
      BY <1>8 DEF Replacing
    <3>3. IsLatest(memory[n].supersedes, Replacing(n))
      BY DEF LInv, Stacked
    <3> QED BY <1>5, <2>1, <3>1, <3>2, <3>3 DEF IsLatest
  <2>2. IsLatest(memory[k.new].supersedes, Replacing(k.new))'
    <3>1. Replacing(k.new)' = Before(k)
      BY <1>7, <1>9, <1>10 DEF Before, Replacing
    <3>2. \A j \in Before(k) : Order(j)' = Order(j)
      BY <1>8 DEF Before, Replacing
    <3>3. IsLatest(runs[k].before.new.supersedes, Before(k))
      BY <1>1, <1>3 DEF LInv, Stacked
    <3> QED BY <1>1, <1>5, <3>1, <3>2, <3>3 DEF IsLatest
  <2>3. ASSUME NEW j \in OperationKey, Applied(j), j # k
        PROVE  IsLatest(runs[j].before.new.supersedes, Before(j))'
    <3>1. Before(j)' = Before(j)
      BY <1>1, <1>3, <1>7, <1>8, <1>9, <1>10, <2>3 DEF Before, Replacing
    <3>2. \A i \in Before(j) : Order(i)' = Order(i)
      BY <1>8 DEF Before, Replacing
    <3>3. IsLatest(runs[j].before.new.supersedes, Before(j)) /\ runs'[j] = runs[j]
      BY <1>6, <2>3 DEF LInv, Stacked
    <3> QED BY <3>1, <3>2, <3>3 DEF IsLatest
  <2> QED BY <1>7, <2>1, <2>2, <2>3 DEF Stacked
<1>16. CallsKnow'
  <2>1. op'[p].step = "idle"
    BY DEF RollbackCommits, Idle, IInv, TypeOK
  <2>2. \A q \in Operators \ {p} : op'[q] = op[q]
    BY DEF RollbackCommits
  <2>3. ASSUME NEW q \in Operators \ {p}, NEW j \in OperationKey, Working(q), j = op[q].key
        PROVE  /\ ApplyKnows(j) => ApplyKnows(j)'
               /\ RollbackKnows(j) => RollbackKnows(j)'
    <3>1. {j.new, j.old} \cap {k.new, k.old} = {}
      BY <2>3 DEF Apart, Working, Touches, RollbackCommits
    <3>2. ApplyKnows(j) => ApplyKnows(j)'
      BY <1>1, <1>5, <3>1 DEF ApplyKnows
    <3>3. RollbackKnows(j) => RollbackKnows(j)'
      BY <1>1, <1>5, <1>7, <3>1 DEF RollbackKnows
    <3> QED BY <3>2, <3>3
  <2> QED BY <2>1, <2>2, <2>3, OthersKnow
<1> QED BY <1>11, <1>12, <1>13, <1>14, <1>15, <1>16 DEF LInv

(* The initial states have no lineage.                                      *)
LEMMA InitLineage == Init => LInv
<1> SUFFICES ASSUME Init PROVE LInv
  OBVIOUS
<1>1. \A k \in OperationKey : ~Applied(k)
  BY DEF Init, Applied, NoRun
<1>2. Used = {}
  BY DEF Init, Used
<1>3. \A n \in Memories : memory[n].superseded_by = None /\ memory[n].supersedes = None
  BY DEF Init
<1>4. \A n \in Memories : Replacing(n) = {}
  BY <1>1 DEF Replacing
<1>5. CallsKnow
  BY DEF Init, Idle, CallsKnow
<1>6. Numbered
  BY <1>2, FS_EmptySet DEF Numbered
<1>7. RunsStand /\ ReplacedOnce /\ OldToNew /\ ForwardFromRuns
  BY <1>1, <1>3 DEF RunsStand, ReplacedOnce, OldToNew, ForwardFromRuns
<1>8. Stacked
  BY <1>1, <1>3, <1>4 DEF Stacked, IsLatest
<1> QED BY <1>5, <1>6, <1>7, <1>8 DEF LInv

(* Every step of an operator, and every archiving, keeps it.                *)
LEMMA NextLineage ==
    ASSUME Apart, IInv, LInv, [Next]_vars
    PROVE  LInv'
<1>1. ASSUME NEW p \in Operators, Step(p) PROVE LInv'
  BY <1>1, ReadingKnows, CommitKnows, RollbackKeeps DEF Step
<1>2. ASSUME NEW m \in Archivable, Archive(m) PROVE LInv'
  BY <1>2, ArchiveKnows, ConstantsAssumption
<1>3. CASE UNCHANGED vars
  <2>1. CallsKnow'
    BY <1>3 DEF vars, LInv, CallsKnow, ApplyKnows, RollbackKnows, Applied
  <2> QED BY <1>3, <2>1, QuietStep DEF vars
<1> QED BY <1>1, <1>2, <1>3 DEF Next

(* If calls that overlap are always about other memories the lineage is in  *)
(* order, whatever previews, applies, rollbacks and archivals follow one    *)
(* another (supersession.py:777-906, 1200-1340).                            *)
THEOREM LineageInvariant ==
    Spec /\ []Apart => [](IInv /\ LInv)
<1>1. Init => IInv /\ LInv
  BY InitInv, InitLineage
<1>2. Apart /\ IInv /\ LInv /\ [Next]_vars => (IInv /\ LInv)'
  BY NextInv, NextLineage
<1> QED BY <1>1, <1>2, PTL DEF Spec

(* Two runs of which one is later.                                          *)
LEMMA LaterIsOrder ==
    ASSUME NEW j \in OperationKey, NEW k \in OperationKey, Applied(j), Applied(k)
    PROVE  Later(j, k) <=> Order(j) > Order(k)
BY DEF Applied, Later, Order, NoRun

(* What apply did to the pair, the state and the links is still there for   *)
(* every run that was not rolled back, and there is no pointer beside       *)
(* (supersession.py:829-906, 1283-1340).                                    *)
THEOREM LineageStands ==
    Spec /\ []Apart => []LineageIntact
<1>1. ASSUME IInv, LInv PROVE LineageIntact
  <2>1. ASSUME NEW k \in OperationKey, Applied(k)
        PROVE  /\ memory[k.old].superseded_by = k.new
               /\ memory[k.old].state \in {"superseded", "archived"}
               /\ ~links[runs[k].link].archived
               /\ \/ memory[k.new].supersedes = k.old
                  \/ \E j \in OperationKey : Applied(j) /\ Later(j, k) /\ j.new = k.new
    <3>1. Stands(k)
      BY <1>1, <2>1 DEF LInv, RunsStand
    <3>2. k \in Replacing(k.new) /\ IsLatest(memory[k.new].supersedes, Replacing(k.new))
      BY <1>1, <2>1 DEF LInv, Stacked, Replacing, OperationKey
    <3>3. PICK top \in Replacing(k.new) :
             /\ top.old = memory[k.new].supersedes
             /\ k = top \/ Order(k) < Order(top)
      BY <3>2 DEF IsLatest
    <3>4. Order(k) < Order(top) => Later(top, k)
      <4>1. Order(k) \in Nat /\ Order(top) \in Nat
        BY <1>1, <2>1, <3>3 DEF LInv, Numbered, Used, Replacing, Applied, NoRun
      <4> QED BY <2>1, <3>3, <4>1, LaterIsOrder DEF Replacing
    <3> QED BY <3>1, <3>3, <3>4 DEF Stands, Replacing
  <2>2. ASSUME NEW m \in Memories, NEW n \in Memories, memory[m].superseded_by = n
        PROVE  \E k \in OperationKey : Applied(k) /\ k.old = m /\ k.new = n
    <3>1. PICK k \in OperationKey : Applied(k) /\ k.old = m
      BY <1>1, <2>2, ConstantsAssumption DEF LInv, ForwardFromRuns
    <3>2. k.new = n
      BY <1>1, <2>2, <3>1 DEF LInv, RunsStand, Stands
    <3> QED BY <3>1, <3>2
  <2>3. ASSUME NEW m \in Memories, NEW n \in Memories, memory[n].supersedes = m
        PROVE  \E k \in OperationKey : Applied(k) /\ k.old = m /\ k.new = n
    BY <1>1, <2>3, ConstantsAssumption DEF LInv, Stacked, IsLatest, Replacing
  <2> QED BY <2>1, <2>2, <2>3 DEF LineageIntact
<1> QED BY <1>1, LineageInvariant, PTL

(* A memory that supersedes another one is the replacement of a run.        *)
LEMMA BackFromRuns ==
    ASSUME LInv, NEW n \in Memories, NEW m \in Parents(n)
    PROVE  \E k \in OperationKey : Applied(k) /\ k.old = m /\ k.new = n
BY DEF Parents, LInv, Stacked, IsLatest, Replacing

(* No memory is its own ancestor: along the pointers back runs get older    *)
(* (supersession.py:50-87, 829-906).                                        *)
THEOREM NoCycles ==
    Spec /\ []Apart => []Acyclic
<1>1. ASSUME IInv, LInv PROVE Acyclic
  <2> SUFFICES ASSUME NEW m \in Memories PROVE m \notin Ancestors(m)
    BY DEF Acyclic
  <2> DEFINE older == {x \in Memories : \E j, k \in OperationKey :
                         Applied(j) /\ Applied(k) /\ j.old = x /\ k.new = m /\ Order(j) <= Order(k)
                         /\ k.old \in Parents(m)}
             successors == [x \in Memories |-> Parents(x)]
  <2>1. \A k \in OperationKey : Applied(k) => Order(k) \in Nat
    BY <1>1 DEF LInv, Numbered, Used, Applied, NoRun
  <2>2. \A x \in Memories : Parents(x) \subseteq Memories
    BY <1>1 DEF IInv, TypeOK, Memory, Parents
  <2>3. Parents(m) \subseteq older
    <3> SUFFICES ASSUME NEW x \in Parents(m) PROVE x \in older
      OBVIOUS
    <3>1. PICK k \in OperationKey : Applied(k) /\ k.old = x /\ k.new = m
      BY <1>1, BackFromRuns
    <3> QED BY <2>1, <2>2, <3>1
  <2>4. ASSUME NEW x \in older PROVE successors[x] \subseteq older
    <3> SUFFICES ASSUME NEW y \in Parents(x) PROVE y \in older
      OBVIOUS
    <3>1. PICK j \in OperationKey, k \in OperationKey :
             /\ Applied(j) /\ Applied(k) /\ j.old = x /\ k.new = m /\ Order(j) <= Order(k)
             /\ k.old \in Parents(m)
      BY <2>4
    <3>2. PICK i \in OperationKey : Applied(i) /\ i.old = y /\ i.new = x
      BY <1>1, BackFromRuns
    <3>3. Order(i) < Order(j)
      BY <1>1, <3>1, <3>2 DEF LInv, OldToNew
    <3>4. Order(i) <= Order(k)
      BY <2>1, <3>1, <3>2, <3>3
    <3> QED BY <2>2, <3>1, <3>2, <3>4
  <2>5. Ancestors(m) \subseteq older
    <3> HIDE DEF older
    <3>1. older \in SUBSET Memories
      BY DEF older
    <3>2. Closure(Parents(m), successors) \subseteq older
      BY <2>3, <2>4, <3>1, ClosureLeast
    <3> QED BY <3>2 DEF Ancestors
  <2>6. m \notin older
    <3> SUFFICES ASSUME NEW j \in OperationKey, NEW k \in OperationKey,
                        Applied(j), Applied(k), j.old = m, k.new = m, Order(j) <= Order(k)
                 PROVE  FALSE
      OBVIOUS
    <3>1. Order(k) < Order(j)
      BY <1>1 DEF LInv, OldToNew
    <3> QED BY <2>1, <3>1
  <2> QED BY <2>5, <2>6
<1> QED BY <1>1, LineageInvariant, PTL

(* What supersedes a memory is what replaced it, and nothing else does.     *)
LEMMA OneChild ==
    ASSUME LInv, NEW m \in Memories, NEW n \in Memories, m \in Parents(n)
    PROVE  /\ memory[m].superseded_by # None
           /\ \A x \in Memories : m \in Parents(x) => x = n
<1>1. PICK k \in OperationKey : Applied(k) /\ k.old = m /\ k.new = n
  BY BackFromRuns
<1>2. memory[m].superseded_by = n
  BY <1>1 DEF LInv, RunsStand, Stands
<1>3. ASSUME NEW x \in Memories, m \in Parents(x) PROVE x = n
  <2>1. PICK j \in OperationKey : Applied(j) /\ j.old = m /\ j.new = x
    BY <1>3, BackFromRuns
  <2> QED BY <1>1, <2>1 DEF LInv, ReplacedOnce
<1> QED BY <1>2, <1>3, ConstantsAssumption

(* A head and its ancestors: a chain in which only the head has no child.   *)
Chain(h) == {h} \cup Ancestors(h)

(* A chain goes down to where it ends, and up to its head only.             *)
LEMMA ChainLinks ==
    ASSUME IInv, LInv, NEW h \in Memories
    PROVE  /\ Chain(h) \subseteq Memories
           /\ \A x \in Chain(h) : Parents(x) \subseteq Chain(h)
           /\ \A x \in Chain(h) : x = h \/ \E z \in Chain(h) : x \in Parents(z)
<1> DEFINE successors == [x \in Memories |-> Parents(x)]
           below == {x \in Ancestors(h) : \E z \in Chain(h) : x \in Parents(z)}
<1>1. \A x \in Memories : Parents(x) \subseteq Memories
  BY DEF IInv, TypeOK, Memory, Parents
<1>2. Chain(h) \subseteq Memories /\ Ancestors(h) = Closure(Parents(h), successors)
  BY DEF Chain, Ancestors, Closure
<1>3. Parents(h) \subseteq Ancestors(h)
  BY <1>1, <1>2, ClosureStarts
<1>4. ASSUME NEW x \in Ancestors(h) PROVE Parents(x) \subseteq Ancestors(h)
  <2>1. x \in Memories /\ successors[x] = Parents(x)
    BY <1>2 DEF Chain
  <2> QED BY <1>1, <1>2, <2>1, ClosureGrows
<1>5. Ancestors(h) \subseteq below
  <2>1. below \in SUBSET Memories /\ Parents(h) \subseteq below
    BY <1>2, <1>3 DEF Chain
  <2>2. \A x \in below : successors[x] \subseteq below
    BY <1>2, <1>4 DEF Chain
  <2> HIDE DEF below
  <2> QED BY <1>2, <2>1, <2>2, ClosureLeast
<1> QED BY <1>2, <1>3, <1>4, <1>5 DEF Chain

(* A set that pointers neither enter nor leave holds the component of each  *)
(* of its members.                                                          *)
LEMMA ComponentInside ==
    ASSUME NEW T \in SUBSET Memories, NEW m \in T,
           \A x \in T, y \in Memories : y \in Parents(x) \/ x \in Parents(y) => y \in T
    PROVE  Component(m, Memories, {}) \subseteq T
<1> DEFINE joined == [x \in Memories |->
        {y \in Memories : \/ y \in Parents(x) \/ x \in Parents(y)
                          \/ <<x, y>> \in {} \/ <<y, x>> \in {}}]
<1>1. \A x \in T : joined[x] \subseteq T
  OBVIOUS
<1>2. Component(m, Memories, {}) = Closure({m}, joined)
  BY DEF Component
<1> HIDE DEF joined
<1> QED BY <1>1, <1>2, ClosureLeast

(* Memories joined by lineage have at most one active head: the component   *)
(* of a head is the chain below it, and all else in a chain is replaced     *)
(* (supersession.py:131-347, 829-906).                                      *)
THEOREM HeadIsUnique ==
    Spec /\ []Apart => []OneHead
<1>1. ASSUME IInv, LInv PROVE OneHead
  <2>1. ASSUME NEW m \in Memories, NEW h \in Component(m, Memories, {}), IsHead(h),
               NEW g \in Component(m, Memories, {}), IsHead(g)
        PROVE  g = h
    <3>1. h \in Memories /\ g \in Memories
      BY DEF Component, Closure
    <3>2. ASSUME NEW x \in Chain(h), NEW y \in Memories, y \in Parents(x) \/ x \in Parents(y)
          PROVE  y \in Chain(h)
      <4>1. x \in Memories
        BY <1>1, <3>1, ChainLinks
      <4>2. x \in Parents(y) => x # h
        BY <1>1, <2>1, <4>1, OneChild DEF IsHead
      <4>3. x # h => \E z \in Chain(h) : x \in Parents(z) /\ z \in Memories
        BY <1>1, <3>1, ChainLinks
      <4> QED BY <1>1, <3>1, <3>2, <4>1, <4>2, <4>3, ChainLinks, OneChild
    <3>3. m \in Chain(h)
      <4> SUFFICES ASSUME m \notin Chain(h) PROVE FALSE
        OBVIOUS
      <4>1. \A x \in Memories \ Chain(h), y \in Memories :
              y \in Parents(x) \/ x \in Parents(y) => y \in Memories \ Chain(h)
        BY <3>2
      <4>2. Component(m, Memories, {}) \subseteq Memories \ Chain(h)
        BY <4>1, ComponentInside
      <4> QED BY <4>2 DEF Chain
    <3>4. g \in Chain(h)
      <4>1. Chain(h) \in SUBSET Memories
        BY <1>1, <3>1, ChainLinks
      <4> QED BY <3>2, <3>3, <4>1, ComponentInside
    <3>5. ASSUME g # h PROVE FALSE
      <4>1. PICK z \in Chain(h) : g \in Parents(z) /\ z \in Memories
        BY <1>1, <3>1, <3>4, <3>5, ChainLinks
      <4> QED BY <1>1, <2>1, <3>1, <4>1, OneChild DEF IsHead
    <3> QED BY <3>5
  <2>2. ASSUME NEW m \in Memories
        PROVE  Cardinality({h \in Component(m, Memories, {}) : IsHead(h)}) <= 1
    <3> DEFINE heads == {h \in Component(m, Memories, {}) : IsHead(h)}
    <3>1. heads = {} \/ \E h : heads = {h}
      BY <2>1
    <3> HIDE DEF heads
    <3>2. Cardinality(heads) \in {0, 1}
      BY <3>1, FS_EmptySet, FS_Singleton
    <3> QED BY <3>2 DEF heads
  <2> QED BY <2>2 DEF OneHead
<1> QED BY <1>1, LineageInvariant, PTL

(* Only a rollback takes a run back.                                        *)
LEMMA TakenBackByRollback ==
    ASSUME IInv, [Next]_vars, NEW k \in OperationKey, Applied(k), ~Applied(k)'
    PROVE  \E p \in Operators : op[p].step = "checked" /\ op[p].key = k
<1>1. ASSUME NEW p \in Operators, ApplyCommits(p) PROVE FALSE
  <2>1. op[p].key \in OperationKey
    BY <1>1, KeyOfOp DEF ApplyCommits
  <2>2. /\ runs'[op[p].key].status = "applied"
        /\ \A j \in OperationKey : j # op[p].key => runs'[j] = runs[j]
    BY <1>1, <2>1, CommitRecords
  <2> QED BY <2>1, <2>2 DEF Applied
<1>2. ASSUME NEW p \in Operators, RollbackCommits(p)
      PROVE  op[p].step = "checked" /\ op[p].key = k
  <2>1. op[p].key \in OperationKey
    BY <1>2, KeyOfOp DEF RollbackCommits
  <2>2. \A j \in OperationKey : j # op[p].key => runs'[j] = runs[j]
    BY <1>2, <2>1, RollbackRecords
  <2> QED BY <1>2, <2>1, <2>2 DEF Applied, RollbackCommits
<1>3. UNCHANGED runs => FALSE
  BY DEF Applied
<1>4. \A m \in Archivable : ~Archive(m)
  BY <1>3 DEF Archive
<1> QED BY <1>1, <1>2, <1>3, <1>4, OtherStepsWriteNothing

(* A run is taken back after every later run on its memories: what those    *)
(* would restore is still there when it is their turn                       *)
(* (supersession.py:1090-1180, 1283-1340).                                  *)
THEOREM RunsAreStacked ==
    Spec /\ []Apart => LastInFirstOut
<1>1. ASSUME IInv, LInv, [Next]_vars,
             NEW j \in OperationKey, NEW k \in OperationKey,
             Applied(k), ~Applied(k)', Touches(j, k), Later(j, k), Applied(j)
      PROVE  FALSE
  <2>1. RollbackKnows(k)
    BY <1>1, TakenBackByRollback DEF LInv, CallsKnow
  <2>2. Stands(j) /\ Stands(k)
    BY <1>1 DEF LInv, RunsStand
  <2>3. Order(j) \in Nat /\ Order(k) \in Nat /\ Order(j) > Order(k)
    BY <1>1, LaterIsOrder DEF LInv, Numbered, Used, Later
  <2>4. CASE j.new = k.new
    <3>1. j \in Replacing(k.new)
      BY <1>1, <2>4 DEF Replacing
    <3> QED BY <1>1, <2>1, <2>3, <3>1, TopOfStack
  <2>5. CASE j.old = k.old
    BY <1>1, <2>3, <2>5 DEF LInv, ReplacedOnce
  <2>6. CASE j.old = k.new
    BY <2>1, <2>2, <2>6, ConstantsAssumption DEF Stands, RollbackKnows, OperationKey
  <2>7. CASE j.new = k.old
    BY <1>1, <2>3, <2>7 DEF LInv, OldToNew
  <2> QED BY <1>1, <2>4, <2>5, <2>6, <2>7 DEF Touches
<1>2. IInv /\ LInv /\ [Next]_vars =>
        [\A j, k \in OperationKey :
            Applied(k) /\ ~Applied(k)' /\ Touches(j, k) /\ Later(j, k) => ~Applied(j)]_vars
  BY <1>1
<1> QED BY <1>2, LineageInvariant, PTL DEF Spec, LastInFirstOut
=============================================================================
