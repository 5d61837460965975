----------------------- MODULE CaptureReview_proofs -----------------------
(***************************************************************************)
(* Proofs about module CaptureReview, for any operators, items, proposals, *)
(* pool and similarity.  They rest on what an apply that holds the write   *)
(* lock knows, and on what a review or a preview that wrote its row under  *)
(* the status it had read has left.                                        *)
(***************************************************************************)
EXTENDS CaptureReview, WellFoundedInduction, TLAPS

(* An apply that has begun holds the lock, and what it checked is still so. *)
Begun(o) ==
    LET i == call[o].item
        h == call[o].hash
    IN  /\ lock = o
        /\ item[i].status = "approved"
        /\ item[i].preview = h
        /\ h = PreviewOf(i)
        /\ h.outcome \in Supported

(* What a call in progress has read and is about to write.                  *)
CallOK(o) ==
    /\ At(o, "review") => call[o].read = "pending" /\ call[o].to \in {"approved", "rejected"}
    /\ At(o, "persist") => call[o].read \in Mutable /\ call[o].hash \in Preview
    /\ At(o, "expire") => call[o].read \in Mutable
    /\ At(o, "apply") => Begun(o)

CallsOK == \A o \in Operators : CallOK(o)

(* An approved item has an approval that no effect has used.                *)
ApprovalsLeft ==
    \A i \in Items :
        /\ Len(done[i]) <= approvals[i]
        /\ item[i].status = "approved" => Len(done[i]) < approvals[i]

(* The memory a capture was applied as is in the pool.                      *)
NewIsThere ==
    \A i \in Items : \A k \in DOMAIN done[i] :
        done[i][k].outcome = "create_new" => done[i][k].made \in Ids

IInv ==
    /\ TypeOK
    /\ CallsOK
    /\ ApprovalsLeft
    /\ LedgerTrueUnlessOvertaken
    /\ NewIsThere
    /\ NoTwins

(* The first of some memories is one of them, and has the least id.         *)
LEMMA FirstIsLeast ==
    ASSUME NEW ms \in SUBSET Nat, ms # {}
    PROVE  First(ms) \in ms
<1> DEFINE Less == {ss \in Nat \X Nat : ss[1] < ss[2]}
<1>1. IsWellFoundedOn(Less, Nat)
  <2>1. Less = OpToRel(<, Nat)
    BY Zenon DEF OpToRel
  <2> HIDE DEF Less
  <2> QED BY <2>1, NatLessThanWellFounded, Zenon
<1>2. PICK m \in ms : \A n \in ms : ~(<<n, m>> \in Less)
  <2> HIDE DEF Less
  <2> QED BY <1>1, WFMin
<1>3. \A n \in ms : m <= n
  <2>1. ASSUME NEW n \in ms PROVE m <= n
    <3>1. ~(n < m)
      BY <1>2
    <3> QED BY <3>1
  <2> QED BY <2>1
<1> QED BY <1>3 DEF First

(* A preview is one, and of a new capture it shows that nothing holds its   *)
(* content.                                                                 *)
LEMMA PreviewType ==
    ASSUME TypeOK, NEW i \in Items
    PROVE  PreviewOf(i) \in Preview
<1> DEFINE p == proposal[i]
<1>1. memory \in Seq(Memory) /\ Ids \subseteq Nat /\ \A m \in Ids : memory[m] \in Memory
  BY DEF TypeOK, Ids
<1>2. Outcome(p) \in Outcomes
  BY DEF Outcome, Outcomes
<1>3. \A ms \in SUBSET Nat : First(ms) \in Nat
  <2>1. ASSUME NEW ms \in SUBSET Nat PROVE First(ms) \in Nat
    <3>1. CASE ms = {}
      BY <3>1 DEF First
    <3>2. CASE ms # {}
      BY <3>2, FirstIsLeast
    <3> QED BY <3>1, <3>2
  <2> QED BY <2>1
<1>4. Primary(p) \in Nat
  <2>1. Target(p) \in SUBSET Nat /\ Source(p) \in SUBSET Nat /\ Exact(p) \in SUBSET Nat
    BY <1>1 DEF Target, Source, Exact
  <2> QED BY <1>3, <2>1 DEF Primary
<1>5. {<<m, memory[m]>> : m \in Shortlist(p)} \in SUBSET (Nat \X Memory)
  <2>1. Shortlist(p) \subseteq Ids
    BY DEF Shortlist, Exact, Source, Similar, Target
  <2>2. ASSUME NEW m \in Shortlist(p) PROVE <<m, memory[m]>> \in Nat \X Memory
    BY <1>1, <2>1
  <2> QED BY <2>2
<1> QED BY <1>2, <1>4, <1>5 DEF PreviewOf, Preview

(* An outcome create_new means that the pool has no memory of that content. *)
LEMMA NewHasNoTwin ==
    ASSUME NEW i, PreviewOf(i).outcome = "create_new"
    PROVE  Exact(proposal[i]) = {}
BY DEF PreviewOf, Outcome

(* The preview of an item depends on the pool and its proposal only.        *)
LEMMA PreviewStays ==
    ASSUME UNCHANGED <<memory, proposal>>
    PROVE  \A i : PreviewOf(i)' = PreviewOf(i)
BY DEF PreviewOf, Outcome, Primary, Shortlist, Exact, Source, Similar, Target, Ids,
       ConflictEligible, First

(* While nobody holds the lock no apply has begun.                          *)
LEMMA NobodyBegun ==
    ASSUME IInv, Writable, NEW o \in Operators
    PROVE  ~At(o, "apply")
BY ConstantsAssumption DEF IInv, CallsOK, CallOK, Begun, Writable

(* Only the holder of the lock has begun an apply.                          *)
LEMMA OneBegun ==
    ASSUME IInv, NEW o \in Operators, NEW p \in Operators, At(o, "apply"), At(p, "apply")
    PROVE  o = p
BY DEF IInv, CallsOK, CallOK, Begun

(* An operator goes to c. *)
LEMMA GotoType ==
    ASSUME TypeOK, NEW o \in Operators, NEW c \in Call, Goto(o, c)
    PROVE  /\ call' \in [Operators -> Call]
           /\ call'[o] = c
           /\ \A p \in Operators : p # o => call'[p] = call[p]
BY DEF TypeOK, Goto

(* A call that is not under way is a call.                                  *)
LEMMA IdleType == Idle \in Call /\ Idle.step = "idle"
BY ConstantsAssumption DEF Idle, Call, Steps, Statuses

(* A call that nobody touched is still in order, if it is no apply or if    *)
(* pool, rows and lock are what they were.                                  *)
LEMMA CallStays ==
    ASSUME CallsOK, NEW p \in Operators, call'[p] = call[p],
           ~At(p, "apply") \/ UNCHANGED <<memory, proposal, item, lock>>
    PROVE  CallOK(p)'
<1>1. CallOK(p) /\ (At(p, "review")' <=> At(p, "review")) /\ (At(p, "persist")' <=> At(p, "persist"))
      /\ (At(p, "expire")' <=> At(p, "expire")) /\ (At(p, "apply")' <=> At(p, "apply"))
  BY DEF CallsOK, At
<1>2. ASSUME At(p, "apply") PROVE Begun(p)'
  <2>1. UNCHANGED <<memory, proposal, item, lock>> /\ Begun(p)
    BY <1>1, <1>2 DEF CallOK
  <2>2. \A j : PreviewOf(j)' = PreviewOf(j)
    BY <2>1, PreviewStays
  <2> QED BY <2>1, <2>2 DEF Begun
<1> QED BY <1>1, <1>2 DEF CallOK

(* Where rows, pool and histories stay, what is said of them does.          *)
LEMMA RowsStay ==
    ASSUME IInv, UNCHANGED <<memory, item, done, approvals, overtaken>>
    PROVE  ApprovalsLeft' /\ LedgerTrueUnlessOvertaken' /\ NewIsThere' /\ NoTwins'
BY DEF IInv, ApprovalsLeft, LedgerTrueUnlessOvertaken, LedgerTrue, NewIsThere, NoTwins, Ids

(* A step that reads, and begins a call or nothing.                         *)
LEMMA ReadInv ==
    ASSUME IInv, NEW o \in Operators, NEW c \in Call, Goto(o, c), CallOK(o)',
           UNCHANGED <<memory, proposal, item, done, approvals, overtaken>>,
           lock' = lock \/ (lock' \in Operators \cup {None} /\ lock \in {o, None})
    PROVE  IInv'
<1>1. call' \in [Operators -> Call] /\ \A p \in Operators : p # o => call'[p] = call[p]
  BY GotoType DEF IInv
<1>2. TypeOK'
  BY <1>1 DEF IInv, TypeOK
<1>3. ASSUME NEW p \in Operators, p # o PROVE CallOK(p)'
  <2>1. lock' = lock \/ ~At(p, "apply")
    BY <1>3, ConstantsAssumption DEF IInv, CallsOK, CallOK, Begun
  <2> QED BY <1>1, <1>3, <2>1, CallStays DEF IInv
<1>4. CallsOK'
  BY <1>3 DEF CallsOK
<1> QED BY <1>2, <1>4, RowsStay DEF IInv

(* An operator that has returned is in order. *)
LEMMA ReturnedOK ==
    ASSUME TypeOK, NEW o \in Operators, Return(o)
    PROVE  /\ CallOK(o)'
           /\ call' \in [Operators -> Call]
           /\ \A p \in Operators : p # o => call'[p] = call[p]
BY GotoType, IdleType DEF Return, CallOK, At

(* A write under the free lock that leaves the pool and the effects: the    *)
(* calls stay in order whatever it does to the rows.                        *)
LEMMA WriteCalls ==
    ASSUME IInv, Writable, NEW o \in Operators, Return(o)
    PROVE  CallsOK'
<1>1. ASSUME NEW p \in Operators PROVE CallOK(p)'
  <2>1. CASE p = o
    BY <2>1, ReturnedOK DEF IInv
  <2>2. CASE p # o
    BY <2>2, ReturnedOK, NobodyBegun, CallStays DEF IInv
  <2> QED BY <2>1, <2>2
<1> QED BY <1>1 DEF CallsOK

(* While nobody is between BEGIN and COMMIT, a change of the tables leaves  *)
(* the calls in order.                                                      *)
LEMMA FreeCalls ==
    ASSUME IInv, Writable, UNCHANGED call
    PROVE  CallsOK'
BY NobodyBegun, CallStays DEF CallsOK, IInv

(* The effects of a pool that only had the state of its memories changed,   *)
(* or memories added, stay new.                                             *)
LEMMA TwinsStay ==
    ASSUME TypeOK, TypeOK', NewIsThere, NoTwins, UNCHANGED done, Ids \subseteq Ids',
           \A m \in Ids : memory'[m].content = memory[m].content
    PROVE  NewIsThere' /\ NoTwins'
<1>1. NewIsThere'
  BY DEF NewIsThere
<1>2. ASSUME NEW i \in Items, NEW k \in DOMAIN done'[i], done'[i][k].outcome = "create_new",
             NEW m \in Ids', m < done'[i][k].made
      PROVE  memory'[m].content # memory'[done'[i][k].made].content
  <2>1. done[i][k].made \in Ids /\ m \in Ids
    <3>1. done[i][k].made \in Ids
      BY <1>2 DEF NewIsThere
    <3>2. memory \in Seq(Memory) /\ Ids = 1 .. Len(memory)
      BY DEF TypeOK, Ids
    <3>3. m \in Nat /\ m >= 1
      <4>1. memory' \in Seq(Memory) /\ m \in DOMAIN memory'
        BY <1>2 DEF Ids, TypeOK
      <4> QED BY <4>1
    <3> QED BY <1>2, <3>1, <3>2, <3>3
  <2> QED BY <1>2, <2>1 DEF NoTwins
<1> QED BY <1>1, <1>2 DEF NoTwins

-----------------------------------------------------------------------------
(* The invariant is inductive. *)

(* The empty queue and the first pool satisfy the invariant.                *)
LEMMA InitInv == Init => IInv
<1> SUFFICES ASSUME Init PROVE IInv
  OBVIOUS
<1>1. TypeOK
  <2>1. call \in [Operators -> Call]
    BY IdleType DEF Init
  <2>2. item \in [Items -> Row]
    BY DEF Init, Row, Statuses
  <2>3. done \in [Items -> Seq(Effect)] /\ approvals \in [Items -> Nat]
    BY DEF Init
  <2> QED BY <2>1, <2>2, <2>3, ConstantsAssumption DEF Init, TypeOK
<1>2. CallsOK
  BY IdleType DEF Init, CallsOK, CallOK, At
<1>3. \A i \in Items : done[i] = <<>> /\ approvals[i] = 0 /\ item[i].status = "absent"
                      /\ item[i].created = 0
  BY DEF Init
<1>4. ApprovalsLeft /\ LedgerTrueUnlessOvertaken /\ NewIsThere /\ NoTwins
  BY <1>3 DEF ApprovalsLeft, LedgerTrueUnlessOvertaken, LedgerTrue, NewIsThere, NoTwins
<1> QED BY <1>1, <1>2, <1>4 DEF IInv

(* A new row has no approval and no effect yet.                             *)
LEMMA CaptureInv ==
    ASSUME IInv, NEW i \in Items, Capture(i)
    PROVE  IInv'
<1>1. item' = [item EXCEPT ![i].status = "pending"] /\ item \in [Items -> Row]
  BY DEF Capture, IInv, TypeOK
<1>2. item' \in [Items -> Row]
  BY <1>1 DEF Row, Statuses
<1>3. TypeOK'
  BY <1>2 DEF Capture, IInv, TypeOK
<1>4. CallsOK'
  BY FreeCalls DEF Capture
<1>a. /\ item[i].status = "absent" /\ item'[i].status = "pending"
      /\ item'[i].created = item[i].created
      /\ \A j \in Items : j # i => item'[j] = item[j]
      /\ UNCHANGED <<done, approvals, overtaken>>
  BY <1>1 DEF Capture, Row
<1>b. ApprovalsLeft'
  BY <1>a DEF IInv, ApprovalsLeft
<1>c. LedgerTrueUnlessOvertaken'
  BY <1>a, ZenonT(30) DEF IInv, LedgerTrueUnlessOvertaken, LedgerTrue
<1>5. ApprovalsLeft' /\ LedgerTrueUnlessOvertaken'
  BY <1>b, <1>c
<1>6. NewIsThere' /\ NoTwins'
  BY DEF Capture, IInv, NewIsThere, NoTwins, Ids
<1> QED BY <1>3, <1>4, <1>5, <1>6 DEF IInv

(* A review that has seen a pending row knows no more than that.            *)
LEMMA ReviewReadsInv ==
    ASSUME IInv, NEW o \in Operators, NEW i \in Items, NEW d \in {"approved", "rejected"},
           ReviewReads(o, i, d)
    PROVE  IInv'
<1> DEFINE c == [Idle EXCEPT !.step = "review", !.item = i, !.read = "pending", !.to = d]
<1>1. c \in Call /\ c.step = "review" /\ c.read = "pending" /\ c.to = d
  BY IdleType DEF Call, Steps, Statuses
<1>2. Goto(o, c)
  BY DEF ReviewReads
<1>3. call'[o] = c
  BY <1>1, <1>2, GotoType DEF IInv
<1>4. CallOK(o)'
  BY <1>1, <1>3 DEF CallOK, At
<1> QED BY <1>1, <1>2, <1>4, ReadInv DEF ReviewReads

(* An expiry that has seen a row it may change knows no more than that.     *)
LEMMA ExpireReadsInv ==
    ASSUME IInv, NEW o \in Operators, NEW i \in Items, ExpireReads(o, i)
    PROVE  IInv'
<1> DEFINE c == [Idle EXCEPT !.step = "expire", !.item = i, !.read = item[i].status,
                             !.to = "expired"]
<1>1. c \in Call /\ c.step = "expire" /\ c.read \in Mutable
  BY IdleType DEF ExpireReads, Call, Steps, Statuses, Mutable
<1>2. Goto(o, c)
  BY DEF ExpireReads
<1>3. call'[o] = c
  BY <1>1, <1>2, GotoType DEF IInv
<1>4. CallOK(o)'
  BY <1>1, <1>3 DEF CallOK, At
<1> QED BY <1>1, <1>2, <1>4, ReadInv DEF ExpireReads

(* A preview that is going to be stored is one.                             *)
LEMMA PreviewComparesInv ==
    ASSUME IInv, NEW o \in Operators, NEW i \in Items, PreviewCompares(o, i)
    PROVE  IInv'
<1> DEFINE c == [Idle EXCEPT !.step = "persist", !.item = i, !.read = item[i].status,
                             !.hash = PreviewOf(i)]
<1>0. PreviewOf(i) \in Preview
  BY PreviewType DEF IInv
<1>1. c \in Call /\ c.step = "persist" /\ c.read \in Mutable /\ c.hash \in Preview
  BY <1>0, IdleType DEF PreviewCompares, Call, Steps, Statuses, Mutable
<1>2. Goto(o, c)
  BY DEF PreviewCompares
<1>3. call'[o] = c
  BY <1>1, <1>2, GotoType DEF IInv
<1>4. CallOK(o)'
  BY <1>1, <1>3 DEF CallOK, At
<1> QED BY <1>1, <1>2, <1>4, ReadInv DEF PreviewCompares

(* The caller takes the lock, and what it compares under it holds until it  *)
(* commits.                                                                 *)
LEMMA ApplyBeginsInv ==
    ASSUME IInv, NEW o \in Operators, NEW i \in Items, ApplyBegins(o, i)
    PROVE  IInv'
<1> DEFINE c == [Idle EXCEPT !.step = "apply", !.item = i, !.read = "approved",
                             !.hash = item[i].preview]
<1>0. PreviewOf(i) \in Preview /\ item[i].preview = PreviewOf(i)
  BY PreviewType DEF IInv, ApplyBegins
<1>1. c \in Call /\ c.step = "apply" /\ c.item = i /\ c.hash = item[i].preview
  BY <1>0, IdleType DEF Call, Steps, Statuses
<1>2. Goto(o, c)
  BY DEF ApplyBegins
<1>3. call'[o] = c
  BY <1>1, <1>2, GotoType DEF IInv
<1>4. PreviewOf(i)' = PreviewOf(i)
  BY PreviewStays DEF ApplyBegins
<1>5. Begun(o)'
  BY <1>0, <1>1, <1>3, <1>4 DEF Begun, ApplyBegins, Locks
<1>6. CallOK(o)'
  BY <1>1, <1>3, <1>5 DEF CallOK, At
<1>7. lock' \in Operators \cup {None} /\ lock \in {o, None}
  BY DEF ApplyBegins, Locks, Writable
<1> QED BY <1>1, <1>2, <1>6, <1>7, ReadInv DEF ApplyBegins

(* A call that ends without a commit gives the lock back and leaves the     *)
(* tables.                                                                  *)
LEMMA AbandonsInv ==
    ASSUME IInv, NEW o \in Operators, Abandons(o)
    PROVE  IInv'
<1>1. lock' = lock \/ (lock' \in Operators \cup {None} /\ lock \in {o, None})
  BY DEF Abandons
<1>2. CallOK(o)' /\ Goto(o, Idle)
  BY ReturnedOK DEF Abandons, Return, IInv
<1> QED BY <1>1, <1>2, IdleType, ReadInv DEF Abandons

(* A row written by id: the pool, the effects and the other rows stay.      *)
LEMMA WriteInv ==
    ASSUME IInv, Writable, NEW o \in Operators, NEW i \in Items, i = call[o].item,
           Return(o), Overtakes(o), UNCHANGED <<memory, proposal, lock, done>>,
           item' \in [Items -> Row], \A j \in Items : j # i => item'[j] = item[j],
           approvals' \in [Items -> Nat], \A j \in Items : approvals'[j] >= approvals[j],
           item'[i].status = "approved" =>
               \/ item[i].status = "approved"
               \/ approvals'[i] = approvals[i] + 1,
           call[o].read \in Mutable, item'[i].status # "applied" \/ item'[i].status = item[i].status,
           item'[i].created = item[i].created
    PROVE  IInv'
<1>1. done \in [Items -> Seq(Effect)] /\ approvals \in [Items -> Nat]
      /\ \A j \in Items : Len(done[j]) \in Nat
  BY DEF IInv, TypeOK
<1>2. TypeOK'
  <2>1. call' \in [Operators -> Call]
    BY ReturnedOK DEF IInv
  <2>2. overtaken' \in SUBSET Items
    BY DEF Overtakes, IInv, TypeOK
  <2> QED BY <2>1, <2>2 DEF IInv, TypeOK
<1>3. CallsOK'
  BY WriteCalls
<1>4. ApprovalsLeft'
  <2>1. ASSUME NEW j \in Items
        PROVE  /\ Len(done'[j]) <= approvals'[j]
               /\ item'[j].status = "approved" => Len(done'[j]) < approvals'[j]
    <3>1. /\ Len(done[j]) <= approvals[j] /\ approvals[j] \in Nat /\ approvals'[j] \in Nat
          /\ item[j].status = "approved" => Len(done[j]) < approvals[j]
          /\ approvals'[j] >= approvals[j] /\ done' = done /\ Len(done[j]) \in Nat
      BY <1>1 DEF IInv, ApprovalsLeft
    <3>2. CASE j = i
      BY <3>1, <3>2
    <3>3. CASE j # i
      BY <3>1, <3>3
    <3> QED BY <3>2, <3>3
  <2> QED BY <2>1 DEF ApprovalsLeft
<1>5. LedgerTrueUnlessOvertaken'
  <2>1. ASSUME NEW j \in Items \ overtaken' PROVE LedgerTrue(j)'
    <3>1. j \notin overtaken /\ LedgerTrue(j)
      BY <2>1 DEF Overtakes, IInv, LedgerTrueUnlessOvertaken
    <3>2. CASE j # i
      BY <3>1, <3>2 DEF LedgerTrue
    <3>3. CASE j = i
      <4>1. item[i].status = call[o].read
        BY <2>1, <3>3 DEF Overtakes
      <4>2. item[i].status # "applied" /\ item'[i].status # "applied"
        BY <4>1 DEF Mutable
      <4> QED BY <3>1, <3>3, <4>2 DEF LedgerTrue
    <3> QED BY <3>2, <3>3
  <2> QED BY <2>1 DEF LedgerTrueUnlessOvertaken
<1>6. NewIsThere' /\ NoTwins'
  BY DEF IInv, NewIsThere, NoTwins, Ids
<1> QED BY <1>2, <1>3, <1>4, <1>5, <1>6 DEF IInv

(* A review counts an approval, and marks the item overtaken if the row is  *)
(* not what it read.                                                        *)
LEMMA ReviewWritesInv ==
    ASSUME IInv, NEW o \in Operators, ReviewWrites(o)
    PROVE  IInv'
<1> DEFINE i == call[o].item
<1>1. i \in Items /\ item \in [Items -> Row] /\ approvals \in [Items -> Nat]
  BY DEF IInv, TypeOK, Call
<1>2. call[o].read = "pending" /\ call[o].to \in {"approved", "rejected"}
  BY DEF ReviewWrites, IInv, CallsOK, CallOK
<1>3. item' = [item EXCEPT ![i].status = call[o].to]
  BY DEF ReviewWrites
<1>4. /\ item' \in [Items -> Row] /\ \A j \in Items : j # i => item'[j] = item[j]
      /\ item'[i].status = call[o].to /\ item'[i].created = item[i].created
  BY <1>1, <1>2, <1>3 DEF Row, Statuses
<1>5. /\ approvals' \in [Items -> Nat] /\ \A j \in Items : approvals'[j] >= approvals[j]
      /\ call[o].to = "approved" => approvals'[i] = approvals[i] + 1
  <2>1. CASE call[o].to = "approved"
    BY <1>1, <2>1 DEF ReviewWrites
  <2>2. CASE call[o].to # "approved"
    BY <1>1, <2>2 DEF ReviewWrites
  <2> QED BY <2>1, <2>2
<1> HIDE DEF i
<1>6. Writable /\ Return(o) /\ Overtakes(o) /\ UNCHANGED <<memory, proposal, lock, done>>
  BY DEF ReviewWrites
<1>7. call[o].read \in Mutable /\ item'[i].status # "applied"
  BY <1>2, <1>4 DEF Mutable
<1> QED BY <1>1, <1>4, <1>5, <1>6, <1>7, WriteInv DEF i

(* An expiry marks the item overtaken if the row is not what it read.       *)
LEMMA ExpireWritesInv ==
    ASSUME IInv, NEW o \in Operators, ExpireWrites(o)
    PROVE  IInv'
<1> DEFINE i == call[o].item
<1>1. i \in Items /\ item \in [Items -> Row] /\ approvals \in [Items -> Nat]
  BY DEF IInv, TypeOK, Call
<1>2. call[o].read \in Mutable
  BY DEF ExpireWrites, IInv, CallsOK, CallOK
<1>3. item' = [item EXCEPT ![i].status = "expired"]
  BY DEF ExpireWrites
<1>4. /\ item' \in [Items -> Row] /\ \A j \in Items : j # i => item'[j] = item[j]
      /\ item'[i].status = "expired" /\ item'[i].created = item[i].created
  BY <1>1, <1>3 DEF Row, Statuses
<1> HIDE DEF i
<1>6. Writable /\ Return(o) /\ Overtakes(o) /\ UNCHANGED <<memory, proposal, lock, done, approvals>>
  BY DEF ExpireWrites
<1> QED BY <1>1, <1>2, <1>4, <1>6, WriteInv DEF i

(* A stored preview leaves the status, and marks the item if it was moved   *)
(* meanwhile.                                                               *)
LEMMA PreviewPersistsInv ==
    ASSUME IInv, NEW o \in Operators, PreviewPersists(o)
    PROVE  IInv'
<1> DEFINE i == call[o].item
<1>1. i \in Items /\ item \in [Items -> Row] /\ approvals \in [Items -> Nat]
  BY DEF IInv, TypeOK, Call
<1>2. call[o].read \in Mutable /\ call[o].hash \in Preview
  BY DEF PreviewPersists, IInv, CallsOK, CallOK
<1>3. item' = [item EXCEPT ![i].preview = call[o].hash, ![i].audit = None]
  BY DEF PreviewPersists
<1>4. /\ item' \in [Items -> Row] /\ \A j \in Items : j # i => item'[j] = item[j]
      /\ item'[i].status = item[i].status /\ item'[i].created = item[i].created
  BY <1>1, <1>2, <1>3 DEF Row
<1> HIDE DEF i
<1>6. Writable /\ Return(o) /\ Overtakes(o) /\ UNCHANGED <<memory, proposal, lock, done, approvals>>
  BY DEF PreviewPersists
<1> QED BY <1>1, <1>2, <1>4, <1>6, WriteInv DEF i

(* Another tool writes the pool while no apply has begun.                   *)
LEMMA PoolInv ==
    ASSUME IInv, Writable, memory' \in Seq(Memory), Ids \subseteq Ids',
           \A m \in Ids : memory'[m].content = memory[m].content,
           UNCHANGED <<proposal, item, lock, call, done, approvals, overtaken>>
    PROVE  IInv'
<1>1. TypeOK'
  BY DEF IInv, TypeOK
<1>2. CallsOK'
  BY FreeCalls
<1>3. ApprovalsLeft' /\ LedgerTrueUnlessOvertaken'
  BY DEF IInv, ApprovalsLeft, LedgerTrueUnlessOvertaken, LedgerTrue
<1>4. NewIsThere' /\ NoTwins'
  BY <1>1, TwinsStay DEF IInv
<1> QED BY <1>1, <1>2, <1>3, <1>4 DEF IInv

(* A memory that others save is behind all ids of the pool.                 *)
LEMMA SaveInv ==
    ASSUME IInv, NEW cr \in Saved, Save(cr[1], cr[2])
    PROVE  IInv'
<1> DEFINE new == [content |-> cr[1], ref |-> cr[2], state |-> "validated", by |-> 0]
<1>1. new \in Memory
  BY ConstantsAssumption DEF Memory
<1>2. memory \in Seq(Memory) /\ memory' = Append(memory, new)
  BY DEF IInv, TypeOK, Save
<1> HIDE DEF new
<1>3. /\ memory' \in Seq(Memory) /\ Ids \subseteq Ids'
      /\ \A m \in Ids : memory'[m] = memory[m]
  BY <1>1, <1>2 DEF Ids
<1> QED BY <1>3, PoolInv DEF Save

(* An archived memory keeps its id and its content.                         *)
LEMMA ArchiveInv ==
    ASSUME IInv, NEW m \in Ids, Archive(m)
    PROVE  IInv'
<1>1. memory \in Seq(Memory) /\ memory' = [memory EXCEPT ![m].state = "archived"]
  BY DEF IInv, TypeOK, Archive
<1> DEFINE archived == [memory[m] EXCEPT !.state = "archived"]
<1>b. memory[m] \in Memory
  BY <1>1 DEF Ids
<1>0. archived \in Memory /\ archived.content = memory[m].content
  BY <1>b DEF Memory
<1>a. memory' = [memory EXCEPT ![m] = archived]
  BY <1>1
<1> HIDE DEF archived
<1>2. /\ memory' \in Seq(Memory) /\ Ids \subseteq Ids'
      /\ \A n \in Ids : memory'[n].content = memory[n].content
  BY <1>0, <1>1, <1>a DEF Ids
<1> QED BY <1>2, PoolInv DEF Archive

(* The pool after an apply: the contents there were, and for an outcome     *)
(* that creates one the memory made of the proposal.                        *)
LEMMA PoolGrows ==
    ASSUME TypeOK, NEW i \in Items, NEW h \in Preview
    PROVE  /\ PoolAfter(i, h) \in Seq(Memory)
           /\ Ids \subseteq DOMAIN PoolAfter(i, h)
           /\ \A m \in Ids : PoolAfter(i, h)[m].content = memory[m].content
           /\ h.outcome \in Creating =>
                /\ Len(memory) + 1 \in DOMAIN PoolAfter(i, h)
                /\ PoolAfter(i, h)[Len(memory) + 1].content = proposal[i].content
<1> DEFINE new == [content |-> proposal[i].content, ref |-> proposal[i].ref,
                   state |-> IF h.outcome = "conflict_review" THEN "conflicted" ELSE "validated",
                   by |-> 0]
           id == Len(memory) + 1
           replaced == [memory EXCEPT ![h.primary].state = "superseded", ![h.primary].by = id]
           disputed == [memory EXCEPT ![h.primary].state = "conflicted"]
           old == CASE h.outcome = "create_version" -> replaced
                    [] h.outcome = "conflict_review" -> disputed
                    [] OTHER -> memory
<1>1. memory \in Seq(Memory) /\ proposal[i] \in Proposal /\ id \in Nat
      /\ Ids = 1 .. Len(memory) /\ Len(memory) \in Nat /\ h.primary \in Nat
  BY DEF TypeOK, Ids, Preview
<1>2. new \in Memory /\ new.content = proposal[i].content
  BY <1>1 DEF Proposal, Memory
<1>3. ASSUME NEW f \in {replaced, disputed}
      PROVE  /\ f \in Seq(Memory) /\ Len(f) = Len(memory)
             /\ \A m \in Ids : f[m].content = memory[m].content
  <2>1. DOMAIN f = Ids
    BY DEF Ids
  <2>2. ASSUME NEW m \in Ids PROVE f[m] \in Memory /\ f[m].content = memory[m].content
    <3>1. memory[m] \in Memory
      BY <1>1
    <3>2. \/ f[m] = memory[m]
          \/ f[m] = [memory[m] EXCEPT !.state = "superseded", !.by = id]
          \/ f[m] = [memory[m] EXCEPT !.state = "conflicted"]
      <4>0. m \in DOMAIN memory
        BY <2>2 DEF Ids
      <4>1. CASE m # h.primary
        BY <4>0, <4>1
      <4>2. CASE m = h.primary /\ f = disputed
        BY <4>0, <4>2
      <4>3. CASE m = h.primary /\ f = replaced
        <5> DEFINE once == [memory EXCEPT ![h.primary].state = "superseded"]
        <5>1. DOMAIN once = DOMAIN memory /\ once[m] = [memory[m] EXCEPT !.state = "superseded"]
          BY <4>0, <4>3
        <5>2. f = [once EXCEPT ![h.primary].by = id]
          BY <4>3
        <5> HIDE DEF once
        <5>3. f[m] = [once[m] EXCEPT !.by = id]
          BY <4>0, <4>3, <5>1, <5>2
        <5> QED BY <5>1, <5>3
      <4> QED BY <4>1, <4>2, <4>3
    <3> QED BY <1>1, <3>1, <3>2 DEF Memory
  <2>3. f = [m \in 1 .. Len(memory) |-> f[m]]
    BY <1>1, <2>1
  <2> QED BY <1>1, <2>2, <2>3
<1> HIDE DEF new, replaced, disputed
<1>4. old \in {replaced, disputed, memory}
  OBVIOUS
<1>5. /\ old \in Seq(Memory) /\ Len(old) = Len(memory)
      /\ \A m \in Ids : old[m].content = memory[m].content
  BY <1>1, <1>3, <1>4
<1>6. PoolAfter(i, h) = IF h.outcome \in Creating THEN Append(old, new) ELSE memory
  BY DEF PoolAfter, new, replaced, disputed
<1> HIDE DEF old
<1>7. CASE h.outcome \in Creating
  BY <1>1, <1>2, <1>5, <1>6, <1>7
<1>8. CASE h.outcome \notin Creating
  BY <1>1, <1>6, <1>8 DEF Ids
<1> QED BY <1>7, <1>8

(* The commit of an apply adds the one effect of an approval, or gives the  *)
(* lock back only.                                                          *)
LEMMA ApplyCommitsInv ==
    ASSUME IInv, NEW o \in Operators, ApplyCommits(o)
    PROVE  IInv'
<1> DEFINE i == call[o].item
           h == call[o].hash
           e == EffectOf(h)
<1>1. /\ At(o, "apply") /\ Begun(o) /\ lock = o
      /\ i \in Items /\ item[i].status = "approved" /\ item[i].preview = h /\ h = PreviewOf(i)
  BY DEF ApplyCommits, IInv, CallsOK, CallOK, Begun, TypeOK, Call
<1>2. h \in Preview
  BY <1>1, PreviewType DEF IInv
<1>3. e \in Effect
  BY <1>2 DEF EffectOf, Effect, Preview, IInv, TypeOK
<1>4. /\ memory \in Seq(Memory) /\ item \in [Items -> Row] /\ done \in [Items -> Seq(Effect)]
      /\ approvals \in [Items -> Nat]
  BY DEF IInv, TypeOK
<1>5. CallsOK' /\ call' \in [Operators -> Call]
  <2>1. CallOK(o)' /\ call' \in [Operators -> Call]
    BY ReturnedOK DEF ApplyCommits, IInv
  <2>2. ASSUME NEW p \in Operators, p # o PROVE CallOK(p)'
    <3>1. call'[p] = call[p]
      BY <2>2, ReturnedOK DEF ApplyCommits, IInv
    <3>2. ~At(p, "apply")
      BY <1>1, <2>2, OneBegun
    <3> QED BY <3>1, <3>2, CallStays DEF IInv
  <2> QED BY <2>1, <2>2 DEF CallsOK
<1>6. CASE UNCHANGED <<memory, item, done>>
  <2>1. TypeOK'
    BY <1>5, <1>6 DEF ApplyCommits, IInv, TypeOK
  <2> QED BY <1>5, <1>6, <2>1, RowsStay DEF ApplyCommits, IInv
<1>7. CASE /\ memory' = PoolAfter(i, h)
           /\ item' = [item EXCEPT ![i] = Applied(@, h)]
           /\ done' = [done EXCEPT ![i] = Append(@, e)]
  <2>1. /\ memory' \in Seq(Memory) /\ Ids \subseteq Ids'
        /\ \A m \in Ids : memory'[m].content = memory[m].content
        /\ h.outcome \in Creating =>
             /\ Len(memory) + 1 \in Ids'
             /\ memory'[Len(memory) + 1].content = proposal[i].content
    BY <1>1, <1>2, <1>7, PoolGrows DEF IInv, Ids
  <2>2. /\ item' \in [Items -> Row] /\ \A j \in Items : j # i => item'[j] = item[j]
        /\ item'[i].status = "applied" /\ item'[i].preview = h
        /\ item'[i].audit = [hash |-> h, effect |-> e] /\ item'[i].created = e.made
    <3>1. Applied(item[i], h) \in Row
      <4>1. [hash |-> h, effect |-> e] \in Audit
        BY <1>2, <1>3 DEF Audit
      <4>2. e.made \in Nat
        BY <1>3 DEF Effect
      <4>3. item[i] \in Row
        BY <1>1, <1>4
      <4> HIDE DEF e, h
      <4>4. Applied(item[i], h) = [item[i] EXCEPT !.status = "applied", !.created = e.made,
                                     !.audit = [hash |-> h, effect |-> e]]
        BY DEF Applied, e
      <4> QED BY <4>1, <4>2, <4>3, <4>4 DEF Row, Statuses
    <3>2. item' = [item EXCEPT ![i] = Applied(item[i], h)]
      BY <1>7
    <3>3. /\ Applied(item[i], h).status = "applied" /\ Applied(item[i], h).preview = h
          /\ Applied(item[i], h).audit = [hash |-> h, effect |-> e]
          /\ Applied(item[i], h).created = e.made
      BY <1>1, <1>4 DEF Applied, Row
    <3> HIDE DEF i, h, e
    <3> QED BY <1>1, <1>4, <3>1, <3>2, <3>3 DEF i
  <2>3. /\ done' \in [Items -> Seq(Effect)] /\ \A j \in Items : j # i => done'[j] = done[j]
        /\ done'[i] = Append(done[i], e)
    <3> HIDE DEF i, e
    <3> QED BY <1>1, <1>3, <1>4, <1>7 DEF i, h
  <2>4. UNCHANGED <<proposal, approvals, overtaken>> /\ lock' = None
    BY DEF ApplyCommits
  <2> HIDE DEF i, h, e
  <2>5. TypeOK'
    BY <1>5, <2>1, <2>2, <2>3, <2>4 DEF IInv, TypeOK
  <2>6. ApprovalsLeft'
    <3>1. ASSUME NEW j \in Items
          PROVE  /\ Len(done'[j]) <= approvals'[j]
                 /\ item'[j].status = "approved" => Len(done'[j]) < approvals'[j]
      <4>1. CASE j # i
        BY <2>2, <2>3, <2>4, <4>1 DEF IInv, ApprovalsLeft
      <4>2. CASE j = i
        <5>1. Len(done[i]) < approvals[i] /\ Len(done[i]) \in Nat /\ approvals[i] \in Nat
          BY <1>1, <1>4 DEF IInv, ApprovalsLeft, i
        <5>2. Len(done'[i]) = Len(done[i]) + 1
          BY <1>1, <1>3, <1>4, <2>3 DEF i
        <5> QED BY <2>2, <2>4, <4>2, <5>1, <5>2
      <4> QED BY <4>1, <4>2
    <3> QED BY <3>1 DEF ApprovalsLeft
  <2>7. LedgerTrueUnlessOvertaken'
    <3>1. ASSUME NEW j \in Items \ overtaken PROVE LedgerTrue(j)'
      <4>0. LedgerTrue(j)
        BY <3>1 DEF IInv, LedgerTrueUnlessOvertaken
      <4>1. CASE j # i
        BY <2>2, <2>3, <4>0, <4>1 DEF LedgerTrue
      <4>2. CASE j = i
        <5>1. done[i] = <<>>
          BY <1>1, <4>0, <4>2 DEF LedgerTrue, i
        <5>2. Len(done'[i]) = 1 /\ done'[i][1] = e
          BY <1>3, <2>3, <5>1
        <5> QED BY <2>2, <4>2, <5>2 DEF LedgerTrue
      <4> QED BY <4>1, <4>2
    <3> QED BY <2>4, <3>1 DEF LedgerTrueUnlessOvertaken
  <2>8. ASSUME NEW j \in Items, NEW k \in DOMAIN done'[j], done'[j][k].outcome = "create_new"
        PROVE  /\ done'[j][k].made \in Ids'
               /\ \A m \in Ids' : m < done'[j][k].made =>
                     memory'[m].content # memory'[done'[j][k].made].content
    <3>1. CASE k \in DOMAIN done[j] /\ done'[j][k] = done[j][k]
      <4>1. done[j][k].made \in Ids
        BY <2>8, <3>1 DEF IInv, NewIsThere
      <4>2. ASSUME NEW m \in Ids', m < done[j][k].made PROVE m \in Ids
        <5>1. m \in Nat \ {0} /\ Ids = 1 .. Len(memory) /\ Len(memory) \in Nat
          BY <1>4, <2>1 DEF Ids
        <5> QED BY <4>1, <4>2, <5>1
      <4> QED BY <2>1, <2>8, <3>1, <4>1, <4>2 DEF IInv, NoTwins
    <3>2. CASE j = i /\ k = Len(done[i]) + 1 /\ done'[j][k] = e
      <4>1. e.outcome = h.outcome /\ h.outcome = "create_new" /\ e.made = Len(memory) + 1
        BY <2>8, <3>2 DEF EffectOf, Creating, e
      <4>2. Len(memory) + 1 \in Ids' /\ memory'[Len(memory) + 1].content = proposal[i].content
        BY <2>1, <4>1 DEF Creating
      <4>3. Exact(proposal[i]) = {}
        BY <1>1, <4>1, NewHasNoTwin DEF i, h
      <4>4. ASSUME NEW m \in Ids', m < Len(memory) + 1
            PROVE  memory'[m].content # proposal[i].content
        <5>1. m \in Nat \ {0} /\ Ids = 1 .. Len(memory) /\ Len(memory) \in Nat
          BY <1>4, <2>1 DEF Ids
        <5>2. m \in Ids
          BY <4>4, <5>1
        <5> QED BY <2>1, <4>3, <5>2 DEF Exact
      <4> QED BY <3>2, <4>1, <4>2, <4>4
    <3>3. \/ k \in DOMAIN done[j] /\ done'[j][k] = done[j][k]
          \/ j = i /\ k = Len(done[i]) + 1 /\ done'[j][k] = e
      <4>1. CASE j # i
        BY <2>3, <2>8, <4>1
      <4>2. CASE j = i
        <5>1. done[i] \in Seq(Effect) /\ k \in DOMAIN Append(done[i], e)
          BY <1>1, <1>4, <2>3, <2>8, <4>2 DEF i
        <5>2. k \in 1 .. Len(done[i]) + 1 /\ Len(done[i]) \in Nat
          BY <1>3, <5>1
        <5>3. CASE k = Len(done[i]) + 1
          BY <1>3, <2>3, <4>2, <5>1, <5>3
        <5>4. CASE k \in 1 .. Len(done[i])
          BY <1>3, <2>3, <4>2, <5>1, <5>4
        <5> QED BY <5>2, <5>3, <5>4
      <4> QED BY <4>1, <4>2
    <3> QED BY <3>1, <3>2, <3>3
  <2>9. NewIsThere' /\ NoTwins'
    BY <2>8 DEF NewIsThere, NoTwins
  <2> QED BY <1>5, <2>5, <2>6, <2>7, <2>9 DEF IInv
<1> QED BY <1>6, <1>7 DEF ApplyCommits

(* Every step preserves the invariant.                                      *)
LEMMA NextInv == IInv /\ [Next]_vars => IInv'
<1> SUFFICES ASSUME IInv, [Next]_vars PROVE IInv'
  OBVIOUS
<1>1. ASSUME NEW i \in Items, Capture(i) PROVE IInv'
  BY <1>1, CaptureInv
<1>2. ASSUME NEW o \in Operators, Review(o) PROVE IInv'
  BY <1>2, ReviewReadsInv, ReviewWritesInv, ExpireReadsInv, ExpireWritesInv DEF Review
<1>3. ASSUME NEW o \in Operators, Reconcile(o) PROVE IInv'
  BY <1>3, PreviewComparesInv, PreviewPersistsInv, ApplyBeginsInv, ApplyCommitsInv DEF Reconcile
<1>4. ASSUME NEW o \in Operators, Abandons(o) PROVE IInv'
  BY <1>4, AbandonsInv
<1>5. ASSUME NEW cr \in Saved, Save(cr[1], cr[2]) PROVE IInv'
  BY <1>5, SaveInv
<1>6. ASSUME NEW m \in Ids, Archive(m) PROVE IInv'
  BY <1>6, ArchiveInv
<1>7. CASE UNCHANGED vars
  <2>1. TypeOK'
    BY <1>7 DEF vars, IInv, TypeOK
  <2>2. CallsOK'
    BY <1>7, CallStays DEF vars, IInv, CallsOK
  <2> QED BY <1>7, <2>1, <2>2, RowsStay DEF vars, IInv
<1> QED BY <1>1, <1>2, <1>3, <1>4, <1>5, <1>6, <1>7 DEF Next

-----------------------------------------------------------------------------
(* What holds of every behaviour. *)

(* Types, what a begun apply knows, and what the rows say of the effects:   *)
(* what every step preserves.                                               *)
THEOREM InductiveInvariant == Spec => []IInv
BY InitInv, NextInv, PTL DEF Spec

(* Rows, calls and the pool keep their types. *)
THEOREM TypeCorrect == Spec => []TypeOK
<1>1. IInv => TypeOK
  BY DEF IInv
<1> QED BY <1>1, InductiveInvariant, PTL

(* A capture applied as new is new: however many operators apply captures   *)
(* of one text, and others save it, no memory before it holds its content.  *)
THEOREM NewCapturesAreNew == Spec => []NoTwins
<1>1. IInv => NoTwins
  BY DEF IInv
<1> QED BY <1>1, InductiveInvariant, PTL

(* Each effect of an item has an approval of its own, although reviews and  *)
(* previews write by id what they checked before.                           *)
THEOREM EffectsAreApproved == Spec => []EveryEffectApproved
<1>1. IInv => EveryEffectApproved
  BY DEF IInv, ApprovalsLeft, EveryEffectApproved
<1> QED BY <1>1, InductiveInvariant, PTL

(* A row that no call wrote over unseen tells what became of its item.      *)
THEOREM LedgerIsTrue == Spec => []LedgerTrueUnlessOvertaken
<1>1. IInv => LedgerTrueUnlessOvertaken
  BY DEF IInv
<1> QED BY <1>1, InductiveInvariant, PTL

(* An effect is that of the preview whose hash was confirmed, and the pool  *)
(* still gives this preview at that moment.                                 *)
THEOREM WhatIsAgreedIsDone == Spec => AgreedIsDone
<1> DEFINE Agreed == \A i \in Items : done'[i] # done[i] => item'[i].audit.hash = PreviewOf(i)
<1>1. IInv /\ [Next]_vars => [Agreed]_vars
  <2> SUFFICES ASSUME IInv, Next, NEW i \in Items, done'[i] # done[i]
               PROVE  item'[i].audit.hash = PreviewOf(i)
    BY DEF vars
  <2>1. PICK o \in Operators : ApplyCommits(o) /\ done' # done
    BY DEF Next, Capture, Review, ReviewReads, ReviewWrites, ExpireReads, ExpireWrites,
           Reconcile, PreviewCompares, PreviewPersists, ApplyBegins, Abandons, Save, Archive
  <2>2. Begun(o) /\ call[o].item \in Items
    BY <2>1 DEF ApplyCommits, IInv, CallsOK, CallOK, TypeOK, Call
  <2>3. /\ item' = [item EXCEPT ![call[o].item] = Applied(@, call[o].hash)]
        /\ done' = [done EXCEPT ![call[o].item] = Append(@, EffectOf(call[o].hash))]
    BY <2>1 DEF ApplyCommits
  <2>4. i = call[o].item
    BY <2>2, <2>3 DEF IInv, TypeOK
  <2>5. item[i] \in Row /\ item'[i] = Applied(item[i], call[o].hash)
    BY <2>3, <2>4 DEF IInv, TypeOK
  <2>6. item'[i].audit.hash = call[o].hash
    BY <2>5 DEF Applied, Row
  <2> QED BY <2>2, <2>4, <2>6 DEF Begun
<1> QED BY <1>1, InductiveInvariant, PTL DEF Spec, AgreedIsDone
=============================================================================
