------------------------- MODULE Idempotency_proofs -------------------------
(***************************************************************************)
(* Proofs about module Idempotency, for any sets of callers, keys,         *)
(* requests and results.                                                   *)
(***************************************************************************)
EXTENDS Idempotency, TLAPS

IInv == TypeOK /\ Inductive

(* The initial states satisfy the invariant.                                *)
LEMMA InitInv == Init => IInv
<1> SUFFICES ASSUME Init PROVE IInv
  OBVIOUS
<1>1. TypeOK
  BY DEF Init, TypeOK, NoRow, Row, Idle, Call
<1>2. Inductive
  BY DEF Init, NoRow, Idle, Inductive, OneHolder, Holds, CallInv, RowInv,
         AtMostOnce, AnswersAreFaithful
<1> QED BY <1>1, <1>2 DEF IInv

(* The rows the updates write are rows of the table. *)
LEMMA RowTypes ==
    /\ NoRow \in Row
    /\ \A request \in Requests : Started(request) \in Row
    /\ \A request \in Requests, result \in Results :
         Completed(request, result) \in Row
    /\ \A r \in Row : InDoubtRow(r) \in Row
BY DEF Row, NoRow, Started, Completed, InDoubtRow

(* What a caller that holds a key knows. *)
LEMMA HolderKnows ==
    ASSUME IInv, NEW c \in Callers,
           call[c].step \in {"run", "running", "complete", "doubt"}
    PROVE  /\ call[c].key \in Keys
           /\ call[c].request \in Requests
           /\ row[call[c].key] = Started(call[c].request)
           /\ \A d \in Callers : Holds(d, call[c].key) => d = c
           /\ call[c].step = "run" => executions[call[c].key] = 0
           /\ call[c].step # "run" => executions[call[c].key] = 1
           /\ call[c].step # "complete" => produced[call[c].key] = None
           /\ call[c].step = "complete" =>
                call[c].result \in Results /\ call[c].result = produced[call[c].key]
<1>1. call[c].key \in Keys /\ call[c].request \in Requests
  BY DEF IInv, Inductive, CallInv
<1>2. Holds(c, call[c].key)
  BY DEF Holds
<1> QED BY <1>1, <1>2 DEF IInv, Inductive, CallInv, OneHolder

(* Receive keeps the invariant.                                             *)
LEMMA ReceiveInv ==
    ASSUME IInv, NEW c \in Callers, NEW i \in Keys, NEW request \in Requests, Receive(c, i, request)
    PROVE  IInv'
<1>0. call[c] \in Call
  BY DEF IInv, TypeOK
<1> USE NoneAssumption, <1>0 DEF Receive, Goto, Return
<1>1. TypeOK'
  <2> USE DEF IInv, TypeOK
  <2>1. row' \in [Keys -> Row]
    BY RowTypes
  <2>2. call' \in [Callers -> Call]
    BY DEF Call, Idle, Row
  <2>3. executions' \in [Keys -> Nat]
    OBVIOUS
  <2>4. produced' \in [Keys -> Results \cup {None}]
    OBVIOUS
  <2>5. answers' \subseteq [key : Keys, request : Requests, result : Results]
    OBVIOUS
  <2> QED BY <2>1, <2>2, <2>3, <2>4, <2>5
<1> USE DEF IInv, TypeOK, Inductive, Idle,
        NoRow, Started, Completed, Row, Call, Holds
<1>2. OneHolder'
  BY DEF OneHolder, CallInv
<1>3. ASSUME NEW d \in Callers PROVE CallInv(d)'
  BY DEF OneHolder, CallInv, RowInv
<1>4. ASSUME NEW k \in Keys PROVE RowInv(k)'
  BY DEF CallInv, RowInv
<1>5. AtMostOnce'
  BY DEF AtMostOnce, CallInv
<1>6. AnswersAreFaithful'
  BY DEF AnswersAreFaithful, CallInv, RowInv
<1> QED BY <1>1, <1>2, <1>3, <1>4, <1>5, <1>6

(* PrepareFindsNothing keeps the invariant.                                 *)
LEMMA PrepareFindsNothingInv ==
    ASSUME IInv, NEW c \in Callers, PrepareFindsNothing(c)
    PROVE  IInv'
<1>0. call[c] \in Call
  BY DEF IInv, TypeOK
<1> USE NoneAssumption, <1>0 DEF PrepareFindsNothing, Goto, Return
<1>1. TypeOK'
  <2> USE DEF IInv, TypeOK
  <2>1. row' \in [Keys -> Row]
    BY RowTypes
  <2>2. call' \in [Callers -> Call]
    BY DEF Call, Idle, Row
  <2>3. executions' \in [Keys -> Nat]
    OBVIOUS
  <2>4. produced' \in [Keys -> Results \cup {None}]
    OBVIOUS
  <2>5. answers' \subseteq [key : Keys, request : Requests, result : Results]
    OBVIOUS
  <2> QED BY <2>1, <2>2, <2>3, <2>4, <2>5
<1> USE DEF IInv, TypeOK, Inductive, Idle,
        NoRow, Started, Completed, Row, Call, Holds
<1>2. OneHolder'
  BY DEF OneHolder, CallInv
<1>3. ASSUME NEW d \in Callers PROVE CallInv(d)'
  BY DEF OneHolder, CallInv, RowInv
<1>4. ASSUME NEW i \in Keys PROVE RowInv(i)'
  BY DEF CallInv, RowInv
<1>5. AtMostOnce'
  BY DEF AtMostOnce, CallInv
<1>6. AnswersAreFaithful'
  BY DEF AnswersAreFaithful, CallInv, RowInv
<1> QED BY <1>1, <1>2, <1>3, <1>4, <1>5, <1>6

(* PrepareRefuses keeps the invariant.                                      *)
LEMMA PrepareRefusesInv ==
    ASSUME IInv, NEW c \in Callers, PrepareRefuses(c)
    PROVE  IInv'
<1>0. call[c] \in Call
  BY DEF IInv, TypeOK
<1> USE NoneAssumption, <1>0 DEF PrepareRefuses, Goto, Return
<1>1. TypeOK'
  <2> USE DEF IInv, TypeOK
  <2>1. row' \in [Keys -> Row]
    BY RowTypes
  <2>2. call' \in [Callers -> Call]
    BY DEF Call, Idle, Row
  <2>3. executions' \in [Keys -> Nat]
    OBVIOUS
  <2>4. produced' \in [Keys -> Results \cup {None}]
    OBVIOUS
  <2>5. answers' \subseteq [key : Keys, request : Requests, result : Results]
    OBVIOUS
  <2> QED BY <2>1, <2>2, <2>3, <2>4, <2>5
<1> USE DEF IInv, TypeOK, Inductive, Idle,
        NoRow, Started, Completed, Row, Call, Holds
<1>2. OneHolder'
  BY DEF OneHolder, CallInv
<1>3. ASSUME NEW d \in Callers PROVE CallInv(d)'
  BY DEF OneHolder, CallInv, RowInv
<1>4. ASSUME NEW i \in Keys PROVE RowInv(i)'
  BY DEF CallInv, RowInv
<1>5. AtMostOnce'
  BY DEF AtMostOnce, CallInv
<1>6. AnswersAreFaithful'
  BY DEF AnswersAreFaithful, CallInv, RowInv
<1> QED BY <1>1, <1>2, <1>3, <1>4, <1>5, <1>6

(* PrepareReplays keeps the invariant.                                      *)
LEMMA PrepareReplaysInv ==
    ASSUME IInv, NEW c \in Callers, PrepareReplays(c)
    PROVE  IInv'
<1>0. call[c] \in Call
  BY DEF IInv, TypeOK
<1>h. /\ call[c].key \in Keys
      /\ call[c].request \in Requests
      /\ row[call[c].key].result \in Results
  <2>1. call[c].key \in Keys /\ call[c].request \in Requests
    BY DEF IInv, Inductive, CallInv, PrepareReplays
  <2> QED BY <2>1 DEF IInv, Inductive, CallInv, RowInv, Holds, Started, Completed, PrepareReplays, Replayable
<1> USE NoneAssumption, <1>0, <1>h DEF PrepareReplays, Goto, Return
<1>1. TypeOK'
  <2> USE DEF IInv, TypeOK
  <2>1. row' \in [Keys -> Row]
    BY RowTypes
  <2>2. call' \in [Callers -> Call]
    BY DEF Call, Idle, Row
  <2>3. executions' \in [Keys -> Nat]
    OBVIOUS
  <2>4. produced' \in [Keys -> Results \cup {None}]
    OBVIOUS
  <2>5. answers' \subseteq [key : Keys, request : Requests, result : Results]
    OBVIOUS
  <2> QED BY <2>1, <2>2, <2>3, <2>4, <2>5
<1> USE DEF IInv, TypeOK, Inductive, Idle,
        NoRow, Started, Completed, Row, Call, Holds, Replayable
<1>2. OneHolder'
  BY DEF OneHolder, CallInv
<1>3. ASSUME NEW d \in Callers PROVE CallInv(d)'
  BY DEF OneHolder, CallInv, RowInv
<1>4. ASSUME NEW i \in Keys PROVE RowInv(i)'
  BY DEF CallInv, RowInv
<1>5. AtMostOnce'
  BY DEF AtMostOnce, CallInv
<1>6. AnswersAreFaithful'
  BY DEF AnswersAreFaithful, CallInv, RowInv
<1> QED BY <1>1, <1>2, <1>3, <1>4, <1>5, <1>6

(* InsertClaims keeps the invariant.                                        *)
LEMMA InsertClaimsInv ==
    ASSUME IInv, NEW c \in Callers, InsertClaims(c)
    PROVE  IInv'
<1>0. call[c] \in Call
  BY DEF IInv, TypeOK
<1>h. /\ call[c].key \in Keys
      /\ call[c].request \in Requests
      /\ row[call[c].key] = NoRow /\ executions[call[c].key] = 0 /\ produced[call[c].key] = None
     /\ \A d \in Callers : ~Holds(d, call[c].key)
  <2>1. call[c].key \in Keys /\ call[c].request \in Requests
    BY DEF IInv, Inductive, CallInv, InsertClaims
  <2>2. ASSUME NEW d \in Callers, Holds(d, call[c].key) PROVE FALSE
    <3>1. row[call[c].key] = Started(call[d].request)
      BY <2>2, HolderKnows DEF Holds
    <3> QED BY <3>1 DEF Started, InsertClaims
  <2> QED BY <2>1, <2>2 DEF IInv, Inductive, CallInv, RowInv, Holds, Started, Completed, InsertClaims
<1> USE NoneAssumption, <1>0, <1>h DEF InsertClaims, Goto, Return
<1>1. TypeOK'
  <2> USE DEF IInv, TypeOK
  <2>1. row' \in [Keys -> Row]
    BY RowTypes
  <2>2. call' \in [Callers -> Call]
    BY DEF Call, Idle, Row
  <2>3. executions' \in [Keys -> Nat]
    OBVIOUS
  <2>4. produced' \in [Keys -> Results \cup {None}]
    OBVIOUS
  <2>5. answers' \subseteq [key : Keys, request : Requests, result : Results]
    OBVIOUS
  <2> QED BY <2>1, <2>2, <2>3, <2>4, <2>5
<1> USE DEF IInv, TypeOK, Inductive, Idle,
        NoRow, Started, Completed, Row, Call, Holds
<1>2. OneHolder'
  BY DEF OneHolder, CallInv
<1>3. ASSUME NEW d \in Callers PROVE CallInv(d)'
  BY DEF OneHolder, CallInv, RowInv
<1>4. ASSUME NEW i \in Keys PROVE RowInv(i)'
  BY DEF CallInv, RowInv
<1>5. AtMostOnce'
  BY DEF AtMostOnce, CallInv
<1>6. AnswersAreFaithful'
  BY DEF AnswersAreFaithful, CallInv, RowInv
<1> QED BY <1>1, <1>2, <1>3, <1>4, <1>5, <1>6

(* InsertLoses keeps the invariant.                                         *)
LEMMA InsertLosesInv ==
    ASSUME IInv, NEW c \in Callers, InsertLoses(c)
    PROVE  IInv'
<1>0. call[c] \in Call
  BY DEF IInv, TypeOK
<1> USE NoneAssumption, <1>0 DEF InsertLoses, Goto, Return
<1>1. TypeOK'
  <2> USE DEF IInv, TypeOK
  <2>1. row' \in [Keys -> Row]
    BY RowTypes
  <2>2. call' \in [Callers -> Call]
    BY DEF Call, Idle, Row
  <2>3. executions' \in [Keys -> Nat]
    OBVIOUS
  <2>4. produced' \in [Keys -> Results \cup {None}]
    OBVIOUS
  <2>5. answers' \subseteq [key : Keys, request : Requests, result : Results]
    OBVIOUS
  <2> QED BY <2>1, <2>2, <2>3, <2>4, <2>5
<1> USE DEF IInv, TypeOK, Inductive, Idle,
        NoRow, Started, Completed, Row, Call, Holds
<1>2. OneHolder'
  BY DEF OneHolder, CallInv
<1>3. ASSUME NEW d \in Callers PROVE CallInv(d)'
  BY DEF OneHolder, CallInv, RowInv
<1>4. ASSUME NEW i \in Keys PROVE RowInv(i)'
  BY DEF CallInv, RowInv
<1>5. AtMostOnce'
  BY DEF AtMostOnce, CallInv
<1>6. AnswersAreFaithful'
  BY DEF AnswersAreFaithful, CallInv, RowInv
<1> QED BY <1>1, <1>2, <1>3, <1>4, <1>5, <1>6

(* InsertFails keeps the invariant.                                         *)
LEMMA InsertFailsInv ==
    ASSUME IInv, NEW c \in Callers, InsertFails(c)
    PROVE  IInv'
<1>0. call[c] \in Call
  BY DEF IInv, TypeOK
<1> USE NoneAssumption, <1>0 DEF InsertFails, Goto, Return
<1>1. TypeOK'
  <2> USE DEF IInv, TypeOK
  <2>1. row' \in [Keys -> Row]
    BY RowTypes
  <2>2. call' \in [Callers -> Call]
    BY DEF Call, Idle, Row
  <2>3. executions' \in [Keys -> Nat]
    OBVIOUS
  <2>4. produced' \in [Keys -> Results \cup {None}]
    OBVIOUS
  <2>5. answers' \subseteq [key : Keys, request : Requests, result : Results]
    OBVIOUS
  <2> QED BY <2>1, <2>2, <2>3, <2>4, <2>5
<1> USE DEF IInv, TypeOK, Inductive, Idle,
        NoRow, Started, Completed, Row, Call, Holds
<1>2. OneHolder'
  BY DEF OneHolder, CallInv
<1>3. ASSUME NEW d \in Callers PROVE CallInv(d)'
  BY DEF OneHolder, CallInv, RowInv
<1>4. ASSUME NEW i \in Keys PROVE RowInv(i)'
  BY DEF CallInv, RowInv
<1>5. AtMostOnce'
  BY DEF AtMostOnce, CallInv
<1>6. AnswersAreFaithful'
  BY DEF AnswersAreFaithful, CallInv, RowInv
<1> QED BY <1>1, <1>2, <1>3, <1>4, <1>5, <1>6

(* HandlerStarts keeps the invariant.                                       *)
LEMMA HandlerStartsInv ==
    ASSUME IInv, NEW c \in Callers, HandlerStarts(c)
    PROVE  IInv'
<1>0. call[c] \in Call
  BY DEF IInv, TypeOK
<1> DEFINE k == call[c].key
<1>h. /\ k \in Keys
      /\ call[c].request \in Requests
      /\ row[k] = Started(call[c].request)
      /\ \A d \in Callers : Holds(d, k) => d = c
      /\ executions[k] = 0 /\ produced[k] = None
  BY HolderKnows DEF HandlerStarts
<1> USE NoneAssumption, <1>0, <1>h DEF HandlerStarts, Goto, Return
<1>1. TypeOK'
  <2> USE DEF IInv, TypeOK
  <2>1. row' \in [Keys -> Row]
    BY RowTypes
  <2>2. call' \in [Callers -> Call]
    BY DEF Call, Idle, Row
  <2>3. executions' \in [Keys -> Nat]
    OBVIOUS
  <2>4. produced' \in [Keys -> Results \cup {None}]
    OBVIOUS
  <2>5. answers' \subseteq [key : Keys, request : Requests, result : Results]
    OBVIOUS
  <2> QED BY <2>1, <2>2, <2>3, <2>4, <2>5
<1> USE DEF IInv, TypeOK, Inductive, Idle,
        NoRow, Started, Completed, Row, Call, Holds
<1>2. OneHolder'
  BY DEF OneHolder, CallInv
<1>3. ASSUME NEW d \in Callers PROVE CallInv(d)'
  BY DEF OneHolder, CallInv, RowInv
<1>4. ASSUME NEW i \in Keys PROVE RowInv(i)'
  BY DEF CallInv, RowInv
<1>5. AtMostOnce'
  BY DEF AtMostOnce, CallInv
<1>6. AnswersAreFaithful'
  BY DEF AnswersAreFaithful, CallInv, RowInv
<1> QED BY <1>1, <1>2, <1>3, <1>4, <1>5, <1>6

(* HandlerReturns keeps the invariant.                                      *)
LEMMA HandlerReturnsInv ==
    ASSUME IInv, NEW c \in Callers, NEW result \in Results, HandlerReturns(c, result)
    PROVE  IInv'
<1>0. call[c] \in Call
  BY DEF IInv, TypeOK
<1> DEFINE k == call[c].key
<1>h. /\ k \in Keys
      /\ call[c].request \in Requests
      /\ row[k] = Started(call[c].request)
      /\ \A d \in Callers : Holds(d, k) => d = c
      /\ executions[k] = 1 /\ produced[k] = None
  BY HolderKnows DEF HandlerReturns
<1> USE NoneAssumption, <1>0, <1>h DEF HandlerReturns, Goto, Return
<1>1. TypeOK'
  <2> USE DEF IInv, TypeOK
  <2>1. row' \in [Keys -> Row]
    BY RowTypes
  <2>2. call' \in [Callers -> Call]
    BY DEF Call, Idle, Row
  <2>3. executions' \in [Keys -> Nat]
    OBVIOUS
  <2>4. produced' \in [Keys -> Results \cup {None}]
    OBVIOUS
  <2>5. answers' \subseteq [key : Keys, request : Requests, result : Results]
    OBVIOUS
  <2> QED BY <2>1, <2>2, <2>3, <2>4, <2>5
<1> USE DEF IInv, TypeOK, Inductive, Idle,
        NoRow, Started, Completed, Row, Call, Holds
<1>2. OneHolder'
  BY DEF OneHolder, CallInv
<1>3. ASSUME NEW d \in Callers PROVE CallInv(d)'
  BY DEF OneHolder, CallInv, RowInv
<1>4. ASSUME NEW i \in Keys PROVE RowInv(i)'
  BY DEF CallInv, RowInv
<1>5. AtMostOnce'
  BY DEF AtMostOnce, CallInv
<1>6. AnswersAreFaithful'
  BY DEF AnswersAreFaithful, CallInv, RowInv
<1> QED BY <1>1, <1>2, <1>3, <1>4, <1>5, <1>6

(* HandlerRaises keeps the invariant.                                       *)
LEMMA HandlerRaisesInv ==
    ASSUME IInv, NEW c \in Callers, HandlerRaises(c)
    PROVE  IInv'
<1>0. call[c] \in Call
  BY DEF IInv, TypeOK
<1> DEFINE k == call[c].key
<1>h. /\ k \in Keys
      /\ call[c].request \in Requests
      /\ row[k] = Started(call[c].request)
      /\ \A d \in Callers : Holds(d, k) => d = c
      /\ executions[k] = 1 /\ produced[k] = None
  BY HolderKnows DEF HandlerRaises
<1> USE NoneAssumption, <1>0, <1>h DEF HandlerRaises, Goto, Return
<1>1. TypeOK'
  <2> USE DEF IInv, TypeOK
  <2>1. row' \in [Keys -> Row]
    BY RowTypes
  <2>2. call' \in [Callers -> Call]
    BY DEF Call, Idle, Row
  <2>3. executions' \in [Keys -> Nat]
    OBVIOUS
  <2>4. produced' \in [Keys -> Results \cup {None}]
    OBVIOUS
  <2>5. answers' \subseteq [key : Keys, request : Requests, result : Results]
    OBVIOUS
  <2> QED BY <2>1, <2>2, <2>3, <2>4, <2>5
<1> USE DEF IInv, TypeOK, Inductive, Idle,
        NoRow, Started, Completed, Row, Call, Holds
<1>2. OneHolder'
  BY DEF OneHolder, CallInv
<1>3. ASSUME NEW d \in Callers PROVE CallInv(d)'
  BY DEF OneHolder, CallInv, RowInv
<1>4. ASSUME NEW i \in Keys PROVE RowInv(i)'
  BY DEF CallInv, RowInv
<1>5. AtMostOnce'
  BY DEF AtMostOnce, CallInv
<1>6. AnswersAreFaithful'
  BY DEF AnswersAreFaithful, CallInv, RowInv
<1> QED BY <1>1, <1>2, <1>3, <1>4, <1>5, <1>6

(* MarkInDoubt keeps the invariant.                                         *)
LEMMA MarkInDoubtInv ==
    ASSUME IInv, NEW c \in Callers, MarkInDoubt(c)
    PROVE  IInv'
<1>0. call[c] \in Call
  BY DEF IInv, TypeOK
<1> DEFINE k == call[c].key
<1>h. /\ k \in Keys
      /\ call[c].request \in Requests
      /\ row[k] = Started(call[c].request)
      /\ \A d \in Callers : Holds(d, k) => d = c
      /\ executions[k] = 1 /\ produced[k] = None
  BY HolderKnows DEF MarkInDoubt
<1> USE NoneAssumption, <1>0, <1>h DEF MarkInDoubt, Goto, Return
<1>1. TypeOK'
  <2> USE DEF IInv, TypeOK
  <2>1. row' \in [Keys -> Row]
    BY RowTypes
  <2>2. call' \in [Callers -> Call]
    BY DEF Call, Idle, Row
  <2>3. executions' \in [Keys -> Nat]
    OBVIOUS
  <2>4. produced' \in [Keys -> Results \cup {None}]
    OBVIOUS
  <2>5. answers' \subseteq [key : Keys, request : Requests, result : Results]
    OBVIOUS
  <2> QED BY <2>1, <2>2, <2>3, <2>4, <2>5
<1> USE DEF IInv, TypeOK, Inductive, Idle,
        NoRow, Started, Completed, Row, Call, Holds, InDoubtRow
<1>2. OneHolder'
  BY DEF OneHolder, CallInv
<1>3. ASSUME NEW d \in Callers PROVE CallInv(d)'
  BY DEF OneHolder, CallInv, RowInv
<1>4. ASSUME NEW i \in Keys PROVE RowInv(i)'
  <2>1. RowInv(i)
    OBVIOUS
  <2>2. \/ row'[i] = row[i]
        \/ i = k /\ row'[i] = InDoubtRow(row[i])
    OBVIOUS
  <2> QED BY <2>1, <2>2 DEF RowInv, CallInv
<1>5. AtMostOnce'
  BY DEF AtMostOnce, CallInv
<1>6. AnswersAreFaithful'
  BY DEF AnswersAreFaithful, CallInv, RowInv
<1> QED BY <1>1, <1>2, <1>3, <1>4, <1>5, <1>6

(* CompleteCommits keeps the invariant.                                     *)
LEMMA CompleteCommitsInv ==
    ASSUME IInv, NEW c \in Callers, CompleteCommits(c)
    PROVE  IInv'
<1>0. call[c] \in Call
  BY DEF IInv, TypeOK
<1> DEFINE k == call[c].key
<1>h. /\ k \in Keys
      /\ call[c].request \in Requests
      /\ row[k] = Started(call[c].request)
      /\ \A d \in Callers : Holds(d, k) => d = c
      /\ executions[k] = 1 /\ call[c].result \in Results /\ call[c].result = produced[k]
  BY HolderKnows DEF CompleteCommits
<1> USE NoneAssumption, <1>0, <1>h DEF CompleteCommits, Goto, Return
<1>1. TypeOK'
  <2> USE DEF IInv, TypeOK
  <2>1. row' \in [Keys -> Row]
    BY RowTypes DEF CompletedRow, Started
  <2>2. call' \in [Callers -> Call]
    BY DEF Call, Idle, Row
  <2>3. executions' \in [Keys -> Nat]
    OBVIOUS
  <2>4. produced' \in [Keys -> Results \cup {None}]
    OBVIOUS
  <2>5. answers' \subseteq [key : Keys, request : Requests, result : Results]
    OBVIOUS
  <2> QED BY <2>1, <2>2, <2>3, <2>4, <2>5
<1> USE DEF IInv, TypeOK, Inductive, Idle,
        NoRow, Started, Completed, Row, Call, Holds, CompletedRow
<1>2. OneHolder'
  BY DEF OneHolder, CallInv
<1>3. ASSUME NEW d \in Callers PROVE CallInv(d)'
  BY DEF OneHolder, CallInv, RowInv
<1>4. ASSUME NEW i \in Keys PROVE RowInv(i)'
  BY DEF CallInv, RowInv
<1>5. AtMostOnce'
  BY DEF AtMostOnce, CallInv
<1>6. AnswersAreFaithful'
  BY DEF AnswersAreFaithful, CallInv, RowInv
<1> QED BY <1>1, <1>2, <1>3, <1>4, <1>5, <1>6

(* CompleteRaises keeps the invariant.                                      *)
LEMMA CompleteRaisesInv ==
    ASSUME IInv, NEW c \in Callers, CompleteRaises(c)
    PROVE  IInv'
<1>0. call[c] \in Call
  BY DEF IInv, TypeOK
<1> DEFINE k == call[c].key
<1>h. /\ k \in Keys
      /\ call[c].request \in Requests
      /\ row[k] = Started(call[c].request)
      /\ \A d \in Callers : Holds(d, k) => d = c
      /\ executions[k] = 1 /\ call[c].result \in Results /\ call[c].result = produced[k]
  BY HolderKnows DEF CompleteRaises
<1> USE NoneAssumption, <1>0, <1>h DEF CompleteRaises, Goto, Return
<1>1. TypeOK'
  <2> USE DEF IInv, TypeOK
  <2>1. row' \in [Keys -> Row]
    BY RowTypes DEF CompletedRow, Started
  <2>2. call' \in [Callers -> Call]
    BY DEF Call, Idle, Row
  <2>3. executions' \in [Keys -> Nat]
    OBVIOUS
  <2>4. produced' \in [Keys -> Results \cup {None}]
    OBVIOUS
  <2>5. answers' \subseteq [key : Keys, request : Requests, result : Results]
    OBVIOUS
  <2> QED BY <2>1, <2>2, <2>3, <2>4, <2>5
<1> USE DEF IInv, TypeOK, Inductive, Idle,
        NoRow, Started, Completed, Row, Call, Holds, CompletedRow, InDoubtRow
<1>2. OneHolder'
  BY DEF OneHolder, CallInv
<1>3. ASSUME NEW d \in Callers PROVE CallInv(d)'
  BY DEF OneHolder, CallInv, RowInv
<1>4. ASSUME NEW i \in Keys PROVE RowInv(i)'
  <2>1. RowInv(i)
    OBVIOUS
  <2>2. \/ row'[i] = row[i]
        \/ i = k /\ row'[i] = InDoubtRow(row[i])
        \/ i = k /\ row'[i] = CompletedRow(row[i], call[c].result)
    OBVIOUS
  <2> QED BY <2>1, <2>2 DEF RowInv, CallInv, CompletedRow
<1>5. AtMostOnce'
  BY DEF AtMostOnce, CallInv
<1>6. AnswersAreFaithful'
  <2>1. ASSUME NEW a \in answers, row[a.key].status = "completed"
        PROVE  row'[a.key] = row[a.key]
    <3>1. a.key \in Keys /\ a.key # k
      BY <2>1
    <3> QED BY <3>1
  <2> QED BY <2>1 DEF AnswersAreFaithful
<1> QED BY <1>1, <1>2, <1>3, <1>4, <1>5, <1>6

(* AnswerClient keeps the invariant.                                        *)
LEMMA AnswerClientInv ==
    ASSUME IInv, NEW c \in Callers, AnswerClient(c)
    PROVE  IInv'
<1>0. call[c] \in Call
  BY DEF IInv, TypeOK
<1>h. /\ call[c].key \in Keys
      /\ call[c].request \in Requests
      /\ row[call[c].key] = Completed(call[c].request, call[c].result)
      /\ call[c].result \in Results /\ call[c].result = produced[call[c].key]
  <2>1. call[c].key \in Keys /\ call[c].request \in Requests
    BY DEF IInv, Inductive, CallInv, AnswerClient
  <2>2. row[call[c].key] = Completed(call[c].request, call[c].result)
    BY DEF IInv, Inductive, CallInv, AnswerClient
  <2>3. RowInv(call[c].key)
    BY <2>1 DEF IInv, Inductive
  <2> QED BY <2>1, <2>2, <2>3 DEF IInv, Inductive, CallInv, RowInv, Holds, Started, Completed, AnswerClient
<1> USE NoneAssumption, <1>0, <1>h DEF AnswerClient, Goto, Return
<1>1. TypeOK'
  <2> USE DEF IInv, TypeOK
  <2>1. row' \in [Keys -> Row]
    BY RowTypes
  <2>2. call' \in [Callers -> Call]
    BY DEF Call, Idle, Row
  <2>3. executions' \in [Keys -> Nat]
    OBVIOUS
  <2>4. produced' \in [Keys -> Results \cup {None}]
    OBVIOUS
  <2>5. answers' \subseteq [key : Keys, request : Requests, result : Results]
    OBVIOUS
  <2> QED BY <2>1, <2>2, <2>3, <2>4, <2>5
<1> USE DEF IInv, TypeOK, Inductive, Idle,
        NoRow, Started, Completed, Row, Call, Holds
<1>2. OneHolder'
  BY DEF OneHolder, CallInv
<1>3. ASSUME NEW d \in Callers PROVE CallInv(d)'
  BY DEF OneHolder, CallInv, RowInv
<1>4. ASSUME NEW i \in Keys PROVE RowInv(i)'
  BY DEF CallInv, RowInv
<1>5. AtMostOnce'
  BY DEF AtMostOnce, CallInv
<1>6. AnswersAreFaithful'
  BY DEF AnswersAreFaithful, CallInv, RowInv
<1> QED BY <1>1, <1>2, <1>3, <1>4, <1>5, <1>6

(* Crash keeps the invariant.                                               *)
LEMMA CrashInv ==
    ASSUME IInv, NEW c \in Callers, Crash(c)
    PROVE  IInv'
<1>0. call[c] \in Call
  BY DEF IInv, TypeOK
<1> USE NoneAssumption, <1>0 DEF Crash, Goto, Return
<1>1. TypeOK'
  <2> USE DEF IInv, TypeOK
  <2>1. row' \in [Keys -> Row]
    BY RowTypes
  <2>2. call' \in [Callers -> Call]
    BY DEF Call, Idle, Row
  <2>3. executions' \in [Keys -> Nat]
    OBVIOUS
  <2>4. produced' \in [Keys -> Results \cup {None}]
    OBVIOUS
  <2>5. answers' \subseteq [key : Keys, request : Requests, result : Results]
    OBVIOUS
  <2> QED BY <2>1, <2>2, <2>3, <2>4, <2>5
<1> USE DEF IInv, TypeOK, Inductive, Idle,
        NoRow, Started, Completed, Row, Call, Holds
<1>2. OneHolder'
  BY DEF OneHolder, CallInv
<1>3. ASSUME NEW d \in Callers PROVE CallInv(d)'
  BY DEF OneHolder, CallInv, RowInv
<1>4. ASSUME NEW i \in Keys PROVE RowInv(i)'
  BY DEF CallInv, RowInv
<1>5. AtMostOnce'
  BY DEF AtMostOnce, CallInv
<1>6. AnswersAreFaithful'
  BY DEF AnswersAreFaithful, CallInv, RowInv
<1> QED BY <1>1, <1>2, <1>3, <1>4, <1>5, <1>6

(* Every step keeps the invariant, whatever the number of callers.          *)
LEMMA StepInv == IInv /\ [Next]_vars => IInv'
<1> SUFFICES ASSUME IInv, [Next]_vars PROVE IInv'
  OBVIOUS
<1>1. CASE UNCHANGED vars
  BY <1>1 DEF vars, IInv, TypeOK, Inductive, OneHolder, Holds, CallInv, RowInv,
              AtMostOnce, AnswersAreFaithful
<1>2. ASSUME NEW c \in Callers, NEW k \in Keys, NEW request \in Requests,
             Receive(c, k, request)
      PROVE  IInv'
  BY <1>2, ReceiveInv
<1>3. ASSUME NEW c \in Callers, Step(c) PROVE IInv'
  BY <1>3, PrepareFindsNothingInv, PrepareRefusesInv, PrepareReplaysInv,
     InsertClaimsInv, InsertLosesInv, InsertFailsInv, HandlerStartsInv,
     HandlerReturnsInv, HandlerRaisesInv, MarkInDoubtInv, CompleteCommitsInv,
     CompleteRaisesInv, AnswerClientInv DEF Step
<1>4. ASSUME NEW c \in Callers, Crash(c) PROVE IInv'
  BY <1>4, CrashInv
<1> QED BY <1>1, <1>2, <1>3, <1>4 DEF Next

(* The invariant holds in every reachable state.                            *)
LEMMA Invariance == Spec => []IInv
BY InitInv, StepInv, PTL DEF Spec

(* The table and the threads hold what their declarations say: no status    *)
(* outside the CHECK, no caller without its key.                            *)
THEOREM TypeCorrect == Spec => []TypeOK
BY Invariance, PTL DEF IInv

(* Whatever callers race on a key, retry it or die with it, the handler     *)
(* behind it starts at most once.                                           *)
THEOREM RunsAtMostOnce == Spec => []AtMostOnce
BY Invariance, PTL DEF IInv, Inductive

(* No client is ever answered with a result that is not the one its own     *)
(* request produced.                                                        *)
THEOREM FaithfulAnswers == Spec => []AnswersAreFaithful
BY Invariance, PTL DEF IInv, Inductive

(* Why: one caller holds a key at a time and finds its own row started.     *)
THEOREM InductiveInvariant == Spec => []Inductive
BY Invariance, PTL DEF IInv

(* What a step does to a row: claim it, settle it, or nothing.              *)
LEMMA RowsOnlyAdvance ==
    ASSUME IInv, [Next]_vars, NEW k \in Keys
    PROVE  /\ row[k].status # "absent" => row'[k].request = row[k].request
           /\ row[k].status \in {"completed", "in_doubt"} => row'[k] = row[k]
<1> USE DEF IInv, TypeOK
<1>1. CASE row' = row
  BY <1>1
<1>2. ASSUME NEW c \in Callers, InsertClaims(c)
      PROVE  row[k].status = "absent" \/ row'[k] = row[k]
  BY <1>2 DEF InsertClaims
<1>3. ASSUME NEW c \in Callers, MarkInDoubt(c) \/ CompleteCommits(c) \/ CompleteRaises(c)
      PROVE  \/ row'[k] = row[k]
             \/ row'[k] = InDoubtRow(row[k])
             \/ row'[k] = CompletedRow(row[k], call[c].result)
  BY <1>3 DEF MarkInDoubt, CompleteCommits, CompleteRaises
<1>4. CASE \E c \in Callers :
             \/ row'[k] = InDoubtRow(row[k])
             \/ row'[k] = CompletedRow(row[k], call[c].result)
  BY <1>4 DEF InDoubtRow, CompletedRow, Completed, Row
<1>5. ASSUME NEW c \in Callers, Step(c)
      PROVE  \/ row' = row
             \/ InsertClaims(c)
             \/ MarkInDoubt(c) \/ CompleteCommits(c) \/ CompleteRaises(c)
  BY <1>5 DEF Step, PrepareFindsNothing, PrepareRefuses, PrepareReplays,
              InsertLoses, InsertFails, HandlerStarts, HandlerReturns,
              HandlerRaises, AnswerClient
<1> QED BY <1>1, <1>2, <1>3, <1>4, <1>5 DEF Next, vars, Receive, Crash

(* A key stays with its first request, and a recorded outcome is never      *)
(* revised.                                                                 *)
THEOREM FinalOutcomes == Spec => OutcomesAreFinal
<1>1. IInv /\ [Next]_vars =>
        [\A k \in Keys :
          /\ row[k].status # "absent" => row'[k].request = row[k].request
          /\ row[k].status \in {"completed", "in_doubt"} => row'[k] = row[k]
        ]_vars
  BY RowsOnlyAdvance
<1> QED BY <1>1, Invariance, PTL DEF Spec, OutcomesAreFinal

-----------------------------------------------------------------------------
(* The refinement: which step of the promise each step of the code is.      *)

(* An empty table is a promise nobody has called upon.                      *)
LEMMA InitKeepsPromise == Init => Promise!Init
BY DEF Init, NoRow, Promise!Init

(* The insert that succeeds is the claim of the promise.                    *)
LEMMA ClaimStep ==
    ASSUME IInv, NEW c \in Callers, InsertClaims(c)
    PROVE  Promise!Next
<1>1. PICK k \in Keys, request \in Requests :
        k = call[c].key /\ request = call[c].request
  BY DEF IInv, Inductive, CallInv, InsertClaims
<1>2. row[k] = NoRow
  BY <1>1 DEF IInv, Inductive, RowInv, InsertClaims
<1>3. row' = [row EXCEPT ![k] = Started(request)] /\ UNCHANGED <<executions, answers>>
  BY <1>1 DEF InsertClaims
<1>4. Promise!Claim(k, request)
  <2>1. \A i \in Keys :
          /\ row'[i].request = IF i = k THEN request ELSE row[i].request
          /\ row'[i].result = row[i].result
    BY <1>2, <1>3 DEF IInv, TypeOK, NoRow, Started
  <2>2. [i \in Keys |-> row'[i].request] =
          [[i \in Keys |-> row[i].request] EXCEPT ![k] = request]
    BY <2>1
  <2>3. [i \in Keys |-> row'[i].result] = [i \in Keys |-> row[i].result]
    BY <2>1
  <2>4. [i \in Keys |-> row[i].request][k] = None
    BY <1>2 DEF NoRow
  <2> QED BY <1>3, <2>2, <2>3, <2>4 DEF Promise!Claim
<1> QED BY <1>4 DEF Promise!Next

(* Starting the handler is the run of the promise.                          *)
LEMMA RunStep ==
    ASSUME IInv, NEW c \in Callers, HandlerStarts(c)
    PROVE  Promise!Next
<1>1. PICK k \in Keys : k = call[c].key
  BY DEF IInv, Inductive, CallInv, HandlerStarts
<1>2. call[c].step = "run"
  BY DEF HandlerStarts
<1>3. executions' = [executions EXCEPT ![k] = @ + 1] /\ UNCHANGED <<row, answers>>
  BY <1>1 DEF HandlerStarts
<1>4. call[c].request \in Requests /\ row[k] = Started(call[c].request) /\ executions[k] = 0
  BY <1>1, <1>2, HolderKnows
<1>5. row[k].request # None
  BY <1>4, NoneAssumption DEF Started
<1>6. Promise!Run(k)
  BY <1>3, <1>4, <1>5 DEF IInv, TypeOK, Promise!Run
<1> QED BY <1>6 DEF Promise!Next

(* Storing the completed row settles the promise.                           *)
LEMMA SettleStep ==
    ASSUME IInv, NEW c \in Callers, call[c].step = "complete",
           row' = [row EXCEPT ![call[c].key] = CompletedRow(@, call[c].result)],
           UNCHANGED <<executions, answers>>
    PROVE  Promise!Next
<1>1. PICK k \in Keys, result \in Results :
        k = call[c].key /\ result = call[c].result
  BY HolderKnows
<1>2. row[k] = Started(call[c].request) /\ executions[k] = 1
  BY <1>1, HolderKnows
<1>3. row' = [row EXCEPT ![k] = CompletedRow(@, result)]
  BY <1>1
<1>4. Promise!Settle(k, result)
  <2>1. \A i \in Keys :
          /\ row'[i].result = IF i = k THEN result ELSE row[i].result
          /\ row'[i].request = row[i].request
    BY <1>2, <1>3 DEF IInv, TypeOK, Started, Completed, CompletedRow
  <2>2. [i \in Keys |-> row'[i].result] =
          [[i \in Keys |-> row[i].result] EXCEPT ![k] = result]
    BY <2>1
  <2>3. [i \in Keys |-> row'[i].request] = [i \in Keys |-> row[i].request]
    BY <2>1
  <2>4. [i \in Keys |-> row[i].result][k] = None
    BY <1>2 DEF Started
  <2> QED BY <1>2, <1>3, <2>2, <2>3, <2>4 DEF Promise!Settle
<1> QED BY <1>4 DEF Promise!Next

(* Answering a client is the answer of the promise.                         *)
LEMMA AnswerStep ==
    ASSUME IInv, NEW c \in Callers, AnswerClient(c)
    PROVE  Promise!Next
<1>1. PICK k \in Keys : k = call[c].key
  BY DEF IInv, Inductive, CallInv, AnswerClient
<1>2. row[k] = Completed(call[c].request, call[c].result)
  BY <1>1 DEF IInv, Inductive, CallInv, AnswerClient
<1>3. row[k].result \in Results
  BY <1>2 DEF IInv, Inductive, RowInv, Completed
<1>4. Promise!Answer(k)
  BY <1>1, <1>2, <1>3, NoneAssumption DEF Completed, AnswerClient, Promise!Answer
<1> QED BY <1>4 DEF Promise!Next

(* Marking a row in doubt changes nothing a client was promised.            *)
LEMMA DoubtStep ==
    ASSUME IInv, NEW c \in Callers,
           row' = [row EXCEPT ![call[c].key] = InDoubtRow(@)],
           UNCHANGED <<executions, answers>>
    PROVE  UNCHANGED Promise!vars
BY DEF IInv, TypeOK, Row, InDoubtRow, Promise!vars

(* Every step of the code is a step of the promise or a stutter.            *)
LEMMA StepKeepsPromise == IInv /\ [Next]_vars => [Promise!Next]_(Promise!vars)
<1> SUFFICES ASSUME IInv, [Next]_vars
             PROVE  Promise!Next \/ UNCHANGED Promise!vars
  OBVIOUS
<1>1. CASE UNCHANGED <<row, executions, answers>>
  BY <1>1 DEF Promise!vars
<1>2. ASSUME NEW c \in Callers, Step(c)
      PROVE  Promise!Next \/ UNCHANGED Promise!vars
  <2>1. CASE InsertClaims(c)
    BY <2>1, ClaimStep
  <2>2. CASE HandlerStarts(c)
    BY <2>2, RunStep
  <2>3. CASE MarkInDoubt(c)
    BY <2>3, <1>1, DoubtStep DEF MarkInDoubt
  <2>4. CASE CompleteCommits(c)
    BY <2>4, SettleStep DEF CompleteCommits
  <2>5. CASE CompleteRaises(c)
    BY <2>5, <1>1, SettleStep, DoubtStep DEF CompleteRaises
  <2>6. CASE AnswerClient(c)
    BY <2>6, AnswerStep
  <2>7. CASE \/ PrepareFindsNothing(c) \/ PrepareRefuses(c) \/ PrepareReplays(c)
             \/ InsertLoses(c) \/ InsertFails(c) \/ HandlerRaises(c)
             \/ \E result \in Results : HandlerReturns(c, result)
    BY <2>7, <1>1 DEF PrepareFindsNothing, PrepareRefuses, PrepareReplays,
                      InsertLoses, InsertFails, HandlerRaises, HandlerReturns
  <2> QED BY <1>2, <2>1, <2>2, <2>3, <2>4, <2>5, <2>6, <2>7 DEF Step
<1> QED BY <1>1, <1>2 DEF Next, vars, Receive, Crash

(* execute_idempotent implements what an idempotency key promises.          *)
THEOREM CodeKeepsPromise == Spec => KeepsPromise
<1>1. Init => Promise!Init
  BY InitKeepsPromise
<1>2. IInv /\ [Next]_vars => [Promise!Next]_(Promise!vars)
  BY StepKeepsPromise
<1> QED BY <1>1, <1>2, Invariance, PTL DEF Spec, KeepsPromise, Promise!Spec

=============================================================================
