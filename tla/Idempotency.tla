----------------------------- MODULE Idempotency -----------------------------
(***************************************************************************)
(* app/workshops/idempotency.py: the table mcp_idempotency_requests and    *)
(* execute_idempotent, the wrapper every mutating MCP call with an         *)
(* idempotency_key runs under (workshop runner and direct tools alike).    *)
(*                                                                         *)
(* Each element of Callers is a thread of control inside some server       *)
(* process: FastMCP runs synchronous tools on a thread pool, and several   *)
(* processes may share the database.  A caller prepares (SELECT, then      *)
(* INSERT, each its own SQLite transaction), runs the handler, records the *)
(* outcome and only then answers; between any two of those steps others    *)
(* run, the process may die, and the answer may never reach the client.    *)
(* The client may send the same key again, with the same request or not.   *)
(*                                                                         *)
(* A request stands for the pair (operation_name, payload_fingerprint).    *)
(***************************************************************************)
EXTENDS Naturals

CONSTANTS
    Callers,   \* threads that may be inside execute_idempotent at once
    Keys,      \* idempotency keys
    Requests,  \* (operation_name, payload_fingerprint) pairs
    Results,   \* what a handler can return
    None       \* the SQL NULL / "not there"

ASSUME NoneAssumption == None \notin Requests \cup Results \cup Keys

VARIABLES
    row,        \* row[k]: the row of key k in mcp_idempotency_requests
    call,       \* call[c]: where caller c is in execute_idempotent
    executions, \* executions[k]: how often a handler was started under k
    produced,   \* produced[k]: what the last handler run under k returned
    answers     \* answers with a result that clients were given

vars == <<row, call, executions, produced, answers>>

-----------------------------------------------------------------------------
(* The table. *)

NoRow == [status |-> "absent", request |-> None, result |-> None]

Row ==
    [status : {"absent", "started", "completed", "in_doubt"},
     request : Requests \cup {None},
     result : Results \cup {None}]

Started(request) ==
    [status |-> "started", request |-> request, result |-> None]

Completed(request, result) ==
    [status |-> "completed", request |-> request, result |-> result]

(* Both updates carry WHERE status = 'started': they leave any other row     *)
(* alone.                                                                    *)
CompletedRow(r, result) ==
    IF r.status = "started" THEN Completed(r.request, result) ELSE r

(* A status the table's CHECK does not list. *)
FailedRow(r) ==
    IF r.status = "started" THEN [r EXCEPT !.status = "failed"] ELSE r

InDoubtRow(r) ==
    IF r.status = "started" THEN [r EXCEPT !.status = "in_doubt"] ELSE r

-----------------------------------------------------------------------------
(* The callers. *)

Idle == [step |-> "idle", key |-> None, request |-> None, result |-> None]

Call ==
    [step : {"idle", "prepare", "insert", "run", "running", "complete",
             "doubt", "answer"},
     key : Keys \cup {None},
     request : Requests \cup {None},
     result : Results \cup {None}]

Goto(c, step) == call' = [call EXCEPT ![c].step = step]

Return(c) == call' = [call EXCEPT ![c] = Idle]

Init ==
    /\ row = [k \in Keys |-> NoRow]
    /\ call = [c \in Callers |-> Idle]
    /\ executions = [k \in Keys |-> 0]
    /\ produced = [k \in Keys |-> None]
    /\ answers = {}

(* A client sends a request under a key, for the first time or again. *)
Receive(c, k, request) ==
    /\ call[c] = Idle
    /\ call' = [call EXCEPT ![c] =
         [step |-> "prepare", key |-> k, request |-> request, result |-> None]]
    /\ UNCHANGED <<row, executions, produced, answers>>

(* The first SELECT of prepare_request.  A row of another request is a      *)
(* conflict, a row that is not completed is in doubt: both are answered     *)
(* with an error payload.  A completed row is replayed.                     *)
PrepareFindsNothing(c) ==
    /\ call[c].step = "prepare"
    /\ row[call[c].key].status = "absent"
    /\ Goto(c, "insert")
    /\ UNCHANGED <<row, executions, produced, answers>>

Replayable(r, request) == r.status = "completed" /\ r.request = request

(* The lookup matches the request as well as the key: a row of another      *)
(* request is not seen, and the insert is tried again.                      *)
RefuseOnlyOwn(c) ==
    LET r == row[call[c].key] IN
    /\ call[c].step = "prepare"
    /\ r.status # "absent"
    /\ ~Replayable(r, call[c].request)
    /\ IF r.request = call[c].request THEN Return(c) ELSE Goto(c, "insert")
    /\ UNCHANGED <<row, executions, produced, answers>>

(* A row left "started" is taken for a call that died, and run again.       *)
RefuseUnlessStarted(c) ==
    LET r == row[call[c].key] IN
    /\ call[c].step = "prepare"
    /\ r.status # "absent"
    /\ ~Replayable(r, call[c].request)
    /\ IF r.status = "started" /\ r.request = call[c].request
         THEN Goto(c, "run") ELSE Return(c)
    /\ UNCHANGED <<row, executions, produced, answers>>

PrepareRefuses(c) ==
    LET r == row[call[c].key] IN
    /\ call[c].step = "prepare"
    /\ r.status # "absent"
    /\ ~Replayable(r, call[c].request)
    /\ Return(c)
    /\ UNCHANGED <<row, executions, produced, answers>>

(* The fingerprint is not compared with the stored one. *)
ReplayAnyCompleted(c) ==
    LET r == row[call[c].key] IN
    /\ call[c].step = "prepare"
    /\ r.status = "completed"
    /\ call' = [call EXCEPT ![c].step = "answer", ![c].result = r.result]
    /\ UNCHANGED <<row, executions, produced, answers>>

PrepareReplays(c) ==
    LET r == row[call[c].key] IN
    /\ call[c].step = "prepare"
    /\ Replayable(r, call[c].request)
    /\ call' = [call EXCEPT ![c].step = "answer", ![c].result = r.result]
    /\ UNCHANGED <<row, executions, produced, answers>>

(* INSERT ... 'started' and its commit.  The unique key lets one through;   *)
(* the others find the row when they look again.                            *)
InsertOverwriting(c) ==
    LET k == call[c].key IN
    /\ call[c].step = "insert"
    /\ row' = [row EXCEPT ![k] = Started(call[c].request)]
    /\ Goto(c, "run")
    /\ UNCHANGED <<executions, produced, answers>>

InsertClaims(c) ==
    LET k == call[c].key IN
    /\ call[c].step = "insert"
    /\ row[k].status = "absent"
    /\ row' = [row EXCEPT ![k] = Started(call[c].request)]
    /\ Goto(c, "run")
    /\ UNCHANGED <<executions, produced, answers>>

InsertLoses(c) ==
    /\ call[c].step = "insert"
    /\ row[call[c].key].status # "absent"
    /\ Goto(c, "prepare")
    /\ UNCHANGED <<row, executions, produced, answers>>

(* The database refuses the insert and there is still no row: the error     *)
(* goes to the client and nothing was recorded.                             *)
InsertFails(c) ==
    /\ call[c].step = "insert"
    /\ row[call[c].key].status = "absent"
    /\ Return(c)
    /\ UNCHANGED <<row, executions, produced, answers>>

(* The handler: it may have changed the memory store by the time it         *)
(* returns, raises, or dies with the process.                               *)
HandlerStarts(c) ==
    /\ call[c].step = "run"
    /\ executions' = [executions EXCEPT ![call[c].key] = @ + 1]
    /\ Goto(c, "running")
    /\ UNCHANGED <<row, produced, answers>>

HandlerReturns(c, result) ==
    /\ call[c].step = "running"
    /\ produced' = [produced EXCEPT ![call[c].key] = result]
    /\ call' = [call EXCEPT ![c].step = "complete", ![c].result = result]
    /\ UNCHANGED <<row, executions, answers>>

HandlerRaises(c) ==
    /\ call[c].step = "running"
    /\ Goto(c, "doubt")
    /\ UNCHANGED <<row, executions, produced, answers>>

(* The row is given back instead of being marked, so that a retry can run.  *)
ForgetInDoubt(c) ==
    LET k == call[c].key IN
    /\ call[c].step = "doubt"
    /\ row' = [row EXCEPT ![k] = NoRow]
    /\ Return(c)
    /\ UNCHANGED <<executions, produced, answers>>

(* mark_in_doubt after an exception; the marking itself may fail, and the   *)
(* row then stays started.                                                  *)
MarkInDoubt(c) ==
    LET k == call[c].key IN
    /\ call[c].step = "doubt"
    /\ row' \in {row, [row EXCEPT ![k] = InDoubtRow(@)]}
    /\ Return(c)
    /\ UNCHANGED <<executions, produced, answers>>

CompleteCommits(c) ==
    LET k == call[c].key IN
    /\ call[c].step = "complete"
    /\ row[k].status = "started"
    /\ row' = [row EXCEPT ![k] = CompletedRow(@, call[c].result)]
    /\ Goto(c, "answer")
    /\ UNCHANGED <<executions, produced, answers>>

(* complete_request raises: the row was not the caller's any more, the      *)
(* result is not storable, or the commit failed.  mark_in_doubt then runs   *)
(* on the same connection.  If it was the commit that failed, its own       *)
(* commit may still store the completed row; if it fails too the row stays  *)
(* started.  The client gets the exception in every case.                   *)
CompleteRaises(c) ==
    LET k == call[c].key IN
    /\ call[c].step = "complete"
    /\ row' \in {row, [row EXCEPT ![k] = InDoubtRow(@)],
                 [row EXCEPT ![k] = CompletedRow(@, call[c].result)]}
    /\ Return(c)
    /\ UNCHANGED <<executions, produced, answers>>

AnswerEarly(c) ==
    /\ call[c].step \in {"complete", "answer"}
    /\ answers' = answers \cup
         {[key |-> call[c].key, request |-> call[c].request,
           result |-> call[c].result]}
    /\ Return(c)
    /\ UNCHANGED <<row, executions, produced>>

(* The result, fresh or replayed, leaves for the client. *)
AnswerClient(c) ==
    /\ call[c].step = "answer"
    /\ answers' = answers \cup
         {[key |-> call[c].key, request |-> call[c].request,
           result |-> call[c].result]}
    /\ Return(c)
    /\ UNCHANGED <<row, executions, produced>>

(* The process dies: what the table holds is all that is left of the call.  *)
Crash(c) ==
    /\ call[c] # Idle
    /\ Return(c)
    /\ UNCHANGED <<row, executions, produced, answers>>

Step(c) ==
    \/ PrepareFindsNothing(c)
    \/ PrepareRefuses(c)
    \/ PrepareReplays(c)
    \/ InsertClaims(c)
    \/ InsertLoses(c)
    \/ InsertFails(c)
    \/ HandlerStarts(c)
    \/ \E result \in Results : HandlerReturns(c, result)
    \/ HandlerRaises(c)
    \/ MarkInDoubt(c)
    \/ CompleteCommits(c)
    \/ CompleteRaises(c)
    \/ AnswerClient(c)

Next ==
    \E c \in Callers :
        \/ \E k \in Keys, request \in Requests : Receive(c, k, request)
        \/ Step(c)
        \/ Crash(c)

Spec == Init /\ [][Next]_vars

(* A thread inside execute_idempotent is scheduled until it returns. *)
FairSpec == Spec /\ \A c \in Callers : WF_vars(Step(c))

-----------------------------------------------------------------------------
(* Properties. *)

(* Rows and threads hold what their columns and the code can put there.     *)
TypeOK ==
    /\ row \in [Keys -> Row]
    /\ call \in [Callers -> Call]
    /\ executions \in [Keys -> Nat]
    /\ produced \in [Keys -> Results \cup {None}]
    /\ answers \subseteq [key : Keys, request : Requests, result : Results]

(* However many callers race on a key, and however often clients retry      *)
(* after a crash or a lost answer, the handler behind it starts once.       *)
AtMostOnce == \A k \in Keys : executions[k] <= 1

(* Every answer that carries a result carries the one the handler returned, *)
(* and goes to a client that sent the request the key belongs to: a retry   *)
(* is never shown the outcome of something else.                            *)
AnswersAreFaithful ==
    \A a \in answers :
        /\ a.result = produced[a.key]
        /\ a.request = row[a.key].request
        /\ row[a.key].status = "completed"

(* The caller that claimed a key is inside the call until its outcome is    *)
(* recorded or given up.                                                    *)
Holds(c, k) ==
    /\ call[c].step \in {"run", "running", "complete", "doubt"}
    /\ call[c].key = k

OneHolder ==
    \A c, d \in Callers, k \in Keys : Holds(c, k) /\ Holds(d, k) => c = d

CallInv(c) ==
    LET k == call[c].key IN
    /\ call[c].step # "idle" => k \in Keys /\ call[c].request \in Requests
    /\ Holds(c, k) => row[k] = Started(call[c].request)
    /\ call[c].step = "run" => executions[k] = 0
    /\ call[c].step \in {"run", "running", "doubt"} => produced[k] = None
    /\ call[c].step \in {"running", "complete", "doubt"} => executions[k] = 1
    /\ call[c].step = "complete" =>
         call[c].result \in Results /\ call[c].result = produced[k]
    /\ call[c].step = "answer" =>
         row[k] = Completed(call[c].request, call[c].result)

RowInv(k) ==
    /\ row[k].status = "absent" =>
         row[k] = NoRow /\ executions[k] = 0 /\ produced[k] = None
    /\ row[k].status # "absent" => row[k].request \in Requests
    /\ row[k].status = "completed" =>
         /\ row[k].result \in Results
         /\ row[k].result = produced[k]
         /\ executions[k] = 1
    /\ row[k].status # "completed" => row[k].result = None

(* Why AtMostOnce and AnswersAreFaithful are true, as one invariant that    *)
(* every step preserves: one caller holds a key at a time, it finds its own *)
(* row still started, and whatever is in the row or on its way to a client  *)
(* came from the one run.                                                   *)
Inductive ==
    /\ OneHolder
    /\ \A c \in Callers : CallInv(c)
    /\ \A k \in Keys : RowInv(k)
    /\ AtMostOnce
    /\ AnswersAreFaithful

(* A key belongs to its first request for ever, and an outcome, once        *)
(* recorded, is never revised: not by a late exception, not by a retry.     *)
OutcomesAreFinal ==
    [][\A k \in Keys :
          /\ row[k].status # "absent" => row'[k].request = row[k].request
          /\ row[k].status \in {"completed", "in_doubt"} => row'[k] = row[k]
      ]_vars

(* A call returns: the retry inside prepare_request, which re-enters itself *)
(* when its insert loses, cannot go round for ever.                         *)
EveryCallReturns ==
    \A c \in Callers : (call[c] # Idle) ~> (call[c] = Idle)

(* The table and the threads implement the promise.                        *)
Promise ==
    INSTANCE OnceOnly WITH
        claim <- [k \in Keys |-> row[k].request],
        ran <- {k \in Keys : executions[k] > 0},
        settled <- [k \in Keys |-> row[k].result]

KeepsPromise == Promise!Spec
=============================================================================
