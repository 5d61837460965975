----------------------------- MODULE AuditedFile -----------------------------
(***************************************************************************)
(* What audited file writes promise, with no locks, threads or failures    *)
(* half way: a file and its ledger, a write that adds a row as it changes  *)
(* the file, and a rollback that undoes what one row did, if the file      *)
(* still holds what that row wrote.                                        *)
(*                                                                         *)
(* Two failures show.  A call that fails after its row is written puts the *)
(* file back, and the row is belied.  A crash may come between a change of *)
(* the file and its row: the promise then is only that the file holds what *)
(* some call wanted to put there.                                          *)
(***************************************************************************)
EXTENDS Naturals, Sequences, FiniteSets

CONSTANTS
    Contents,  \* what a file may hold, Missing for no file among them
    Initial    \* what it holds before anything is written

VARIABLES
    content,   \* of the file
    ledger,    \* the rows, by id
    torn,      \* whether a crash ever separated the file from its ledger
    belied     \* the rows, each with the status it had, whose change of the
               \* file was put back

vars == <<content, ledger, torn, belied>>

Init ==
    /\ content = Initial
    /\ ledger = <<>>
    /\ torn = FALSE
    /\ belied = {}

Write(new) ==
    /\ new # content
    /\ content' = new
    /\ ledger' = Append(ledger, [status |-> "applied", old |-> content, new |-> new])
    /\ UNCHANGED <<torn, belied>>

Rollback(i) ==
    /\ ledger[i].status = "applied"
    /\ content = ledger[i].new
    /\ content' = ledger[i].old
    /\ ledger' = [ledger EXCEPT ![i].status = "rolled_back"]
    /\ UNCHANGED <<torn, belied>>

(* What row i with status s says of the file: from where to where it went.  *)
From(i, s) == IF s = "applied" THEN ledger[i].old ELSE ledger[i].new
To(i, s) == IF s = "applied" THEN ledger[i].new ELSE ledger[i].old

(* A row that has just told the truth is belied, once for each status.      *)
PutBack(i) ==
    LET s == ledger[i].status IN
    /\ <<i, s>> \notin belied
    /\ content = To(i, s)
    /\ content' = From(i, s)
    /\ belied' = belied \cup {<<i, s>>}
    /\ UNCHANGED <<ledger, torn>>

Tear ==
    /\ content' \in Contents
    /\ torn' = TRUE
    /\ UNCHANGED <<ledger, belied>>

Next ==
    \/ \E new \in Contents : Write(new)
    \/ \E i \in DOMAIN ledger : Rollback(i)
    \/ \E i \in DOMAIN ledger : PutBack(i)
    \/ Tear

Spec == Init /\ [][Next]_vars

(* Rows that are applied and have content c in a field.                     *)
Applied(field, c) ==
    {i \in DOMAIN ledger : ledger[i].status = "applied" /\ ledger[i][field] = c}

(* Changes that were put back, of a row that says they went from c or to c. *)
BeliedFrom(c) == {b \in belied : From(b[1], b[2]) = c}
BeliedTo(c) == {b \in belied : To(b[1], b[2]) = c}

Is(x, c) == IF x = c THEN 1 ELSE 0

(* No crash between the file and a row: the ledger explains the file.  Each *)
(* applied row took it away from one content and to another, and each row   *)
(* that is belied the other way; counted for each content, the arrivals     *)
(* less the departures say where it started and where it is.  Rows may be   *)
(* rolled back in any order that their contents allow, even around rows     *)
(* that stay applied, and a belied row may be rolled back once more.        *)
Balances ==
    ~torn =>
      \A c \in Contents :
        Is(Initial, c) + Cardinality(Applied("new", c)) + Cardinality(BeliedFrom(c))
          = Is(content, c) + Cardinality(Applied("old", c)) + Cardinality(BeliedTo(c))
=============================================================================
