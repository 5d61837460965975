------------------------------ MODULE OnceOnly ------------------------------
(***************************************************************************)
(* What an idempotency key promises a client, with no table, no threads    *)
(* and no failures in sight: a key is claimed by one request for ever, the *)
(* operation behind it takes effect at most once, and every answer that    *)
(* carries a result carries the one result that the key settled on.        *)
(*                                                                         *)
(* Module Idempotency shows that app/workshops/idempotency.py implements   *)
(* this, whatever its callers interleave, repeat or lose.                  *)
(***************************************************************************)

CONSTANTS
    Keys,      \* the idempotency keys clients send
    Requests,  \* what a key can be used for: operation name + payload fingerprint
    Results,   \* what an operation can return
    None       \* "nothing yet"

VARIABLES
    claim,     \* claim[k]: the request that owns key k, or None
    ran,       \* the keys whose operation was started
    settled,   \* settled[k]: the result k is bound to, or None
    answers    \* every answer with a result that a client was given

vars == <<claim, ran, settled, answers>>

Init ==
    /\ claim = [k \in Keys |-> None]
    /\ ran = {}
    /\ settled = [k \in Keys |-> None]
    /\ answers = {}

Claim(k, request) ==
    /\ claim[k] = None
    /\ claim' = [claim EXCEPT ![k] = request]
    /\ UNCHANGED <<ran, settled, answers>>

Run(k) ==
    /\ claim[k] # None
    /\ k \notin ran
    /\ ran' = ran \cup {k}
    /\ UNCHANGED <<claim, settled, answers>>

Settle(k, result) ==
    /\ k \in ran
    /\ settled[k] = None
    /\ settled' = [settled EXCEPT ![k] = result]
    /\ UNCHANGED <<claim, ran, answers>>

Answer(k) ==
    /\ settled[k] # None
    /\ answers' = answers \cup
         {[key |-> k, request |-> claim[k], result |-> settled[k]]}
    /\ UNCHANGED <<claim, ran, settled>>

Next ==
    \E k \in Keys :
        \/ \E request \in Requests : Claim(k, request)
        \/ Run(k)
        \/ \E result \in Results : Settle(k, result)
        \/ Answer(k)

Spec == Init /\ [][Next]_vars
=============================================================================
