---------------------------- MODULE MCRetention ----------------------------
(* Retention on a small instance: see the .cfg files. *)
EXTENDS Retention, TLC

CONSTANTS i1, i2, w1, w2

Fresh ==
    [state |-> "validated", updated |-> 0, archived |-> NoTime, confirm |-> FALSE,
     reval |-> NoTime, review |-> NoTime, until |-> NoTime, expires |-> NoTime]

(* A note that has expired and a task to be revalidated: the note can be    *)
(* expired and then archived, the task revalidated and then expired, and    *)
(* both can be changed in one batch.                                        *)
NoteAndTask ==
    <<[life |-> [Fresh EXCEPT !.until = 0], recalled |-> NoTime],
      [life |-> [Fresh EXCEPT !.reval = 0, !.until = 1], recalled |-> NoTime]>>

TransientAndOperational == <<"transient", "operational">>
AtZero == <<0, 0>>

AnyNames == Permutations(Workers) \cup Permutations(Items)
=============================================================================
