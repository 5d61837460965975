-------------------------- MODULE MCCaptureReview --------------------------
(* CaptureReview on a small instance: see the .cfg files. *)
EXTENDS CaptureReview, TLC

CONSTANTS a, b, c, r, s, o1, o2

M(content, ref) == [content |-> content, ref |-> ref, state |-> "validated", by |-> 0]
P(kind, content, ref, target) ==
    [kind |-> kind, content |-> content, ref |-> ref, target |-> target]

OneMemory == <<M(a, r)>>
SameAgain == {<<b, s>>}
CloseToA == {<<c, a>>, <<a, c>>}

(* Pairs of proposals that meet: the same text twice, a repeated source and *)
(* a new one, two fates of one memory; what is never applied rides along.   *)
Meeting ==
    {<<P("plain", b, NoRef, 0), P("plain", b, s, 0)>>,
     <<P("plain", b, r, 0), P("version", b, NoRef, 1)>>,
     <<P("conflict", b, NoRef, 1), P("version", c, NoRef, 1)>>,
     <<P("transient", b, NoRef, 0), P("plain", c, NoRef, 0)>>}

AnyOperator == Permutations(Operators)
=============================================================================
