---------------------------- MODULE MCWriterGuard ----------------------------
(***************************************************************************)
(* WriterGuard on small instances: two processes on one host and one on    *)
(* another that shares the file system, or two on one host.                *)
(***************************************************************************)
EXTENDS WriterGuard, TLC

CONSTANTS p1, p2, p3

TwoHosts == (p1 :> "a") @@ (p2 :> "a") @@ (p3 :> "b")

OneHost == [p \in Instances |-> "a"]
=============================================================================
