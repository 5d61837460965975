---------------------------- MODULE MCFileWrites ----------------------------
(* FileWrites on small instances: see the .cfg files. *)
EXTENDS FileWrites

CONSTANTS w1, w2

(* The service object shared by all calls, as the tests use the class. *)
Shared == [w \in Workers |-> "service"]

(* A new service object for each call, as capability_tools makes them. *)
PerCall == [w \in Workers |-> w]
=============================================================================
