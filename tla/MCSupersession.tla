--------------------------- MODULE MCSupersession ---------------------------
(***************************************************************************)
(* Supersession on small instances: one operator over four memories of     *)
(* different standing, and two operators over three alike.                 *)
(***************************************************************************)
EXTENDS Supersession, TLC

CONSTANTS m1, m2, m3, m4

OneDomain == [m \in Memories |-> "project"]

AllValidated == [m \in Memories |-> "validated"]

(* m3 is somebody's proposal, not reviewed yet; m2 has gone stale. *)
Mixed == (m1 :> "validated") @@ (m2 :> "stale") @@ (m3 :> "candidate") @@ (m4 :> "validated")

(* The operators are alike, and so are the memories somebody may archive,   *)
(* and those nobody may.                                                    *)
Symmetry ==
    Permutations(Archivable) \cup Permutations(Memories \ Archivable)
        \cup Permutations(Operators)
=============================================================================
