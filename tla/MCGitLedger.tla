---------------------------- MODULE MCGitLedger ----------------------------
(* GitLedger on a small instance: see the .cfg file. *)
EXTENDS GitLedger, TLC

CONSTANTS p, q, u, v

FirstTree == [path \in Paths |-> 0]
BothEdited == {[path \in Paths |-> 1]}
Alike == Permutations(Workers) \cup Permutations(Paths)

(* A behaviour is followed up to its first race: the properties say nothing *)
(* of what comes after.                                                     *)
UpToRace == ~raced

(* Bound: people act twice around one row, and once around two or three.    *)
FewTogether == Len(rows) + acts <= 3
=============================================================================
