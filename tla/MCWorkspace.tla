--------------------------- MODULE MCWorkspace ---------------------------
(***************************************************************************)
(* Workspace for TLC.                                                      *)
(***************************************************************************)
EXTENDS Workspace, TLC

CONSTANTS l1, l2, c1, c2   \* slots

\* Slots are interchangeable, and so are candidates.
Symmetry == Permutations({l1, l2}) \cup Permutations({c1, c2}) \cup Permutations(Candidates)
=============================================================================
