-------------------------- MODULE MCCandidateCache --------------------------
(***************************************************************************)
(* CandidateCache for TLC.                                                 *)
(***************************************************************************)
EXTENDS CandidateCache, TLC

Symmetry == Permutations(Readers) \cup Permutations(Writers) \cup Permutations(Candidates)

=============================================================================
