--------------------------- MODULE MCIdempotency ---------------------------
(***************************************************************************)
(* Idempotency for TLC.  Requests, keys and hashes are interchangeable, so *)
(* the safety runs identify states that differ by renaming them.           *)
(***************************************************************************)
EXTENDS Idempotency, TLC

Symmetry == Permutations(Requests) \cup Permutations(Keys) \cup Permutations(Hashes)

============================================================================
