----------------------------- MODULE MCSession -----------------------------
(***************************************************************************)
(* Session for TLC.                                                        *)
(***************************************************************************)
EXTENDS Session, TLC

\* Users, tokens and tabs are interchangeable.
Symmetry == Permutations(Users) \cup Permutations(Tokens) \cup Permutations(Tabs)
=============================================================================
