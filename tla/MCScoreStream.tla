--------------------------- MODULE MCScoreStream ---------------------------
(***************************************************************************)
(* ScoreStream for TLC: the page of an admin, who sees both scores.        *)
(***************************************************************************)
EXTENDS ScoreStream

CONSTANTS admin, a, b   \* a page; a score of its user and one of a reviewer

OwnOf  == [p \in Pages |-> {a}]
SeesOf == [p \in Pages |-> {a, b}]

=============================================================================
