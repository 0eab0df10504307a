--------------------------- MODULE MCDashboard ---------------------------
(***************************************************************************)
(* Dashboard for TLC.                                                      *)
(***************************************************************************)
EXTENDS Dashboard, TLC

CONSTANTS status, new,   \* a filter; a value of it
          s1, s2, t1       \* slots

SlotsOf == [k \in Kinds |-> IF k = "list" THEN {s1, s2} ELSE {t1}]
ValuesOf == [f \in Fields |-> {All, new}]

\* Loads differ by what they were asked for, not by their slots.
SlotSymmetry == Permutations({s1, s2})
=============================================================================
