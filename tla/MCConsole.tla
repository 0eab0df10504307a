----------------------------- MODULE MCConsole -----------------------------
(***************************************************************************)
(* Console, with the webhooks it is composed with, for TLC.                *)
(***************************************************************************)
EXTENDS Console, TLC

\* Slots, webhooks and the places of calls are interchangeable.
Symmetry == Permutations(Hooks) \cup Permutations(LoadSlots) \cup Permutations(Requests)

\* The webhooks that are there at first are subscribed to every event; UpdateHook changes that.
SubscribedInit == Init /\ \A h \in Hooks : There(h) => hook[h].wants = Events
SubscribedSpec == SubscribedInit /\ [][Next]_vars
=============================================================================
