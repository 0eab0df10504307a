------------------------------- MODULE Notify -------------------------------
(***************************************************************************)
(* What the outgoing webhooks promise, whatever the program does to keep   *)
(* the promise: when an event is published it becomes due for every hook   *)
(* of its audience and for no other, however the audience changes later;   *)
(* each of them is told at most once, the log only speaks of hooks that    *)
(* were told, and an event is over only when nothing of it is due.  The    *)
(* death of the process alone drops what is due, of all that is open.      *)
(***************************************************************************)
CONSTANTS Hooks, Events

VARIABLES
  audience,  \* of every event: the hooks that are active and subscribed to it now
  phase,     \* of every event
  status     \* of every event and hook

nvars == <<audience, phase, status>>

TypeOK ==
  /\ audience \in [Events -> SUBSET Hooks]
  /\ phase \in [Events -> {"quiet", "open", "over", "lost"}]
  /\ status \in [Events -> [Hooks -> {"no", "due", "told", "logged", "dropped"}]]

Init ==
  /\ audience \in [Events -> SUBSET Hooks]
  /\ phase = [e \in Events |-> "quiet"]
  /\ status = [e \in Events |-> [h \in Hooks |-> "no"]]

\* Hooks come and go, or change what they subscribe to.
Resubscribe ==
  /\ audience' \in [Events -> SUBSET Hooks]
  /\ UNCHANGED <<phase, status>>

Publish(e) ==
  /\ phase[e] = "quiet"
  /\ phase' = [phase EXCEPT ![e] = "open"]
  /\ status' = [status EXCEPT ![e] = [h \in Hooks |-> IF h \in audience[e] THEN "due" ELSE "no"]]
  /\ UNCHANGED audience

Move(e, h, from, to) ==
  /\ phase[e] = "open" /\ status[e][h] = from
  /\ status' = [status EXCEPT ![e][h] = to]
  /\ UNCHANGED <<audience, phase>>
Tell(e, h) == Move(e, h, "due", "told")
Log(e, h) == Move(e, h, "told", "logged")

Close(e) ==
  /\ phase[e] = "open" /\ \A h \in Hooks : status[e][h] # "due"
  /\ phase' = [phase EXCEPT ![e] = "over"]
  /\ UNCHANGED <<audience, status>>

\* The process dies, and with it every event that is open.
Die ==
  /\ phase' = [e \in Events |-> IF phase[e] = "open" THEN "lost" ELSE phase[e]]
  /\ status' = [e \in Events |-> [h \in Hooks |->
                  IF status[e][h] = "due" THEN "dropped" ELSE status[e][h]]]
  /\ UNCHANGED audience

Next ==
  \/ Resubscribe \/ Die
  \/ \E e \in Events : Publish(e) \/ Close(e) \/ \E h \in Hooks : Tell(e, h) \/ Log(e, h)

Spec == Init /\ [][Next]_nvars
=============================================================================
