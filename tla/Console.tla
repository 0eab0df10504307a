------------------------------ MODULE Console ------------------------------
(***************************************************************************)
(* The integrations modal of an administrator, IntegrationsModal.tsx with  *)
(* api/integrations.ts: API keys, webhooks with their test pings and       *)
(* delivery logs, and the export links, composed with the webhooks of the  *)
(* server.  The modal stays mounted while it is closed.                    *)
(*                                                                         *)
(* Everything between two awaits is one step; what a handler does after    *)
(* its await it does with the values of the render it was created in.      *)
(***************************************************************************)
EXTENDS Webhooks, FiniteSets

CONSTANTS Keys, NoKey,
          LoadSlots, NoSlot,   \* bound: GETs under way
          MaxCalls, MaxActs    \* bounds on mutations, others' included, and on them and navigation

ASSUME ConsoleConstants == /\ NoKey \notin Keys /\ Keys \cap Hooks = {}
                           /\ NoSlot \notin LoadSlots
                           /\ MaxActs \in Nat /\ MaxCalls \in 0..MaxActs

VARIABLES
  key,     \* the table api_keys
  ui,      \* the state of the modal
  load,    \* GETs under way
  newest,  \* history: per kind, the newest GET, and whether the last answer was its
  call,    \* mutations under way
  told,    \* history: the keys and hooks whose deletion has returned
  made,    \* history: the keys and hooks whose creation has returned
  clicks, calls   \* bounds

vars == <<hook, job, called, rows, recorded, ping, doomed,
          key, ui, load, newest, call, told, made, clicks, calls>>
uvars == <<key, ui, load, newest, call, told, made, clicks, calls>>

-----------------------------------------------------------------------------
(* State. *)

Lists == {"keys", "hooks"}

\* logsOf is the hook whose log is unfolded, logs whose deliveries are there to show.
Ui == [open : BOOLEAN, at : {"keys", "hooks", "export"},
       shown : [Lists -> SUBSET (Keys \cup Hooks)],
       waiting : SUBSET {"keys", "hooks", "logs"}, form : SUBSET Lists, saving : SUBSET Lists,
       fresh : Keys \cup {NoKey}, testing : Hooks \cup {NoHook}, result : Hooks \cup {NoHook},
       logsOf : Hooks \cup {NoHook}, logs : Hooks \cup {NoHook}]
Load == [pc : {"free", "asked", "served"}, kind : {"keys", "hooks", "logs"},
         of : Hooks \cup {NoHook}, got : SUBSET (Keys \cup Hooks)]
NoLoad == [pc |-> "free", kind |-> "keys", of |-> NoHook, got |-> {}]

\* logsOf is that of the closure; lost: nobody waits for the call any more.
Kinds == {"createKey", "revokeKey", "createHook", "deleteHook", "ping"}
Call_ == [pc : {"free", "sent", "calling", "deleting", "done", "dead"}, kind : Kinds,
          thing : Keys \cup Hooks \cup {NoHook}, logsOf : Hooks \cup {NoHook}, lost : BOOLEAN]
NoCall == [pc |-> "free", kind |-> "ping", thing |-> NoHook, logsOf |-> NoHook, lost |-> FALSE]
Awaited(c) == c.pc # "free" /\ ~c.lost

Init ==
  /\ HInit
  /\ key \in [Keys -> {"never", "there"}]
  /\ ui = [open |-> FALSE, at |-> "keys", shown |-> [l \in Lists |-> {}], waiting |-> {},
           form |-> {}, saving |-> {}, fresh |-> NoKey, testing |-> NoHook, result |-> NoHook,
           logsOf |-> NoHook, logs |-> NoHook]
  /\ load = [s \in LoadSlots |-> NoLoad]
  /\ newest = [k \in {"keys", "hooks", "logs"} |-> [at |-> NoSlot, last |-> FALSE]]
  /\ call = [p \in Requests |-> NoCall]
  /\ told = {} /\ made = {} /\ clicks = 0 /\ calls = 0

-----------------------------------------------------------------------------
(* Loads.  Operators named ..._bug are mutants of the definition they precede. *)

\* A GET of kind k is sent from slot s.
Ask(s, k, h) ==
  /\ load[s].pc = "free"
  /\ load' = [load EXCEPT ![s] = [pc |-> "asked", kind |-> k, of |-> h, got |-> {}]]
  /\ newest' = [newest EXCEPT ![k] = [at |-> s, last |-> FALSE]]

\* loadKeys or loadWebhooks, in the modal that x is otherwise.
Loading(x, l) == \E s \in LoadSlots :
  /\ Ask(s, l, NoHook)
  /\ ui' = [x EXCEPT !.waiting = @ \cup {l}]

Stored(l) == IF l = "keys" THEN {k \in Keys : key[k] = "there"} ELSE {h \in Hooks : There(h)}

Serve(s) ==
  /\ load[s].pc = "asked"
  /\ load' = [load EXCEPT ![s].pc = "served",
                ![s].got = IF load[s].kind = "logs" THEN {} ELSE Stored(load[s].kind)]
  /\ UNCHANGED <<hvars, key, ui, newest, call, told, made, clicks, calls>>

Answer_keepsLogs_bug(s) ==
  LET l == load[s] IN
  /\ l.pc = "served"
  /\ ui' = IF l.kind = "logs" THEN [ui EXCEPT !.waiting = @ \ {"logs"}]
           ELSE [ui EXCEPT !.shown[l.kind] = l.got, !.waiting = @ \ {l.kind}]
  /\ newest' = [newest EXCEPT ![l.kind].last = (s = newest[l.kind].at)]
  /\ load' = [load EXCEPT ![s] = NoLoad]
  /\ UNCHANGED <<hvars, key, call, told, made, clicks, calls>>
\* An answer is shown, whichever was asked for last, and ends the waiting.
Answer(s) ==
  LET l == load[s] IN
  /\ l.pc = "served"
  /\ ui' = IF l.kind = "logs" THEN [ui EXCEPT !.logs = l.of, !.waiting = @ \ {"logs"}]
           ELSE [ui EXCEPT !.shown[l.kind] = l.got, !.waiting = @ \ {l.kind}]
  /\ newest' = [newest EXCEPT ![l.kind].last = (s = newest[l.kind].at)]
  /\ load' = [load EXCEPT ![s] = NoLoad]
  /\ UNCHANGED <<hvars, key, call, told, made, clicks, calls>>

\* An error ends the waiting too; what was shown stays.
LoadFails(s) ==
  /\ load[s].pc # "free"
  /\ ui' = [ui EXCEPT !.waiting = @ \ {load[s].kind}]
  /\ load' = [load EXCEPT ![s] = NoLoad]
  /\ UNCHANGED <<hvars, key, newest, call, told, made, clicks, calls>>

-----------------------------------------------------------------------------
(* Moving about. *)

Click == clicks + calls < MaxActs /\ clicks' = clicks + 1

\* The modal is opened, or another tab is chosen: the effect loads the tab's list.
Show(x) ==
  /\ Click
  /\ IF x.at = "export" THEN ui' = x /\ UNCHANGED <<load, newest>> ELSE Loading(x, x.at)
  /\ UNCHANGED <<hvars, key, call, told, made, calls>>
Open == ~ui.open /\ Show([ui EXCEPT !.open = TRUE])
ChooseTab == \E t \in {"keys", "hooks", "export"} \ {ui.at} :
  ui.open /\ Show([ui EXCEPT !.at = t])

\* A change of the modal alone.
Only(x) ==
  /\ ui' = x
  /\ UNCHANGED <<hvars, key, load, newest, call, told, made, clicks, calls>>
Close ==
  /\ Click
  /\ ui.open /\ ui' = [ui EXCEPT !.open = FALSE]
  /\ UNCHANGED <<hvars, key, load, newest, call, told, made, calls>>
OpenForm == \E l \in Lists \ ui.form :
  /\ Click
  /\ ui.open /\ ui.at = l
  /\ ui' = [ui EXCEPT !.form = @ \cup {l}]
  /\ UNCHANGED <<hvars, key, load, newest, call, told, made, calls>>
CloseForm_resets_bug == \E l \in ui.form :
  /\ ui.open /\ ui.at = l
  /\ Only([ui EXCEPT !.form = @ \ {l}, !.saving = @ \ {l}])
CloseForm == \E l \in ui.form :
  /\ ui.open /\ ui.at = l
  /\ Only([ui EXCEPT !.form = @ \ {l}])

\* The logs of a hook are unfolded, or folded again.
Listed(l, x) == ui.open /\ ui.at = l /\ l \notin ui.waiting /\ x \in ui.shown[l]
ViewLogs == \E h \in Hooks \ {ui.logsOf}, s \in LoadSlots :
  /\ Click
  /\ Listed("hooks", h)
  /\ Ask(s, "logs", h)
  /\ ui' = [ui EXCEPT !.logsOf = h, !.waiting = @ \cup {"logs"}]
  /\ UNCHANGED <<hvars, key, call, told, made, calls>>
FoldLogs ==
  /\ ui.logsOf # NoHook /\ Listed("hooks", ui.logsOf)
  /\ Only([ui EXCEPT !.logsOf = NoHook])

-----------------------------------------------------------------------------
(* Mutations. *)

Mutate == calls < MaxCalls /\ clicks + calls < MaxActs /\ calls' = calls + 1

Send(kind, x, u) ==
  /\ Mutate
  /\ \E p \in Requests :
       /\ call[p].pc = "free"
       /\ call' = [call EXCEPT ![p] = [pc |-> "sent", kind |-> kind, thing |-> x,
                                       logsOf |-> ui.logsOf, lost |-> FALSE]]
  /\ ui' = u
  /\ UNCHANGED <<hvars, key, load, newest, told, made, clicks>>

\* The form of the tab is submitted; its button is disabled until the call returns.
Submit(l) ==
  /\ ui.open /\ ui.at = l /\ l \in ui.form /\ l \notin ui.saving
  /\ Send(IF l = "keys" THEN "createKey" ELSE "createHook", NoHook, [ui EXCEPT !.saving = @ \cup {l}])
Revoke == \E k \in Keys : Listed("keys", k) /\ Send("revokeKey", k, ui)
Delete == \E h \in Hooks : Listed("hooks", h) /\ Send("deleteHook", h, ui)

TestPing == \E h \in Hooks \ {ui.testing} :
  Listed("hooks", h) /\ Send("ping", h, [ui EXCEPT !.testing = h, !.result = NoHook])

\* The server executes a call.
Step(p, pc) ==
  /\ call' = [call EXCEPT ![p].pc = pc]
  /\ UNCHANGED <<ui, load, newest, told, made, clicks, calls>>
CreatesKey(p) == \E k \in Keys :
  /\ call[p].pc = "sent" /\ call[p].kind = "createKey" /\ key[k] = "never"
  /\ key' = [key EXCEPT ![k] = "there"]
  /\ call' = [call EXCEPT ![p].pc = "done", ![p].thing = k]
  /\ UNCHANGED <<hvars, ui, load, newest, told, made, clicks, calls>>
RevokesKey(p) ==
  /\ call[p].pc = "sent" /\ call[p].kind = "revokeKey" /\ key[call[p].thing] = "there"
  /\ key' = [key EXCEPT ![call[p].thing] = "gone"]
  /\ UNCHANGED hvars
  /\ Step(p, "done")
CreatesHook(p) == \E h \in Hooks, w \in SUBSET Events :
  /\ call[p].pc = "sent" /\ call[p].kind = "createHook" /\ w # {}
  /\ CreateHook(h, w)
  /\ call' = [call EXCEPT ![p].pc = "done", ![p].thing = h]
  /\ UNCHANGED <<key, ui, load, newest, told, made, clicks, calls>>
Deleting(p) ==
  /\ call[p].pc = "sent" /\ call[p].kind = "deleteHook" /\ StartDelete(p, call[p].thing)
  /\ UNCHANGED key
  /\ Step(p, "deleting")
DeletesHook(p) ==
  /\ call[p].pc = "deleting" /\ DeleteHook(p)
  /\ UNCHANGED key
  /\ Step(p, "done")
Pinging(p) ==
  /\ call[p].pc = "sent" /\ call[p].kind = "ping" /\ StartPing(p, call[p].thing)
  /\ UNCHANGED key
  /\ Step(p, "calling")
Pinged(p) ==
  /\ call[p].pc = "calling" /\ PingRecorded(p)
  /\ UNCHANGED key
  /\ Step(p, "done")

Returned_unlessWaiting_bug(p, u, l) ==
  /\ call[p].pc = "done" /\ ~call[p].lost
  /\ IF l \in ui.waiting THEN ui' = u /\ UNCHANGED <<load, newest>> ELSE Loading(u, l)
  /\ call' = [call EXCEPT ![p] = NoCall]
  /\ UNCHANGED <<hvars, key, clicks, calls>>
\* A call has returned: u is the modal then; the list l is loaded again.
Returned(p, u, l) ==
  /\ call[p].pc = "done" /\ ~call[p].lost
  /\ Loading(u, l)
  /\ call' = [call EXCEPT ![p] = NoCall]
  /\ UNCHANGED <<hvars, key, clicks, calls>>
CreateReturns_freshAlways_bug(p) == \E l \in Lists :
  LET x == call[p].thing IN
  /\ call[p].kind = IF l = "keys" THEN "createKey" ELSE "createHook"
  /\ Returned(p, [ui EXCEPT !.form = @ \ {l}, !.saving = @ \ {l}, !.fresh = x], l)
  /\ made' = made \cup {x}
  /\ UNCHANGED told
CreateReturns(p) == \E l \in Lists :
  LET x == call[p].thing
      u == [ui EXCEPT !.form = @ \ {l}, !.saving = @ \ {l}]
  IN  /\ call[p].kind = IF l = "keys" THEN "createKey" ELSE "createHook"
      /\ Returned(p, IF l = "keys" THEN [u EXCEPT !.fresh = x] ELSE u, l)
      /\ made' = made \cup {x}
      /\ UNCHANGED told
DeleteReturns(p) == \E l \in Lists :
  LET x == call[p].thing IN
  /\ call[p].kind = IF l = "keys" THEN "revokeKey" ELSE "deleteHook"
  /\ Returned(p, IF l = "hooks" /\ call[p].logsOf = x THEN [ui EXCEPT !.logsOf = NoHook] ELSE ui, l)
  /\ told' = told \cup {x}
  /\ UNCHANGED made
PingReturns_resultOnly_bug(p) ==
  /\ call[p].kind = "ping"
  /\ Returned(p, [ui EXCEPT !.result = call[p].thing], "hooks")
  /\ UNCHANGED <<told, made>>
\* Whichever ping returns, no button shows a ping under way after that.
PingReturns(p) ==
  /\ call[p].kind = "ping"
  /\ Returned(p, [ui EXCEPT !.result = call[p].thing, !.testing = NoHook], "hooks")
  /\ UNCHANGED <<told, made>>

\* What a call that fails for its caller does to the modal: nothing is loaded again.
Failed(c) ==
  CASE c.kind = "createKey"  -> [ui EXCEPT !.saving = @ \ {"keys"}]
    [] c.kind = "createHook" -> [ui EXCEPT !.saving = @ \ {"hooks"}]
    [] c.kind = "ping"       -> [ui EXCEPT !.testing = NoHook, !.result = c.thing]
    [] OTHER                 -> ui
\* The server refuses or fails, if it is executing the call, or its answer is lost.
Fail(p) ==
  /\ Awaited(call[p])
  /\ ui' = Failed(call[p])
  /\ call' = [call EXCEPT ![p] = NoCall]
  /\ CASE ping[p] # NoHook   -> PingFails(p)
       [] doomed[p] # NoHook -> DeleteFails(p)
       [] OTHER              -> UNCHANGED hvars
  /\ UNCHANGED <<key, load, newest, told, made, clicks, calls>>
\* The connection is lost: the server executes the call, now or later, all the same.
Lose(p) ==
  /\ Awaited(call[p]) /\ call[p].pc \in {"sent", "calling", "deleting"}
  /\ ui' = Failed(call[p])
  /\ call' = [call EXCEPT ![p].lost = TRUE]
  /\ UNCHANGED <<hvars, key, load, newest, told, made, clicks, calls>>
\* What nobody waits for ends, well or not.
Unheard(p) ==
  /\ call[p].lost
  /\ call' = [call EXCEPT ![p] = NoCall]
  /\ CASE ping[p] # NoHook   -> PingFails(p)
       [] doomed[p] # NoHook -> DeleteFails(p)
       [] OTHER              -> UNCHANGED hvars
  /\ UNCHANGED <<key, ui, load, newest, told, made, clicks, calls>>

-----------------------------------------------------------------------------
Moving == Open \/ ChooseTab \/ Close \/ OpenForm \/ CloseForm \/ ViewLogs \/ FoldLogs
Mutating == (\E l \in Lists : Submit(l)) \/ Revoke \/ Delete \/ TestPing
Serving(p) ==
  \/ CreatesKey(p) \/ RevokesKey(p) \/ CreatesHook(p)
  \/ Deleting(p) \/ DeletesHook(p) \/ Pinging(p) \/ Pinged(p)
Returning(p) ==
  \/ CreateReturns(p) \/ DeleteReturns(p) \/ PingReturns(p)
  \/ Fail(p) \/ Lose(p) \/ Unheard(p)

\* What the webhooks do by themselves; PATCH is for clients other than the modal.
Others ==
  /\ \/ Dispatching /\ UNCHANGED calls
     \/ ((\E e \in Events : Publish(e)) \/ \E h \in Hooks : UpdateHook(h))
        /\ Mutate
  /\ UNCHANGED <<key, ui, load, newest, call, told, made, clicks>>
\* The process dies with the calls it is executing.
Restart ==
  /\ Crash
  /\ call' = [p \in Requests |-> IF Idle(p) THEN call[p] ELSE [call[p] EXCEPT !.pc = "dead"]]
  /\ UNCHANGED <<key, ui, load, newest, told, made, clicks, calls>>

Next ==
  \/ Moving \/ Mutating \/ Others \/ Restart
  \/ \E s \in LoadSlots : Serve(s) \/ Answer(s) \/ LoadFails(s)
  \/ \E p \in Requests : Serving(p) \/ Returning(p)

Spec == Init /\ [][Next]_vars

-----------------------------------------------------------------------------
(* Properties. *)

\* Every variable keeps its type, the webhooks' included, and the server executes a ping or a
\* deletion only for a call that was sent, whether its caller still waits or not.
TypeOK ==
  /\ HTypeOK
  /\ key \in [Keys -> {"never", "there", "gone"}]
  /\ ui \in Ui
  /\ load \in [LoadSlots -> Load]
  /\ newest \in [{"keys", "hooks", "logs"} -> [at : LoadSlots \cup {NoSlot}, last : BOOLEAN]]
  /\ call \in [Requests -> Call_]
  /\ \A p \in Requests : /\ call[p].pc = "calling" <=> ping[p] # NoHook
                         /\ call[p].pc = "deleting" <=> doomed[p] # NoHook
  /\ told \cup made \subseteq Keys \cup Hooks
  /\ clicks \in Nat /\ calls \in 0..MaxCalls /\ clicks + calls <= MaxActs

(***************************************************************************)
(* Who was told that a key is revoked, or a webhook deleted, does not see  *)
(* it any more, and what was created is listed, as soon as the newest load *)
(* of the list was the last to answer: tabs are switched and loads overlap *)
(* meanwhile (IntegrationsModal.tsx l.87-117).                             *)
(***************************************************************************)
OwnWritesShown == \A l \in Lists : newest[l].last =>
  /\ ui.shown[l] \cap told = {}
  /\ made \cap Stored(l) \subseteq ui.shown[l]

\* The deliveries on display are those of the webhook they are unfolded under, once the
\* newest load of deliveries is the last to have answered (l.222-237).
LogsBelong ==
  newest["logs"].last /\ ui.logsOf # NoHook /\ "logs" \notin ui.waiting => ui.logs = ui.logsOf

\* A button that shows a test ping has one under way, whichever pings overlap and however
\* they end; the converse fails when one ping returns before another (l.218).
SpinnerTruthful ==
  ui.testing # NoHook =>
    \E p \in Requests : Awaited(call[p]) /\ call[p].kind = "ping" /\ call[p].thing = ui.testing

\* The button of a form is disabled exactly while its call is awaited, although form, tab and
\* modal can be closed and opened again meanwhile: nothing is created twice but by hand, after
\* a call that failed for the modal (l.119-139, l.166-189).
SavingTruthful == \A l \in Lists :
  Cardinality({p \in Requests : Awaited(call[p])
                 /\ call[p].kind = IF l = "keys" THEN "createKey" ELSE "createHook"})
    = IF l \in ui.saving THEN 1 ELSE 0
=============================================================================
