------------------------------ MODULE Webhooks ------------------------------
(***************************************************************************)
(* Outgoing webhooks: backend/app/services/webhook_service.py and the      *)
(* endpoints of routers/integrations.py.  A mutation of a candidate waits  *)
(* for the dispatch of its event (candidate_service.py), which calls one   *)
(* hook after the other and records each call in a session of its own.     *)
(*                                                                         *)
(* Everything between two awaits of the event loop is one step; endpoints  *)
(* that are not async run in threads and commit once.                      *)
(***************************************************************************)
EXTENDS Integers

CONSTANTS Hooks, NoHook, Events,
          Ping,       \* stands in the log for test.ping
          Requests,   \* bound: test pings and deletions under way
          Enforced    \* the database checks foreign keys (SQLite here does not)

ASSUME WebhookConstants == NoHook \notin Hooks /\ Ping \notin Events /\ Enforced \in BOOLEAN

VARIABLES
  hook,      \* the table webhooks
  job,       \* the dispatch of every event
  called,    \* history: how often each hook was called for each event
  rows,      \* the table webhook_deliveries, and which deletions have loaded which row
  recorded,  \* history: the rows of events that were ever committed
  ping,      \* test pings under way: the hook each of them has read
  doomed     \* deletions under way: the hook each of them has loaded

hvars == <<hook, job, called, rows, recorded, ping, doomed>>

-----------------------------------------------------------------------------
(* State. *)

\* wants: the events it is called for, none while it is not active.
Hook == [there : {"never", "there", "gone"}, wants : SUBSET Events]
Job == [pc : {"idle", "next", "calling", "done", "dead"}, todo : SUBSET Hooks, at : Hooks \cup {NoHook}]
\* written is a history: in its hook's life, while its hook was being deleted, or after that.
Row == [of : Events \cup {Ping}, hook : Hooks, written : {"life", "deletion", "after"},
        loaded : SUBSET Requests]

There(h) == hook[h].there = "there"
Delivery(of, h) ==
  [of |-> of, hook |-> h, loaded |-> {},
   written |-> IF ~There(h) THEN "after"
               ELSE IF \E p \in Requests : doomed[p] = h THEN "deletion" ELSE "life"]

\* Some hooks are there when the process starts.
Unused == [there |-> "never", wants |-> {}]
HInit ==
  /\ hook \in [Hooks -> {Unused} \cup [there : {"there"}, wants : SUBSET Events]]
  /\ job = [e \in Events |-> [pc |-> "idle", todo |-> {}, at |-> NoHook]]
  /\ called = [e \in Events |-> [h \in Hooks |-> 0]]
  /\ rows = {} /\ recorded = {}
  /\ ping = [p \in Requests |-> NoHook] /\ doomed = [p \in Requests |-> NoHook]

-----------------------------------------------------------------------------
(* The endpoints.  Operators named ..._bug are mutants of the definition they precede. *)

CreateHook(h, wants) ==
  /\ hook[h].there = "never"
  /\ hook' = [hook EXCEPT ![h] = [there |-> "there", wants |-> wants]]
  /\ UNCHANGED <<job, called, rows, recorded, ping, doomed>>

\* PATCH: events and is_active may change.
UpdateHook(h) ==
  /\ There(h)
  /\ \E w \in SUBSET Events : hook' = [hook EXCEPT ![h].wants = w]
  /\ UNCHANGED <<job, called, rows, recorded, ping, doomed>>

Idle(p) == ping[p] = NoHook /\ doomed[p] = NoHook
Unloaded(R, P) == {[r EXCEPT !.loaded = @ \ P] : r \in R}

StartDelete_loadsNone_bug(p, h) ==
  /\ Idle(p) /\ There(h)
  /\ doomed' = [doomed EXCEPT ![p] = h]
  /\ UNCHANGED <<hook, job, called, rows, recorded, ping>>
\* DELETE: db.delete loads the deliveries there are, as the relationship's cascade needs them.
StartDelete(p, h) ==
  /\ Idle(p) /\ There(h)
  /\ doomed' = [doomed EXCEPT ![p] = h]
  /\ rows' = {IF r.hook = h THEN [r EXCEPT !.loaded = @ \cup {p}] ELSE r : r \in rows}
  /\ UNCHANGED <<hook, job, called, recorded, ping>>
\* The commit deletes what was loaded and the hook, which another may have deleted meanwhile;
\* a database that checks foreign keys deletes the other deliveries of the hook as well.
DeleteHook(p) ==
  /\ doomed[p] # NoHook
  /\ hook' = [hook EXCEPT ![doomed[p]].there = "gone"]
  /\ rows' = {r \in rows : p \notin r.loaded /\ ~(Enforced /\ r.hook = doomed[p])}
  /\ doomed' = [doomed EXCEPT ![p] = NoHook]
  /\ UNCHANGED <<job, called, recorded, ping>>
DeleteFails(p) ==
  /\ doomed[p] # NoHook
  /\ rows' = Unloaded(rows, {p})
  /\ doomed' = [doomed EXCEPT ![p] = NoHook]
  /\ UNCHANGED <<hook, job, called, recorded, ping>>

-----------------------------------------------------------------------------
(* Dispatch. *)

Subscribers(e) == {h \in Hooks : There(h) /\ e \in hook[h].wants}

Publish_everyone_bug(e) ==
  /\ job[e].pc = "idle"
  /\ job' = [job EXCEPT ![e].pc = "next", ![e].todo = {h \in Hooks : There(h)}]
  /\ UNCHANGED <<hook, called, rows, recorded, ping, doomed>>
\* A mutation has committed: the hooks that are active and subscribed now will be called.
Publish(e) ==
  /\ job[e].pc = "idle"
  /\ job' = [job EXCEPT ![e].pc = "next", ![e].todo = Subscribers(e)]
  /\ UNCHANGED <<hook, called, rows, recorded, ping, doomed>>

\* The POST to one of them, in the order the query gave; it need not be there any more.
Call(e, h) ==
  /\ job[e].pc = "next" /\ h \in job[e].todo
  /\ job' = [job EXCEPT ![e].pc = "calling", ![e].at = h, ![e].todo = @ \ {h}]
  /\ called' = [called EXCEPT ![e][h] = @ + 1]
  /\ UNCHANGED <<hook, rows, recorded, ping, doomed>>

\* The POST is answered, fails or times out: the call is recorded, unless the commit fails,
\* as it does for a hook that is gone where foreign keys are checked.
Record(e) ==
  /\ job[e].pc = "calling"
  /\ job' = [job EXCEPT ![e].pc = "next", ![e].at = NoHook]
  /\ \/ /\ There(job[e].at) \/ ~Enforced
        /\ rows' = rows \cup {Delivery(e, job[e].at)}
        /\ recorded' = recorded \cup {[of |-> e, hook |-> job[e].at]}
     \/ UNCHANGED <<rows, recorded>>
  /\ UNCHANGED <<hook, called, ping, doomed>>

Finish_firstFailure_bug(e) ==
  /\ job[e].pc = "next"
  /\ job' = [job EXCEPT ![e].pc = "done"]
  /\ UNCHANGED <<hook, called, rows, recorded, ping, doomed>>
\* The loop ends: the mutation is answered.
Finish(e) ==
  /\ job[e].pc = "next" /\ job[e].todo = {}
  /\ job' = [job EXCEPT ![e].pc = "done"]
  /\ UNCHANGED <<hook, called, rows, recorded, ping, doomed>>

\* The process dies: what it had still to call is forgotten.
Crash ==
  /\ (\E e \in Events : job[e].pc \in {"next", "calling"}) \/ \E p \in Requests : ~Idle(p)
  /\ job' = [e \in Events |-> IF job[e].pc \in {"next", "calling"}
                              THEN [job[e] EXCEPT !.pc = "dead", !.at = NoHook] ELSE job[e]]
  /\ ping' = [p \in Requests |-> NoHook] /\ doomed' = [p \in Requests |-> NoHook]
  /\ rows' = Unloaded(rows, Requests)
  /\ UNCHANGED <<hook, called, recorded>>

-----------------------------------------------------------------------------
(* Test pings. *)

StartPing(p, h) ==
  /\ Idle(p) /\ There(h)
  /\ ping' = [ping EXCEPT ![p] = h]
  /\ UNCHANGED <<hook, job, called, rows, recorded, doomed>>

PingRecorded_always_bug(p) ==
  /\ ping[p] # NoHook
  /\ rows' = rows \cup {Delivery(Ping, ping[p])}
  /\ ping' = [ping EXCEPT ![p] = NoHook]
  /\ UNCHANGED <<hook, job, called, recorded, doomed>>
\* The ping's POST has ended: the row and last_triggered_at of the hook that was read before
\* are committed together, which fails if that hook is gone.
PingRecorded(p) ==
  /\ ping[p] # NoHook /\ There(ping[p])
  /\ rows' = rows \cup {Delivery(Ping, ping[p])}
  /\ ping' = [ping EXCEPT ![p] = NoHook]
  /\ UNCHANGED <<hook, job, called, recorded, doomed>>
PingFails(p) ==
  /\ ping[p] # NoHook
  /\ ping' = [ping EXCEPT ![p] = NoHook]
  /\ UNCHANGED <<hook, job, called, rows, recorded, doomed>>

-----------------------------------------------------------------------------
Dispatching == \E e \in Events : (\E h \in Hooks : Call(e, h)) \/ Record(e) \/ Finish(e)
Dispatch == (\E e \in Events : Publish(e)) \/ Dispatching

Manage ==
  \/ \E h \in Hooks :
       \/ UpdateHook(h) \/ \E w \in SUBSET Events : CreateHook(h, w)
       \/ \E p \in Requests : StartDelete(p, h)
  \/ \E p \in Requests : DeleteHook(p) \/ DeleteFails(p)

Test == \E p \in Requests :
  (\E h \in Hooks : StartPing(p, h)) \/ PingRecorded(p) \/ PingFails(p)

HNext == Dispatch \/ Crash \/ Manage \/ Test

HSpec == HInit /\ [][HNext]_hvars

-----------------------------------------------------------------------------
(* Properties. *)

\* Every variable keeps its type, and a job is at a hook exactly while it calls one.
HTypeOK ==
  /\ hook \in [Hooks -> Hook]
  /\ job \in [Events -> Job]
  /\ \A e \in Events : job[e].pc = "calling" <=> job[e].at # NoHook
  /\ called \in [Events -> [Hooks -> Nat]]
  /\ rows \subseteq Row
  /\ recorded \subseteq [of : Events, hook : Hooks]
  /\ ping \in [Requests -> Hooks \cup {NoHook}] /\ doomed \in [Requests -> Hooks \cup {NoHook}]

(***************************************************************************)
(* The delivery log tells the truth: a delivery that was logged in the     *)
(* life of its hook goes with the hook and not before, through deletions,  *)
(* deletions that fail or overlap, pings, dispatches and crashes.  A row   *)
(* outlives its hook only where the database does not check foreign keys,  *)
(* and only if it was committed after the deletion had loaded the rows it  *)
(* deletes (integrations.py l.200-201); a ping's only before the hook was  *)
(* gone, an event's also after that (webhook_service.py l.67-80, l.158).   *)
(***************************************************************************)
NoOrphans == \A r \in rows :
  \/ There(r.hook)
  \/ ~Enforced /\ r.written \in (IF r.of = Ping THEN {"deletion"} ELSE {"deletion", "after"})
NothingForgotten == \A c \in recorded :
  There(c.hook) => \E r \in rows : r.of = c.of /\ r.hook = c.hook
LogTruthful == NoOrphans /\ NothingForgotten

(***************************************************************************)
(* Every event reaches each hook at most once, only hooks that were active *)
(* and subscribed when its mutation had committed, and all of them before  *)
(* the mutation is answered unless the process dies, through deletions,    *)
(* changes, failures and pings in between (webhook_service.py l.90-112).   *)
(***************************************************************************)
StatusOf(e, h) ==
  CASE called[e][h] > 1                                         -> "twice"
    [] called[e][h] = 1 /\ [of |-> e, hook |-> h] \in recorded  -> "logged"
    [] called[e][h] = 1 /\ [of |-> e, hook |-> h] \notin recorded -> "told"
    [] called[e][h] = 0 /\ h \in job[e].todo /\ job[e].pc = "dead" -> "dropped"
    [] called[e][h] = 0 /\ h \in job[e].todo /\ job[e].pc # "dead" -> "due"
    [] OTHER                                                    -> "no"
PhaseOf(e) ==
  CASE job[e].pc = "idle"                -> "quiet"
    [] job[e].pc \in {"next", "calling"} -> "open"
    [] job[e].pc = "done"                -> "over"
    [] job[e].pc = "dead"                -> "lost"

N == INSTANCE Notify WITH
  audience <- [e \in Events |-> Subscribers(e)],
  phase <- [e \in Events |-> PhaseOf(e)],
  status <- [e \in Events |-> [h \in Hooks |-> StatusOf(e, h)]]
NotifySpec == N!Spec
=============================================================================
