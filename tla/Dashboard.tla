----------------------------- MODULE Dashboard -----------------------------
(***************************************************************************)
(* The candidate directory: frontend/src/pages/DashboardPage.tsx with its  *)
(* modals (AddCandidateModal.tsx, ConfirmModal.tsx) and the calls it makes *)
(* (api/candidate.ts, api/analytics.ts).                                   *)
(*                                                                         *)
(* Everything between two awaits is one step: React runs the effects of a  *)
(* click before the next event.  What a handler does after its await it    *)
(* does with the inputs of the render it was created in, its closure.      *)
(* Loads overlap and answers come in any order.  The statistics are read   *)
(* from the database, at some moment since they were asked for; the list   *)
(* may come from a cache entry of any age (module CandidateCache).         *)
(***************************************************************************)
EXTENDS Integers, FiniteSets

CONSTANTS Fields,      \* the filters: status and the inputs for keyword, role and skill
          Status,      \* the one that the cards of the stats bar set too
          Values,      \* per filter, what it can hold
          All,         \* the empty value of every filter
          Columns,     \* what can be sorted by
          ByScore,     \* the column average_score
          Sizes, DefaultSize,   \* page sizes
          Candidates, NoCandidate,
          Slots, NoSlot,   \* bound: per kind, the loads in flight
          MountLoads,  \* loads of a mounted page: two in StrictMode, one in a production build
          MaxPages, MaxWrites, MaxEdits, MaxCalls   \* bounds

ASSUME FilterValues == /\ Status \in Fields
                       /\ DOMAIN Values = Fields /\ \A f \in Fields : All \in Values[f]
                       /\ ByScore \in Columns
                       /\ DefaultSize \in Sizes
                       /\ NoCandidate \notin Candidates
                       /\ \A k \in {"list", "stats"} : NoSlot \notin Slots[k]
ASSUME DashboardBounds == /\ MountLoads \in 1..2
                          /\ MaxPages \in Nat \ {0}
                          /\ MaxWrites \in Nat /\ MaxEdits \in Nat /\ MaxCalls \in Nat

VARIABLES
  query,    \* the inputs of the page
  ui,       \* the rest of its state
  list,     \* the answer that is shown: candidates, total, totalPages
  stats,    \* analyticsData: the version of the server it tells of
  load,     \* the loads of the list and of the statistics
  strayed,  \* history: the newest load of the list was asked with an old closure's inputs
  call,     \* the mutations under way
  ver,      \* the mutations that the server has committed
  own,      \* history: the newest of them that has returned to this page
  edits     \* bounds the changes of inputs

vars == <<query, ui, list, stats, load, strayed, call, ver, own, edits>>

-----------------------------------------------------------------------------
(* State. *)

Orders == {"asc", "desc"}
NoFilters == [f \in Fields |-> All]
Filters == {x \in [Fields -> UNION {Values[f] : f \in Fields}] : \A f \in Fields : x[f] \in Values[f]}
Query == [filter : Filters, by : Columns, order : Orders,
          page : 1..MaxPages, size : Sizes]
Defaults == [filter |-> NoFilters, by |-> ByScore, order |-> "desc",
             page |-> 1, size |-> DefaultSize]

Kinds == {"list", "stats"}
Calls == {"create", "archive", "drawer"}

(***************************************************************************)
(* trusted is history: the last answer of this kind to arrive was that of  *)
(* the newest load.                                                        *)
(***************************************************************************)
NoLoad == [pending |-> FALSE, query |-> Defaults, since |-> 0]
Load == [pending : BOOLEAN, query : Query, since : 0..MaxWrites]
Loads(k) == [at : [Slots[k] -> Load], newest : Slots[k] \cup {NoSlot}, trusted : BOOLEAN]
NoLoads(k) == [at |-> [s \in Slots[k] |-> NoLoad], newest |-> NoSlot, trusted |-> FALSE]

\* at numbers the commit of a call that is done.
NoCall == [pc |-> "idle", closure |-> Defaults, at |-> 0]
Call == [pc : {"idle", "sent", "done"}, closure : Query, at : 0..MaxWrites]

\* outdated is history: the server answered from a cache entry older than the request.
List == [query : Query, empty : BOOLEAN, pages : 1..MaxPages, asof : 0..MaxWrites,
         outdated : BOOLEAN]
NoList == [query |-> Defaults, empty |-> TRUE, pages |-> 1, asof |-> 0, outdated |-> FALSE]

\* target is the candidate of the archive modal.
Ui == [mounted : BOOLEAN, loading : BOOLEAN, adding : BOOLEAN, saving : BOOLEAN,
       target : Candidates \cup {NoCandidate}, archiving : BOOLEAN]
Fresh == [mounted |-> FALSE, loading |-> TRUE, adding |-> FALSE, saving |-> FALSE,
          target |-> NoCandidate, archiving |-> FALSE]

Init ==
  /\ query = Defaults
  /\ ui = Fresh
  /\ list = NoList
  /\ stats = 0
  /\ load = [k \in Kinds |-> NoLoads(k)]
  /\ strayed = FALSE
  /\ call = [m \in Calls |-> NoCall]
  /\ ver = 0 /\ own = 0 /\ edits = 0

-----------------------------------------------------------------------------
(* Loads.  Operators named ..._bug are mutants of the definition they precede. *)

Free(k) == {s \in Slots[k] : ~load[k].at[s].pending}

\* loadCandidates with the inputs q, or loadAnalytics: the call is sent from slot s.
Asked(L, s, q) ==
  [at |-> [L.at EXCEPT ![s] = [pending |-> TRUE, query |-> q, since |-> ver]],
   newest |-> s, trusted |-> FALSE]

\* What an answer or an error leaves of the loads: only an answer changes what is shown.
Ended(L, s, ok) ==
  [L EXCEPT !.at[s] = NoLoad, !.trusted = IF ok THEN s = L.newest ELSE @]

\* The dependencies of the effect that loads the list (l.135): all inputs.
Watched_noSize_bug(q) == <<q.filter, q.by, q.order, q.page>>
Watched(q) == q

\* The inputs become q, in a render of their own: the effect loads the list if q is new.
Render(q) ==
  /\ query' = q
  /\ IF Watched(q) = Watched(query)
     THEN UNCHANGED <<ui, load, strayed>>
     ELSE \E s \in Free("list") :
            /\ load' = [load EXCEPT !["list"] = Asked(@, s, q)]
            /\ ui' = [ui EXCEPT !.loading = TRUE]
            /\ strayed' = FALSE

\* The page is mounted: its effects load the list and the statistics.
Mount ==
  /\ ~ui.mounted
  /\ ui' = [ui EXCEPT !.mounted = TRUE]
  /\ \E s, t \in Slots["list"], x, y \in Slots["stats"] :
       /\ (s = t) = (MountLoads = 1) /\ (x = y) = (MountLoads = 1)
       /\ load' = [k \in Kinds |->
                     IF k = "list" THEN Asked(Asked(NoLoads(k), s, Defaults), t, Defaults)
                     ELSE Asked(Asked(NoLoads(k), x, Defaults), y, Defaults)]
  /\ strayed' = FALSE
  /\ UNCHANGED <<query, list, stats, call, ver, own, edits>>

\* Another page is navigated to: what was under way has nobody to return to.
Leave ==
  /\ ui.mounted
  /\ query' = Defaults /\ ui' = Fresh /\ list' = NoList /\ stats' = 0
  /\ load' = [k \in Kinds |-> NoLoads(k)]
  /\ strayed' = FALSE
  /\ call' = [m \in Calls |-> NoCall]
  /\ UNCHANGED <<ver, own, edits>>

\* The list is answered: setCandidates, setTotal, setTotalPages, setLoading(false).  Its
\* version v may be any up to now: an entry stored by a read that a commit overtook, or
\* that the commit has yet to invalidate, is served as it is (routers/candidates.py l.64-67).
ListAnswered(s) ==
  /\ load["list"].at[s].pending
  /\ \E v \in 0..ver, b \in BOOLEAN, n \in 1..MaxPages :
       list' = [query |-> load["list"].at[s].query, empty |-> b, pages |-> n, asof |-> v,
                outdated |-> v < load["list"].at[s].since]
  /\ load' = [load EXCEPT !["list"] = Ended(@, s, TRUE)]
  /\ ui' = [ui EXCEPT !.loading = FALSE]
  /\ UNCHANGED <<query, stats, strayed, call, ver, own, edits>>

ListFails_keepsSpinner_bug(s) ==
  /\ load["list"].at[s].pending
  /\ load' = [load EXCEPT !["list"] = Ended(@, s, FALSE)]
  /\ UNCHANGED <<query, ui, list, stats, strayed, call, ver, own, edits>>

\* An error is shown in a toast; the list stays.
ListFails(s) ==
  /\ load["list"].at[s].pending
  /\ load' = [load EXCEPT !["list"] = Ended(@, s, FALSE)]
  /\ ui' = [ui EXCEPT !.loading = FALSE]
  /\ UNCHANGED <<query, list, stats, strayed, call, ver, own, edits>>

\* The statistics are answered, or fail, which is ignored.
StatsAnswered(s) ==
  /\ load["stats"].at[s].pending
  /\ \E v \in load["stats"].at[s].since..ver : stats' = v
  /\ load' = [load EXCEPT !["stats"] = Ended(@, s, TRUE)]
  /\ UNCHANGED <<query, ui, list, strayed, call, ver, own, edits>>

StatsFail(s) ==
  /\ load["stats"].at[s].pending
  /\ load' = [load EXCEPT !["stats"] = Ended(@, s, FALSE)]
  /\ UNCHANGED <<query, ui, list, stats, strayed, call, ver, own, edits>>

-----------------------------------------------------------------------------
(* Inputs. *)

\* The inputs change to q.
Edit(q) ==
  /\ ui.mounted
  /\ q # query
  /\ edits < MaxEdits
  /\ edits' = edits + 1
  /\ Render(q)
  /\ UNCHANGED <<list, stats, call, ver, own>>

Filter == \E f \in Fields : \E x \in Values[f] : Edit([query EXCEPT !.filter[f] = x, !.page = 1])

\* A click on a card of the stats bar: the same status again clears the filter.
ClickCard == \E x \in Values[Status] \ {All} :
  Edit([query EXCEPT !.filter[Status] = IF @ = x THEN All ELSE x, !.page = 1])
ClickActiveCard ==
  /\ query.filter[Status] # All
  /\ Edit([query EXCEPT !.filter[Status] = All, !.page = 1])

\* What the table area shows: a skeleton while loading, the empty box, or rows.
EmptyBox == ~ui.loading /\ list.empty

\* A click on the header of column c, which the empty box has not.
HandleSort == ~EmptyBox /\ \E c \in Columns :
  Edit(IF query.by = c
       THEN [query EXCEPT !.order = IF @ = "asc" THEN "desc" ELSE "asc", !.page = 1]
       ELSE [query EXCEPT !.by = c, !.order = IF c = ByScore THEN "desc" ELSE "asc",
                          !.page = 1])
SelectSort == \E c \in Columns, o \in Orders :
  Edit([query EXCEPT !.by = c, !.order = o, !.page = 1])
SelectSize == \E z \in Sizes : Edit([query EXCEPT !.size = z, !.page = 1])

Prev_anyPage_bug == ~ui.loading /\ Edit([query EXCEPT !.page = @ - 1])
Prev ==
  /\ query.page > 1 /\ ~ui.loading
  /\ Edit([query EXCEPT !.page = @ - 1])
Next_ ==
  /\ query.page < list.pages /\ ~ui.loading
  /\ Edit([query EXCEPT !.page = @ + 1])

\* The button of the empty box, offered when a filter is set.
ResetFilters ==
  /\ EmptyBox
  /\ query.filter # NoFilters
  /\ Edit([query EXCEPT !.filter = NoFilters, !.page = 1])

-----------------------------------------------------------------------------
(* Mutations. *)

\* An action that only touches the modals.
Click(u) ==
  /\ ui.mounted
  /\ ui' = u
  /\ UNCHANGED <<query, list, stats, load, strayed, call, ver, own, edits>>

OpenAdd == Click([ui EXCEPT !.adding = TRUE])
\* The close button and the overlay are not disabled while the form is being saved.
CloseAdd == ui.adding /\ Click([ui EXCEPT !.adding = FALSE])
Send(m, u) ==
  /\ ui.mounted
  /\ Cardinality({n \in Calls : call[n].pc # "idle"}) < MaxCalls
  /\ ui' = u
  /\ call' = [call EXCEPT ![m] = [pc |-> "sent", closure |-> query, at |-> 0]]
  /\ UNCHANGED <<query, list, stats, load, strayed, ver, own, edits>>

\* The form passes validateForm and is sent; its fields are disabled until it returns.
SubmitDraft ==
  /\ ui.adding /\ ~ui.saving
  /\ Send("create", [ui EXCEPT !.saving = TRUE])

\* The archive button of a row, or of the drawer, whose candidate need not be listed any more.
AskArchive == \E c \in Candidates : Click([ui EXCEPT !.target = c])
CancelArchive_resets_bug ==
  /\ ui.target # NoCandidate
  /\ Click([ui EXCEPT !.target = NoCandidate, !.archiving = FALSE])
\* The overlay of ConfirmModal cancels even while the DELETE is under way.
CancelArchive ==
  /\ ui.target # NoCandidate
  /\ Click([ui EXCEPT !.target = NoCandidate])
ConfirmArchive ==
  /\ ui.target # NoCandidate /\ ~ui.archiving
  /\ Send("archive", [ui EXCEPT !.archiving = TRUE])

\* The drawer sends a mutation: one stands for its four kinds (module Workspace).
DrawerSends ==
  /\ call["drawer"].pc = "idle"
  /\ Send("drawer", ui)

\* The server commits a mutation; a create with an address that is taken is never committed.
Commit(m) ==
  /\ call[m].pc = "sent"
  /\ ver < MaxWrites
  /\ ver' = ver + 1
  /\ call' = [call EXCEPT ![m].pc = "done", ![m].at = ver + 1]
  /\ UNCHANGED <<query, ui, list, stats, load, strayed, own, edits>>

\* A mutation of another client, or one that nobody waits for any more.
CommitElsewhere ==
  /\ ver < MaxWrites
  /\ ver' = ver + 1
  /\ UNCHANGED <<query, ui, list, stats, load, strayed, call, own, edits>>

\* What the page's state is after call m returned (ok) or failed.
Settled(m, ok) ==
  CASE m = "create"  -> [ui EXCEPT !.saving = FALSE, !.adding = IF ok THEN FALSE ELSE @]
    [] m = "archive" -> [ui EXCEPT !.archiving = FALSE,
                                   !.target = IF ok THEN NoCandidate ELSE @]
    [] m = "drawer"  -> ui

\* The inputs after the handler of m has run: a create goes to page 1.
After(m) == IF m = "create" THEN [query EXCEPT !.page = 1] ELSE query

Reload_unlessBusy_bug(m, q) ==
  \E s \in Slots["list"], t \in Free("stats") :
    /\ load' = IF s \in Free("list") /\ ~ui.loading
               THEN [load EXCEPT !["list"] = Asked(@, s, call[m].closure),
                                 !["stats"] = Asked(@, t, Defaults)]
               ELSE [load EXCEPT !["stats"] = Asked(@, t, Defaults)]
    /\ strayed' = (call[m].closure # q)

\* loadCandidates() of the handler's closure and loadAnalytics(); the effect follows if
\* the handler has changed the inputs.
Reload(m, q) ==
  \E s \in Free("list"), t \in Free("stats") :
    LET asked == [load EXCEPT !["list"] = Asked(@, s, call[m].closure),
                              !["stats"] = Asked(@, t, Defaults)]
    IN  IF q = query
        THEN /\ load' = asked
             /\ strayed' = (call[m].closure # q)
        ELSE \E e \in Free("list") \ {s} :
               /\ load' = [asked EXCEPT !["list"] = Asked(@, e, q)]
               /\ strayed' = FALSE

Return(m) ==
  /\ call[m].pc = "done"
  /\ query' = After(m)
  /\ Reload(m, After(m))
  /\ ui' = [Settled(m, TRUE) EXCEPT !.loading = TRUE]
  /\ own' = IF call[m].at > own THEN call[m].at ELSE own
  /\ call' = [call EXCEPT ![m] = NoCall]
  /\ UNCHANGED <<list, stats, ver, edits>>

\* An error, before the commit or after it: nothing is reloaded.
Fail(m) ==
  /\ call[m].pc # "idle"
  /\ ui' = Settled(m, FALSE)
  /\ call' = [call EXCEPT ![m] = NoCall]
  /\ UNCHANGED <<query, list, stats, load, strayed, ver, own, edits>>

-----------------------------------------------------------------------------
Filtering == Filter \/ ClickCard \/ ClickActiveCard \/ ResetFilters
Sorting == HandleSort \/ SelectSort
Paging == SelectSize \/ Prev \/ Next_
Adding == OpenAdd \/ CloseAdd \/ SubmitDraft
Archiving == AskArchive \/ CancelArchive \/ ConfirmArchive

Next ==
  \/ Mount \/ Leave
  \/ Filtering \/ Sorting \/ Paging \/ Adding \/ Archiving \/ DrawerSends
  \/ \E s \in Slots["list"] : ListAnswered(s) \/ ListFails(s)
  \/ \E s \in Slots["stats"] : StatsAnswered(s) \/ StatsFail(s)
  \/ \E m \in Calls : Commit(m) \/ Return(m) \/ Fail(m)
  \/ CommitElsewhere

Spec == Init /\ [][Next]_vars

-----------------------------------------------------------------------------
(* Properties. *)

\* Every variable keeps its type: no handler reaches a page below 1 or beyond the last.
TypeOK ==
  /\ query \in Query
  /\ ui \in Ui
  /\ list \in List
  /\ stats \in 0..MaxWrites
  /\ DOMAIN load = Kinds /\ \A k \in Kinds : load[k] \in Loads(k)
  /\ strayed \in BOOLEAN
  /\ call \in [Calls -> Call]
  /\ ver \in 0..MaxWrites /\ own \in 0..MaxWrites
  /\ edits \in 0..MaxEdits

(***************************************************************************)
(* The candidates shown are those of the inputs shown, as soon as the      *)
(* newest load is the last to have answered: every input is watched by the *)
(* effect (l.135, l.171), and a reload after a create on another page      *)
(* (l.182) does not win over the effect's.  Excepted is a reload that a    *)
(* handler asked for with the inputs of before its await.                  *)
(***************************************************************************)
ListBelongs == load["list"].trusted /\ ~strayed => list.query = query

(***************************************************************************)
(* Who has been told that a mutation succeeded sees it in the list and in  *)
(* the statistics, once the newest load of either is the last to have      *)
(* answered: reloads come after the await (l.183, l.198).  Excepted is a   *)
(* list that the server answered from an outdated entry of its cache       *)
(* (routers/candidates.py l.64-67 and 82): the page cannot tell it from a  *)
(* fresh one, see ReadYourWrites in module CandidateCache.                 *)
(***************************************************************************)
OwnWritesShown ==
  /\ load["list"].trusted /\ ~list.outdated => list.asof >= own
  /\ load["stats"].trusted => stats >= own

\* The skeleton hides the table only while a load is under way that will remove it (l.133).
SpinnerTruthful ==
  ui.mounted /\ ui.loading => \E s \in Slots["list"] : load["list"].at[s].pending

\* A button is disabled exactly while its call is under way, although both modals can be
\* closed meanwhile (AddCandidateModal l.89, ConfirmModal l.27): no second POST or DELETE
\* starts beside the first.
BusyTruthful ==
  /\ ui.saving <=> call["create"].pc # "idle"
  /\ ui.archiving <=> call["archive"].pc # "idle"
=============================================================================
