--------------------------- MODULE DashboardProofs ---------------------------
(***************************************************************************)
(* Proofs about Dashboard: whatever is clicked while loads and mutations   *)
(* overlap, the table shows what its inputs ask for and what this page has *)
(* written, its spinner ends and its buttons are disabled while they must. *)
(***************************************************************************)
EXTENDS Dashboard, TLAPS

USE FilterValues, DashboardBounds

-----------------------------------------------------------------------------
(* The inductive invariant. *)

\* The newest load of L is the one in slot s, and under way.
Newest(L, s) == L.at[s].pending /\ L.newest = s

\* The newest load was asked for after every mutation that has returned to the page; hence what
\* it answers tells of them, unless the server's cache was out of date.
Timely ==
  /\ \A k \in Kinds : \A s \in Slots[k] :
       Newest(load[k], s) => load[k].at[s].since >= own
  /\ OwnWritesShown

\* It was asked for with the inputs of the page, but for an old closure.
Apt ==
  /\ \A s \in Slots["list"] :
       Newest(load["list"], s) /\ ~strayed => load["list"].at[s].query = query
  /\ ListBelongs

\* A page that is not mounted waits for nothing.
Blank == ~ui.mounted => query = Defaults /\ \A m \in Calls : call[m].pc = "idle"

\* No call is numbered beyond the commits of the server.
Counted == own <= ver /\ \A m \in Calls : call[m].at <= ver

IInv == TypeOK /\ Timely /\ Apt /\ Blank /\ Counted /\ SpinnerTruthful /\ BusyTruthful

-----------------------------------------------------------------------------
(* Loads. *)

LEMMA DefaultsIs == Defaults \in Query
  BY DEF Defaults, Query, NoFilters, Filters, Orders

LEMMA NoLoadsIs ==
  ASSUME NEW k \in Kinds
  PROVE  /\ NoLoads(k) \in Loads(k) /\ NoLoads(k).newest = NoSlot /\ ~NoLoads(k).trusted
         /\ \A s \in Slots[k] : ~NoLoads(k).at[s].pending
  BY DefaultsIs DEF NoLoads, Loads, NoLoad, Load

\* A load is asked for: it is the newest, and nothing is told by it yet.
LEMMA AskedIs ==
  ASSUME NEW k \in Kinds, NEW L \in Loads(k), NEW s \in Slots[k], NEW q \in Query,
         ver \in 0..MaxWrites
  PROVE  /\ Asked(L, s, q) \in Loads(k)
         /\ Asked(L, s, q).newest = s /\ ~Asked(L, s, q).trusted
         /\ Asked(L, s, q).at[s].pending
         /\ Asked(L, s, q).at[s].query = q /\ Asked(L, s, q).at[s].since = ver
  BY DEF Asked, Loads, Load

\* A load ends: it is not under way any more, and the others are what they were.
LEMMA EndedIs ==
  ASSUME NEW k \in Kinds, NEW L \in Loads(k), NEW s \in Slots[k], NEW ok \in BOOLEAN
  PROVE  /\ Ended(L, s, ok) \in Loads(k)
         /\ Ended(L, s, ok).newest = L.newest /\ ~Ended(L, s, ok).at[s].pending
         /\ \A t \in Slots[k] : t # s => Ended(L, s, ok).at[t] = L.at[t]
         /\ ok /\ Ended(L, s, ok).trusted => s = L.newest
         /\ ~ok => Ended(L, s, ok).trusted = L.trusted
<1>1. NoLoad \in Load /\ ~NoLoad.pending
  BY DefaultsIs DEF NoLoad, Load
<1> DEFINE A == [L.at EXCEPT ![s] = NoLoad]
<1>2. A \in [Slots[k] -> Load] /\ A[s] = NoLoad /\ \A t \in Slots[k] : t # s => A[t] = L.at[t]
  BY <1>1 DEF Loads
<1> HIDE DEF A
<1> DEFINE e == IF ok THEN s = L.newest ELSE L.trusted
<1>3. e \in BOOLEAN
  BY DEF Loads
<1>4. Ended(L, s, ok) = [L EXCEPT !.at[s] = NoLoad, !.trusted = e]
  BY DEF Ended
<1>5. (ok /\ e => s = L.newest) /\ (~ok => e = L.trusted)
  OBVIOUS
<1> HIDE DEF e
<1>6. Ended(L, s, ok) = [at |-> A, newest |-> L.newest, trusted |-> e]
  BY <1>4 DEF A, Loads
<1> QED
  BY <1>1, <1>2, <1>3, <1>5, <1>6 DEF Loads

-----------------------------------------------------------------------------
(* Steps that leave the loads alone. *)

LEMMA FrameStep ==
  ASSUME IInv, UNCHANGED <<query, list, stats, load, strayed, own, edits>>,
         ui' \in Ui, ui'.mounted = ui.mounted, ui'.loading = ui.loading,
         call' \in [Calls -> Call], ver' \in 0..MaxWrites, ver <= ver',
         \A m \in Calls : call'[m].at <= ver',
         ~ui.mounted => \A m \in Calls : call'[m].pc = "idle",
         BusyTruthful'
  PROVE  IInv'
<1>1. TypeOK'
  BY DEF IInv, TypeOK
<1>2. Timely' /\ Apt'
  BY DEF IInv, Timely, OwnWritesShown, Apt, ListBelongs, Newest
<1>3. Blank' /\ SpinnerTruthful'
  BY DEF IInv, Blank, SpinnerTruthful
<1>4. Counted'
  BY DEF IInv, Counted, TypeOK
<1> QED
  BY <1>1, <1>2, <1>3, <1>4 DEF IInv

\* Modals are opened and closed.
LEMMA ClickIs ==
  ASSUME IInv, NEW u \in Ui, Click(u), u.mounted = ui.mounted, u.loading = ui.loading,
         u.saving = ui.saving, u.archiving = ui.archiving
  PROVE  IInv'
<1>1. ui' = u /\ UNCHANGED <<query, list, stats, load, strayed, call, ver, own, edits>>
  BY DEF Click
<1>2. BusyTruthful'
  BY <1>1 DEF IInv, BusyTruthful
<1> QED
  BY <1>1, <1>2, FrameStep DEF IInv, TypeOK, Blank, Counted

LEMMA ClickStep ==
  ASSUME IInv, OpenAdd \/ CloseAdd \/ AskArchive \/ CancelArchive
  PROVE  IInv'
<1>1. ui \in Ui
  BY DEF IInv, TypeOK
<1>2. ASSUME NEW a \in BOOLEAN, Click([ui EXCEPT !.adding = a]) PROVE IInv'
  <2>1. PICK u : u = [ui EXCEPT !.adding = a]
    OBVIOUS
  <2>2. /\ u \in Ui /\ u.mounted = ui.mounted /\ u.loading = ui.loading
        /\ u.saving = ui.saving /\ u.archiving = ui.archiving
    BY <1>1, <2>1 DEF Ui
  <2> QED
    BY <1>2, <2>1, <2>2, ClickIs
<1>3. ASSUME NEW c \in Candidates \cup {NoCandidate}, Click([ui EXCEPT !.target = c]) PROVE IInv'
  <2>1. PICK u : u = [ui EXCEPT !.target = c]
    OBVIOUS
  <2>2. /\ u \in Ui /\ u.mounted = ui.mounted /\ u.loading = ui.loading
        /\ u.saving = ui.saving /\ u.archiving = ui.archiving
    BY <1>1, <2>1 DEF Ui
  <2> QED
    BY <1>3, <2>1, <2>2, ClickIs
<1> QED
  BY <1>2, <1>3 DEF OpenAdd, CloseAdd, AskArchive, CancelArchive

\* A mutation is sent: the button of a form or a modal is disabled.
LEMMA SendIs ==
  ASSUME IInv, NEW m \in Calls, NEW u \in Ui, Send(m, u),
         u.mounted = ui.mounted, u.loading = ui.loading,
         u.saving = IF m = "create" THEN TRUE ELSE ui.saving,
         u.archiving = IF m = "archive" THEN TRUE ELSE ui.archiving
  PROVE  IInv'
<1> DEFINE c == [pc |-> "sent", closure |-> query, at |-> 0]
<1>2. /\ ui.mounted /\ ui' = u /\ call' = [call EXCEPT ![m] = c]
      /\ UNCHANGED <<query, list, stats, load, strayed, ver, own, edits>>
  BY DEF Send
<1>3. c \in Call /\ call \in [Calls -> Call] /\ ver \in 0..MaxWrites
  BY DEF IInv, TypeOK, Call
<1>4. call' \in [Calls -> Call] /\ call'[m].pc = "sent" /\ call'[m].at = 0
      /\ \A n \in Calls : n # m => call'[n] = call[n]
  BY <1>2, <1>3
<1>5. BusyTruthful'
  BY <1>2, <1>4 DEF IInv, BusyTruthful, Calls
<1>6. \A n \in Calls : call'[n].at <= ver'
  BY <1>2, <1>3, <1>4 DEF IInv, Counted
<1> QED
  BY <1>2, <1>3, <1>4, <1>5, <1>6, FrameStep

LEMMA SendStep ==
  ASSUME IInv, SubmitDraft \/ ConfirmArchive \/ DrawerSends
  PROVE  IInv'
<1>1. ui \in Ui
  BY DEF IInv, TypeOK
<1>2. CASE SubmitDraft
  <2>1. PICK u : u = [ui EXCEPT !.saving = TRUE]
    OBVIOUS
  <2>2. /\ u \in Ui /\ u.mounted = ui.mounted /\ u.loading = ui.loading
        /\ u.saving = TRUE /\ u.archiving = ui.archiving
    BY <1>1, <2>1 DEF Ui
  <2>3. Send("create", u)
    BY <1>2, <2>1 DEF SubmitDraft
  <2> QED
    BY <2>2, <2>3, SendIs DEF Calls
<1>3. CASE ConfirmArchive
  <2>1. PICK u : u = [ui EXCEPT !.archiving = TRUE]
    OBVIOUS
  <2>2. /\ u \in Ui /\ u.mounted = ui.mounted /\ u.loading = ui.loading
        /\ u.saving = ui.saving /\ u.archiving = TRUE
    BY <1>1, <2>1 DEF Ui
  <2>3. Send("archive", u)
    BY <1>3, <2>1 DEF ConfirmArchive
  <2> QED
    BY <2>2, <2>3, SendIs DEF Calls
<1>4. CASE DrawerSends
  BY <1>1, <1>4, SendIs DEF DrawerSends, Calls
<1> QED
  BY <1>2, <1>3, <1>4

\* The server commits what this page has sent, or what somebody else has.
LEMMA CommitStep ==
  ASSUME IInv, CommitElsewhere \/ \E m \in Calls : Commit(m)
  PROVE  IInv'
<1>1. ver \in 0..MaxWrites /\ call \in [Calls -> Call] /\ MaxWrites \in Nat /\ ui \in Ui
  BY DEF IInv, TypeOK
<1>2. /\ ver < MaxWrites /\ ver' = ver + 1
      /\ UNCHANGED <<query, ui, list, stats, load, strayed, own, edits>>
  BY DEF CommitElsewhere, Commit
<1>3. ver' \in 0..MaxWrites /\ ver <= ver' /\ ver + 1 \in 0..MaxWrites
  BY <1>1, <1>2
<1>4. CASE CommitElsewhere
  <2>1. call' = call
    BY <1>4 DEF CommitElsewhere
  <2>2. \A m \in Calls : call'[m].at <= ver'
    BY <1>1, <1>2, <2>1 DEF IInv, Counted, Call
  <2>3. BusyTruthful'
    BY <1>2, <2>1 DEF IInv, BusyTruthful
  <2> QED
    BY <1>1, <1>2, <1>3, <2>1, <2>2, <2>3, FrameStep DEF IInv, Blank
<1>5. ASSUME NEW m \in Calls, Commit(m) PROVE IInv'
  <2>1. call[m].pc = "sent" /\ call' = [call EXCEPT ![m].pc = "done", ![m].at = ver + 1]
    BY <1>5 DEF Commit
  <2>2. /\ call' \in [Calls -> Call] /\ call'[m].pc = "done" /\ call'[m].at = ver + 1
        /\ \A n \in Calls : n # m => call'[n] = call[n]
    BY <1>1, <1>3, <2>1 DEF Call
  <2>3. \A n \in Calls : call'[n].at <= ver'
    BY <1>1, <1>2, <2>2 DEF IInv, Counted, Call
  <2>4. BusyTruthful'
    BY <1>2, <2>1, <2>2 DEF IInv, BusyTruthful, Calls
  <2>5. ~ui.mounted => \A n \in Calls : call'[n].pc = "idle"
    BY <1>5, <2>1 DEF IInv, Blank
  <2> QED
    BY <1>1, <1>2, <1>3, <2>2, <2>3, <2>4, <2>5, FrameStep
<1> QED
  BY <1>4, <1>5

\* What the page is after a mutation has returned or failed: its own flag is taken back.
LEMMA SettledIs ==
  ASSUME ui \in Ui, NEW m \in Calls, NEW ok \in BOOLEAN
  PROVE  /\ Settled(m, ok) \in Ui
         /\ Settled(m, ok).mounted = ui.mounted /\ Settled(m, ok).loading = ui.loading
         /\ Settled(m, ok).saving = IF m = "create" THEN FALSE ELSE ui.saving
         /\ Settled(m, ok).archiving = IF m = "archive" THEN FALSE ELSE ui.archiving
<1>1. CASE m = "create"
  BY <1>1 DEF Settled, Ui
<1>2. CASE m = "archive"
  BY <1>2 DEF Settled, Ui
<1>3. CASE m = "drawer"
  BY <1>3 DEF Settled, Ui
<1> QED
  BY <1>1, <1>2, <1>3 DEF Calls

LEMMA NoCallIs == NoCall \in Call /\ NoCall.pc = "idle" /\ NoCall.at = 0
  BY DefaultsIs DEF NoCall, Call

LEMMA FailStep ==
  ASSUME IInv, NEW m \in Calls, Fail(m)
  PROVE  IInv'
<1>1. /\ call[m].pc # "idle" /\ ui' = Settled(m, FALSE) /\ call' = [call EXCEPT ![m] = NoCall]
      /\ UNCHANGED <<query, list, stats, load, strayed, ver, own, edits>>
  BY DEF Fail
<1>2. ver \in 0..MaxWrites /\ call \in [Calls -> Call] /\ ui \in Ui
  BY DEF IInv, TypeOK
<1>3. /\ call' \in [Calls -> Call] /\ call'[m].pc = "idle" /\ call'[m].at = 0
      /\ \A n \in Calls : n # m => call'[n] = call[n]
  BY <1>1, <1>2, NoCallIs
<1>4. /\ ui' \in Ui /\ ui'.mounted = ui.mounted /\ ui'.loading = ui.loading
      /\ ui'.saving = IF m = "create" THEN FALSE ELSE ui.saving
      /\ ui'.archiving = IF m = "archive" THEN FALSE ELSE ui.archiving
  BY <1>1, <1>2, SettledIs
<1>5. BusyTruthful'
  BY <1>3, <1>4 DEF IInv, BusyTruthful, Calls
<1>6. \A n \in Calls : call'[n].at <= ver'
  BY <1>1, <1>2, <1>3 DEF IInv, Counted
<1>7. ~ui.mounted => \A n \in Calls : call'[n].pc = "idle"
  BY <1>3 DEF IInv, Blank
<1> QED
  BY <1>1, <1>2, <1>3, <1>4, <1>5, <1>6, <1>7, FrameStep

-----------------------------------------------------------------------------
(* Answers. *)

\* A load of kind k ends, answered (ok) or not: what is shown is of the newest, or not trusted.
LEMMA EndStep ==
  ASSUME IInv, NEW k \in Kinds, NEW s \in Slots[k], NEW ok \in BOOLEAN,
         load[k].at[s].pending, load' = [load EXCEPT ![k] = Ended(@, s, ok)],
         UNCHANGED <<query, strayed, call, ver, own, edits>>,
         list' \in List, stats' \in 0..MaxWrites,
         ~ok \/ k # "list" => list' = list,
         ~ok \/ k # "stats" => stats' = stats,
         ok /\ k = "list" => /\ list'.query = load[k].at[s].query
                             /\ list'.outdated = (list'.asof < load[k].at[s].since),
         ok /\ k = "stats" => stats' >= load[k].at[s].since,
         ui' = IF k = "list" THEN [ui EXCEPT !.loading = FALSE] ELSE ui
  PROVE  IInv'
<1>1. /\ load[k] \in Loads(k) /\ own \in 0..MaxWrites /\ ver \in 0..MaxWrites
      /\ DOMAIN load = Kinds /\ list \in List /\ stats \in 0..MaxWrites /\ ui \in Ui
  BY DEF IInv, TypeOK
<1>2. PICK L : L = Ended(load[k], s, ok)
  OBVIOUS
<1>3. /\ L \in Loads(k) /\ L.newest = load[k].newest /\ ~L.at[s].pending
      /\ \A t \in Slots[k] : t # s => L.at[t] = load[k].at[t]
      /\ ok /\ L.trusted => s = load[k].newest
      /\ ~ok => L.trusted = load[k].trusted
  BY <1>1, <1>2, EndedIs
<1>4. /\ load'[k] = L /\ DOMAIN load' = Kinds
      /\ \A j \in Kinds : j # k => load'[j] = load[j]
  BY <1>1, <1>2
<1>5. /\ ui' \in Ui /\ ui'.mounted = ui.mounted
      /\ ui'.saving = ui.saving /\ ui'.archiving = ui.archiving
      /\ ui'.loading => k # "list" /\ ui.loading
  BY <1>1 DEF Ui
<1>6. TypeOK'
  BY <1>3, <1>4, <1>5 DEF IInv, TypeOK
<1>7. \A t \in Slots[k] : Newest(L, t) =>
        Newest(load[k], t) /\ L.at[t] = load[k].at[t]
  BY <1>3 DEF Newest
<1>8. ok /\ L.trusted => Newest(load[k], s)
  BY <1>3 DEF Newest
<1>9. Timely'
  <2>1. \A j \in Kinds : \A t \in Slots[j] :
          Newest(load'[j], t) => load'[j].at[t].since >= own'
    BY <1>4, <1>7 DEF IInv, Timely
  <2>2. load[k].at[s].since \in 0..MaxWrites /\ list'.asof \in 0..MaxWrites
    BY <1>1 DEF Loads, Load, List
  <2>3. CASE k = "list"
    <3>1. load'["list"].trusted /\ ~list'.outdated => list'.asof >= own'
      BY <1>1, <1>3, <1>4, <1>8, <2>2, <2>3 DEF IInv, Timely, OwnWritesShown
    <3>2. load'["stats"].trusted => stats' >= own'
      BY <1>4, <2>3 DEF IInv, Timely, OwnWritesShown, Kinds
    <3> QED
      BY <2>1, <3>1, <3>2 DEF Timely, OwnWritesShown
  <2>4. CASE k = "stats"
    <3>1. load'["stats"].trusted => stats' >= own'
      BY <1>1, <1>3, <1>4, <1>8, <2>2, <2>4 DEF IInv, Timely, OwnWritesShown
    <3>2. load'["list"].trusted /\ ~list'.outdated => list'.asof >= own'
      BY <1>4, <2>4 DEF IInv, Timely, OwnWritesShown, Kinds
    <3> QED
      BY <2>1, <3>1, <3>2 DEF Timely, OwnWritesShown
  <2> QED
    BY <2>3, <2>4 DEF Kinds
<1>10. Apt'
  <2>1. CASE k = "list"
    BY <1>3, <1>4, <1>7, <1>8, <2>1 DEF IInv, Apt, ListBelongs
  <2>2. CASE k = "stats"
    BY <1>4, <2>2 DEF IInv, Apt, ListBelongs, Kinds
  <2> QED
    BY <2>1, <2>2 DEF Kinds
<1>11. SpinnerTruthful'
  BY <1>4, <1>5 DEF IInv, SpinnerTruthful, Kinds
<1>12. Blank' /\ Counted' /\ BusyTruthful'
  BY <1>5 DEF IInv, Blank, Counted, BusyTruthful
<1> QED
  BY <1>6, <1>9, <1>10, <1>11, <1>12 DEF IInv

LEMMA ListStep ==
  ASSUME IInv, NEW s \in Slots["list"], ListAnswered(s) \/ ListFails(s)
  PROVE  IInv'
<1>1. /\ load["list"] \in Loads("list") /\ ver \in 0..MaxWrites
      /\ list \in List /\ stats \in 0..MaxWrites
  BY DEF IInv, TypeOK, Kinds
<1>2. CASE ListFails(s)
  BY <1>1, <1>2, EndStep DEF ListFails, Kinds
<1>3. CASE ListAnswered(s)
  <2>1. PICK v \in 0..ver, e \in BOOLEAN, n \in 1..MaxPages :
          list' = [query |-> load["list"].at[s].query, empty |-> e, pages |-> n, asof |-> v,
                   outdated |-> v < load["list"].at[s].since]
    BY <1>3 DEF ListAnswered
  <2>2. load["list"].at[s].since \in 0..MaxWrites /\ load["list"].at[s].query \in Query
    BY <1>1 DEF Loads, Load
  <2>3. v \in 0..MaxWrites /\ (v < load["list"].at[s].since) \in BOOLEAN
    BY <1>1, <2>1, <2>2
  <2>4. /\ list' \in List /\ list'.query = load["list"].at[s].query
        /\ list'.outdated = (list'.asof < load["list"].at[s].since)
    BY <2>1, <2>2, <2>3 DEF List
  <2> QED
    BY <1>1, <1>3, <2>4, EndStep DEF ListAnswered, Kinds
<1> QED
  BY <1>2, <1>3

LEMMA StatsStep ==
  ASSUME IInv, NEW s \in Slots["stats"], StatsAnswered(s) \/ StatsFail(s)
  PROVE  IInv'
<1>1. /\ load["stats"] \in Loads("stats") /\ ver \in 0..MaxWrites
      /\ list \in List /\ stats \in 0..MaxWrites
  BY DEF IInv, TypeOK, Kinds
<1>2. CASE StatsFail(s)
  BY <1>1, <1>2, EndStep DEF StatsFail, Kinds
<1>3. CASE StatsAnswered(s)
  <2>1. load["stats"].at[s].since \in 0..MaxWrites
    BY <1>1 DEF Loads, Load
  <2>2. stats' \in 0..MaxWrites /\ stats' >= load["stats"].at[s].since
    BY <1>1, <1>3, <2>1 DEF StatsAnswered
  <2> QED
    BY <1>1, <1>3, <2>2, EndStep DEF StatsAnswered, Kinds
<1> QED
  BY <1>2, <1>3

-----------------------------------------------------------------------------
(* Inputs. *)

\* The inputs change to some q the page offers: the effect asks for the list of q.
LEMMA EditStep ==
  ASSUME IInv, NEW q \in Query, Edit(q)
  PROVE  IInv'
<1>1. /\ load["list"] \in Loads("list") /\ own \in 0..MaxWrites /\ ver \in 0..MaxWrites
      /\ DOMAIN load = Kinds /\ ui \in Ui /\ edits \in 0..MaxEdits
  BY DEF IInv, TypeOK, Kinds
<1>2. /\ ui.mounted /\ q # query /\ edits < MaxEdits /\ edits' = edits + 1 /\ query' = q
      /\ UNCHANGED <<list, stats, call, ver, own>>
  BY DEF Edit, Render
<1>3. PICK s \in Slots["list"] :
        /\ load' = [load EXCEPT !["list"] = Asked(@, s, q)]
        /\ ui' = [ui EXCEPT !.loading = TRUE]
        /\ strayed' = FALSE
  BY <1>2 DEF Edit, Render, Watched, Free
<1>4. PICK L : L = Asked(load["list"], s, q)
  OBVIOUS
<1>5. /\ L \in Loads("list") /\ L.newest = s /\ ~L.trusted
      /\ L.at[s].pending /\ L.at[s].query = q /\ L.at[s].since = ver
  BY <1>1, <1>4, AskedIs DEF Kinds
<1>6. load'["list"] = L /\ DOMAIN load' = Kinds /\ load'["stats"] = load["stats"]
  BY <1>1, <1>3, <1>4 DEF Kinds
<1>7. /\ ui' \in Ui /\ ui'.mounted = ui.mounted
      /\ ui'.saving = ui.saving /\ ui'.archiving = ui.archiving
  BY <1>1, <1>3 DEF Ui
<1>8. TypeOK'
  <2>1. edits' \in 0..MaxEdits
    BY <1>1, <1>2
  <2> QED
    BY <1>2, <1>3, <1>5, <1>6, <1>7, <2>1 DEF IInv, TypeOK, Kinds
<1>9. Timely'
  <2>1. \A t \in Slots["list"] : Newest(L, t) => L.at[t].since >= own
    BY <1>1, <1>5 DEF Newest, IInv, Counted
  <2> QED
    BY <1>2, <1>5, <1>6, <2>1 DEF IInv, Timely, OwnWritesShown, Kinds
<1>10. Apt'
  BY <1>2, <1>5, <1>6 DEF Apt, ListBelongs, Newest
<1>11. Blank' /\ Counted' /\ SpinnerTruthful' /\ BusyTruthful'
  BY <1>2, <1>5, <1>6, <1>7 DEF IInv, Blank, Counted, SpinnerTruthful, BusyTruthful
<1> QED
  BY <1>8, <1>9, <1>10, <1>11 DEF IInv

LEMMA FilteringStep ==
  ASSUME IInv, Filtering
  PROVE  IInv'
<1>1. query \in Query /\ NoFilters \in Filters
  BY DefaultsIs DEF IInv, TypeOK, Defaults, Query
<1>2. 1 \in 1..MaxPages
  OBVIOUS
<1>3. ASSUME NEW g \in Filters, Edit([query EXCEPT !.filter = g, !.page = 1]) PROVE IInv'
  <2>1. PICK q : q = [query EXCEPT !.filter = g, !.page = 1]
    OBVIOUS
  <2>2. q \in Query
    BY <1>1, <1>2, <2>1 DEF Query
  <2> QED
    BY <1>3, <2>1, <2>2, EditStep
<1>4. ASSUME NEW f \in Fields, NEW x \in Values[f],
             Edit([query EXCEPT !.filter[f] = x, !.page = 1])
      PROVE  IInv'
  <2>1. [query.filter EXCEPT ![f] = x] \in Filters
    BY <1>1 DEF Query, Filters
  <2>2. [query EXCEPT !.filter[f] = x, !.page = 1]
          = [query EXCEPT !.filter = [query.filter EXCEPT ![f] = x], !.page = 1]
    BY <1>1 DEF Query
  <2> QED
    BY <1>3, <1>4, <2>1, <2>2
<1>5. CASE Filter
  BY <1>4, <1>5 DEF Filter
<1>6. CASE ClickCard
  <2>1. PICK x \in Values[Status] \ {All} :
          Edit([query EXCEPT !.filter[Status] = IF @ = x THEN All ELSE x, !.page = 1])
    BY <1>6 DEF ClickCard
  <2>2. PICK y : y = IF query.filter[Status] = x THEN All ELSE x
    OBVIOUS
  <2>3. y \in Values[Status]
    BY <2>1, <2>2
  <2>4. Edit([query EXCEPT !.filter[Status] = y, !.page = 1])
    BY <2>1, <2>2
  <2> QED
    BY <1>4, <2>3, <2>4
<1>7. CASE ClickActiveCard
  BY <1>4, <1>7 DEF ClickActiveCard
<1>8. CASE ResetFilters
  BY <1>1, <1>3, <1>8 DEF ResetFilters
<1> QED
  BY <1>5, <1>6, <1>7, <1>8 DEF Filtering

LEMMA SortingStep ==
  ASSUME IInv, Sorting
  PROVE  IInv'
<1>1. query \in Query /\ 1 \in 1..MaxPages
  BY DEF IInv, TypeOK
<1>2. ASSUME NEW c \in Columns, NEW o \in Orders,
             Edit([query EXCEPT !.by = c, !.order = o, !.page = 1])
      PROVE  IInv'
  <2>1. PICK q : q = [query EXCEPT !.by = c, !.order = o, !.page = 1]
    OBVIOUS
  <2>2. q \in Query
    BY <1>1, <2>1 DEF Query
  <2> QED
    BY <1>2, <2>1, <2>2, EditStep
<1>3. CASE SelectSort
  BY <1>2, <1>3 DEF SelectSort
<1>4. CASE HandleSort
  <2>1. PICK c \in Columns :
          Edit(IF query.by = c
               THEN [query EXCEPT !.order = IF @ = "asc" THEN "desc" ELSE "asc", !.page = 1]
               ELSE [query EXCEPT !.by = c, !.order = IF c = ByScore THEN "desc" ELSE "asc",
                                  !.page = 1])
    BY <1>4 DEF HandleSort
  <2>2. PICK o : o = IF query.by = c THEN IF query.order = "asc" THEN "desc" ELSE "asc"
                     ELSE IF c = ByScore THEN "desc" ELSE "asc"
    OBVIOUS
  <2>3. o \in Orders
    BY <2>2 DEF Orders
  <2>4. Edit([query EXCEPT !.by = c, !.order = o, !.page = 1])
    <3>1. CASE query.by = c
      <4>1. [query EXCEPT !.order = o, !.page = 1]
              = [query EXCEPT !.by = c, !.order = o, !.page = 1]
        BY <1>1, <3>1 DEF Query
      <4> QED
        BY <2>1, <2>2, <3>1, <4>1
    <3>2. CASE query.by # c
      BY <2>1, <2>2, <3>2
    <3> QED
      BY <3>1, <3>2
  <2> QED
    BY <1>2, <2>3, <2>4
<1> QED
  BY <1>3, <1>4 DEF Sorting

LEMMA PagingStep ==
  ASSUME IInv, Paging
  PROVE  IInv'
<1>1. query \in Query /\ list \in List
  BY DEF IInv, TypeOK
<1>2. ASSUME NEW p \in 1..MaxPages, NEW z \in Sizes,
             Edit([query EXCEPT !.page = p, !.size = z])
      PROVE  IInv'
  <2>1. PICK q : q = [query EXCEPT !.page = p, !.size = z]
    OBVIOUS
  <2>2. q \in Query
    BY <1>1, <2>1 DEF Query
  <2> QED
    BY <1>2, <2>1, <2>2, EditStep
<1>3. ASSUME NEW p \in 1..MaxPages, Edit([query EXCEPT !.page = p]) PROVE IInv'
  <2>1. [query EXCEPT !.page = p] = [query EXCEPT !.page = p, !.size = query.size]
    BY <1>1 DEF Query
  <2> QED
    BY <1>1, <1>2, <1>3, <2>1 DEF Query
<1>4. query.page \in 1..MaxPages /\ list.pages \in 1..MaxPages
  BY <1>1 DEF Query, List
<1>5. CASE SelectSize
  <2>1. PICK z \in Sizes : Edit([query EXCEPT !.size = z, !.page = 1])
    BY <1>5 DEF SelectSize
  <2>2. [query EXCEPT !.size = z, !.page = 1] = [query EXCEPT !.page = 1, !.size = z]
    BY <1>1 DEF Query
  <2>3. 1 \in 1..MaxPages
    OBVIOUS
  <2> QED
    BY <1>2, <2>1, <2>2, <2>3
<1>6. CASE Prev
  <2>1. query.page - 1 \in 1..MaxPages /\ Edit([query EXCEPT !.page = query.page - 1])
    BY <1>4, <1>6 DEF Prev
  <2> QED
    BY <1>3, <2>1
<1>7. CASE Next_
  <2>1. query.page + 1 \in 1..MaxPages /\ Edit([query EXCEPT !.page = query.page + 1])
    BY <1>4, <1>7 DEF Next_
  <2> QED
    BY <1>3, <2>1
<1> QED
  BY <1>5, <1>6, <1>7 DEF Paging

-----------------------------------------------------------------------------
(* The page comes and goes. *)

LEMMA MountStep ==
  ASSUME IInv, Mount
  PROVE  IInv'
<1>1. /\ own \in 0..MaxWrites /\ ver \in 0..MaxWrites /\ ui \in Ui /\ query = Defaults
      /\ ~ui.mounted
  BY DEF Mount, IInv, TypeOK, Blank
<1>2. PICK s, t \in Slots["list"], x, y \in Slots["stats"] :
        load' = [k \in Kinds |->
                   IF k = "list" THEN Asked(Asked(NoLoads(k), s, Defaults), t, Defaults)
                   ELSE Asked(Asked(NoLoads(k), x, Defaults), y, Defaults)]
  BY DEF Mount
<1>3. /\ ui' = [ui EXCEPT !.mounted = TRUE] /\ strayed' = FALSE
      /\ UNCHANGED <<query, list, stats, call, ver, own, edits>>
  BY DEF Mount
<1>4. ASSUME NEW k \in Kinds, NEW u \in Slots[k], NEW w \in Slots[k],
             load'[k] = Asked(Asked(NoLoads(k), u, Defaults), w, Defaults)
      PROVE  /\ load'[k] \in Loads(k) /\ load'[k].newest = w /\ ~load'[k].trusted
             /\ load'[k].at[w].pending /\ load'[k].at[w].query = Defaults
             /\ load'[k].at[w].since = ver
  BY <1>1, <1>4, NoLoadsIs, AskedIs, DefaultsIs
<1>5. load'["list"] = Asked(Asked(NoLoads("list"), s, Defaults), t, Defaults)
  BY <1>2 DEF Kinds
<1>6. load'["stats"] = Asked(Asked(NoLoads("stats"), x, Defaults), y, Defaults)
  BY <1>2 DEF Kinds
<1>7. /\ load'["list"] \in Loads("list") /\ load'["list"].newest = t
      /\ ~load'["list"].trusted /\ load'["list"].at[t].pending
      /\ load'["list"].at[t].query = Defaults /\ load'["list"].at[t].since = ver
  BY <1>4, <1>5 DEF Kinds
<1>8. /\ load'["stats"] \in Loads("stats") /\ load'["stats"].newest = y
      /\ ~load'["stats"].trusted /\ load'["stats"].at[y].since = ver
  BY <1>4, <1>6 DEF Kinds
<1>9. /\ ui' \in Ui /\ ui'.mounted /\ ui'.saving = ui.saving /\ ui'.archiving = ui.archiving
  BY <1>1, <1>3 DEF Ui
<1>10. TypeOK'
  BY <1>2, <1>3, <1>7, <1>8, <1>9 DEF IInv, TypeOK, Kinds
<1>11. Timely'
  BY <1>1, <1>3, <1>7, <1>8 DEF Timely, OwnWritesShown, Newest, IInv, Counted, Kinds
<1>12. Apt'
  BY <1>1, <1>3, <1>7 DEF Apt, ListBelongs, Newest
<1>13. Blank' /\ Counted' /\ SpinnerTruthful' /\ BusyTruthful'
  BY <1>3, <1>7, <1>9 DEF IInv, Blank, Counted, SpinnerTruthful, BusyTruthful
<1> QED
  BY <1>10, <1>11, <1>12, <1>13 DEF IInv

\* A page nobody has asked anything of.
LEMMA BlankPage ==
  ASSUME query = Defaults, ui = Fresh, list = NoList, stats = 0, strayed = FALSE,
         load = [k \in Kinds |-> NoLoads(k)], call = [m \in Calls |-> NoCall],
         own \in 0..MaxWrites, ver \in 0..MaxWrites, own <= ver, edits \in 0..MaxEdits
  PROVE  IInv
<1>1. /\ ui \in Ui /\ ~ui.mounted /\ ~ui.saving /\ ~ui.archiving
  BY DEF Fresh, Ui
<1>2. list \in List
  BY DefaultsIs DEF NoList, List
<1>3. /\ DOMAIN load = Kinds
      /\ \A k \in Kinds : /\ load[k] \in Loads(k) /\ ~load[k].trusted
                          /\ \A s \in Slots[k] : ~load[k].at[s].pending
  BY NoLoadsIs
<1>4. call \in [Calls -> Call] /\ \A m \in Calls : call[m].pc = "idle" /\ call[m].at = 0
  BY NoCallIs
<1>5. TypeOK
  <2>1. query \in Query /\ stats \in 0..MaxWrites
    BY DefaultsIs
  <2>2. strayed \in BOOLEAN
    OBVIOUS
  <2> QED
    BY <1>1, <1>2, <1>3, <1>4, <2>1, <2>2 DEF TypeOK
<1>6. Timely /\ Apt
  BY <1>3 DEF Timely, OwnWritesShown, Apt, ListBelongs, Newest, Kinds
<1>7. Blank /\ Counted /\ SpinnerTruthful /\ BusyTruthful
  BY <1>1, <1>4 DEF Blank, Counted, SpinnerTruthful, BusyTruthful, Calls
<1> QED
  BY <1>5, <1>6, <1>7 DEF IInv

LEMMA LeaveStep ==
  ASSUME IInv, Leave
  PROVE  IInv'
<1>1. /\ query' = Defaults /\ ui' = Fresh /\ list' = NoList /\ stats' = 0 /\ strayed' = FALSE
      /\ load' = [k \in Kinds |-> NoLoads(k)] /\ call' = [m \in Calls |-> NoCall]
      /\ UNCHANGED <<ver, own, edits>>
  BY DEF Leave
<1>2. own' \in 0..MaxWrites /\ ver' \in 0..MaxWrites /\ own' <= ver' /\ edits' \in 0..MaxEdits
  BY <1>1 DEF IInv, TypeOK, Counted
<1>3. /\ ui' \in Ui /\ ~ui'.mounted /\ ~ui'.saving /\ ~ui'.archiving
  BY <1>1 DEF Fresh, Ui
<1>4. list' \in List
  BY <1>1, DefaultsIs DEF NoList, List
<1>5. /\ DOMAIN load' = Kinds
      /\ \A k \in Kinds : /\ load'[k] \in Loads(k) /\ ~load'[k].trusted
                          /\ \A s \in Slots[k] : ~load'[k].at[s].pending
  BY <1>1, NoLoadsIs
<1>6. call' \in [Calls -> Call] /\ \A m \in Calls : call'[m].pc = "idle" /\ call'[m].at = 0
  BY <1>1, NoCallIs
<1>7. TypeOK'
  <2>1. query' \in Query /\ stats' \in 0..MaxWrites
    BY <1>1, DefaultsIs
  <2>2. strayed' \in BOOLEAN
    BY <1>1
  <2> QED
    BY <1>2, <1>3, <1>4, <1>5, <1>6, <2>1, <2>2 DEF TypeOK
<1>8. Timely' /\ Apt'
  BY <1>5 DEF Timely, OwnWritesShown, Apt, ListBelongs, Newest, Kinds
<1>9. Blank' /\ Counted' /\ SpinnerTruthful' /\ BusyTruthful'
  BY <1>1, <1>2, <1>3, <1>6 DEF Blank, Counted, SpinnerTruthful, BusyTruthful, Calls
<1> QED
  BY <1>7, <1>8, <1>9 DEF IInv

-----------------------------------------------------------------------------
(* A mutation returns. *)

\* Its handler asks for the list and the statistics after the await; the effect's load, if the
\* inputs change with it, is asked for last.
LEMMA ReloadIs ==
  ASSUME IInv, NEW m \in Calls, NEW q \in Query, Reload(m, q)
  PROVE  /\ DOMAIN load' = Kinds /\ \A k \in Kinds : load'[k] \in Loads(k) /\ ~load'[k].trusted
         /\ strayed' \in BOOLEAN
         /\ \A k \in Kinds : \A s \in Slots[k] :
              Newest(load'[k], s) => load'[k].at[s].since = ver
         /\ \E s \in Slots["list"] : load'["list"].at[s].pending
         /\ \A s \in Slots["list"] :
              Newest(load'["list"], s) /\ ~strayed' => load'["list"].at[s].query = q
<1>1. PICK s \in Free("list"), t \in Free("stats") :
        LET asked == [load EXCEPT !["list"] = Asked(@, s, call[m].closure),
                                  !["stats"] = Asked(@, t, Defaults)]
        IN  IF q = query
            THEN /\ load' = asked
                 /\ strayed' = (call[m].closure # q)
            ELSE \E e \in Free("list") \ {s} :
                   /\ load' = [asked EXCEPT !["list"] = Asked(@, e, q)]
                   /\ strayed' = FALSE
  BY DEF Reload
<1>2. /\ s \in Slots["list"] /\ t \in Slots["stats"]
      /\ load["list"] \in Loads("list") /\ load["stats"] \in Loads("stats")
      /\ DOMAIN load = Kinds /\ call[m].closure \in Query /\ ver \in 0..MaxWrites
  BY DEF Free, IInv, TypeOK, Call, Kinds
<1>3. PICK L : L = Asked(load["list"], s, call[m].closure)
  OBVIOUS
<1>4. PICK S : S = Asked(load["stats"], t, Defaults)
  OBVIOUS
<1>5. /\ L \in Loads("list") /\ L.newest = s /\ ~L.trusted
      /\ L.at[s].pending /\ L.at[s].query = call[m].closure /\ L.at[s].since = ver
  BY <1>2, <1>3, AskedIs DEF Kinds
<1>6. /\ S \in Loads("stats") /\ S.newest = t /\ ~S.trusted /\ S.at[t].since = ver
  BY <1>2, <1>4, AskedIs, DefaultsIs DEF Kinds
<1>7. PICK A : A = [load EXCEPT !["list"] = Asked(@, s, call[m].closure),
                                !["stats"] = Asked(@, t, Defaults)]
  OBVIOUS
<1>8. DOMAIN A = Kinds /\ A["list"] = L /\ A["stats"] = S
  BY <1>2, <1>3, <1>4, <1>7 DEF Kinds
<1>9. CASE q = query
  <2>1. load' = A /\ strayed' = (call[m].closure # q)
    BY <1>1, <1>7, <1>9
  <2> QED
    BY <1>2, <1>5, <1>6, <1>8, <2>1 DEF Newest, Kinds
<1>10. CASE q # query
  <2>1. PICK e \in Slots["list"] :
          load' = [A EXCEPT !["list"] = Asked(@, e, q)] /\ strayed' = FALSE
    BY <1>1, <1>7, <1>10 DEF Free
  <2>2. PICK M : M = Asked(L, e, q)
    OBVIOUS
  <2>3. /\ M \in Loads("list") /\ M.newest = e /\ ~M.trusted
        /\ M.at[e].pending /\ M.at[e].query = q /\ M.at[e].since = ver
    BY <1>2, <1>5, <2>2, AskedIs DEF Kinds
  <2>4. DOMAIN load' = Kinds /\ load'["list"] = M /\ load'["stats"] = S
    BY <1>8, <2>1, <2>2 DEF Kinds
  <2> QED
    BY <1>6, <2>1, <2>3, <2>4 DEF Newest, Kinds
<1> QED
  BY <1>9, <1>10

LEMMA ReturnStep ==
  ASSUME IInv, NEW m \in Calls, Return(m)
  PROVE  IInv'
<1>1. /\ call[m].pc = "done" /\ query' = After(m) /\ Reload(m, After(m))
      /\ ui' = [Settled(m, TRUE) EXCEPT !.loading = TRUE]
      /\ own' = IF call[m].at > own THEN call[m].at ELSE own
      /\ call' = [call EXCEPT ![m] = NoCall]
      /\ UNCHANGED <<list, stats, ver, edits>>
  BY DEF Return
<1>2. /\ query \in Query /\ ui \in Ui /\ call \in [Calls -> Call] /\ ui.mounted
      /\ own \in 0..MaxWrites /\ ver \in 0..MaxWrites /\ call[m].at \in 0..MaxWrites
  BY <1>1 DEF IInv, TypeOK, Blank, Call
<1>3. After(m) \in Query
  BY <1>2 DEF After, Query
<1>4. /\ DOMAIN load' = Kinds /\ \A k \in Kinds : load'[k] \in Loads(k) /\ ~load'[k].trusted
      /\ strayed' \in BOOLEAN
      /\ \A k \in Kinds : \A s \in Slots[k] :
           Newest(load'[k], s) => load'[k].at[s].since = ver
      /\ \E s \in Slots["list"] : load'["list"].at[s].pending
      /\ \A s \in Slots["list"] :
           Newest(load'["list"], s) /\ ~strayed' => load'["list"].at[s].query = After(m)
  BY <1>1, <1>3, ReloadIs
<1>5. own' \in 0..MaxWrites /\ own' <= ver
  BY <1>1, <1>2 DEF IInv, Counted
<1>6. PICK u : u = Settled(m, TRUE)
  OBVIOUS
<1>7. /\ u \in Ui /\ u.mounted = ui.mounted
      /\ u.saving = IF m = "create" THEN FALSE ELSE ui.saving
      /\ u.archiving = IF m = "archive" THEN FALSE ELSE ui.archiving
  BY <1>2, <1>6, SettledIs
<1>8. /\ ui' \in Ui /\ ui'.mounted = ui.mounted
      /\ ui'.saving = IF m = "create" THEN FALSE ELSE ui.saving
      /\ ui'.archiving = IF m = "archive" THEN FALSE ELSE ui.archiving
  BY <1>1, <1>6, <1>7 DEF Ui
<1>9. /\ call' \in [Calls -> Call] /\ call'[m].pc = "idle" /\ call'[m].at = 0
      /\ \A n \in Calls : n # m => call'[n] = call[n]
  BY <1>1, <1>2, NoCallIs
<1>10. TypeOK'
  BY <1>1, <1>3, <1>4, <1>5, <1>8, <1>9 DEF IInv, TypeOK
<1>11. Timely' /\ Apt'
  BY <1>1, <1>2, <1>4, <1>5 DEF Timely, OwnWritesShown, Apt, ListBelongs, Kinds
<1>12. Blank' /\ SpinnerTruthful'
  BY <1>2, <1>4, <1>8 DEF Blank, SpinnerTruthful
<1>13. Counted'
  BY <1>1, <1>2, <1>5, <1>9 DEF IInv, Counted
<1>14. BusyTruthful'
  BY <1>8, <1>9 DEF IInv, BusyTruthful, Calls
<1> QED
  BY <1>10, <1>11, <1>12, <1>13, <1>14 DEF IInv

-----------------------------------------------------------------------------
(* The theorems. *)

\* Whatever is clicked, answered, committed or failed next, the invariant survives it.
THEOREM DashboardInductive == Spec => []IInv
<1>1. Init => IInv
  <2> SUFFICES ASSUME Init PROVE IInv
    OBVIOUS
  <2>1. 0 \in 0..MaxWrites /\ 0 \in 0..MaxEdits /\ 0 <= 0
    OBVIOUS
  <2> QED
    BY <2>1, BlankPage DEF Init
<1>2. IInv /\ [Next]_vars => IInv'
  <2> SUFFICES ASSUME IInv, [Next]_vars PROVE IInv'
    OBVIOUS
  <2>1. CASE Mount \/ Leave
    BY <2>1, MountStep, LeaveStep
  <2>2. CASE Filtering \/ Sorting \/ Paging
    BY <2>2, FilteringStep, SortingStep, PagingStep
  <2>3. CASE Adding \/ Archiving \/ DrawerSends
    BY <2>3, ClickStep, SendStep DEF Adding, Archiving
  <2>4. CASE \E s \in Slots["list"] : ListAnswered(s) \/ ListFails(s)
    BY <2>4, ListStep
  <2>5. CASE \E s \in Slots["stats"] : StatsAnswered(s) \/ StatsFail(s)
    BY <2>5, StatsStep
  <2>6. CASE \E m \in Calls : Commit(m) \/ Return(m) \/ Fail(m)
    BY <2>6, CommitStep, ReturnStep, FailStep
  <2>7. CASE CommitElsewhere
    BY <2>7, CommitStep
  <2>8. CASE UNCHANGED vars
    BY <2>8 DEF vars, IInv, TypeOK, Timely, OwnWritesShown, Apt, ListBelongs, Newest, Blank,
                Counted, SpinnerTruthful, BusyTruthful
  <2> QED
    BY <2>1, <2>2, <2>3, <2>4, <2>5, <2>6, <2>7, <2>8 DEF Next
<1> QED
  BY <1>1, <1>2, PTL DEF Spec

\* Every variable keeps its type: no click reaches a page below 1 or beyond the last.
THEOREM DashboardTypes == Spec => []TypeOK
<1>1. IInv => TypeOK
  BY DEF IInv
<1> QED
  BY DashboardInductive, <1>1, PTL

\* The newest load that has answered is of the inputs shown (DashboardPage.tsx: the effect on all
\* inputs, the reload after a create), save for a reload from an old closure.
THEOREM ListAlwaysBelongs == Spec => []ListBelongs
<1>1. IInv => ListBelongs
  BY DEF IInv, Apt
<1> QED
  BY DashboardInductive, <1>1, PTL

\* Who was told that a mutation succeeded sees it in the statistics, and in a list that did not
\* come from an outdated cache entry (DashboardPage.tsx: handleCreateCandidate and
\* handleConfirmArchive reload after their await).
THEOREM OwnWritesAreShown == Spec => []OwnWritesShown
<1>1. IInv => OwnWritesShown
  BY DEF IInv, Timely
<1> QED
  BY DashboardInductive, <1>1, PTL

\* The skeleton is there only while a load of the list is under way (DashboardPage.tsx:
\* setLoading in loadCandidates).
THEOREM SpinnerIsTruthful == Spec => []SpinnerTruthful
<1>1. IInv => SpinnerTruthful
  BY DEF IInv
<1> QED
  BY DashboardInductive, <1>1, PTL

\* A button is disabled exactly while its call is under way, even when its modal was closed and
\* opened again (AddCandidateModal.tsx, ConfirmModal.tsx).
THEOREM BusyIsTruthful == Spec => []BusyTruthful
<1>1. IInv => BusyTruthful
  BY DEF IInv
<1> QED
  BY DashboardInductive, <1>1, PTL
=============================================================================
