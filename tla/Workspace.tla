----------------------------- MODULE Workspace -----------------------------
(***************************************************************************)
(* One user at work on candidates: the drawer beside the list              *)
(* (frontend/src/components/CandidateDrawer.tsx, opened from               *)
(* pages/DashboardPage.tsx) and the full profile                           *)
(* (pages/CandidateDetailPage.tsx with AdminNotesCard.tsx,                 *)
(* AISummaryCard.tsx, CandidateScoresCard.tsx, ConfirmModal.tsx), of which *)
(* the router shows one at a time.  Leaving one unmounts it: the calls it  *)
(* has sent go on at the server and change nothing on return, but for a    *)
(* DELETE, which navigates to the list from wherever the user is by then.  *)
(* The drawer is only hidden when it is closed: its state stays and its    *)
(* answers arrive.                                                         *)
(*                                                                         *)
(* A GET is answered from the database or from the server's cache, whose   *)
(* entry may be of any age (module CandidateCache).                        *)
(*                                                                         *)
(* Everything between two awaits is one step.  Scores and the stream are   *)
(* module ScoreStream; here a score only shows whose detail is on display. *)
(***************************************************************************)
EXTENDS Integers, FiniteSets

CONSTANTS Candidates, Nobody,
          Statuses, New, Archived,   \* a candidate's status; at creation; after DELETE
          LoadSlots, CallSlots, NoSlot,   \* bounds: GETs and mutations in flight
          MountLoads,            \* GETs of a mounted profile: two in StrictMode, else one
          MaxMoves, MaxSends     \* bounds

ASSUME WorkspaceConstants == /\ Nobody \notin Candidates
                             /\ {New, Archived} \subseteq Statuses
                             /\ NoSlot \notin LoadSlots
                             /\ MountLoads \in 1..2
                             /\ MaxMoves \in Nat /\ MaxSends \in Nat

VARIABLES
  server,    \* per candidate, its record in the database and those it had before
  view,      \* what the browser shows
  load,      \* GETs of a candidate under way
  call,      \* mutations under way
  misfiled,  \* history: candidates on which notes were saved while the view was unsettled
  moves, sends   \* bounds on moves and others' changes, and on mutations

vars == <<server, view, load, call, misfiled, moves, sends>>

-----------------------------------------------------------------------------
(* State. *)

Kinds == {"status", "score", "summary", "notes", "archive"}
\* The flags of these are in cards of the profile, which a reload unmounts.
CardKinds == {"status", "score", "notes"}

\* A text of notes: whose notes it is, and the save it comes from.
Notes == [of : Candidates \cup {Nobody}, n : 0..MaxSends]
Own(c) == [of |-> c, n |-> 0]
Record == [status : Statuses, notes : Notes]
Row == [now : Record, past : SUBSET Record]

(***************************************************************************)
(* shows tells whose content a field holds, notes the text in the box,     *)
(* known the profile's candidate, from which its cards take their values.  *)
(* The rest is history: typed says that the box holds a text which is      *)
(* neither saved nor on its way, settled how the newest load was the last  *)
(* to end, clean that no mutation ran beside the load answered last and    *)
(* that the cache entry it was answered from, if any, was not outdated,    *)
(* failed that a change of the status failed since then, elsewhere that    *)
(* somebody else changed the candidates since the newest load was asked    *)
(* for.                                                                    *)
(***************************************************************************)
View == [at : {"list", "drawer", "page"}, cand : Candidates \cup {Nobody},
         shows : [{"status", "summary", "detail"} -> Candidates \cup {Nobody}],
         status : Statuses, notes : Notes, typed : BOOLEAN, known : Record,
         loading : BOOLEAN, error : BOOLEAN, modal : BOOLEAN, busy : SUBSET Kinds,
         newest : LoadSlots \cup {NoSlot}, settled : {"no", "answer", "fallback"},
         clean : BOOLEAN, failed : BOOLEAN, elsewhere : BOOLEAN]

Blank == [status |-> New, notes |-> Own(Nobody)]
Mounted(at, c) ==
  [at |-> at, cand |-> c, shows |-> [f \in {"status", "summary", "detail"} |-> Nobody],
   status |-> Blank.status, notes |-> Blank.notes, typed |-> FALSE, known |-> Blank,
   loading |-> at = "page", error |-> FALSE, modal |-> FALSE, busy |-> {},
   newest |-> NoSlot, settled |-> "no", clean |-> TRUE, failed |-> FALSE, elsewhere |-> FALSE]

Load == [pc : {"free", "asked", "served"}, cand : Candidates \cup {Nobody}, got : Record, clean : BOOLEAN]
NoLoad == [pc |-> "free", cand |-> Nobody, got |-> Blank, clean |-> TRUE]

\* flagged says that the flag set for the call is still there; left that the view has gone.
Call == [pc : {"free", "sent", "done"}, kind : Kinds, cand : Candidates \cup {Nobody}, arg : Record,
         detail : Candidates \cup {Nobody}, flagged : BOOLEAN, left : BOOLEAN]
NoCall == [pc |-> "free", kind |-> "score", cand |-> Nobody, arg |-> Blank,
           detail |-> Nobody, flagged |-> FALSE, left |-> FALSE]

Init ==
  /\ server = [c \in Candidates |-> [now |-> [status |-> New, notes |-> Own(c)], past |-> {}]]
  /\ view = Mounted("list", Nobody)
  /\ load = [s \in LoadSlots |-> NoLoad]
  /\ call = [k \in CallSlots |-> NoCall]
  /\ misfiled = {} /\ moves = 0 /\ sends = 0

Move == moves < MaxMoves /\ moves' = moves + 1
InFlight == \E k \in CallSlots : call[k].pc # "free" /\ ~call[k].left
Visible == view.at = "drawer" \/ (view.at = "page" /\ ~view.loading /\ ~view.error
                                  /\ view.shows["detail"] # Nobody)

-----------------------------------------------------------------------------
(* Loads.  Operators named ..._bug are mutants of the definition they precede. *)

\* The GET of candidate c is sent from slot s.
Asked(L, s, c) == [L EXCEPT ![s] = [pc |-> "asked", cand |-> c, got |-> Blank, clean |-> ~InFlight]]
Asking(v, s) == [v EXCEPT !.newest = s, !.settled = "no", !.elsewhere = FALSE]

\* What the record of c is and has been.
Versions(c) == server[c].past \cup {server[c].now}

\* The server answers: an entry stored by a read that a commit overtook, or that the commit
\* has yet to invalidate, is served as it is (routers/candidates.py l.109-115).
Serve(s) ==
  /\ load[s].pc = "asked"
  /\ \E r \in Versions(load[s].cand) :
       load' = [load EXCEPT ![s].pc = "served", ![s].got = r,
                            ![s].clean = @ /\ r = server[load[s].cand].now]
  /\ UNCHANGED <<server, view, call, misfiled, moves, sends>>

Settles(s, how) == IF s = view.newest THEN how ELSE "no"

DrawerFilled_keepsNotes_bug(s) ==
  LET l == load[s] IN
  [view EXCEPT !.shows = [f \in DOMAIN @ |-> l.cand], !.status = l.got.status]
\* loadDetail answered: detail, status, summary and notes are those of the load's candidate.
DrawerFilled(s) ==
  LET l == load[s] IN
  [view EXCEPT !.shows = [f \in DOMAIN @ |-> l.cand], !.status = l.got.status,
               !.notes = l.got.notes, !.typed = FALSE]

\* loadCandidateData answered: cards that are shown take over only what has changed,
\* cards that were not take over everything.
PageFilled(s) ==
  LET l == load[s] IN
  [view EXCEPT !.shows = [f \in DOMAIN @ |-> l.cand], !.known = l.got, !.loading = FALSE,
     !.status = IF Visible /\ l.got.status = view.known.status THEN @ ELSE l.got.status,
     !.notes  = IF Visible /\ l.got.notes = view.known.notes THEN @ ELSE l.got.notes,
     !.typed  = IF Visible /\ l.got.notes = view.known.notes THEN @ ELSE FALSE]

Answer(s) ==
  /\ load[s].pc = "served"
  /\ view' = [(IF view.at = "page" THEN PageFilled(s) ELSE DrawerFilled(s)) EXCEPT
                !.settled = Settles(s, "answer"), !.clean = load[s].clean,
                !.failed = IF view.at = "page" /\ Visible THEN @ ELSE FALSE]
  /\ load' = [load EXCEPT ![s] = NoLoad]
  /\ UNCHANGED <<server, call, misfiled, moves, sends>>

\* The calls whose flags are in the cards lose them when the cards are unmounted.
Unflagged == [k \in CallSlots |-> IF call[k].kind \in CardKinds
                                  THEN [call[k] EXCEPT !.flagged = FALSE] ELSE call[k]]
NoCards(v) == [v EXCEPT !.typed = FALSE, !.busy = @ \ CardKinds]

\* The drawer falls back to the row it was opened with, which may be an old one; the profile
\* shows an error for good.
LoadFails(s) ==
  /\ load[s].pc # "free"
  /\ load' = [load EXCEPT ![s] = NoLoad]
  /\ IF view.at = "page"
     THEN /\ view' = [NoCards(view) EXCEPT !.error = TRUE, !.loading = FALSE]
          /\ call' = Unflagged
     ELSE /\ \E x \in Statuses, n \in {r.notes : r \in Versions(load[s].cand)} :
               view' = [view EXCEPT !.shows["status"] = load[s].cand,
                                    !.shows["summary"] = load[s].cand, !.status = x,
                                    !.notes = n, !.typed = FALSE,
                                    !.settled = Settles(s, "fallback")]
          /\ UNCHANGED call
  /\ UNCHANGED <<server, misfiled, moves, sends>>

-----------------------------------------------------------------------------
(* Moving about. *)

\* A row, an arrow or an arrow key selects c: the drawer shows it and loads its detail.
Select == \E c \in Candidates, s \in LoadSlots :
  /\ Move
  /\ view.at \in {"list", "drawer"}
  /\ load[s].pc = "free"
  /\ view' = [Asking(view, s) EXCEPT !.at = "drawer", !.cand = c]
  /\ load' = Asked(load, s, c)
  /\ UNCHANGED <<server, call, misfiled, sends>>

\* The overlay, the close button or Escape: only detail is reset.
CloseDrawer ==
  /\ view.at = "drawer"
  /\ view' = [view EXCEPT !.at = "list", !.shows["detail"] = Nobody]
  /\ UNCHANGED <<server, load, call, misfiled, moves, sends>>

Unanswered_none_bug == load
\* The loads of a view that is unmounted return to nobody.
Unanswered == [s \in LoadSlots |-> NoLoad]
\* The calls of a view that is unmounted: the server goes on with those it was sent, and only
\* the return of a DELETE still does anything (CandidateDetailPage.tsx l.150-151).
Adrift == [k \in CallSlots |-> IF call[k].pc = "sent" \/ (call[k].kind = "archive" /\ call[k].pc = "done")
                               THEN [call[k] EXCEPT !.left = TRUE] ELSE NoCall]

\* The profile of c, from a row or from the drawer: c's state is loaded again.
OpenPage == \E c \in Candidates, s, t \in LoadSlots :
  /\ Move
  /\ view.at = "list" \/ (view.at = "drawer" /\ c = view.cand)
  /\ (s = t) = (MountLoads = 1)
  /\ view' = Asking(Mounted("page", c), t)
  /\ call' = Adrift
  /\ load' = [r \in LoadSlots |-> IF r \in {s, t}
                THEN [pc |-> "asked", cand |-> c, got |-> Blank, clean |-> TRUE] ELSE Unanswered[r]]
  /\ UNCHANGED <<server, misfiled, sends>>

\* Back to the list, whose drawer is mounted anew.
Leaving ==
  /\ view' = Mounted("list", Nobody)
  /\ load' = Unanswered
Back ==
  /\ Move
  /\ view.at = "page"
  /\ Leaving
  /\ call' = Adrift
  /\ UNCHANGED <<server, misfiled, sends>>

-----------------------------------------------------------------------------
(* Mutations. *)

Type_anyTime_bug ==
  /\ Visible /\ ~view.typed
  /\ view' = [view EXCEPT !.typed = TRUE]
  /\ UNCHANGED <<server, load, call, misfiled, moves, sends>>
\* The box of the notes is edited; it is disabled while they are being saved.
Type ==
  /\ Visible /\ ~view.typed /\ "notes" \notin view.busy
  /\ view' = [view EXCEPT !.typed = TRUE]
  /\ UNCHANGED <<server, load, call, misfiled, moves, sends>>

\* The page sends a mutation of kind m and sets its flag; arg holds the value it carries.
Send(m, arg, v) ==
  /\ Visible /\ m \notin view.busy
  /\ sends < MaxSends /\ sends' = sends + 1
  /\ \E k \in CallSlots :
       /\ call[k].pc = "free"
       /\ call' = [call EXCEPT ![k] = [pc |-> "sent", kind |-> m, cand |-> view.cand,
                     arg |-> arg, detail |-> view.shows["detail"], flagged |-> TRUE,
                     left |-> FALSE]]
  /\ view' = [v EXCEPT !.busy = @ \cup {m}]
  /\ load' = [s \in LoadSlots |-> [load[s] EXCEPT !.clean = @ /\ load[s].pc = "free"]]
  /\ UNCHANGED <<server, moves>>

ChangeStatus_whileBusy_bug == \E x \in Statuses \ {view.status} :
  /\ view.at = "drawer" /\ sends < MaxSends /\ sends' = sends + 1
  /\ \E k \in CallSlots :
       /\ call[k].pc = "free"
       /\ call' = [call EXCEPT ![k] = [pc |-> "sent", kind |-> "status", cand |-> view.cand,
                     arg |-> [Blank EXCEPT !.status = x], detail |-> view.shows["detail"],
                     flagged |-> "status" \notin view.busy, left |-> FALSE]]
  /\ view' = [view EXCEPT !.status = x, !.busy = @ \cup {"status"}]
  /\ load' = [s \in LoadSlots |-> [load[s] EXCEPT !.clean = @ /\ load[s].pc = "free"]]
  /\ UNCHANGED <<server, misfiled, moves>>
\* A status is clicked: it is shown at once.
ChangeStatus == \E x \in Statuses \ {view.status} :
  /\ Send("status", [Blank EXCEPT !.status = x], [view EXCEPT !.status = x])
  /\ UNCHANGED misfiled

SubmitScore == Send("score", Blank, view) /\ UNCHANGED misfiled
GenerateSummary == Send("summary", Blank, view) /\ UNCHANGED misfiled

\* The text in the box is saved as the notes of the candidate selected.
SaveNotes ==
  /\ Send("notes", [Blank EXCEPT !.notes = [of |-> view.notes.of, n |-> sends + 1]],
          [view EXCEPT !.typed = FALSE])
  /\ misfiled' = IF view.settled = "no" THEN misfiled \cup {view.cand} ELSE misfiled

\* The modal of the profile; its overlay closes it even while the DELETE is under way.
OpenModal ==
  /\ Visible /\ view.at = "page" /\ ~view.modal
  /\ view' = [view EXCEPT !.modal = TRUE]
  /\ UNCHANGED <<server, load, call, misfiled, moves, sends>>
CancelModal_resets_bug ==
  /\ view.modal
  /\ view' = [view EXCEPT !.modal = FALSE, !.busy = @ \ {"archive"}]
  /\ UNCHANGED <<server, load, call, misfiled, moves, sends>>
CancelModal ==
  /\ view.modal
  /\ view' = [view EXCEPT !.modal = FALSE]
  /\ UNCHANGED <<server, load, call, misfiled, moves, sends>>
ConfirmArchive ==
  /\ view.modal
  /\ Send("archive", [Blank EXCEPT !.status = Archived], view)
  /\ UNCHANGED misfiled

-----------------------------------------------------------------------------
(* What becomes of a mutation. *)

\* The record of c becomes r.
Changed(c, r) ==
  [server EXCEPT ![c] = [now |-> r, past |-> (server[c].past \cup {server[c].now}) \ {r}]]

Stored(k) ==
  LET c == call[k]
      r == server[c.cand].now
  IN  CASE c.kind \in {"status", "archive"} -> Changed(c.cand, [r EXCEPT !.status = c.arg.status])
        [] c.kind = "notes"                 -> Changed(c.cand, [r EXCEPT !.notes = c.arg.notes])
        [] OTHER                            -> server

Commit(k) ==
  /\ call[k].pc = "sent"
  /\ server' = Stored(k)
  /\ call' = [call EXCEPT ![k] = IF @.left /\ @.kind # "archive" THEN NoCall
                                    ELSE [@ EXCEPT !.pc = "done"]]
  /\ view' = [view EXCEPT !.elsewhere = @ \/ call[k].left]
  /\ UNCHANGED <<load, misfiled, moves, sends>>

\* Another client, or the dashboard's own archive modal, changes a status.
OthersChange == \E c \in Candidates, x \in Statuses :
  /\ Move
  /\ x # server[c].now.status
  /\ server' = Changed(c, [server[c].now EXCEPT !.status = x])
  /\ view' = [view EXCEPT !.elsewhere = TRUE]
  /\ UNCHANGED <<load, call, misfiled, sends>>

Freed(k) == [call EXCEPT ![k] = NoCall]
Idle(v, k) == [v EXCEPT !.busy = IF call[k].flagged THEN @ \ {call[k].kind} ELSE @]
\* The view holds something of candidate c from now on.
Holding(v, c) == [v EXCEPT !.settled = IF c = v.cand THEN @ ELSE "no"]

\* A call returns to the drawer: a score is put before the closure's scores, a summary shown.
DrawerReturns(k) ==
  /\ call[k].pc = "done" /\ view.at # "page" /\ ~call[k].left
  /\ view' = Idle(CASE call[k].kind = "score" /\ call[k].detail # Nobody ->
                         Holding([view EXCEPT !.shows["detail"] = call[k].detail], call[k].detail)
                    [] call[k].kind = "summary" ->
                         Holding([view EXCEPT !.shows["summary"] = call[k].cand], call[k].cand)
                    [] OTHER -> view, k)
  /\ call' = Freed(k)
  /\ UNCHANGED <<server, load, misfiled, moves, sends>>

\* A status or notes return to the profile: its candidate and, if they changed, its cards
\* take over what was stored.
StatusReturns(k) ==
  LET x == call[k].arg.status IN
  /\ call[k].pc = "done" /\ view.at = "page" /\ call[k].kind = "status"
  /\ view' = Idle([view EXCEPT !.known.status = x,
                     !.status = IF x = view.known.status THEN @ ELSE x], k)
  /\ call' = Freed(k)
  /\ UNCHANGED <<server, load, misfiled, moves, sends>>
NotesReturn(k) ==
  LET x == call[k].arg.notes IN
  /\ call[k].pc = "done" /\ view.at = "page" /\ call[k].kind = "notes"
  /\ view' = Idle([view EXCEPT !.known.notes = x,
                     !.notes = IF x = view.known.notes THEN @ ELSE x,
                     !.typed = IF x = view.known.notes THEN @ ELSE FALSE], k)
  /\ call' = Freed(k)
  /\ UNCHANGED <<server, load, misfiled, moves, sends>>
SummaryReturns(k) ==
  /\ call[k].pc = "done" /\ view.at = "page" /\ call[k].kind = "summary"
  /\ view' = Idle(view, k)
  /\ call' = Freed(k)
  /\ UNCHANGED <<server, load, misfiled, moves, sends>>

\* A score returns to the profile, which loads the candidate again: its cards are unmounted.
ScoreReturns(k) == \E s \in LoadSlots :
  /\ call[k].pc = "done" /\ view.at = "page" /\ call[k].kind = "score"
  /\ load[s].pc = "free"
  /\ view' = [NoCards(Asking(Idle(view, k), s)) EXCEPT !.loading = TRUE]
  /\ load' = [load EXCEPT ![s] = [pc |-> "asked", cand |-> view.cand, got |-> Blank,
                clean |-> \A j \in CallSlots \ {k} : call[j].pc = "free" \/ call[j].left]]
  /\ call' = [Unflagged EXCEPT ![k] = NoCall]
  /\ UNCHANGED <<server, misfiled, moves, sends>>

\* The profile is left for the list: that of the archived candidate or, if the user has
\* left it before the DELETE returned, the one that is on display by then.
ArchiveReturns(k) ==
  /\ call[k].pc = "done" /\ call[k].kind = "archive" /\ view.at = "page"
  /\ Leaving
  /\ call' = [Adrift EXCEPT ![k] = NoCall]
  /\ UNCHANGED <<server, misfiled, moves, sends>>
\* The list is on display already: navigating to it mounts nothing anew.
ArchiveReturnsToList(k) ==
  /\ call[k].pc = "done" /\ call[k].kind = "archive" /\ view.at # "page"
  /\ call' = Freed(k)
  /\ UNCHANGED <<server, view, load, misfiled, moves, sends>>

Return(k) ==
  DrawerReturns(k) \/ StatusReturns(k) \/ NotesReturn(k) \/ SummaryReturns(k)
    \/ ScoreReturns(k) \/ ArchiveReturns(k) \/ ArchiveReturnsToList(k)

\* A call fails, its mutation committed or not: the drawer takes the status of the row it
\* was opened with, the profile's card keeps the one that was clicked.
Failed(k, row) ==
  CASE call[k].kind = "notes" -> [view EXCEPT !.typed = @ \/ call[k].flagged]
    [] call[k].kind = "status" /\ view.at # "page" ->
         Holding([view EXCEPT !.failed = TRUE, !.status = row,
                    !.shows["status"] = call[k].cand], call[k].cand)
    [] call[k].kind \in {"status", "archive"} /\ view.at = "page" ->
         [view EXCEPT !.failed = TRUE]
    [] OTHER -> view

Fail(k) ==
  /\ call[k].pc # "free" /\ ~call[k].left
  /\ \E row \in Statuses : view' = Idle(Failed(k, row), k)
  /\ call' = Freed(k)
  /\ UNCHANGED <<server, load, misfiled, moves, sends>>

\* A call whose view was left fails: its handler has nobody to tell.
FailUnseen(k) ==
  /\ call[k].pc # "free" /\ call[k].left
  /\ call' = Freed(k)
  /\ UNCHANGED <<server, view, load, misfiled, moves, sends>>

-----------------------------------------------------------------------------
Moving == Select \/ CloseDrawer \/ OpenPage \/ Back
Editing == Type \/ ChangeStatus \/ SubmitScore \/ GenerateSummary \/ SaveNotes
Archiving == OpenModal \/ CancelModal \/ ConfirmArchive

Next ==
  \/ Moving \/ Editing \/ Archiving \/ OthersChange
  \/ \E s \in LoadSlots : Serve(s) \/ Answer(s) \/ LoadFails(s)
  \/ \E k \in CallSlots : Commit(k) \/ Return(k) \/ Fail(k) \/ FailUnseen(k)

Spec == Init /\ [][Next]_vars

-----------------------------------------------------------------------------
(* Properties. *)

\* Every variable keeps its type, and what a profile waits for is its own candidate's.
TypeOK ==
  /\ server \in [Candidates -> Row]
  /\ view \in View
  /\ load \in [LoadSlots -> Load]
  /\ call \in [CallSlots -> Call]
  /\ view.at = "page" =>
       /\ \A s \in LoadSlots : load[s].pc = "free" \/ load[s].cand = view.cand
       /\ \A k \in CallSlots : call[k].pc = "free" \/ call[k].left \/ call[k].cand = view.cand
  /\ misfiled \subseteq Candidates
  /\ moves \in 0..MaxMoves /\ sends \in 0..MaxSends

(***************************************************************************)
(* Once the newest load is the last to have ended, everything on display   *)
(* is the selected candidate's: status, summary, notes and detail after an *)
(* answer, all but the detail after the fallback (CandidateDrawer.tsx      *)
(* l.78-88).  Excepted are the notes of a candidate that got another's.    *)
(***************************************************************************)
FieldsBelong ==
  Visible /\ view.settled # "no" =>
    /\ \A f \in DOMAIN view.shows :
         f # "detail" \/ view.settled = "answer" => view.shows[f] = view.cand
    /\ view.notes.of = view.cand \/ view.cand \in misfiled

\* A candidate gets another one's notes only by a save while the drawer had not yet been
\* settled for it: no other path leads from one candidate's box to another's record.
NotesReachTheirOwner == \A c \in Candidates : server[c].now.notes.of # c => c \in misfiled

(***************************************************************************)
(* The status on display is the stored one, however selections, changes,   *)
(* answers and reloads interleave, unless a change failed, somebody else   *)
(* changed the candidates since, a change of this view is under way or one *)
(* was when the load answered last was, or that load was answered from an  *)
(* outdated entry of the server's cache (routers/candidates.py l.109-115): *)
(* the view cannot tell it from a fresh one, see ReadYourWrites in module  *)
(* CandidateCache.                                                         *)
(***************************************************************************)
StatusTruthful ==
  Visible /\ view.settled = "answer" /\ view.clean /\ ~view.failed /\ ~view.elsewhere
    /\ (\A k \in CallSlots : \/ call[k].pc = "free" \/ call[k].left
                             \/ call[k].kind \notin {"status", "archive"})
    => view.status = server[view.cand].now.status

\* A button is disabled exactly while the call of its flag is under way, through moves,
\* reloads that unmount the cards and modals that are closed: no flag stays for ever, and
\* no second call of a kind starts beside one that the card still shows.
BusyTruthful ==
  \A m \in Kinds :
    LET flagged == {k \in CallSlots : call[k].kind = m /\ call[k].flagged /\ ~call[k].left}
    IN  /\ Cardinality(flagged) = IF m \in view.busy THEN 1 ELSE 0
        /\ \A k \in flagged : call[k].pc # "free"

(***************************************************************************)
(* Text typed into the box of the notes stays until it is sent, a load     *)
(* ends or starts that replaces the box, or the view goes: no status,      *)
(* summary or score of the drawer and no failure takes it away, nor the    *)
(* return of a save, unless it is one whose card a reload has unmounted    *)
(* (AdminNotesCard.tsx l.24, l.57).  A view goes when the user moves on,   *)
(* and when a DELETE returns, be it that of a profile left before          *)
(* (CandidateDetailPage.tsx l.151).                                        *)
(***************************************************************************)
DraftKept ==
  [][view.typed /\ ~view'.typed =>
       \/ "page" \in {view.at, view'.at} /\ view'.at # view.at
       \/ \E s \in LoadSlots : (load[s].pc = "free") # (load'[s].pc = "free")
       \/ "notes" \in view'.busy \ view.busy
       \/ \E k \in CallSlots : call[k].pc = "done" /\ ~call[k].flagged /\ call'[k].pc = "free"]_vars
=============================================================================
