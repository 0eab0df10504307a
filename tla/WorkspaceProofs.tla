--------------------------- MODULE WorkspaceProofs ---------------------------
(***************************************************************************)
(* Proofs about Workspace: whatever is selected, sent, answered or lost,   *)
(* the drawer and the profile show the candidate they say they show, and   *)
(* no button stays disabled and no draft is lost without a reason.         *)
(***************************************************************************)
EXTENDS Workspace, FiniteSetTheorems, TLAPS

USE WorkspaceConstants

-----------------------------------------------------------------------------
(* The inductive invariant. *)

\* TypeOK in two parts: the types, and that a profile waits for its own candidate only.
Parts ==
  /\ server \in [Candidates -> Row]
  /\ view \in View
  /\ load \in [LoadSlots -> Load]
  /\ call \in [CallSlots -> Call]
  /\ misfiled \subseteq Candidates
  /\ moves \in 0..MaxMoves /\ sends \in 0..MaxSends
OwnOnly == view.at = "page" =>
  /\ \A s \in LoadSlots : load[s].pc = "free" \/ load[s].cand = view.cand
  /\ \A k \in CallSlots : call[k].pc = "free" \/ call[k].left \/ call[k].cand = view.cand

\* A mutation whose view still waits for it.
Going(k) == call[k].pc # "free" /\ ~call[k].left

\* Who a load, a call and the view are about; only a profile archives.
Targets ==
  /\ \A s \in LoadSlots : load[s].pc # "free" => load[s].cand \in Candidates
  /\ \A k \in CallSlots : call[k].pc # "free" => call[k].cand \in Candidates
  /\ view.at # "list" => view.cand \in Candidates
  /\ \A s \in LoadSlots : view.newest = s /\ load[s].pc # "free" => load[s].cand = view.cand
  /\ \A k \in CallSlots : call[k].pc = "done" /\ call[k].left => call[k].kind = "archive"
  /\ view.modal => view.at = "page"
  /\ \A k \in CallSlots : Going(k) /\ call[k].kind = "archive" => view.at = "page"

\* A button that is disabled has one call with its flag, and no other button has any.
Flagged(k, m) == call[k].kind = m /\ call[k].flagged /\ ~call[k].left
Flags ==
  /\ \A k \in CallSlots, m \in Kinds : Flagged(k, m) => m \in view.busy /\ call[k].pc # "free"
  /\ \A m \in Kinds : m \in view.busy => \E k \in CallSlots : Flagged(k, m)
  /\ \A j, k \in CallSlots, m \in Kinds : Flagged(j, m) /\ Flagged(k, m) => j = k
Drafts == "notes" \in view.busy => ~view.typed

\* Notes n may stand in the record of candidate c: wherever they are on their way to it.
Good(c, n) == n.of = c \/ c \in misfiled
Filed ==
  /\ NotesReachTheirOwner
  /\ \A c \in Candidates : \A r \in server[c].past : Good(c, r.notes)
  /\ \A s \in LoadSlots : load[s].pc = "served" => Good(load[s].cand, load[s].got.notes)
  /\ \A k \in CallSlots : call[k].pc # "free" /\ call[k].kind = "notes" => Good(call[k].cand, call[k].arg.notes)

\* A view that is settled shows its candidate, and so does a profile that is filled.
Shown ==
  /\ view.at # "list" /\ view.settled # "no" =>
       /\ view.shows["status"] = view.cand /\ view.shows["summary"] = view.cand
       /\ view.settled = "answer" => view.shows["detail"] = view.cand
       /\ Good(view.cand, view.notes)
  /\ view.at = "page" /\ view.shows["detail"] # Nobody => Good(view.cand, view.notes)

\* A newest load beside which nothing was changed carries the status that is stored, unless
\* it was answered from an outdated cache entry.
Current ==
  \A s \in LoadSlots : view.newest = s /\ load[s].pc # "free" /\ load[s].clean /\ ~view.elsewhere =>
    /\ \A k \in CallSlots : ~Going(k)
    /\ load[s].pc = "served" => load[s].got.status = server[load[s].cand].now.status

\* The status of a profile is its card's, or one that was clicked and is being saved.
Clicked == view.at = "page" /\ ~view.failed =>
  \/ view.status = view.known.status
  \/ \E k \in CallSlots : Going(k) /\ call[k].kind = "status" /\ call[k].arg.status = view.status

\* The status on display is the stored one, or it is being stored by the one call that may.
Changing(k) == Going(k) /\ call[k].kind \in {"status", "archive"}
Calm == view.at # "list" /\ (view.at = "page" => ~view.error)
        /\ view.settled = "answer" /\ view.clean /\ ~view.failed /\ ~view.elsewhere
Stores(k) == Going(k) /\ call[k].kind = "status" =>
  /\ call[k].flagged /\ call[k].cand = view.cand /\ call[k].arg.status = view.status
  /\ call[k].pc = "done" /\ (\A j \in CallSlots : Going(j) => call[j].kind # "archive") =>
       server[view.cand].now.status = view.status
Truth == Calm =>
  /\ (\A k \in CallSlots : ~Changing(k)) => view.status = server[view.cand].now.status
  /\ \A k \in CallSlots : Stores(k)

IInv == Parts /\ OwnOnly /\ Targets /\ Flags /\ Drafts /\ Filed /\ Shown /\ Current /\ Clicked /\ Truth

-----------------------------------------------------------------------------
(* What the helpers do to the fields of a view. *)

Place(v) == <<v.at, v.cand, v.loading, v.error, v.modal>>
Content(v) == <<v.shows, v.status, v.notes, v.typed, v.known>>
Trust(v) == <<v.newest, v.settled, v.clean, v.failed, v.elsewhere>>

LEMMA BlankIs == Blank \in Record /\ \A c \in Candidates \cup {Nobody} : Own(c) \in Notes /\ Own(c).of = c
  BY DEF Blank, Record, Notes, Own

LEMMA AskingIs ==
  ASSUME NEW v \in View, NEW s \in LoadSlots
  PROVE  /\ Asking(v, s) \in View
         /\ Place(Asking(v, s)) = Place(v) /\ Content(Asking(v, s)) = Content(v)
         /\ Asking(v, s).busy = v.busy
         /\ Trust(Asking(v, s)) = <<s, "no", v.clean, v.failed, FALSE>>
  BY DEF Asking, View, Place, Content, Trust

LEMMA IdleIs ==
  ASSUME Parts, NEW v \in View, NEW k \in CallSlots
  PROVE  /\ Idle(v, k) \in View
         /\ Place(Idle(v, k)) = Place(v) /\ Content(Idle(v, k)) = Content(v) /\ Trust(Idle(v, k)) = Trust(v)
         /\ Idle(v, k).busy = IF call[k].flagged THEN v.busy \ {call[k].kind} ELSE v.busy
  BY DEF Idle, View, Place, Content, Trust

LEMMA HoldingIs ==
  ASSUME NEW v \in View, NEW c
  PROVE  /\ Holding(v, c) \in View
         /\ Place(Holding(v, c)) = Place(v) /\ Content(Holding(v, c)) = Content(v)
         /\ Holding(v, c).busy = v.busy
         /\ Trust(Holding(v, c)) =
              <<v.newest, IF c = v.cand THEN v.settled ELSE "no", v.clean, v.failed, v.elsewhere>>
  BY DEF Holding, View, Place, Content, Trust

LEMMA NoCardsIs ==
  ASSUME NEW v \in View
  PROVE  /\ NoCards(v) \in View
         /\ Place(NoCards(v)) = Place(v) /\ Trust(NoCards(v)) = Trust(v)
         /\ Content(NoCards(v)) = <<v.shows, v.status, v.notes, FALSE, v.known>>
         /\ NoCards(v).busy = v.busy \ CardKinds
  BY DEF NoCards, View, Place, Content, Trust

LEMMA MountedIs ==
  ASSUME NEW a \in {"list", "page"}, NEW c \in Candidates \cup {Nobody}
  PROVE  /\ Mounted(a, c) \in View
         /\ Place(Mounted(a, c)) = <<a, c, a = "page", FALSE, FALSE>>
         /\ Content(Mounted(a, c)) =
              <<[f \in {"status", "summary", "detail"} |-> Nobody], Blank.status, Blank.notes, FALSE, Blank>>
         /\ Mounted(a, c).busy = {} /\ Trust(Mounted(a, c)) = <<NoSlot, "no", TRUE, FALSE, FALSE>>
<1>1. Blank \in Record /\ Blank.status \in Statuses /\ Blank.notes \in Notes
  BY BlankIs DEF Record
<1>2. (a = "page") \in BOOLEAN
  OBVIOUS
<1> DEFINE b == a = "page"
<1>3. Mounted(a, c) =
        [at |-> a, cand |-> c, shows |-> [f \in {"status", "summary", "detail"} |-> Nobody],
         status |-> Blank.status, notes |-> Blank.notes, typed |-> FALSE, known |-> Blank,
         loading |-> b, error |-> FALSE, modal |-> FALSE, busy |-> {},
         newest |-> NoSlot, settled |-> "no", clean |-> TRUE, failed |-> FALSE, elsewhere |-> FALSE]
  BY DEF Mounted
<1>4. b \in BOOLEAN
  OBVIOUS
<1> HIDE DEF b
<1>5. /\ Mounted(a, c) \in View
      /\ Place(Mounted(a, c)) = <<a, c, b, FALSE, FALSE>>
      /\ Content(Mounted(a, c)) =
           <<[f \in {"status", "summary", "detail"} |-> Nobody], Blank.status, Blank.notes, FALSE, Blank>>
      /\ Mounted(a, c).busy = {} /\ Trust(Mounted(a, c)) = <<NoSlot, "no", TRUE, FALSE, FALSE>>
  BY <1>1, <1>3, <1>4 DEF View, Place, Content, Trust
<1> QED
  BY <1>5 DEF b

LEMMA NoneIs == NoLoad \in Load /\ NoLoad.pc = "free" /\ NoCall \in Call /\ NoCall.pc = "free" /\ ~NoCall.flagged
  BY BlankIs DEF NoLoad, Load, NoCall, Call, Kinds

LEMMA FreedIs ==
  ASSUME Parts, NEW k \in CallSlots
  PROVE  /\ Freed(k) \in [CallSlots -> Call] /\ Freed(k)[k] = NoCall
         /\ \A j \in CallSlots : j # k => Freed(k)[j] = call[j]
  BY NoneIs DEF Freed, Parts

LEMMA AskedIs ==
  ASSUME Parts, NEW s \in LoadSlots, NEW c \in Candidates
  PROVE  /\ Asked(load, s, c) \in [LoadSlots -> Load]
         /\ Asked(load, s, c)[s].pc = "asked" /\ Asked(load, s, c)[s].cand = c
         /\ Asked(load, s, c)[s].clean <=> \A k \in CallSlots : ~Going(k)
         /\ \A t \in LoadSlots : t # s => Asked(load, s, c)[t] = load[t]
<1> DEFINE b == ~InFlight
           l == [pc |-> "asked", cand |-> c, got |-> Blank, clean |-> b]
<1>1. b \in BOOLEAN /\ (b <=> \A k \in CallSlots : ~Going(k))
  BY DEF InFlight, Going
<1> HIDE DEF b
<1>2. l \in Load /\ l.pc = "asked" /\ l.cand = c /\ l.clean = b
  BY <1>1, BlankIs DEF Load
<1>3. Asked(load, s, c) = [load EXCEPT ![s] = l]
  BY DEF Asked, b
<1> HIDE DEF l
<1>4. Asked(load, s, c)[s] = l
  BY <1>3 DEF Parts
<1> QED
  BY <1>1, <1>2, <1>3, <1>4 DEF Parts

\* The calls keep what they are about when the cards of the profile go.
LEMMA UnflaggedIs ==
  ASSUME Parts
  PROVE  /\ Unflagged \in [CallSlots -> Call]
         /\ \A k \in CallSlots :
              /\ Unflagged[k].pc = call[k].pc /\ Unflagged[k].kind = call[k].kind
              /\ Unflagged[k].cand = call[k].cand /\ Unflagged[k].arg = call[k].arg
              /\ Unflagged[k].left = call[k].left
              /\ Unflagged[k].flagged <=> call[k].flagged /\ call[k].kind \notin CardKinds
<1>1. ASSUME NEW k \in CallSlots
      PROVE  /\ Unflagged[k] \in Call
             /\ Unflagged[k].pc = call[k].pc /\ Unflagged[k].kind = call[k].kind
             /\ Unflagged[k].cand = call[k].cand /\ Unflagged[k].arg = call[k].arg
             /\ Unflagged[k].left = call[k].left
             /\ Unflagged[k].flagged <=> call[k].flagged /\ call[k].kind \notin CardKinds
  <2>1. call[k] \in Call
    BY DEF Parts
  <2>2. CASE call[k].kind \in CardKinds
    <3>1. Unflagged[k] = [call[k] EXCEPT !.flagged = FALSE]
      BY <2>2 DEF Unflagged
    <3> QED
      BY <2>1, <2>2, <3>1 DEF Call
  <2>3. CASE call[k].kind \notin CardKinds
    <3>1. Unflagged[k] = call[k]
      BY <2>3 DEF Unflagged
    <3> QED
      BY <2>1, <2>3, <3>1
  <2> QED
    BY <2>2, <2>3
<1>2. Unflagged \in [CallSlots -> Call]
  BY <1>1 DEF Unflagged
<1> QED
  BY <1>1, <1>2

\* A call that is left is with the server or nowhere, but for a DELETE that will navigate.
LEMMA AdriftIs ==
  ASSUME Parts
  PROVE  /\ Adrift \in [CallSlots -> Call]
         /\ \A k \in CallSlots :
              \/ Adrift[k] = NoCall
              \/ /\ call[k].pc # "free" /\ Adrift[k].pc = call[k].pc /\ Adrift[k].left
                 /\ call[k].pc = "done" => call[k].kind = "archive"
                 /\ Adrift[k].kind = call[k].kind /\ Adrift[k].cand = call[k].cand
                 /\ Adrift[k].arg = call[k].arg
<1>1. ASSUME NEW k \in CallSlots
      PROVE  /\ Adrift[k] \in Call
             /\ \/ Adrift[k] = NoCall
                \/ /\ call[k].pc # "free" /\ Adrift[k].pc = call[k].pc /\ Adrift[k].left
                   /\ call[k].pc = "done" => call[k].kind = "archive"
                   /\ Adrift[k].kind = call[k].kind /\ Adrift[k].cand = call[k].cand
                   /\ Adrift[k].arg = call[k].arg
  <2>1. call[k] \in Call
    BY DEF Parts
  <2>2. CASE call[k].pc = "sent" \/ (call[k].kind = "archive" /\ call[k].pc = "done")
    <3>1. Adrift[k] = [call[k] EXCEPT !.left = TRUE]
      BY <2>2 DEF Adrift
    <3> QED
      BY <2>1, <2>2, <3>1 DEF Call
  <2>3. CASE ~(call[k].pc = "sent" \/ (call[k].kind = "archive" /\ call[k].pc = "done"))
    BY <2>3, NoneIs DEF Adrift
  <2> QED
    BY <2>2, <2>3
<1>2. Adrift \in [CallSlots -> Call]
  BY <1>1 DEF Adrift
<1> QED
  BY <1>1, <1>2

-----------------------------------------------------------------------------
(* What a step does: one shape for the steps that are alike. *)

\* The view alone changes: it is closed, typed into, or its modal opened or closed.
Minor ==
  /\ UNCHANGED <<server, load, call, misfiled>>
  /\ view' \in View /\ Trust(view') = Trust(view) /\ view'.busy = view.busy
  /\ view'.cand = view.cand /\ view'.error = view.error
  /\ view'.status = view.status /\ view'.notes = view.notes /\ view'.known = view.known
  /\ \/ view'.at = view.at /\ view'.shows = view.shows /\ (view'.modal => view.modal \/ view.at = "page")
     \/ view.at = "drawer" /\ view'.at = "list" /\ view'.modal = view.modal
  /\ view'.typed = view.typed \/ (view'.typed /\ "notes" \notin view.busy)

LEMMA MinorFields ==
  ASSUME Parts, CloseDrawer \/ Type \/ OpenModal \/ CancelModal
  PROVE  Minor
<1>1. view \in View
  BY DEF Parts
<1>2. CASE CloseDrawer
  <2>1. view' = [view EXCEPT !.at = "list", !.shows["detail"] = Nobody] /\ view.at = "drawer"
        /\ UNCHANGED <<server, load, call, misfiled>>
    BY <1>2 DEF CloseDrawer
  <2> QED
    BY <1>1, <2>1 DEF View, Minor, Trust
<1>3. CASE Type
  <2>1. view' = [view EXCEPT !.typed = TRUE] /\ UNCHANGED <<server, load, call, misfiled>> /\ "notes" \notin view.busy
    BY <1>3 DEF Type
  <2> QED
    BY <1>1, <2>1 DEF View, Minor, Trust
<1>4. CASE OpenModal \/ CancelModal
  <2>1. PICK b \in BOOLEAN : view' = [view EXCEPT !.modal = b] /\ (b => view.at = "page")
    BY <1>4 DEF OpenModal, CancelModal
  <2>2. UNCHANGED <<server, load, call, misfiled>>
    BY <1>4 DEF OpenModal, CancelModal
  <2> QED
    BY <1>1, <2>1, <2>2 DEF View, Minor, Trust
<1> QED
  BY <1>2, <1>3, <1>4

\* A candidate is selected in the drawer.
Picked(c, s) ==
  /\ UNCHANGED <<server, call, misfiled>>
  /\ view' \in View /\ Content(view') = Content(view) /\ view'.busy = view.busy
  /\ view.at # "page" /\ view'.at = "drawer" /\ view'.cand = c /\ view'.modal = view.modal
  /\ view'.newest = s /\ view'.settled = "no" /\ view'.failed = view.failed
  /\ load' \in [LoadSlots -> Load] /\ load[s].pc = "free"
  /\ load'[s].pc = "asked" /\ load'[s].cand = c /\ (load'[s].clean => \A k \in CallSlots : ~Going(k))
  /\ \A t \in LoadSlots : t # s => load'[t] = load[t]

LEMMA SelectFields ==
  ASSUME Parts, Select
  PROVE  \E c \in Candidates, s \in LoadSlots : Picked(c, s)
<1>1. PICK c \in Candidates, s \in LoadSlots :
        /\ view.at \in {"list", "drawer"} /\ load[s].pc = "free"
        /\ view' = [Asking(view, s) EXCEPT !.at = "drawer", !.cand = c]
        /\ load' = Asked(load, s, c)
        /\ UNCHANGED <<server, call, misfiled>>
  BY DEF Select
<1>2. view \in View
  BY DEF Parts
<1>3. PICK v \in View : /\ v = Asking(view, s) /\ Content(v) = Content(view) /\ v.busy = view.busy
                        /\ Place(v) = Place(view) /\ Trust(v) = <<s, "no", view.clean, view.failed, FALSE>>
  BY <1>2, AskingIs
<1>4. view' = [v EXCEPT !.at = "drawer", !.cand = c]
  BY <1>1, <1>3
<1>5. /\ view' \in View /\ Content(view') = Content(v) /\ view'.busy = v.busy /\ Trust(view') = Trust(v)
      /\ view'.at = "drawer" /\ view'.cand = c /\ view'.modal = v.modal
  BY <1>4 DEF View, Content, Trust
<1>6. Picked(c, s)
  BY <1>1, <1>3, <1>5, AskedIs DEF Picked, Trust, Place
<1> QED
  BY <1>6

\* A view is unmounted, and the list or a profile is mounted in its place.
Unmounted ==
  /\ UNCHANGED <<server, misfiled>>
  /\ view' \in View /\ view'.at \in {"list", "page"} /\ view'.busy = {} /\ view'.settled = "no"
  /\ ~view'.modal /\ ~view'.typed /\ ~view'.failed
  /\ view'.shows["detail"] = Nobody /\ view'.status = view'.known.status
  /\ view'.at = "page" => view'.cand \in Candidates
  /\ view'.at = "page" \/ view.at = "page"
  /\ view'.at # view.at
  /\ load' \in [LoadSlots -> Load]
  /\ \A s \in LoadSlots :
       load'[s].pc = "free" \/ (load'[s].pc = "asked" /\ load'[s].cand = view'.cand /\ view'.at = "page")
  /\ call' \in [CallSlots -> Call]
  /\ \A k \in CallSlots :
       \/ call'[k] = NoCall
       \/ /\ call[k].pc # "free" /\ call'[k].pc = call[k].pc /\ call'[k].left
          /\ call[k].pc = "done" => call[k].kind = "archive"
          /\ call'[k].kind = call[k].kind /\ call'[k].cand = call[k].cand /\ call'[k].arg = call[k].arg

LEMMA UnmountedFields ==
  ASSUME Parts, Targets, OpenPage \/ Back \/ \E k \in CallSlots : ArchiveReturns(k)
  PROVE  Unmounted
<1>1. ASSUME NEW a \in {"list", "page"}, NEW c \in Candidates \cup {Nobody}, a = "page" => c \in Candidates,
             a = "page" \/ view.at = "page", a # view.at, view' \in View,
             Place(view') = Place(Mounted(a, c)), Content(view') = Content(Mounted(a, c)),
             view'.busy = {}, view'.settled = "no", ~view'.failed,
             UNCHANGED <<server, misfiled>>, load' \in [LoadSlots -> Load],
             \A r \in LoadSlots : load'[r].pc = "free" \/ (load'[r].pc = "asked" /\ load'[r].cand = c /\ a = "page"),
             call' \in [CallSlots -> Call], \A k \in CallSlots : call'[k] = NoCall \/ call'[k] = Adrift[k]
      PROVE  Unmounted
  <2>1. /\ view'.at = a /\ view'.cand = c /\ ~view'.modal /\ ~view'.typed
        /\ view'.shows["detail"] = Nobody /\ view'.status = view'.known.status
    <3> DEFINE m == Mounted(a, c)
    <3>1. /\ Place(view') = Place(m) /\ Content(view') = Content(m)
          /\ Place(m) = <<a, c, a = "page", FALSE, FALSE>>
          /\ Content(m) = <<[f \in {"status", "summary", "detail"} |-> Nobody], Blank.status, Blank.notes, FALSE, Blank>>
      BY <1>1, MountedIs
    <3> HIDE DEF m
    <3>2. view'.at = a /\ view'.cand = c /\ ~view'.modal
      BY <3>1 DEF Place
    <3>3. ~view'.typed
      BY <3>1 DEF Content
    <3>4. view'.shows["detail"] = Nobody /\ view'.status = view'.known.status
      BY <3>1 DEF Content
    <3> QED
      BY <3>2, <3>3, <3>4
  <2>2. \A k \in CallSlots :
       \/ call'[k] = NoCall
       \/ /\ call[k].pc # "free" /\ call'[k].pc = call[k].pc /\ call'[k].left
          /\ call[k].pc = "done" => call[k].kind = "archive"
          /\ call'[k].kind = call[k].kind /\ call'[k].cand = call[k].cand /\ call'[k].arg = call[k].arg
    BY <1>1, AdriftIs
  <2> QED
    BY <1>1, <2>1, <2>2 DEF Unmounted
<1>2. CASE Back \/ \E k \in CallSlots : ArchiveReturns(k)
  <2>1. /\ view' = Mounted("list", Nobody) /\ load' = Unanswered /\ UNCHANGED <<server, misfiled>>
        /\ view.at = "page"
    <3>1. CASE Back
      BY <3>1 DEF Back, Leaving
    <3>2. CASE \E k \in CallSlots : ArchiveReturns(k)
      BY <3>2 DEF ArchiveReturns, Leaving
    <3> QED
      BY <1>2, <3>1, <3>2
  <2>2. /\ call' \in [CallSlots -> Call]
        /\ \A k \in CallSlots : call'[k] = NoCall \/ call'[k] = Adrift[k]
    BY <1>2, AdriftIs, NoneIs DEF Back, ArchiveReturns
  <2>3. load' \in [LoadSlots -> Load] /\ \A s \in LoadSlots : load'[s].pc = "free"
    BY <2>1, NoneIs DEF Unanswered
  <2>4. view' \in View /\ view'.busy = {} /\ view'.settled = "no" /\ ~view'.failed
    BY <2>1, MountedIs DEF Trust
  <2> QED
    BY <1>1, <2>1, <2>2, <2>3, <2>4
<1>3. CASE OpenPage
  <2>1. PICK c \in Candidates, s \in LoadSlots, t \in LoadSlots :
          /\ view' = Asking(Mounted("page", c), t) /\ call' = Adrift
          /\ load' = [r \in LoadSlots |-> IF r \in {s, t}
                THEN [pc |-> "asked", cand |-> c, got |-> Blank, clean |-> TRUE] ELSE Unanswered[r]]
          /\ UNCHANGED <<server, misfiled>> /\ view.at # "page"
    BY <1>3 DEF OpenPage
  <2>2. PICK v \in View : v = Mounted("page", c) /\ v.busy = {} /\ ~v.failed
    BY MountedIs DEF Trust
  <2>3. /\ view' \in View /\ Place(view') = Place(v) /\ Content(view') = Content(v)
        /\ view'.busy = {} /\ view'.settled = "no" /\ view'.failed = v.failed
    BY <2>1, <2>2, AskingIs DEF Trust
  <2>4. /\ load' \in [LoadSlots -> Load]
        /\ \A r \in LoadSlots : load'[r].pc = "free" \/ (load'[r].pc = "asked" /\ load'[r].cand = c)
    BY <2>1, NoneIs, BlankIs DEF Unanswered, Load
  <2>5. /\ UNCHANGED <<server, misfiled>> /\ c \in Candidates \cup {Nobody} /\ "page" \in {"list", "page"}
        /\ Place(view') = Place(Mounted("page", c)) /\ Content(view') = Content(Mounted("page", c))
        /\ call' \in [CallSlots -> Call] /\ \A k \in CallSlots : call'[k] = NoCall \/ call'[k] = Adrift[k]
    BY <2>1, <2>2, <2>3, AdriftIs
  <2> QED
    BY <1>1, <2>1, <2>2, <2>3, <2>4, <2>5
<1> QED
  BY <1>2, <1>3

\* The server answers a GET with the candidate as it is now or as it was.
Served(s) ==
  /\ UNCHANGED <<server, view, call, misfiled>>
  /\ load' \in [LoadSlots -> Load] /\ load[s].pc = "asked"
  /\ load'[s].pc = "served" /\ load'[s].cand = load[s].cand
  /\ load'[s].clean => load[s].clean /\ load'[s].got = server[load[s].cand].now
  /\ load'[s].got \in Versions(load[s].cand)
  /\ \A t \in LoadSlots : t # s => load'[t] = load[t]

LEMMA ServeFields ==
  ASSUME Parts, Targets, NEW s \in LoadSlots, Serve(s)
  PROVE  Served(s)
<1>1. load[s] \in Load /\ load[s].pc = "asked" /\ load[s].cand \in Candidates
  BY DEF Serve, Targets, Parts
<1>2. Versions(load[s].cand) \subseteq Record
  BY <1>1 DEF Parts, Row, Versions
<1>3. PICK r \in Versions(load[s].cand) :
        load' = [load EXCEPT ![s].pc = "served", ![s].got = r,
                             ![s].clean = @ /\ r = server[load[s].cand].now]
  BY DEF Serve
<1> DEFINE b == load[s].clean /\ r = server[load[s].cand].now
           l == [load[s] EXCEPT !.pc = "served", !.got = r, !.clean = b]
<1>4. b \in BOOLEAN
  OBVIOUS
<1>5. l \in Load /\ l.pc = "served" /\ l.cand = load[s].cand /\ l.clean = b /\ l.got = r
  <2> HIDE DEF b
  <2> QED
    BY <1>1, <1>2, <1>3, <1>4 DEF Load
<1>6. load' = [load EXCEPT ![s] = l] /\ UNCHANGED <<server, view, call, misfiled>>
  BY <1>3 DEF Serve, Parts
<1> HIDE DEF l
<1> QED
  BY <1>1, <1>3, <1>5, <1>6 DEF Served, Parts

\* A mutation of kind m with value x reaches the record of candidate d.
Writes(d, m, x) ==
  /\ server' \in [Candidates -> Row]
  /\ \A c \in Candidates :
       /\ server'[c].now.status = IF c = d /\ m \in {"status", "archive"} THEN x.status ELSE server[c].now.status
       /\ server'[c].now.notes = IF c = d /\ m = "notes" THEN x.notes ELSE server[c].now.notes
       /\ server'[c].past \subseteq Versions(c)

\* One record changes, and what it was is kept.
LEMMA ChangedIs ==
  ASSUME Parts, NEW c \in Candidates, NEW r \in Record
  PROVE  /\ Changed(c, r) \in [Candidates -> Row] /\ Changed(c, r)[c].now = r
         /\ Changed(c, r)[c].past \subseteq Versions(c)
         /\ \A d \in Candidates : d # c => Changed(c, r)[d] = server[d]
<1> DEFINE P == (server[c].past \cup {server[c].now}) \ {r}
           w == [now |-> r, past |-> P]
<1>1. server \in [Candidates -> Row] /\ server[c] \in Row
  BY DEF Parts
<1>2. P \subseteq Versions(c) /\ P \in SUBSET Record
  BY <1>1 DEF Versions, Row
<1> HIDE DEF P
<1>3. w \in Row /\ w.now = r /\ w.past = P
  BY <1>2 DEF Row
<1>4. Changed(c, r) = [server EXCEPT ![c] = w]
  BY DEF Changed, P
<1> HIDE DEF w
<1> QED
  BY <1>1, <1>2, <1>3, <1>4

LEMMA StoredIs ==
  ASSUME Parts, Targets, NEW k \in CallSlots, call[k].pc = "sent", server' = Stored(k)
  PROVE  Writes(call[k].cand, call[k].kind, call[k].arg)
<1> DEFINE d == call[k].cand
           now == server[d].now
<1>1. call[k] \in Call /\ d \in Candidates /\ server \in [Candidates -> Row] /\ now \in Record
  BY DEF Targets, Parts, Row
<1>2. call[k].kind \in Kinds /\ call[k].arg.status \in Statuses /\ call[k].arg.notes \in Notes
  BY <1>1 DEF Call, Record
<1>3. CASE call[k].kind \in {"status", "archive"}
  <2>1. PICK r : r = [now EXCEPT !.status = call[k].arg.status]
    OBVIOUS
  <2>2. r \in Record /\ r.status = call[k].arg.status /\ r.notes = now.notes
    BY <1>1, <1>2, <2>1 DEF Record
  <2>3. server' = Changed(d, r) /\ call[k].kind # "notes"
    BY <1>3, <2>1 DEF Stored
  <2> QED
    BY <1>1, <1>3, <2>2, <2>3, ChangedIs DEF Writes, Versions
<1>4. CASE call[k].kind = "notes"
  <2>1. PICK r : r = [now EXCEPT !.notes = call[k].arg.notes]
    OBVIOUS
  <2>2. r \in Record /\ r.notes = call[k].arg.notes /\ r.status = now.status
    BY <1>1, <1>2, <2>1 DEF Record
  <2>3. server' = Changed(d, r)
    BY <1>4, <2>1 DEF Stored
  <2> QED
    BY <1>1, <1>4, <2>2, <2>3, ChangedIs DEF Writes, Versions
<1>5. CASE call[k].kind \notin {"status", "archive", "notes"}
  <2>1. server' = server
    BY <1>5 DEF Stored
  <2> QED
    BY <1>1, <1>5, <2>1 DEF Writes, Versions
<1> QED
  BY <1>3, <1>4, <1>5

\* The server changes, the view learns nothing of it.
Unseen ==
  /\ UNCHANGED <<load, misfiled>>
  /\ view' \in View /\ Place(view') = Place(view) /\ Content(view') = Content(view) /\ view'.busy = view.busy
  /\ view'.newest = view.newest /\ view'.settled = view.settled
  /\ view'.clean = view.clean /\ view'.failed = view.failed

Committed(k) ==
  /\ Unseen /\ call[k].pc = "sent"
  /\ view'.elsewhere <=> view.elsewhere \/ call[k].left
  /\ Writes(call[k].cand, call[k].kind, call[k].arg)
  /\ call' \in [CallSlots -> Call]
  /\ \A j \in CallSlots : j # k => call'[j] = call[j]
  /\ \/ call[k].left /\ call'[k] = NoCall
     \/ /\ call'[k].left = call[k].left /\ (call[k].left => call[k].kind = "archive")
        /\ call'[k].pc = "done" /\ call'[k].kind = call[k].kind /\ call'[k].cand = call[k].cand
        /\ call'[k].arg = call[k].arg /\ call'[k].flagged = call[k].flagged

LEMMA CommitFields ==
  ASSUME Parts, Targets, NEW k \in CallSlots, Commit(k)
  PROVE  Committed(k)
<1>1. /\ call[k].pc = "sent" /\ server' = Stored(k)
      /\ call' = [call EXCEPT ![k] = IF @.left /\ @.kind # "archive" THEN NoCall
                                      ELSE [@ EXCEPT !.pc = "done"]]
      /\ view' = [view EXCEPT !.elsewhere = @ \/ call[k].left]
      /\ UNCHANGED <<load, misfiled>>
  BY DEF Commit
<1>2. view \in View /\ call[k] \in Call /\ call \in [CallSlots -> Call]
  BY DEF Parts
<1> DEFINE b == view.elsewhere \/ call[k].left
<1>3. b \in BOOLEAN /\ view' = [view EXCEPT !.elsewhere = b]
  BY <1>1
<1> HIDE DEF b
<1>4. Unseen /\ view'.elsewhere = b
  BY <1>1, <1>2, <1>3 DEF Unseen, View, Place, Content
<1>5. PICK x \in Call :
        /\ x = IF call[k].left /\ call[k].kind # "archive" THEN NoCall
               ELSE [call[k] EXCEPT !.pc = "done"]
        /\ \/ call[k].left /\ x = NoCall
           \/ /\ x.left = call[k].left /\ (call[k].left => call[k].kind = "archive")
              /\ x.pc = "done" /\ x.kind = call[k].kind /\ x.cand = call[k].cand
              /\ x.arg = call[k].arg /\ x.flagged = call[k].flagged
  <2>1. CASE call[k].left /\ call[k].kind # "archive"
    BY <2>1, NoneIs
  <2>2. CASE ~(call[k].left /\ call[k].kind # "archive")
    <3> DEFINE y == [call[k] EXCEPT !.pc = "done"]
    <3>1. /\ y \in Call /\ y.left = call[k].left /\ y.pc = "done" /\ y.kind = call[k].kind
          /\ y.cand = call[k].cand /\ y.arg = call[k].arg /\ y.flagged = call[k].flagged
      BY <1>2 DEF Call
    <3>2. y = IF call[k].left /\ call[k].kind # "archive" THEN NoCall
              ELSE [call[k] EXCEPT !.pc = "done"]
      BY <2>2
    <3> HIDE DEF y
    <3> QED
      BY <2>2, <3>1, <3>2
  <2> QED
    BY <2>1, <2>2
<1>6. call' = [call EXCEPT ![k] = x]
  BY <1>1, <1>5
<1>7. call' \in [CallSlots -> Call] /\ call'[k] = x /\ \A j \in CallSlots : j # k => call'[j] = call[j]
  BY <1>2, <1>5, <1>6
<1> QED
  BY <1>1, <1>4, <1>5, <1>7, StoredIs DEF Committed, b

\* Somebody else changes statuses.
Disturbed ==
  /\ Unseen /\ view'.elsewhere /\ UNCHANGED call
  /\ server' \in [Candidates -> Row]
  /\ \A c \in Candidates : /\ server'[c].now.notes = server[c].now.notes
                            /\ server'[c].past \subseteq Versions(c)

LEMMA OthersFields ==
  ASSUME Parts, OthersChange
  PROVE  Disturbed
<1>1. PICK c \in Candidates, x \in Statuses :
        /\ server' = Changed(c, [server[c].now EXCEPT !.status = x])
        /\ view' = [view EXCEPT !.elsewhere = TRUE]
        /\ UNCHANGED <<load, call, misfiled>>
  BY DEF OthersChange
<1>2. view \in View /\ server \in [Candidates -> Row]
  BY DEF Parts
<1>3. Unseen /\ view'.elsewhere
  BY <1>1, <1>2 DEF Unseen, View, Place, Content
<1>4. PICK r : r = [server[c].now EXCEPT !.status = x]
  OBVIOUS
<1>5. r \in Record /\ r.notes = server[c].now.notes
  BY <1>2, <1>4 DEF Row, Record
<1>6. server' = Changed(c, r)
  BY <1>1, <1>4
<1>7. /\ server' \in [Candidates -> Row] /\ server'[c].now = r /\ server'[c].past \subseteq Versions(c)
      /\ \A d \in Candidates : d # c => server'[d] = server[d]
  BY <1>5, <1>6, ChangedIs
<1>8. \A d \in Candidates : /\ server'[d].now.notes = server[d].now.notes
                            /\ server'[d].past \subseteq Versions(d)
  BY <1>5, <1>7 DEF Versions
<1> QED
  BY <1>1, <1>3, <1>7, <1>8 DEF Disturbed

\* A load ends.
Ended(s) ==
  /\ UNCHANGED <<server, misfiled>>
  /\ load[s].pc # "free" /\ load' \in [LoadSlots -> Load] /\ load'[s] = NoLoad
  /\ \A t \in LoadSlots : t # s => load'[t] = load[t]
  /\ view' \in View /\ view'.at = view.at /\ view'.cand = view.cand /\ view'.modal = view.modal
  /\ view'.newest = view.newest /\ view'.elsewhere = view.elsewhere /\ (view'.typed => view.typed)

LEMMA EndedLoad ==
  ASSUME Parts, NEW s \in LoadSlots, load' = [load EXCEPT ![s] = NoLoad]
  PROVE  /\ load' \in [LoadSlots -> Load] /\ load'[s] = NoLoad
         /\ \A t \in LoadSlots : t # s => load'[t] = load[t]
  BY NoneIs DEF Parts

\* All that load s brought is on display.
Filled(v, s) ==
  /\ v \in View /\ v.at = view.at /\ v.cand = view.cand /\ v.modal = view.modal /\ v.busy = view.busy
  /\ v.newest = view.newest /\ v.elsewhere = view.elsewhere /\ (v.typed => view.typed)
  /\ v.shows["status"] = load[s].cand /\ v.shows["summary"] = load[s].cand
  /\ v.shows["detail"] = load[s].cand
  /\ \/ v.status = load[s].got.status
     \/ Visible /\ view.at = "page" /\ load[s].got.status = view.known.status /\ v.status = view.status
  /\ v.notes = load[s].got.notes \/ (Visible /\ view.at = "page" /\ v.notes = view.notes)
  /\ view.at = "page" => v.known = load[s].got

LEMMA FilledIs ==
  ASSUME Parts, NEW s \in LoadSlots
  PROVE  Filled(IF view.at = "page" THEN PageFilled(s) ELSE DrawerFilled(s), s)
<1>1. view \in View /\ load[s].cand \in Candidates \cup {Nobody} /\ load[s].got \in Record
  BY DEF Parts, Load
<1>2. /\ load[s].got.status \in Statuses /\ load[s].got.notes \in Notes
      /\ view.status \in Statuses /\ view.notes \in Notes /\ view.typed \in BOOLEAN
      /\ view.shows \in [{"status", "summary", "detail"} -> Candidates \cup {Nobody}]
  BY <1>1 DEF Record, View
<1> DEFINE all == [f \in DOMAIN view.shows |-> load[s].cand]
<1>3. /\ all \in [{"status", "summary", "detail"} -> Candidates \cup {Nobody}]
      /\ all["status"] = load[s].cand /\ all["summary"] = load[s].cand /\ all["detail"] = load[s].cand
  BY <1>1, <1>2
<1>4. CASE view.at = "page"
  <2> DEFINE x == IF Visible /\ load[s].got.status = view.known.status THEN view.status ELSE load[s].got.status
             n == IF Visible /\ load[s].got.notes = view.known.notes THEN view.notes ELSE load[s].got.notes
             b == IF Visible /\ load[s].got.notes = view.known.notes THEN view.typed ELSE FALSE
  <2>1. /\ x \in Statuses /\ n \in Notes /\ b \in BOOLEAN /\ (b => view.typed)
        /\ x = load[s].got.status \/ (Visible /\ load[s].got.status = view.known.status /\ x = view.status)
        /\ n = load[s].got.notes \/ (Visible /\ n = view.notes)
    BY <1>2
  <2>2. PageFilled(s) = [view EXCEPT !.shows = all, !.known = load[s].got, !.loading = FALSE,
                                     !.status = x, !.notes = n, !.typed = b]
    BY <1>1 DEF PageFilled, View
  <2> HIDE DEF x, n, b, all
  <2> DEFINE p == PageFilled(s)
  <2>3. /\ p \in View /\ p.at = view.at /\ p.cand = view.cand /\ p.modal = view.modal /\ p.busy = view.busy
        /\ p.newest = view.newest /\ p.elsewhere = view.elsewhere
    BY <1>1, <1>3, <2>1, <2>2 DEF View
  <2>4. p.typed = b /\ p.shows = all /\ p.status = x /\ p.notes = n /\ p.known = load[s].got
    BY <1>1, <2>2 DEF View
  <2> HIDE DEF p
  <2>5. Filled(p, s)
    BY <1>3, <1>4, <2>1, <2>3, <2>4 DEF Filled
  <2> QED
    BY <1>4, <2>5 DEF p
<1>5. CASE view.at # "page"
  <2>1. DrawerFilled(s) = [view EXCEPT !.shows = all, !.status = load[s].got.status,
                                       !.notes = load[s].got.notes, !.typed = FALSE]
    BY <1>1 DEF DrawerFilled, View
  <2> HIDE DEF all
  <2> DEFINE d == DrawerFilled(s)
  <2>2. /\ d \in View /\ d.at = view.at /\ d.cand = view.cand /\ d.modal = view.modal /\ d.busy = view.busy
        /\ d.newest = view.newest /\ d.elsewhere = view.elsewhere
    BY <1>1, <1>2, <1>3, <2>1 DEF View
  <2>3. ~d.typed /\ d.shows = all /\ d.status = load[s].got.status /\ d.notes = load[s].got.notes
    BY <1>1, <2>1 DEF View
  <2> HIDE DEF d
  <2>4. Filled(d, s)
    BY <1>3, <1>5, <2>2, <2>3 DEF Filled
  <2> QED
    BY <1>5, <2>4 DEF d
<1> QED
  BY <1>4, <1>5

Fetched(s) ==
  /\ Ended(s) /\ load[s].pc = "served" /\ UNCHANGED call
  /\ Filled(view', s)
  /\ view'.settled = Settles(s, "answer") /\ view'.clean = load[s].clean
  /\ view.at = "page" /\ Visible => view'.failed = view.failed
  /\ ~(view.at = "page" /\ Visible) => ~view'.failed

LEMMA AnswerFields ==
  ASSUME Parts, NEW s \in LoadSlots, Answer(s)
  PROVE  Fetched(s)
<1> DEFINE v == IF view.at = "page" THEN PageFilled(s) ELSE DrawerFilled(s)
           b == IF view.at = "page" /\ Visible THEN v.failed ELSE FALSE
<1>1. Filled(v, s)
  BY FilledIs
<1>2. /\ view' = [v EXCEPT !.settled = Settles(s, "answer"), !.clean = load[s].clean, !.failed = b]
      /\ load[s].pc = "served" /\ load' = [load EXCEPT ![s] = NoLoad]
      /\ UNCHANGED <<server, call, misfiled>>
  BY DEF Answer
<1>3. v.failed = view.failed /\ view \in View
  <2>1. view \in View
    BY DEF Parts
  <2>2. CASE view.at = "page"
    BY <2>1, <2>2 DEF PageFilled, View
  <2>3. CASE view.at # "page"
    BY <2>1, <2>3 DEF DrawerFilled, View
  <2> QED
    BY <2>1, <2>2, <2>3
<1>4. /\ b \in BOOLEAN /\ (view.at = "page" /\ Visible => b = view.failed)
      /\ (~(view.at = "page" /\ Visible) => ~b)
  BY <1>3 DEF View
<1>5. Settles(s, "answer") \in {"no", "answer"} /\ load[s].clean \in BOOLEAN
  BY DEF Settles, Parts, Load
<1>6. v \in View
  BY <1>1 DEF Filled
<1> HIDE DEF v, b
<1>7. /\ view' \in View /\ view'.settled = Settles(s, "answer") /\ view'.clean = load[s].clean /\ view'.failed = b
      /\ Place(view') = Place(v) /\ Content(view') = Content(v) /\ view'.busy = v.busy
      /\ view'.newest = v.newest /\ view'.elsewhere = v.elsewhere
  BY <1>2, <1>4, <1>5, <1>6 DEF View, Place, Content
<1>8. view'.at = v.at /\ view'.cand = v.cand /\ view'.modal = v.modal
  BY <1>7 DEF Place
<1>9. /\ view'.shows = v.shows /\ view'.status = v.status /\ view'.notes = v.notes
      /\ view'.typed = v.typed /\ view'.known = v.known
  BY <1>7 DEF Content
<1>10. Filled(view', s)
  BY <1>1, <1>7, <1>8, <1>9 DEF Filled
<1>11. Ended(s)
  BY <1>2, <1>10, EndedLoad DEF Ended, Filled
<1> QED
  BY <1>2, <1>4, <1>7, <1>10, <1>11 DEF Fetched

\* The drawer falls back to the row.
Fallen(s) ==
  /\ Ended(s) /\ view.at # "page" /\ UNCHANGED call
  /\ view'.busy = view.busy /\ view'.settled = Settles(s, "fallback")
  /\ view'.shows["status"] = load[s].cand /\ view'.shows["summary"] = load[s].cand
  /\ view'.notes \in {r.notes : r \in Versions(load[s].cand)}

\* The profile shows an error.
Errored(s) ==
  /\ Ended(s) /\ view.at = "page" /\ view'.error
  /\ view'.busy = view.busy \ CardKinds
  /\ view'.shows = view.shows /\ view'.status = view.status /\ view'.notes = view.notes
  /\ view'.known = view.known /\ Trust(view') = Trust(view)
  /\ call' = Unflagged

LEMMA LoadFailsFields ==
  ASSUME Parts, Targets, NEW s \in LoadSlots, LoadFails(s)
  PROVE  Fallen(s) \/ Errored(s)
<1>1. view \in View /\ load[s].pc # "free" /\ UNCHANGED <<server, misfiled>> /\ load[s].cand \in Candidates
  BY DEF Parts, LoadFails, Targets
<1>2. /\ load' \in [LoadSlots -> Load] /\ load'[s] = NoLoad
      /\ \A t \in LoadSlots : t # s => load'[t] = load[t]
  BY EndedLoad DEF LoadFails
<1>3. CASE view.at = "page"
  <2> DEFINE v == NoCards(view)
  <2>1. view' = [v EXCEPT !.error = TRUE, !.loading = FALSE] /\ call' = Unflagged
    BY <1>3 DEF LoadFails
  <2>2. /\ v \in View /\ Place(v) = Place(view) /\ Trust(v) = Trust(view) /\ v.busy = view.busy \ CardKinds
        /\ Content(v) = <<view.shows, view.status, view.notes, FALSE, view.known>>
    BY <1>1, NoCardsIs
  <2> HIDE DEF v
  <2>3. /\ view' \in View /\ view'.at = v.at /\ view'.cand = v.cand /\ view'.modal = v.modal /\ view'.error
        /\ Content(view') = Content(v) /\ Trust(view') = Trust(v) /\ view'.busy = v.busy
    BY <2>1, <2>2 DEF View, Content, Trust
  <2>4. v.at = view.at /\ v.cand = view.cand /\ v.modal = view.modal
    BY <2>2 DEF Place
  <2>5. /\ view'.shows = view.shows /\ view'.status = view.status /\ view'.notes = view.notes
        /\ ~view'.typed /\ view'.known = view.known
    BY <2>2, <2>3 DEF Content
  <2>6. view'.newest = view.newest /\ view'.elsewhere = view.elsewhere /\ Trust(view') = Trust(view)
    BY <2>2, <2>3 DEF Trust
  <2> QED
    BY <1>1, <1>2, <1>3, <2>1, <2>2, <2>3, <2>4, <2>5, <2>6 DEF Errored, Ended
<1>4. CASE view.at # "page"
  <2>1. PICK x \in Statuses, n \in {r.notes : r \in Versions(load[s].cand)} :
          view' = [view EXCEPT !.shows["status"] = load[s].cand,
                               !.shows["summary"] = load[s].cand, !.status = x,
                               !.notes = n, !.typed = FALSE,
                               !.settled = Settles(s, "fallback")]
    BY <1>4 DEF LoadFails
  <2>2. UNCHANGED call
    BY <1>4 DEF LoadFails
  <2>3. n \in Notes /\ Settles(s, "fallback") \in {"no", "fallback"}
    BY <1>1 DEF Parts, Row, Record, Settles, Versions
  <2>4. /\ view' \in View /\ view'.at = view.at /\ view'.cand = view.cand /\ view'.modal = view.modal
        /\ view'.newest = view.newest /\ view'.elsewhere = view.elsewhere /\ ~view'.typed
        /\ view'.busy = view.busy /\ view'.settled = Settles(s, "fallback") /\ view'.notes = n
    BY <1>1, <2>1, <2>3 DEF View
  <2>5. view'.shows["status"] = load[s].cand /\ view'.shows["summary"] = load[s].cand
    BY <1>1, <2>1 DEF View
  <2> QED
    BY <1>1, <1>2, <1>4, <2>2, <2>4, <2>5 DEF Fallen, Ended
<1> QED
  BY <1>3, <1>4

\* A mutation of kind m with value x is sent from slot k.
Sent(k, m, x) ==
  /\ UNCHANGED server
  /\ view.at # "list" /\ m \in Kinds /\ m \notin view.busy
  /\ view' \in View /\ Place(view') = Place(view) /\ Trust(view') = Trust(view)
  /\ view'.busy = view.busy \cup {m}
  /\ view'.shows = view.shows /\ view'.notes = view.notes /\ view'.known = view.known
  /\ view'.status = IF m = "status" THEN x.status ELSE view.status
  /\ view'.typed => view.typed /\ m # "notes"
  /\ view.typed /\ ~view'.typed => m = "notes"
  /\ call' \in [CallSlots -> Call] /\ call[k].pc = "free"
  /\ \A j \in CallSlots : j # k => call'[j] = call[j]
  /\ call'[k].pc = "sent" /\ call'[k].kind = m /\ call'[k].cand = view.cand /\ call'[k].arg = x
  /\ call'[k].flagged /\ ~call'[k].left
  /\ load' \in [LoadSlots -> Load]
  /\ \A s \in LoadSlots :
       /\ load'[s].pc = load[s].pc /\ load'[s].cand = load[s].cand /\ load'[s].got = load[s].got
       /\ load'[s].clean => load'[s].pc = "free"
  /\ m = "archive" => view.modal
  /\ m = "notes" => /\ x.notes.of = view.notes.of
                    /\ misfiled' = IF view.settled = "no" THEN misfiled \cup {view.cand} ELSE misfiled
  /\ m # "notes" => misfiled' = misfiled

\* What every send does, whatever it shows of its value at once.
Sending(k, m, x, v) ==
  /\ UNCHANGED server
  /\ view.at # "list" /\ m \notin view.busy
  /\ view' \in View /\ Place(view') = Place(v) /\ Content(view') = Content(v) /\ Trust(view') = Trust(v)
  /\ view'.busy = v.busy \cup {m}
  /\ call' \in [CallSlots -> Call] /\ call[k].pc = "free"
  /\ \A j \in CallSlots : j # k => call'[j] = call[j]
  /\ call'[k].pc = "sent" /\ call'[k].kind = m /\ call'[k].cand = view.cand /\ call'[k].arg = x
  /\ call'[k].flagged /\ ~call'[k].left
  /\ load' \in [LoadSlots -> Load]
  /\ \A s \in LoadSlots :
       /\ load'[s].pc = load[s].pc /\ load'[s].cand = load[s].cand /\ load'[s].got = load[s].got
       /\ load'[s].clean => load'[s].pc = "free"

LEMMA SendIs ==
  ASSUME Parts, NEW m \in Kinds, NEW x \in Record, NEW v \in View, Send(m, x, v)
  PROVE  \E k \in CallSlots : Sending(k, m, x, v)
<1>1. view \in View /\ call \in [CallSlots -> Call] /\ load \in [LoadSlots -> Load]
  BY DEF Parts
<1>2. PICK k \in CallSlots :
        /\ call[k].pc = "free"
        /\ call' = [call EXCEPT ![k] = [pc |-> "sent", kind |-> m, cand |-> view.cand,
                     arg |-> x, detail |-> view.shows["detail"], flagged |-> TRUE, left |-> FALSE]]
  BY DEF Send
<1>3. /\ view' = [v EXCEPT !.busy = @ \cup {m}] /\ m \notin view.busy /\ UNCHANGED server /\ Visible
      /\ load' = [s \in LoadSlots |-> [load[s] EXCEPT !.clean = @ /\ load[s].pc = "free"]]
  BY DEF Send
<1> DEFINE c == [pc |-> "sent", kind |-> m, cand |-> view.cand,
                 arg |-> x, detail |-> view.shows["detail"], flagged |-> TRUE, left |-> FALSE]
<1>4. /\ c \in Call /\ c.pc = "sent" /\ c.kind = m /\ c.cand = view.cand /\ c.arg = x
      /\ c.flagged /\ ~c.left
  BY <1>1 DEF Call, View
<1> HIDE DEF c
<1>5. call' = [call EXCEPT ![k] = c]
  BY <1>2 DEF c
<1>6. call' \in [CallSlots -> Call] /\ call'[k] = c /\ \A j \in CallSlots : j # k => call'[j] = call[j]
  BY <1>1, <1>4, <1>5
<1>7. ASSUME NEW s \in LoadSlots
      PROVE  /\ load'[s] \in Load
             /\ load'[s].pc = load[s].pc /\ load'[s].cand = load[s].cand /\ load'[s].got = load[s].got
             /\ load'[s].clean => load'[s].pc = "free"
  <2> DEFINE b == load[s].clean /\ load[s].pc = "free"
  <2>1. b \in BOOLEAN /\ (b => load[s].pc = "free") /\ load[s] \in Load
    BY <1>1
  <2>2. load'[s] = [load[s] EXCEPT !.clean = b]
    BY <1>3
  <2> HIDE DEF b
  <2> QED
    BY <2>1, <2>2 DEF Load
<1>8. load' \in [LoadSlots -> Load]
  BY <1>3, <1>7
<1>9. /\ view' \in View /\ Place(view') = Place(v) /\ Content(view') = Content(v) /\ Trust(view') = Trust(v)
      /\ view'.busy = v.busy \cup {m}
  BY <1>3 DEF View, Place, Content, Trust
<1>10. view.at # "list"
  BY <1>3 DEF Visible
<1>11. Sending(k, m, x, v)
  BY <1>2, <1>3, <1>4, <1>6, <1>7, <1>8, <1>9, <1>10 DEF Sending
<1> QED
  BY <1>11

LEMMA SendFields ==
  ASSUME Parts, Editing \/ Archiving, ~Type, ~OpenModal, ~CancelModal
  PROVE  \E k \in CallSlots, m \in Kinds, x \in Record : Sent(k, m, x)
<1>1. view \in View /\ view.status \in Statuses /\ view.notes \in Notes
  BY DEF Parts, View
<1>2. CASE SubmitScore \/ GenerateSummary \/ ConfirmArchive
  <2> DEFINE y == [Blank EXCEPT !.status = Archived]
  <2>1. y \in Record /\ Blank \in Record
    BY BlankIs DEF Record
  <2> HIDE DEF y
  <2>2. PICK m \in {"score", "summary", "archive"}, x \in Record :
          Send(m, x, view) /\ UNCHANGED misfiled /\ (m = "archive" => view.modal)
    BY <1>2, <2>1 DEF SubmitScore, GenerateSummary, ConfirmArchive, y
  <2>3. m \in Kinds
    BY DEF Kinds
  <2>4. PICK k \in CallSlots : Sending(k, m, x, view)
    BY <1>1, <2>2, <2>3, SendIs
  <2>5. /\ view'.shows = view.shows /\ view'.notes = view.notes /\ view'.known = view.known
        /\ view'.status = view.status /\ view'.typed = view.typed
    BY <2>4 DEF Sending, Content
  <2>6. Sent(k, m, x)
    BY <2>2, <2>3, <2>4, <2>5 DEF Sending, Sent
  <2> QED
    BY <2>3, <2>6
<1>3. CASE ChangeStatus
  <2>1. PICK x \in Statuses :
          /\ Send("status", [Blank EXCEPT !.status = x], [view EXCEPT !.status = x])
          /\ UNCHANGED misfiled
    BY <1>3 DEF ChangeStatus
  <2> DEFINE y == [Blank EXCEPT !.status = x]
             v == [view EXCEPT !.status = x]
  <2>2. y \in Record /\ y.status = x
    BY BlankIs DEF Record
  <2>3. /\ v \in View /\ Place(v) = Place(view) /\ Trust(v) = Trust(view) /\ v.busy = view.busy
        /\ Content(v) = <<view.shows, x, view.notes, view.typed, view.known>>
    BY <1>1 DEF View, Place, Trust, Content
  <2> HIDE DEF y, v
  <2>4. "status" \in Kinds
    BY DEF Kinds
  <2>5. PICK k \in CallSlots : Sending(k, "status", y, v)
    BY <2>1, <2>2, <2>3, <2>4, SendIs DEF y, v
  <2>6. /\ view'.shows = view.shows /\ view'.notes = view.notes /\ view'.known = view.known
        /\ view'.status = x /\ view'.typed = view.typed
    BY <2>3, <2>5 DEF Sending, Content
  <2>7. Sent(k, "status", y)
    BY <2>1, <2>2, <2>3, <2>4, <2>5, <2>6 DEF Sending, Sent
  <2> QED
    BY <2>2, <2>4, <2>7
<1>4. CASE SaveNotes
  <2> DEFINE n == [of |-> view.notes.of, n |-> sends + 1]
             y == [Blank EXCEPT !.notes = n]
             v == [view EXCEPT !.typed = FALSE]
  <2>1. /\ Send("notes", y, v) /\ sends < MaxSends
        /\ misfiled' = IF view.settled = "no" THEN misfiled \cup {view.cand} ELSE misfiled
    BY <1>4 DEF SaveNotes, Send
  <2>2. n \in Notes /\ n.of = view.notes.of
    BY <1>1, <2>1 DEF Notes, Parts
  <2> HIDE DEF n
  <2>3. y \in Record /\ y.notes = n
    BY <2>2, BlankIs DEF Record
  <2>4. /\ v \in View /\ Place(v) = Place(view) /\ Trust(v) = Trust(view) /\ v.busy = view.busy
        /\ Content(v) = <<view.shows, view.status, view.notes, FALSE, view.known>>
    BY <1>1 DEF View, Place, Trust, Content
  <2> HIDE DEF y, v
  <2>5. "notes" \in Kinds
    BY DEF Kinds
  <2>6. PICK k \in CallSlots : Sending(k, "notes", y, v)
    BY <2>1, <2>3, <2>4, <2>5, SendIs
  <2>7. /\ view'.shows = view.shows /\ view'.notes = view.notes /\ view'.known = view.known
        /\ view'.status = view.status /\ ~view'.typed
    BY <2>4, <2>6 DEF Sending, Content
  <2>8. Sent(k, "notes", y)
    BY <2>1, <2>2, <2>3, <2>4, <2>5, <2>6, <2>7 DEF Sending, Sent
  <2> QED
    BY <2>3, <2>5, <2>8
<1> QED
  BY <1>2, <1>3, <1>4 DEF Editing, Archiving

\* What the view v takes over from mutation k when it returns or fails.
Brought(v, k) ==
  /\ v \in View /\ Place(v) = Place(view)
  /\ v.newest = view.newest /\ v.clean = view.clean /\ v.elsewhere = view.elsewhere
  /\ v.settled = view.settled \/ v.settled = "no"
  /\ view.failed => v.failed
  /\ \A f \in {"status", "summary", "detail"} :
       \/ v.shows[f] = view.shows[f]
       \/ view.at # "page" /\ (v.shows[f] = view.cand \/ v.settled = "no")
  /\ \/ v.notes = view.notes
     \/ view.at = "page" /\ call[k].kind = "notes" /\ v.notes = call[k].arg.notes
  /\ v.failed \/ call[k].kind # "status" \/ call[k].pc = "done"
  /\ \/ v.failed
     \/ /\ v.status = view.status /\ v.known.status = view.known.status /\ call[k].kind # "archive"
        /\ call[k].kind = "status" => view.at # "page"
     \/ /\ view.at = "page" /\ call[k].kind = "status" /\ v.known.status = call[k].arg.status
        /\ \/ v.status = call[k].arg.status
           \/ call[k].arg.status = view.known.status /\ v.status = view.status
  /\ v.typed => view.typed \/ (call[k].kind = "notes" /\ call[k].flagged)
  /\ view.typed /\ ~v.typed => call[k].pc = "done" /\ call[k].kind = "notes"

Returned(k) ==
  /\ UNCHANGED <<server, load, misfiled>>
  /\ Going(k) /\ call' = Freed(k)
  /\ Brought(view', k)
  /\ view'.busy = IF call[k].flagged THEN view.busy \ {call[k].kind} ELSE view.busy

LEMMA ReturnedIs ==
  ASSUME Parts, NEW k \in CallSlots, Going(k), NEW v \in View, Brought(v, k), v.busy = view.busy,
         view' = Idle(v, k), call' = Freed(k), UNCHANGED <<server, load, misfiled>>
  PROVE  Returned(k)
<1>1. /\ view' \in View /\ Place(view') = Place(v) /\ Content(view') = Content(v) /\ Trust(view') = Trust(v)
      /\ view'.busy = IF call[k].flagged THEN view.busy \ {call[k].kind} ELSE view.busy
  BY IdleIs
<1>2. /\ view'.shows = v.shows /\ view'.status = v.status /\ view'.notes = v.notes
      /\ view'.typed = v.typed /\ view'.known = v.known
  BY <1>1 DEF Content
<1>3. /\ view'.newest = v.newest /\ view'.settled = v.settled /\ view'.clean = v.clean
      /\ view'.failed = v.failed /\ view'.elsewhere = v.elsewhere
  BY <1>1 DEF Trust
<1>4. Brought(view', k)
  BY <1>1, <1>2, <1>3 DEF Brought
<1> QED
  BY <1>1, <1>4 DEF Returned

LEMMA DrawerBrings ==
  ASSUME Parts, Targets, NEW k \in CallSlots, DrawerReturns(k)
  PROVE  Returned(k)
<1>1. view \in View /\ call[k] \in Call /\ call[k].pc = "done" /\ view.at # "page" /\ Going(k)
  BY DEF Parts, DrawerReturns, Targets, Going
<1>2. call[k].kind # "archive"
  BY <1>1 DEF Targets
<1> DEFINE v == CASE call[k].kind = "score" /\ call[k].detail # Nobody ->
                       Holding([view EXCEPT !.shows["detail"] = call[k].detail], call[k].detail)
                  [] call[k].kind = "summary" ->
                       Holding([view EXCEPT !.shows["summary"] = call[k].cand], call[k].cand)
                  [] OTHER -> view
<1>3. view' = Idle(v, k) /\ call' = Freed(k) /\ UNCHANGED <<server, load, misfiled>>
  BY DEF DrawerReturns
<1>4. ASSUME NEW f \in {"detail", "summary"}, NEW d \in Candidates \cup {Nobody},
             v = Holding([view EXCEPT !.shows[f] = d], d)
      PROVE  Brought(v, k) /\ v.busy = view.busy
  <2> DEFINE w == [view EXCEPT !.shows[f] = d]
  <2>1. /\ w \in View /\ Place(w) = Place(view) /\ w.busy = view.busy /\ Trust(w) = Trust(view)
        /\ w.cand = view.cand /\ w.settled = view.settled
    BY <1>1 DEF View, Place, Trust
  <2>2. w.status = view.status /\ w.notes = view.notes /\ w.typed = view.typed /\ w.known = view.known
    BY <1>1 DEF View
  <2>3. \A g \in {"status", "summary", "detail"} : w.shows[g] = IF g = f THEN d ELSE view.shows[g]
    BY <1>1 DEF View
  <2> HIDE DEF w
  <2> DEFINE h == Holding(w, d)
  <2>4. /\ h \in View /\ Place(h) = Place(w) /\ Content(h) = Content(w) /\ h.busy = w.busy
        /\ Trust(h) = <<w.newest, IF d = w.cand THEN w.settled ELSE "no", w.clean, w.failed, w.elsewhere>>
    BY <2>1, HoldingIs
  <2>5. v = h
    BY <1>4 DEF w
  <2> HIDE DEF v, h
  <2>6. /\ h.shows = w.shows /\ h.status = w.status /\ h.notes = w.notes /\ h.typed = w.typed
        /\ h.known = w.known
    BY <2>4 DEF Content
  <2>7. /\ h.newest = w.newest /\ h.clean = w.clean /\ h.failed = w.failed /\ h.elsewhere = w.elsewhere
        /\ h.settled = IF d = w.cand THEN w.settled ELSE "no"
    BY <2>4 DEF Trust
  <2>8. w.newest = view.newest /\ w.clean = view.clean /\ w.failed = view.failed /\ w.elsewhere = view.elsewhere
    BY <2>1 DEF Trust
  <2>9. Brought(h, k)
    BY <1>1, <1>2, <2>1, <2>2, <2>3, <2>4, <2>6, <2>7, <2>8 DEF Brought
  <2> QED
    BY <2>1, <2>4, <2>5, <2>9
<1>5. Brought(v, k) /\ v.busy = view.busy
  <2>1. CASE call[k].kind = "score" /\ call[k].detail # Nobody
    <3>1. v = Holding([view EXCEPT !.shows["detail"] = call[k].detail], call[k].detail)
      BY <2>1
    <3>2. call[k].detail \in Candidates \cup {Nobody}
      BY <1>1 DEF Call
    <3> HIDE DEF v
    <3> QED
      BY <1>4, <3>1, <3>2
  <2>2. CASE call[k].kind = "summary"
    <3>1. v = Holding([view EXCEPT !.shows["summary"] = call[k].cand], call[k].cand)
      BY <2>2
    <3>2. call[k].cand \in Candidates \cup {Nobody}
      BY <1>1 DEF Call
    <3> HIDE DEF v
    <3> QED
      BY <1>4, <3>1, <3>2
  <2>3. CASE ~(call[k].kind = "score" /\ call[k].detail # Nobody) /\ call[k].kind # "summary"
    <3>1. v = view
      BY <2>3
    <3> HIDE DEF v
    <3> QED
      BY <1>1, <1>2, <3>1 DEF Brought
  <2> QED
    BY <2>1, <2>2, <2>3
<1>6. v \in View
  BY <1>5 DEF Brought
<1> HIDE DEF v
<1> QED
  BY <1>1, <1>3, <1>5, <1>6, ReturnedIs

LEMMA PageBrings ==
  ASSUME Parts, Targets, NEW k \in CallSlots, StatusReturns(k) \/ NotesReturn(k) \/ SummaryReturns(k)
  PROVE  Returned(k)
<1>1. view \in View /\ call[k] \in Call /\ call[k].pc = "done" /\ view.at = "page" /\ Going(k)
      /\ call' = Freed(k) /\ UNCHANGED <<server, load, misfiled>>
  BY DEF Parts, StatusReturns, NotesReturn, SummaryReturns, Targets, Going
<1>2. call[k].arg.status \in Statuses /\ call[k].arg.notes \in Notes /\ view.known \in Record
  BY <1>1 DEF Call, Record, View
<1>3. CASE StatusReturns(k)
  <2> DEFINE x == call[k].arg.status
             y == IF x = view.known.status THEN view.status ELSE x
             v == [view EXCEPT !.known.status = x, !.status = y]
  <2>1. /\ y \in Statuses /\ (y = x \/ (x = view.known.status /\ y = view.status))
    BY <1>1, <1>2 DEF View
  <2>2. view' = Idle(v, k) /\ call[k].kind = "status"
    BY <1>3 DEF StatusReturns
  <2> HIDE DEF y
  <2>3. /\ v \in View /\ Place(v) = Place(view) /\ Trust(v) = Trust(view) /\ v.busy = view.busy
        /\ v.shows = view.shows /\ v.notes = view.notes /\ v.typed = view.typed
    BY <1>1, <1>2, <2>1 DEF View, Record, Place, Trust
  <2>4. v.known.status = x /\ v.status = y
    BY <1>1, <1>2, <2>1 DEF View, Record
  <2> HIDE DEF v
  <2>5. Brought(v, k)
    BY <1>1, <2>1, <2>2, <2>3, <2>4 DEF Brought, Trust
  <2> QED
    BY <1>1, <2>2, <2>3, <2>5, ReturnedIs
<1>4. CASE NotesReturn(k)
  <2> DEFINE x == call[k].arg.notes
             n == IF x = view.known.notes THEN view.notes ELSE x
             b == IF x = view.known.notes THEN view.typed ELSE FALSE
             v == [view EXCEPT !.known.notes = x, !.notes = n, !.typed = b]
  <2>1. /\ n \in Notes /\ (n = x \/ n = view.notes) /\ b \in BOOLEAN /\ (b => view.typed)
    BY <1>1, <1>2 DEF View
  <2>2. view' = Idle(v, k) /\ call[k].kind = "notes"
    BY <1>4 DEF NotesReturn
  <2> HIDE DEF n, b
  <2>3. /\ v \in View /\ Place(v) = Place(view) /\ Trust(v) = Trust(view) /\ v.busy = view.busy
        /\ v.shows = view.shows /\ v.status = view.status
    BY <1>1, <1>2, <2>1 DEF View, Record, Place, Trust
  <2>4. v.known.status = view.known.status /\ v.notes = n /\ v.typed = b
    BY <1>1, <1>2, <2>1 DEF View, Record
  <2> HIDE DEF v
  <2>5. Brought(v, k)
    BY <1>1, <2>1, <2>2, <2>3, <2>4 DEF Brought, Trust
  <2> QED
    BY <1>1, <2>2, <2>3, <2>5, ReturnedIs
<1>5. CASE SummaryReturns(k)
  <2>1. view' = Idle(view, k) /\ call[k].kind = "summary"
    BY <1>5 DEF SummaryReturns
  <2>2. Brought(view, k)
    BY <1>1, <2>1 DEF Brought
  <2> QED
    BY <1>1, <2>1, <2>2, ReturnedIs
<1> QED
  BY <1>3, <1>4, <1>5

LEMMA FailBrings ==
  ASSUME Parts, Targets, NEW k \in CallSlots, Fail(k)
  PROVE  Returned(k)
<1>1. view \in View /\ call[k] \in Call /\ Going(k) /\ call' = Freed(k) /\ UNCHANGED <<server, load, misfiled>>
  BY DEF Parts, Fail, Going
<1>2. PICK row \in Statuses : view' = Idle(Failed(k, row), k)
  BY DEF Fail
<1>3. call[k].kind = "archive" => view.at = "page"
  BY <1>1 DEF Targets
<1> DEFINE v == Failed(k, row)
<1>4. Brought(v, k) /\ v.busy = view.busy
  <2>1. CASE call[k].kind = "notes"
    <3> DEFINE b == view.typed \/ call[k].flagged
    <3>1. b \in BOOLEAN /\ v = [view EXCEPT !.typed = b]
      BY <1>1, <2>1 DEF Failed, View
    <3>2. (view.typed => b) /\ (b => view.typed \/ call[k].flagged)
      OBVIOUS
    <3> HIDE DEF v, b
    <3>3. /\ v \in View /\ Place(v) = Place(view) /\ Trust(v) = Trust(view) /\ v.busy = view.busy
          /\ v.shows = view.shows /\ v.status = view.status /\ v.known = view.known
          /\ v.notes = view.notes /\ v.typed = b
      BY <1>1, <3>1 DEF View, Place, Trust
    <3> QED
      BY <1>1, <2>1, <3>2, <3>3 DEF Brought, Trust
  <2>2. CASE call[k].kind = "status" /\ view.at # "page"
    <3> DEFINE d == call[k].cand
               w == [view EXCEPT !.failed = TRUE, !.status = row, !.shows["status"] = d]
               h == Holding(w, d)
    <3>1. v = h /\ d \in Candidates \cup {Nobody}
      BY <1>1, <2>2 DEF Failed, Call
    <3>2. /\ w \in View /\ Place(w) = Place(view) /\ w.busy = view.busy
          /\ w.cand = view.cand /\ w.settled = view.settled
      BY <1>1, <3>1 DEF View, Place
    <3>3. /\ w.notes = view.notes /\ w.typed = view.typed /\ w.failed
          /\ w.newest = view.newest /\ w.clean = view.clean /\ w.elsewhere = view.elsewhere
      BY <1>1 DEF View
    <3>4. \A g \in {"status", "summary", "detail"} : w.shows[g] = IF g = "status" THEN d ELSE view.shows[g]
      BY <1>1 DEF View
    <3> HIDE DEF w, v, d
    <3>5. /\ h \in View /\ Place(h) = Place(w) /\ Content(h) = Content(w) /\ h.busy = w.busy
          /\ Trust(h) = <<w.newest, IF d = w.cand THEN w.settled ELSE "no", w.clean, w.failed, w.elsewhere>>
      BY <3>2, HoldingIs
    <3> HIDE DEF h
    <3>6. h.shows = w.shows /\ h.notes = w.notes /\ h.typed = w.typed
      BY <3>5 DEF Content
    <3>7. /\ h.newest = w.newest /\ h.clean = w.clean /\ h.failed /\ h.elsewhere = w.elsewhere
          /\ h.settled = IF d = w.cand THEN w.settled ELSE "no"
      BY <3>3, <3>5 DEF Trust
    <3> QED
      BY <1>1, <2>2, <3>1, <3>2, <3>3, <3>4, <3>5, <3>6, <3>7 DEF Brought
  <2>3. CASE call[k].kind \in {"status", "archive"} /\ view.at = "page"
    <3>1. v = [view EXCEPT !.failed = TRUE]
      BY <2>3 DEF Failed
    <3> HIDE DEF v
    <3>2. /\ v \in View /\ Place(v) = Place(view) /\ v.busy = view.busy /\ v.failed
          /\ v.newest = view.newest /\ v.settled = view.settled /\ v.clean = view.clean
          /\ v.elsewhere = view.elsewhere /\ Content(v) = Content(view)
      BY <1>1, <3>1 DEF View, Place, Content
    <3>3. v.shows = view.shows /\ v.notes = view.notes /\ v.typed = view.typed
      BY <3>2 DEF Content
    <3> QED
      BY <1>1, <2>3, <3>2, <3>3 DEF Brought
  <2>4. CASE call[k].kind \notin {"status", "archive", "notes"}
    <3>1. v = view
      BY <2>4 DEF Failed
    <3> HIDE DEF v
    <3> QED
      BY <1>1, <2>4, <3>1 DEF Brought
  <2> QED
    BY <1>3, <2>1, <2>2, <2>3, <2>4
<1>5. v \in View
  BY <1>4 DEF Brought
<1> HIDE DEF v
<1> QED
  BY <1>1, <1>2, <1>4, <1>5, ReturnedIs DEF v

\* A score returns to the profile, which is loaded again.
Rescored(k, s) ==
  /\ UNCHANGED <<server, misfiled>>
  /\ view.at = "page" /\ call[k].kind = "score" /\ load[s].pc = "free"
  /\ view' \in View /\ view'.at = view.at /\ view'.cand = view.cand /\ view'.modal = view.modal
  /\ view'.shows = view.shows /\ view'.status = view.status /\ view'.notes = view.notes
  /\ view'.known = view.known /\ ~view'.typed
  /\ view'.busy = view.busy \ CardKinds
  /\ view'.newest = s /\ view'.settled = "no" /\ view'.failed = view.failed
  /\ load' \in [LoadSlots -> Load] /\ load'[s].pc = "asked" /\ load'[s].cand = view.cand
  /\ load'[s].clean => \A j \in CallSlots : j # k => ~Going(j)
  /\ \A t \in LoadSlots : t # s => load'[t] = load[t]
  /\ call' \in [CallSlots -> Call] /\ call'[k] = NoCall
  /\ \A j \in CallSlots : j # k => call'[j] = Unflagged[j]

LEMMA ScoreFields ==
  ASSUME Parts, NEW k \in CallSlots, ScoreReturns(k)
  PROVE  \E s \in LoadSlots : Rescored(k, s)
<1>1. PICK s \in LoadSlots :
  /\ call[k].pc = "done" /\ view.at = "page" /\ call[k].kind = "score"
  /\ load[s].pc = "free"
  /\ view' = [NoCards(Asking(Idle(view, k), s)) EXCEPT !.loading = TRUE]
  /\ load' = [load EXCEPT ![s] = [pc |-> "asked", cand |-> view.cand, got |-> Blank,
                clean |-> \A j \in CallSlots \ {k} : call[j].pc = "free" \/ call[j].left]]
  /\ call' = [Unflagged EXCEPT ![k] = NoCall]
  /\ UNCHANGED <<server, misfiled>>
  BY DEF ScoreReturns
<1>2. view \in View /\ load \in [LoadSlots -> Load]
  BY DEF Parts
<1> DEFINE b == \A j \in CallSlots \ {k} : call[j].pc = "free" \/ call[j].left
           l == [pc |-> "asked", cand |-> view.cand, got |-> Blank, clean |-> b]
<1>3. b \in BOOLEAN /\ (b => \A j \in CallSlots : j # k => ~Going(j))
  BY DEF Going
<1> HIDE DEF b
<1>4. l \in Load /\ l.pc = "asked" /\ l.cand = view.cand /\ l.clean = b
  BY <1>2, <1>3, BlankIs DEF Load, View
<1> HIDE DEF l
<1>5. load' = [load EXCEPT ![s] = l]
  BY <1>1 DEF l, b
<1>6. /\ load' \in [LoadSlots -> Load] /\ load'[s] = l
      /\ \A t \in LoadSlots : t # s => load'[t] = load[t]
  BY <1>2, <1>4, <1>5
<1>7. /\ call' \in [CallSlots -> Call] /\ call'[k] = NoCall
      /\ \A j \in CallSlots : j # k => call'[j] = Unflagged[j]
  BY <1>1, UnflaggedIs, NoneIs
<1> DEFINE u == Idle(view, k)
           v == Asking(u, s)
           w == NoCards(v)
<1>8. /\ u \in View /\ Place(u) = Place(view) /\ Content(u) = Content(view) /\ Trust(u) = Trust(view)
      /\ u.busy \ CardKinds = view.busy \ CardKinds
  BY <1>1, <1>2, IdleIs DEF CardKinds
<1> HIDE DEF u
<1>9. /\ v \in View /\ Place(v) = Place(u) /\ Content(v) = Content(u) /\ v.busy = u.busy
      /\ Trust(v) = <<s, "no", u.clean, u.failed, FALSE>>
  BY <1>8, AskingIs
<1> HIDE DEF v
<1>10. /\ w \in View /\ Place(w) = Place(v) /\ Trust(w) = Trust(v)
       /\ Content(w) = <<v.shows, v.status, v.notes, FALSE, v.known>> /\ w.busy = v.busy \ CardKinds
  BY <1>9, NoCardsIs
<1> HIDE DEF w
<1>11. view' = [w EXCEPT !.loading = TRUE]
  BY <1>1 DEF u, v, w
<1>12. /\ view' \in View /\ view'.at = w.at /\ view'.cand = w.cand /\ view'.modal = w.modal
       /\ view'.busy = w.busy /\ Content(view') = Content(w) /\ Trust(view') = Trust(w)
  BY <1>10, <1>11 DEF View, Content, Trust
<1>13. view'.at = view.at /\ view'.cand = view.cand /\ view'.modal = view.modal
  BY <1>8, <1>9, <1>10, <1>12 DEF Place
<1>14. view'.newest = s /\ view'.settled = "no" /\ view'.failed = u.failed
  BY <1>9, <1>10, <1>12 DEF Trust
<1>15. u.failed = view.failed
  BY <1>8 DEF Trust
<1>16. /\ view'.shows = v.shows /\ view'.status = v.status /\ view'.notes = v.notes
       /\ view'.known = v.known /\ ~view'.typed
  BY <1>10, <1>12 DEF Content
<1>17. /\ v.shows = view.shows /\ v.status = view.status /\ v.notes = view.notes /\ v.known = view.known
  BY <1>8, <1>9 DEF Content
<1>18. Rescored(k, s)
  BY <1>1, <1>3, <1>4, <1>6, <1>7, <1>8, <1>9, <1>10, <1>12, <1>13, <1>14, <1>15, <1>16, <1>17 DEF Rescored
<1> QED
  BY <1>18

\* A mutation whose view has gone is lost.
Forgotten(k) ==
  /\ UNCHANGED <<server, view, load, misfiled>>
  /\ call[k].left /\ call' = Freed(k)

LEMMA FailUnseenFields ==
  ASSUME NEW k \in CallSlots, FailUnseen(k)
  PROVE  Forgotten(k)
  BY DEF FailUnseen, Forgotten

\* The DELETE of a profile left before returns while the list is on display.
LEMMA UnheardFields ==
  ASSUME Targets, NEW k \in CallSlots, ArchiveReturnsToList(k)
  PROVE  Forgotten(k)
  BY DEF ArchiveReturnsToList, Forgotten, Targets, Going

-----------------------------------------------------------------------------
(* Every step keeps the invariant: one lemma per shape. *)

\* What a step has to keep besides the types.
Kept == OwnOnly /\ Targets /\ Flags /\ Drafts /\ Filed /\ Shown /\ Current /\ Clicked /\ Truth

LEMMA MinorKeeps ==
  ASSUME Parts, Kept, Minor
  PROVE  Kept'
<1>1. /\ view'.newest = view.newest /\ view'.settled = view.settled /\ view'.clean = view.clean
      /\ view'.failed = view.failed /\ view'.elsewhere = view.elsewhere
  BY DEF Minor, Trust
<1>2. OwnOnly' /\ Targets'
  BY <1>1 DEF Kept, Minor, OwnOnly, Targets, Going
<1>3. Flags' /\ Drafts'
  BY DEF Kept, Minor, Flags, Flagged, Drafts
<1>4. Filed'
  BY DEF Kept, Minor, Filed, NotesReachTheirOwner, Good
<1>5. Shown'
  BY <1>1 DEF Kept, Minor, Shown, Good
<1>6. Current' /\ Clicked'
  BY <1>1 DEF Kept, Minor, Current, Clicked, Going
<1>7. Truth'
  BY <1>1 DEF Kept, Minor, Truth, Calm, Changing, Stores, Going
<1> QED
  BY <1>2, <1>3, <1>4, <1>5, <1>6, <1>7 DEF Kept

LEMMA PickedKeeps ==
  ASSUME Parts, Kept, NEW c \in Candidates, NEW s \in LoadSlots, Picked(c, s)
  PROVE  Kept'
<1>1. view'.typed = view.typed
  BY DEF Picked, Content
<1>2. OwnOnly' /\ Targets'
  BY DEF Kept, Picked, OwnOnly, Targets, Going
<1>3. Flags' /\ Drafts'
  BY <1>1 DEF Kept, Picked, Flags, Flagged, Drafts
<1>4. Filed'
  BY DEF Kept, Picked, Filed, NotesReachTheirOwner, Good
<1>5. Shown' /\ Current' /\ Clicked' /\ Truth'
  BY DEF Kept, Picked, Shown, Current, Clicked, Truth, Calm, Going
<1> QED
  BY <1>2, <1>3, <1>4, <1>5 DEF Kept

LEMMA UnmountedKeeps ==
  ASSUME Parts, Kept, Unmounted
  PROVE  Kept'
<1>1. \A k \in CallSlots : ~Going(k)' /\ ~(call'[k].flagged /\ ~call'[k].left)
  BY NoneIs DEF Unmounted, Going
<1>2. OwnOnly'
  BY <1>1 DEF Unmounted, OwnOnly, Going
<1>3. Targets'
  BY <1>1, NoneIs DEF Kept, Unmounted, Targets
<1>4. Flags' /\ Drafts'
  BY <1>1 DEF Unmounted, Flags, Flagged, Drafts
<1>5. Filed'
  BY NoneIs DEF Kept, Unmounted, Filed, NotesReachTheirOwner, Good
<1>6. Shown' /\ Current' /\ Clicked' /\ Truth'
  BY <1>1 DEF Unmounted, Shown, Current, Clicked, Truth, Calm
<1> QED
  BY <1>2, <1>3, <1>4, <1>5, <1>6 DEF Kept

LEMMA ServedKeeps ==
  ASSUME Parts, Kept, NEW s \in LoadSlots, Served(s)
  PROVE  Kept'
<1>1. \A t \in LoadSlots : /\ load'[t].cand = load[t].cand /\ (load'[t].clean => load[t].clean)
                           /\ load'[t].pc = "free" <=> load[t].pc = "free"
  BY DEF Served
<1>2. OwnOnly' /\ Targets'
  BY <1>1 DEF Kept, Served, OwnOnly, Targets, Going
<1>3. Flags' /\ Drafts'
  BY DEF Kept, Served, Flags, Flagged, Drafts
<1>4. Filed'
  BY DEF Kept, Served, Filed, NotesReachTheirOwner, Good, Targets, Versions
<1>5. Shown' /\ Clicked' /\ Truth'
  BY DEF Kept, Served, Shown, Good, Clicked, Truth, Calm, Changing, Stores, Going
<1>6. Current'
  BY <1>1 DEF Kept, Served, Current, Going
<1> QED
  BY <1>2, <1>3, <1>4, <1>5, <1>6 DEF Kept

\* A change of the server alone leaves the view as it was.
LEMMA UnseenIs ==
  ASSUME Unseen
  PROVE  /\ view'.at = view.at /\ view'.cand = view.cand /\ view'.error = view.error /\ view'.modal = view.modal
         /\ view'.shows = view.shows /\ view'.status = view.status /\ view'.notes = view.notes
         /\ view'.typed = view.typed /\ view'.known = view.known /\ view'.busy = view.busy
         /\ view'.newest = view.newest /\ view'.settled = view.settled /\ view'.clean = view.clean
         /\ view'.failed = view.failed /\ UNCHANGED <<load, misfiled>>
<1>1. view'.at = view.at /\ view'.cand = view.cand /\ view'.error = view.error /\ view'.modal = view.modal
  BY DEF Unseen, Place
<1>2. /\ view'.shows = view.shows /\ view'.status = view.status /\ view'.notes = view.notes
      /\ view'.typed = view.typed /\ view'.known = view.known
  BY DEF Unseen, Content
<1> QED
  BY <1>1, <1>2 DEF Unseen

LEMMA CommittedKeeps ==
  ASSUME Parts, Kept, NEW k \in CallSlots, Committed(k)
  PROVE  Kept'
<1> DEFINE d == call[k].cand
<1>1. d \in Candidates /\ call[k].pc = "sent" /\ Unseen
  BY DEF Kept, Committed, Targets
<1>2. ASSUME NEW j \in CallSlots
      PROVE  /\ Going(j)' <=> Going(j)
             /\ Going(j) => /\ call'[j].kind = call[j].kind /\ call'[j].cand = call[j].cand
                            /\ call'[j].arg = call[j].arg /\ call'[j].flagged = call[j].flagged
             /\ \A m \in Kinds : Flagged(j, m)' <=> Flagged(j, m)
             /\ call'[j].pc = "free" \/ (call[j].pc # "free" /\ call'[j].cand = call[j].cand
                                          /\ call'[j].kind = call[j].kind /\ call'[j].arg = call[j].arg
                                          /\ call'[j].left = call[j].left)
             /\ call'[j].pc = "done" /\ call'[j].left => call'[j].kind = "archive"
  <2>1. call[j] \in Call /\ call'[j] \in Call /\ call[j].left \in BOOLEAN /\ call'[j].left \in BOOLEAN
    BY DEF Parts, Committed, Call
  <2>2. CASE j # k
    BY <2>1, <2>2 DEF Kept, Committed, Going, Flagged, Targets
  <2>3. CASE j = k /\ call[k].left /\ call'[k] = NoCall
    BY <2>1, <2>3, NoneIs DEF Committed, Going, Flagged
  <2>4. CASE j = k /\ ~(call[k].left /\ call'[k] = NoCall)
    <3>1. /\ call'[j].kind = call[j].kind /\ call'[j].cand = call[j].cand /\ call'[j].arg = call[j].arg
          /\ call'[j].flagged = call[j].flagged /\ call'[j].pc = "done" /\ call[j].pc = "sent"
          /\ call'[j].left = call[j].left /\ (call[j].left => call[j].kind = "archive")
      BY <2>4 DEF Committed
    <3> QED
      BY <2>1, <3>1 DEF Going, Flagged
  <2> QED
    BY <2>2, <2>3, <2>4
<1>3. OwnOnly'
  BY <1>1, <1>2, UnseenIs DEF Kept, OwnOnly
<1>4. Targets'
  BY <1>1, <1>2, UnseenIs DEF Kept, Targets
<1>5. Flags' /\ Drafts'
  <2>1. ASSUME NEW j \in CallSlots, NEW m \in Kinds, Flagged(j, m)'
        PROVE  m \in view'.busy /\ call'[j].pc # "free"
    BY <1>1, <1>2, <2>1, NoneIs, UnseenIs DEF Kept, Flags, Committed, Flagged
  <2> QED
    BY <1>1, <1>2, <2>1, UnseenIs DEF Kept, Flags, Drafts
<1>6. Filed'
  <2>1. NotesReachTheirOwner'
    BY <1>1, UnseenIs DEF Kept, Filed, NotesReachTheirOwner, Committed, Writes, Good
  <2>2. \A c \in Candidates : \A r \in server'[c].past : Good(c, r.notes)'
    BY <1>1, UnseenIs DEF Kept, Filed, NotesReachTheirOwner, Committed, Writes, Good, Versions
  <2>3. \A s \in LoadSlots : load'[s].pc = "served" => Good(load[s].cand, load[s].got.notes)'
    BY <1>1, UnseenIs DEF Kept, Filed, Good
  <2>4. \A j \in CallSlots : call'[j].pc # "free" /\ call'[j].kind = "notes" => Good(call[j].cand, call[j].arg.notes)'
    BY <1>1, <1>2, UnseenIs DEF Kept, Filed, Good
  <2> QED
    BY <2>1, <2>2, <2>3, <2>4, UnseenIs, <1>1 DEF Filed, Good
<1>7. Shown'
  BY <1>1, UnseenIs DEF Kept, Shown, Good
<1>8. Current'
  BY <1>1, UnseenIs DEF Kept, Committed, Current, Going
<1>9. Clicked'
  BY <1>1, <1>2, UnseenIs DEF Kept, Clicked
<1>10. Truth'
  <2> SUFFICES ASSUME Calm'
               PROVE  /\ (\A j \in CallSlots : ~Changing(j)') => view'.status = server'[view'.cand].now.status
                      /\ \A j \in CallSlots : Stores(j)'
    BY DEF Truth
  <2>1. Calm /\ Going(k) /\ view.cand \in Candidates
    BY <1>1, UnseenIs DEF Kept, Committed, Calm, Going, Targets
  <2>2. ASSUME \A j \in CallSlots : ~Changing(j)'
        PROVE  view'.status = server'[view'.cand].now.status
    BY <1>1, <1>2, <2>1, <2>2, UnseenIs DEF Kept, Truth, Changing, Committed, Writes
  <2>3. ASSUME NEW j \in CallSlots, Going(j)', call'[j].kind = "status"
        PROVE  /\ call'[j].flagged /\ call'[j].cand = view'.cand /\ call'[j].arg.status = view'.status
               /\ call'[j].pc = "done" /\ (\A i \in CallSlots : Going(i)' => call'[i].kind # "archive") =>
                    server'[view'.cand].now.status = view'.status
    <3>1. /\ call[j].flagged /\ call[j].cand = view.cand /\ call[j].arg.status = view.status
          /\ Going(j) /\ call[j].kind = "status"
      BY <1>2, <2>1, <2>3 DEF Kept, Truth, Stores
    <3>2. ASSUME call'[j].pc = "done", \A i \in CallSlots : Going(i)' => call'[i].kind # "archive"
          PROVE  server'[view'.cand].now.status = view'.status
      <4>1. \A i \in CallSlots : Going(i) => call[i].kind # "archive"
        BY <1>2, <3>2
      <4>2. CASE j = k
        BY <1>1, <2>1, <3>1, <4>2, UnseenIs DEF Committed, Writes
      <4>3. CASE j # k
        <5>1. call[j].pc = "done"
          BY <3>2, <4>3 DEF Committed
        <5>2. server[view.cand].now.status = view.status
          BY <2>1, <3>1, <4>1, <5>1 DEF Kept, Truth, Stores
        <5>3. call[k].kind # "status"
          <6> SUFFICES ASSUME call[k].kind = "status" PROVE FALSE
            OBVIOUS
          <6>1. Flagged(j, "status") /\ Flagged(k, "status") /\ "status" \in Kinds
            BY <2>1, <3>1 DEF Kept, Truth, Stores, Flagged, Going, Kinds
          <6> QED
            BY <4>3, <6>1 DEF Kept, Flags
        <5>4. call[k].kind # "archive"
          BY <2>1, <4>1
        <5> QED
          BY <1>1, <2>1, <5>2, <5>3, <5>4, UnseenIs DEF Committed, Writes
      <4> QED
        BY <4>2, <4>3
    <3> QED
      BY <1>1, <1>2, <3>1, <3>2, UnseenIs
  <2> QED
    BY <2>2, <2>3 DEF Stores
<1> QED
  BY <1>3, <1>4, <1>5, <1>6, <1>7, <1>8, <1>9, <1>10 DEF Kept

LEMMA DisturbedKeeps ==
  ASSUME Parts, Kept, Disturbed
  PROVE  Kept'
<1>1. Unseen /\ UNCHANGED call /\ view'.elsewhere
  BY DEF Disturbed
<1>2. OwnOnly' /\ Targets'
  BY <1>1, UnseenIs DEF Kept, OwnOnly, Targets, Going
<1>3. Flags' /\ Drafts'
  BY <1>1, UnseenIs DEF Kept, Flags, Flagged, Drafts
<1>4. Filed'
  BY <1>1, UnseenIs DEF Kept, Disturbed, Filed, NotesReachTheirOwner, Good, Versions
<1>5. Shown' /\ Current' /\ Clicked' /\ Truth'
  BY <1>1, UnseenIs DEF Kept, Shown, Good, Current, Clicked, Truth, Calm, Going
<1> QED
  BY <1>2, <1>3, <1>4, <1>5 DEF Kept

LEMMA FetchedKeeps ==
  ASSUME Parts, Kept, NEW s \in LoadSlots, Fetched(s)
  PROVE  Kept'
<1>1. /\ Ended(s) /\ UNCHANGED call /\ load[s].pc = "served" /\ Filled(view', s)
      /\ view'.settled = Settles(s, "answer") /\ view'.clean = load[s].clean
  BY DEF Fetched
<1>2. /\ view'.at = view.at /\ view'.cand = view.cand /\ view'.modal = view.modal
      /\ view'.newest = view.newest /\ view'.elsewhere = view.elsewhere
      /\ view'.busy = view.busy /\ (view'.typed => view.typed)
      /\ UNCHANGED <<server, misfiled>>
      /\ load'[s].pc = "free" /\ \A t \in LoadSlots : t # s => load'[t] = load[t]
  BY <1>1, NoneIs DEF Ended, Filled
<1>3. load[s].cand \in Candidates /\ (view.newest = s \/ view.at = "page" => load[s].cand = view.cand)
  BY <1>1 DEF Kept, Targets, OwnOnly
<1>4. OwnOnly' /\ Targets'
  BY <1>1, <1>2 DEF Kept, OwnOnly, Targets, Going
<1>5. Flags' /\ Drafts'
  BY <1>1, <1>2 DEF Kept, Flags, Flagged, Drafts
<1>6. Filed'
  BY <1>1, <1>2 DEF Kept, Filed, NotesReachTheirOwner, Good
<1>7. Shown'
  <2>1. Good(load[s].cand, load[s].got.notes)
    BY <1>1 DEF Kept, Filed
  <2>2. view.newest = s \/ view.at = "page" => Good(view.cand, view'.notes)
    BY <1>1, <1>3, <2>1 DEF Filled, Kept, Shown, Visible
  <2> QED
    BY <1>1, <1>2, <1>3, <2>2 DEF Shown, Good, Filled, Settles
<1>8. Current'
  BY <1>1, <1>2 DEF Kept, Current, Going
<1>9. Clicked'
  BY <1>1, <1>2 DEF Kept, Clicked, Fetched, Filled, Going
<1>10. Truth'
  <2> SUFFICES ASSUME Calm'
               PROVE  /\ view'.status = server'[view'.cand].now.status
                      /\ \A j \in CallSlots : ~Going(j)'
    BY DEF Truth, Stores
  <2>1. view.newest = s /\ load[s].clean /\ ~view.elsewhere /\ ~view'.failed
    BY <1>1, <1>2 DEF Calm, Settles
  <2>2. (\A j \in CallSlots : ~Going(j)) /\ load[s].got.status = server[view.cand].now.status
    BY <1>1, <1>3, <2>1 DEF Kept, Current
  <2>3. view'.status = load[s].got.status
    <3> SUFFICES ASSUME Visible, view.at = "page", load[s].got.status = view.known.status,
                        view'.status = view.status
                 PROVE  view'.status = load[s].got.status
      BY <1>1 DEF Filled
    <3>1. ~view.failed
      BY <2>1 DEF Fetched
    <3> QED
      BY <2>2, <3>1 DEF Kept, Clicked
  <2> QED
    BY <1>1, <1>2, <2>2, <2>3 DEF Going
<1> QED
  BY <1>4, <1>5, <1>6, <1>7, <1>8, <1>9, <1>10 DEF Kept

LEMMA FallenKeeps ==
  ASSUME Parts, Kept, NEW s \in LoadSlots, Fallen(s)
  PROVE  Kept'
<1>1. /\ view'.at = view.at /\ view'.cand = view.cand /\ view'.modal = view.modal /\ view.at # "page"
      /\ view'.newest = view.newest /\ view'.elsewhere = view.elsewhere
      /\ view'.busy = view.busy /\ (view'.typed => view.typed)
      /\ UNCHANGED <<server, misfiled, call>> /\ load[s].pc # "free"
      /\ load'[s].pc = "free" /\ \A t \in LoadSlots : t # s => load'[t] = load[t]
      /\ view'.settled = Settles(s, "fallback")
  BY NoneIs DEF Ended, Fallen
<1>2. load[s].cand \in Candidates /\ (view.newest = s => load[s].cand = view.cand)
  BY <1>1 DEF Kept, Targets
<1>3. OwnOnly' /\ Targets'
  BY <1>1 DEF Kept, OwnOnly, Targets, Going
<1>4. Flags' /\ Drafts'
  BY <1>1 DEF Kept, Flags, Flagged, Drafts
<1>5. Filed'
  BY <1>1 DEF Kept, Filed, NotesReachTheirOwner, Good
<1>6. Shown'
  <2>1. Good(load[s].cand, view'.notes)
    BY <1>2 DEF Kept, Filed, NotesReachTheirOwner, Good, Fallen, Versions
  <2> QED
    BY <1>1, <1>2, <2>1 DEF Shown, Good, Settles, Fallen
<1>7. Current' /\ Clicked' /\ Truth'
  BY <1>1 DEF Kept, Current, Clicked, Truth, Calm, Settles, Going
<1> QED
  BY <1>3, <1>4, <1>5, <1>6, <1>7 DEF Kept

LEMMA ErroredKeeps ==
  ASSUME Parts, Kept, NEW s \in LoadSlots, Errored(s)
  PROVE  Kept'
<1>1. /\ view'.at = view.at /\ view'.cand = view.cand /\ view'.modal = view.modal /\ view'.error
      /\ view'.busy = view.busy \ CardKinds /\ (view'.typed => view.typed)
      /\ view'.shows = view.shows /\ view'.status = view.status /\ view'.notes = view.notes
      /\ view'.known = view.known /\ view.at = "page"
      /\ UNCHANGED <<server, misfiled>>
      /\ load'[s].pc = "free" /\ \A t \in LoadSlots : t # s => load'[t] = load[t]
  BY NoneIs DEF Ended, Errored
<1>2. /\ view'.newest = view.newest /\ view'.settled = view.settled /\ view'.clean = view.clean
      /\ view'.failed = view.failed /\ view'.elsewhere = view.elsewhere
  BY DEF Errored, Trust
<1>3. \A j \in CallSlots :
        /\ call'[j].pc = call[j].pc /\ call'[j].kind = call[j].kind /\ call'[j].cand = call[j].cand
        /\ call'[j].arg = call[j].arg /\ call'[j].left = call[j].left
        /\ Going(j)' <=> Going(j)
        /\ \A m \in Kinds : Flagged(j, m)' <=> Flagged(j, m) /\ m \notin CardKinds
  BY UnflaggedIs DEF Errored, Going, Flagged
<1>4. OwnOnly' /\ Targets'
  BY <1>1, <1>2, <1>3 DEF Kept, OwnOnly, Targets
<1>5. Flags' /\ Drafts'
  BY <1>1, <1>3 DEF Kept, Flags, Drafts
<1>6. Filed'
  BY <1>1, <1>3 DEF Kept, Filed, NotesReachTheirOwner, Good
<1>7. Shown'
  BY <1>1, <1>2 DEF Kept, Shown, Good
<1>8. Current' /\ Clicked' /\ Truth'
  BY <1>1, <1>2, <1>3 DEF Kept, Current, Clicked, Truth, Calm
<1> QED
  BY <1>4, <1>5, <1>6, <1>7, <1>8 DEF Kept

LEMMA SentKeeps ==
  ASSUME Parts, Kept, NEW k \in CallSlots, NEW m \in Kinds, NEW x \in Record, Sent(k, m, x)
  PROVE  Kept'
<1>1. /\ view'.at = view.at /\ view'.cand = view.cand /\ view'.error = view.error /\ view'.modal = view.modal
  BY DEF Sent, Place
<1>2. /\ view'.newest = view.newest /\ view'.settled = view.settled /\ view'.clean = view.clean
      /\ view'.failed = view.failed /\ view'.elsewhere = view.elsewhere
  BY DEF Sent, Trust
<1>3. /\ view.at # "list" /\ m \notin view.busy /\ view'.busy = view.busy \cup {m} /\ server' = server
      /\ view'.shows = view.shows /\ view'.notes = view.notes /\ view'.known = view.known
      /\ view'.status = IF m = "status" THEN x.status ELSE view.status
      /\ misfiled \subseteq misfiled' /\ view.cand \in Candidates
  BY DEF Sent, Kept, Targets
<1>4. /\ call[k].pc = "free" /\ call'[k].pc = "sent" /\ call'[k].kind = m /\ call'[k].cand = view.cand
      /\ call'[k].arg = x /\ call'[k].flagged /\ ~call'[k].left
      /\ \A j \in CallSlots : j # k => call'[j] = call[j]
  BY DEF Sent
<1>5. \A s \in LoadSlots :
        /\ load'[s].pc = load[s].pc /\ load'[s].cand = load[s].cand /\ load'[s].got = load[s].got
        /\ load'[s].clean => load'[s].pc = "free"
  BY DEF Sent
<1>6. ~Going(k) /\ Going(k)' /\ \A j \in CallSlots : j # k => (Going(j)' <=> Going(j))
  BY <1>4 DEF Going
<1>7. OwnOnly'
  BY <1>1, <1>4, <1>5 DEF Kept, OwnOnly
<1>8. Targets'
  <2>1. m = "archive" => view.at = "page"
    BY DEF Sent, Kept, Targets
  <2> QED
    BY <1>1, <1>2, <1>3, <1>4, <1>5, <1>6, <2>1 DEF Kept, Targets
<1>9. Flags'
  <2>1. \A j \in CallSlots : ~Flagged(j, m)
    BY <1>3 DEF Kept, Flags
  <2>2. Flagged(k, m)' /\ \A n \in Kinds : n # m => ~Flagged(k, n)'
    BY <1>4 DEF Flagged
  <2>3. \A j \in CallSlots, n \in Kinds : j # k => (Flagged(j, n)' <=> Flagged(j, n))
    BY <1>4 DEF Flagged
  <2>4. \A n \in Kinds : ~Flagged(k, n)
    BY <1>4 DEF Kept, Flags
  <2> QED
    BY <1>3, <1>4, <2>1, <2>2, <2>3, <2>4 DEF Kept, Flags
<1>10. Drafts'
  BY <1>3 DEF Sent, Kept, Drafts
<1>11. Filed'
  <2>1. m = "notes" => Good(view.cand, x.notes)'
    BY <1>1, <1>2, <1>3 DEF Sent, Kept, Shown, Good
  <2>2. NotesReachTheirOwner'
    BY <1>3 DEF Kept, Filed, NotesReachTheirOwner
  <2>3. \A s \in LoadSlots : load'[s].pc = "served" => Good(load[s].cand, load[s].got.notes)'
    BY <1>3, <1>5 DEF Kept, Filed, Good
  <2>4. \A c \in Candidates : \A r \in server'[c].past : Good(c, r.notes)'
    BY <1>3 DEF Kept, Filed, Good
  <2>5. \A j \in CallSlots : call'[j].pc # "free" /\ call'[j].kind = "notes" => Good(call[j].cand, call[j].arg.notes)'
    <3>1. ASSUME NEW j \in CallSlots, call'[j].pc # "free", call'[j].kind = "notes"
          PROVE  Good(call[j].cand, call[j].arg.notes)'
      <4>1. CASE j = k
        BY <1>1, <1>4, <2>1, <3>1, <4>1 DEF Good
      <4>2. CASE j # k
        BY <1>3, <1>4, <3>1, <4>2 DEF Kept, Filed, Good
      <4> QED
        BY <4>1, <4>2
    <3> QED
      BY <3>1
  <2> QED
    BY <2>2, <2>3, <2>4, <2>5 DEF Filed, Good
<1>12. Shown'
  BY <1>1, <1>2, <1>3 DEF Kept, Shown, Good
<1>13. Current'
  BY <1>5 DEF Current
<1>14. Clicked'
  <2>1. CASE m = "status"
    BY <1>3, <1>4, <1>6, <2>1 DEF Clicked
  <2>2. CASE m # "status"
    BY <1>1, <1>2, <1>3, <1>4, <1>6, <2>2 DEF Kept, Clicked
  <2> QED
    BY <2>1, <2>2
<1>15. Truth'
  <2> SUFFICES ASSUME Calm'
               PROVE  /\ (\A j \in CallSlots : ~Changing(j)') => view'.status = server'[view'.cand].now.status
                      /\ \A j \in CallSlots : Stores(j)'
    BY DEF Truth
  <2>1. Calm
    BY <1>1, <1>2 DEF Calm
  <2>2. ASSUME \A j \in CallSlots : ~Changing(j)'
        PROVE  view'.status = server'[view'.cand].now.status
    <3>1. m \notin {"status", "archive"}
      BY <1>4, <1>6, <2>2 DEF Changing
    <3>2. \A j \in CallSlots : ~Changing(j)
      BY <1>4, <1>6, <2>2 DEF Changing
    <3> QED
      BY <1>1, <1>3, <2>1, <3>1, <3>2 DEF Kept, Truth
  <2>3. ASSUME NEW j \in CallSlots, Going(j)', call'[j].kind = "status"
        PROVE  /\ call'[j].flagged /\ call'[j].cand = view'.cand /\ call'[j].arg.status = view'.status
               /\ call'[j].pc = "done" /\ (\A i \in CallSlots : Going(i)' => call'[i].kind # "archive") =>
                    server'[view'.cand].now.status = view'.status
    <3>1. CASE j = k
      BY <1>1, <1>3, <1>4, <2>3, <3>1
    <3>2. CASE j # k
      <4>1. Going(j) /\ call[j].kind = "status" /\ call'[j] = call[j]
        BY <1>4, <1>6, <2>3, <3>2
      <4>2. /\ call[j].flagged /\ call[j].cand = view.cand /\ call[j].arg.status = view.status
            /\ call[j].pc = "done" /\ (\A i \in CallSlots : Going(i) => call[i].kind # "archive") =>
                    server[view.cand].now.status = view.status
        BY <2>1, <4>1 DEF Kept, Truth, Stores
      <4>3. "status" \in view.busy /\ m # "status"
        BY <1>3, <4>1, <4>2 DEF Kept, Flags, Flagged, Going, Kinds
      <4>4. ASSUME \A i \in CallSlots : Going(i)' => call'[i].kind # "archive"
            PROVE  \A i \in CallSlots : Going(i) => call[i].kind # "archive"
        BY <1>4, <1>6, <4>4
      <4> QED
        BY <1>1, <1>3, <4>1, <4>2, <4>3, <4>4
    <3> QED
      BY <3>1, <3>2
  <2> QED
    BY <2>2, <2>3 DEF Stores
<1> QED
  BY <1>7, <1>8, <1>9, <1>10, <1>11, <1>12, <1>13, <1>14, <1>15 DEF Kept

LEMMA ReturnedKeeps ==
  ASSUME Parts, Kept, NEW k \in CallSlots, Returned(k)
  PROVE  Kept'
<1>1. /\ Going(k) /\ Brought(view', k) /\ UNCHANGED <<server, load, misfiled>>
      /\ view'.busy = IF call[k].flagged THEN view.busy \ {call[k].kind} ELSE view.busy
      /\ call'[k] = NoCall /\ \A j \in CallSlots : j # k => call'[j] = call[j]
  BY FreedIs DEF Returned
<1>2. /\ view'.at = view.at /\ view'.cand = view.cand /\ view'.error = view.error /\ view'.modal = view.modal
  BY <1>1 DEF Brought, Place
<1>3. /\ view'.newest = view.newest /\ view'.clean = view.clean /\ view'.elsewhere = view.elsewhere
      /\ view'.settled = view.settled \/ view'.settled = "no"
      /\ view.failed => view'.failed
  BY <1>1 DEF Brought
<1>4. ~Going(k)' /\ \A j \in CallSlots : j # k => (Going(j)' <=> Going(j))
  BY <1>1, NoneIs DEF Going
<1>5. OwnOnly'
  BY <1>1, <1>2, NoneIs DEF Kept, OwnOnly
<1>6. Targets'
  BY <1>1, <1>2, <1>3, <1>4, NoneIs DEF Kept, Targets
<1>7. Flags' /\ Drafts'
  <2>1. \A m \in Kinds : ~Flagged(k, m)'
    BY <1>1, NoneIs DEF Flagged
  <2>2. \A j \in CallSlots, m \in Kinds : j # k => (Flagged(j, m)' <=> Flagged(j, m))
    BY <1>1 DEF Flagged
  <2>3. ~call[k].left /\ call[k].kind \in Kinds
    BY <1>1 DEF Going, Parts, Call
  <2>4. \A m \in Kinds : Flagged(k, m) <=> call[k].flagged /\ m = call[k].kind
    BY <2>3 DEF Flagged
  <2>5. \A m \in Kinds : m \in view'.busy <=> m \in view.busy /\ ~Flagged(k, m)
    BY <1>1, <2>4
  <2>6. Flags'
    <3>1. ASSUME NEW j \in CallSlots, NEW m \in Kinds, Flagged(j, m)'
          PROVE  m \in view'.busy /\ call'[j].pc # "free"
      BY <1>1, <2>1, <2>2, <2>5, <3>1 DEF Kept, Flags
    <3>2. ASSUME NEW m \in Kinds, m \in view'.busy
          PROVE  \E j \in CallSlots : Flagged(j, m)'
      BY <2>2, <2>5, <3>2 DEF Kept, Flags
    <3>3. \A i, j \in CallSlots, m \in Kinds : Flagged(i, m)' /\ Flagged(j, m)' => i = j
      BY <2>1, <2>2 DEF Kept, Flags
    <3> QED
      BY <3>1, <3>2, <3>3 DEF Flags
  <2>7. Drafts'
    <3>1. "notes" \in Kinds
      BY DEF Kinds
    <3> QED
      BY <1>1, <2>4, <2>5, <3>1 DEF Kept, Drafts, Brought
  <2> QED
    BY <2>6, <2>7
<1>8. Filed'
  BY <1>1, NoneIs DEF Kept, Filed, NotesReachTheirOwner, Good
<1>9. Shown'
  <2>1. view'.notes = view.notes \/ Good(view.cand, view'.notes)
    BY <1>1 DEF Brought, Kept, Filed, OwnOnly, Going
  <2>2. ASSUME view.at # "list", view'.settled # "no"
        PROVE  /\ view'.shows["status"] = view.cand /\ view'.shows["summary"] = view.cand
               /\ view'.settled = "answer" => view'.shows["detail"] = view.cand
               /\ Good(view.cand, view'.notes)
    BY <1>1, <1>3, <2>1, <2>2 DEF Brought, Kept, Shown
  <2>3. ASSUME view.at = "page", view'.shows["detail"] # Nobody
        PROVE  Good(view.cand, view'.notes)
    BY <1>1, <2>1, <2>3 DEF Brought, Kept, Shown
  <2> QED
    BY <1>1, <1>2, <2>2, <2>3 DEF Shown, Good
<1>10. Current'
  BY <1>1, <1>2, <1>3 DEF Kept, Current
<1>11. Clicked'
  <2> SUFFICES ASSUME view.at = "page", ~view'.failed
               PROVE  \/ view'.status = view'.known.status
                      \/ \E j \in CallSlots : Going(j)' /\ call'[j].kind = "status" /\ call'[j].arg.status = view'.status
    BY <1>2 DEF Clicked
  <2>1. \/ view.status = view.known.status
        \/ \E j \in CallSlots : Going(j) /\ call[j].kind = "status" /\ call[j].arg.status = view.status
    BY <1>3 DEF Kept, Clicked
  <2>2. CASE call[k].kind # "status"
    <3>1. view'.status = view.status /\ view'.known.status = view.known.status
      BY <1>1, <2>2 DEF Brought
    <3> QED
      BY <1>1, <1>4, <2>1, <2>2, <3>1
  <2>3. CASE call[k].kind = "status"
    <3>1. /\ view'.known.status = call[k].arg.status
          /\ \/ view'.status = call[k].arg.status
             \/ call[k].arg.status = view.known.status /\ view'.status = view.status
      BY <1>1, <2>3 DEF Brought
    <3> QED
      BY <1>1, <1>4, <2>1, <2>3, <3>1
  <2> QED
    BY <2>2, <2>3
<1>12. Truth'
  <2> SUFFICES ASSUME Calm'
               PROVE  /\ (\A j \in CallSlots : ~Changing(j)') => view'.status = server[view.cand].now.status
                      /\ \A j \in CallSlots : Stores(j)'
    BY <1>1, <1>2 DEF Truth
  <2>1. Calm /\ ~view'.failed
    BY <1>2, <1>3 DEF Calm
  <2>2. /\ (\A j \in CallSlots : ~Changing(j)) => view.status = server[view.cand].now.status
        /\ \A j \in CallSlots : Stores(j)
    BY <2>1 DEF Kept, Truth
  <2>3. call[k].kind # "archive"
    BY <1>1, <2>1 DEF Brought
  <2>4. CASE call[k].kind = "status"
    <3>1. /\ call[k].flagged /\ call[k].arg.status = view.status /\ call[k].pc = "done"
          /\ (\A i \in CallSlots : Going(i) => call[i].kind # "archive") =>
               server[view.cand].now.status = view.status
      BY <1>1, <2>1, <2>2, <2>4 DEF Stores, Brought
    <3>2. view'.status = view.status
      BY <1>1, <2>1, <2>4, <3>1 DEF Brought
    <3>3. ASSUME NEW j \in CallSlots, j # k, Going(j), call[j].kind = "status"
          PROVE  FALSE
      <4>1. Flagged(j, "status") /\ Flagged(k, "status") /\ "status" \in Kinds
        BY <1>1, <2>2, <2>4, <3>1, <3>3 DEF Stores, Flagged, Going, Kinds
      <4> QED
        BY <3>3, <4>1 DEF Kept, Flags
    <3>4. \A j \in CallSlots : Stores(j)'
      BY <1>1, <1>4, <3>3 DEF Stores
    <3>5. ASSUME \A j \in CallSlots : ~Changing(j)'
          PROVE  view'.status = server[view.cand].now.status
      <4>1. \A i \in CallSlots : Going(i) => call[i].kind # "archive"
        BY <1>1, <1>4, <2>4, <3>5 DEF Changing
      <4> QED
        BY <3>1, <3>2, <4>1
    <3> QED
      BY <3>4, <3>5
  <2>5. CASE call[k].kind # "status"
    <3>1. view'.status = view.status
      BY <1>1, <2>1, <2>5 DEF Brought
    <3>2. \A j \in CallSlots : Changing(j)' <=> Changing(j)
      BY <1>1, <1>4, <2>3, <2>5 DEF Changing
    <3>3. ASSUME NEW j \in CallSlots
          PROVE  Stores(j)'
      <4>1. (\A i \in CallSlots : Going(i)' => call'[i].kind # "archive") =>
              (\A i \in CallSlots : Going(i) => call[i].kind # "archive")
        BY <1>1, <1>4, <2>3
      <4> QED
        BY <1>1, <1>2, <1>4, <2>2, <3>1, <4>1 DEF Stores
    <3> QED
      BY <2>2, <3>1, <3>2, <3>3
  <2> QED
    BY <2>4, <2>5
<1> QED
  BY <1>5, <1>6, <1>7, <1>8, <1>9, <1>10, <1>11, <1>12 DEF Kept

LEMMA RescoredKeeps ==
  ASSUME Parts, Kept, NEW k \in CallSlots, NEW s \in LoadSlots, Rescored(k, s)
  PROVE  Kept'
<1>1. /\ view.at = "page" /\ view'.at = "page" /\ view'.cand = view.cand /\ view'.modal = view.modal
      /\ view'.shows = view.shows /\ view'.status = view.status /\ view'.notes = view.notes
      /\ view'.known = view.known /\ ~view'.typed /\ view'.busy = view.busy \ CardKinds
      /\ view'.newest = s /\ view'.settled = "no" /\ view'.failed = view.failed
      /\ UNCHANGED <<server, misfiled>> /\ call[k].kind = "score" /\ view.cand \in Candidates
  BY DEF Rescored, Kept, Targets
<1>2. \A j \in CallSlots :
        \/ j = k /\ call'[j] = NoCall
        \/ /\ j # k /\ call'[j].pc = call[j].pc /\ call'[j].kind = call[j].kind /\ call'[j].cand = call[j].cand
           /\ call'[j].arg = call[j].arg /\ call'[j].left = call[j].left
           /\ call'[j].flagged <=> call[j].flagged /\ call[j].kind \notin CardKinds
  BY UnflaggedIs DEF Rescored
<1>3. ~Going(k)' /\ \A j \in CallSlots : j # k => (Going(j)' <=> Going(j))
  BY <1>2, NoneIs DEF Going
<1>4. /\ load'[s].pc = "asked" /\ load'[s].cand = view.cand /\ load[s].pc = "free"
      /\ load'[s].clean => \A j \in CallSlots : j # k => ~Going(j)
      /\ \A t \in LoadSlots : t # s => load'[t] = load[t]
  BY DEF Rescored
<1>5. OwnOnly' /\ Targets'
  BY <1>1, <1>2, <1>3, <1>4, NoneIs DEF Kept, OwnOnly, Targets
<1>6. Flags' /\ Drafts'
  <2>1. \A j \in CallSlots, m \in Kinds : Flagged(j, m)' <=> Flagged(j, m) /\ m \notin CardKinds
    <3>1. "score" \in CardKinds
      BY DEF CardKinds
    <3> QED
      BY <1>1, <1>2, <3>1, NoneIs DEF Flagged
  <2>2. \A j \in CallSlots, m \in Kinds : Flagged(j, m)' => call'[j].pc # "free"
    BY <1>2, <2>1, NoneIs DEF Kept, Flags, Flagged
  <2> QED
    BY <1>1, <2>1, <2>2 DEF Kept, Flags, Drafts
<1>7. Filed'
  BY <1>1, <1>2, <1>4, NoneIs DEF Kept, Filed, NotesReachTheirOwner, Good
<1>8. Shown'
  BY <1>1 DEF Kept, Shown, Good
<1>9. Current'
  BY <1>1, <1>3, <1>4 DEF Current
<1>10. Clicked'
  BY <1>1, <1>2, <1>3 DEF Kept, Clicked
<1>11. Truth'
  BY <1>1 DEF Truth, Calm
<1> QED
  BY <1>5, <1>6, <1>7, <1>8, <1>9, <1>10, <1>11 DEF Kept

LEMMA ForgottenKeeps ==
  ASSUME Parts, Kept, NEW k \in CallSlots, Forgotten(k)
  PROVE  Kept'
<1>1. /\ UNCHANGED <<server, view, load, misfiled>>
      /\ call[k].left /\ call'[k] = NoCall /\ \A j \in CallSlots : j # k => call'[j] = call[j]
  BY FreedIs DEF Forgotten
<1>2. \A j \in CallSlots : /\ Going(j)' <=> Going(j)
                           /\ Going(j) => call'[j] = call[j]
                           /\ \A m \in Kinds : Flagged(j, m)' <=> Flagged(j, m)
  BY <1>1, NoneIs DEF Going, Flagged
<1>3. OwnOnly' /\ Targets'
  BY <1>1, <1>2, NoneIs DEF Kept, OwnOnly, Targets
<1>4. Flags' /\ Drafts'
  <2>1. \A j \in CallSlots, m \in Kinds : Flagged(j, m)' => call'[j].pc # "free"
    BY <1>1, NoneIs DEF Kept, Flags, Flagged
  <2> QED
    BY <1>1, <1>2, <2>1 DEF Kept, Flags, Drafts
<1>5. Filed'
  BY <1>1, NoneIs DEF Kept, Filed, NotesReachTheirOwner, Good
<1>6. Shown' /\ Current' /\ Clicked'
  BY <1>1, <1>2 DEF Kept, Shown, Good, Current, Clicked
<1>7. Truth'
  BY <1>1, <1>2 DEF Kept, Truth, Calm, Changing, Stores
<1> QED
  BY <1>3, <1>4, <1>5, <1>6, <1>7 DEF Kept

-----------------------------------------------------------------------------
(* The inductive step. *)

Typed ==
  /\ server \in [Candidates -> Row]
  /\ view \in View
  /\ load \in [LoadSlots -> Load]
  /\ call \in [CallSlots -> Call]
  /\ misfiled \subseteq Candidates

\* Every step has one of the shapes.
OfLoad(s) == Served(s) \/ Fetched(s) \/ Fallen(s) \/ Errored(s)
OfCall(k) == Committed(k) \/ Returned(k) \/ Forgotten(k) \/ (\E s \in LoadSlots : Rescored(k, s))
               \/ (\E m \in Kinds, x \in Record : Sent(k, m, x))
Shaped ==
  \/ Minor \/ Unmounted \/ Disturbed
  \/ \E c \in Candidates, s \in LoadSlots : Picked(c, s)
  \/ \E s \in LoadSlots : OfLoad(s)
  \/ \E k \in CallSlots : OfCall(k)

LEMMA NextShaped ==
  ASSUME Parts, Targets, Next
  PROVE  Shaped
<1>1. CASE Moving
  <2>1. CASE Select
    BY <2>1, SelectFields DEF Shaped
  <2>2. CASE CloseDrawer
    BY <2>2, MinorFields DEF Shaped
  <2>3. CASE OpenPage \/ Back
    BY <2>3, UnmountedFields DEF Shaped
  <2> QED
    BY <1>1, <2>1, <2>2, <2>3 DEF Moving
<1>2. CASE Type \/ OpenModal \/ CancelModal
  BY <1>2, MinorFields DEF Shaped
<1>3. CASE (Editing \/ Archiving) /\ ~Type /\ ~OpenModal /\ ~CancelModal
  <2>1. PICK k \in CallSlots, m \in Kinds, x \in Record : Sent(k, m, x)
    BY <1>3, SendFields
  <2> QED
    BY <2>1 DEF Shaped, OfCall
<1>4. CASE OthersChange
  BY <1>4, OthersFields DEF Shaped
<1>5. ASSUME NEW s \in LoadSlots, Serve(s) \/ Answer(s) \/ LoadFails(s)
      PROVE  OfLoad(s)
  BY <1>5, ServeFields, AnswerFields, LoadFailsFields DEF OfLoad
<1>6. ASSUME NEW k \in CallSlots, Commit(k) \/ Return(k) \/ Fail(k) \/ FailUnseen(k)
      PROVE  OfCall(k) \/ Unmounted
  <2>1. CASE Commit(k)
    BY <2>1, CommitFields DEF OfCall
  <2>2. CASE Return(k)
    <3>1. CASE DrawerReturns(k)
      BY <3>1, DrawerBrings DEF OfCall
    <3>2. CASE StatusReturns(k) \/ NotesReturn(k) \/ SummaryReturns(k)
      BY <3>2, PageBrings DEF OfCall
    <3>3. CASE ScoreReturns(k)
      BY <3>3, ScoreFields DEF OfCall
    <3>4. CASE ArchiveReturns(k)
      BY <3>4, UnmountedFields
    <3>5. CASE ArchiveReturnsToList(k)
      BY <3>5, UnheardFields DEF OfCall
    <3> QED
      BY <2>2, <3>1, <3>2, <3>3, <3>4, <3>5 DEF Return
  <2>3. CASE Fail(k)
    BY <2>3, FailBrings DEF OfCall
  <2>4. CASE FailUnseen(k)
    BY <2>4, FailUnseenFields DEF OfCall
  <2> QED
    BY <1>6, <2>1, <2>2, <2>3, <2>4
<1> QED
  BY <1>1, <1>2, <1>3, <1>4, <1>5, <1>6 DEF Next, Shaped, Editing, Archiving

LEMMA ShapedStep ==
  ASSUME Parts, Kept, Shaped
  PROVE  Typed' /\ Kept'
<1>1. CASE Minor
  <2>1. Kept'
    BY <1>1, MinorKeeps
  <2> QED
    BY <1>1, <2>1 DEF Typed, Parts, Minor
<1>2. CASE Unmounted
  <2>1. Kept'
    BY <1>2, UnmountedKeeps
  <2> QED
    BY <1>2, <2>1 DEF Typed, Parts, Unmounted
<1>3. CASE Disturbed
  <2>1. Kept'
    BY <1>3, DisturbedKeeps
  <2> QED
    BY <1>3, <2>1 DEF Typed, Parts, Disturbed, Unseen
<1>4. ASSUME NEW c \in Candidates, NEW s \in LoadSlots, Picked(c, s)
      PROVE  Typed' /\ Kept'
  <2>1. Kept'
    BY <1>4, PickedKeeps
  <2> QED
    BY <1>4, <2>1 DEF Typed, Parts, Picked
<1>5. ASSUME NEW s \in LoadSlots, OfLoad(s)
      PROVE  Typed' /\ Kept'
  <2>1. Kept'
    BY <1>5, ServedKeeps, FetchedKeeps, FallenKeeps, ErroredKeeps DEF OfLoad
  <2>2. CASE Served(s)
    BY <2>1, <2>2 DEF Typed, Parts, Served
  <2>3. CASE Fetched(s) \/ Fallen(s)
    BY <2>1, <2>3 DEF Typed, Parts, Fetched, Fallen, Ended
  <2>4. CASE Errored(s)
    BY <2>1, <2>4, UnflaggedIs DEF Typed, Parts, Errored, Ended
  <2> QED
    BY <1>5, <2>2, <2>3, <2>4 DEF OfLoad
<1>6. ASSUME NEW k \in CallSlots, OfCall(k)
      PROVE  Typed' /\ Kept'
  <2>1. CASE Committed(k)
    <3>1. Kept'
      BY <2>1, CommittedKeeps
    <3> QED
      BY <2>1, <3>1 DEF Typed, Parts, Committed, Unseen, Writes
  <2>2. CASE Returned(k)
    <3>1. Kept'
      BY <2>2, ReturnedKeeps
    <3> QED
      BY <2>2, <3>1, FreedIs DEF Typed, Parts, Returned, Brought
  <2>3. CASE Forgotten(k)
    <3>1. Kept'
      BY <2>3, ForgottenKeeps
    <3> QED
      BY <2>3, <3>1, FreedIs DEF Typed, Parts, Forgotten
  <2>4. ASSUME NEW s \in LoadSlots, Rescored(k, s)
        PROVE  Typed' /\ Kept'
    <3>1. Kept'
      BY <2>4, RescoredKeeps
    <3> QED
      BY <2>4, <3>1 DEF Typed, Parts, Rescored
  <2>5. ASSUME NEW m \in Kinds, NEW x \in Record, Sent(k, m, x)
        PROVE  Typed' /\ Kept'
    <3>1. Kept'
      BY <2>5, SentKeeps
    <3>2. view.cand \in Candidates
      BY <2>5 DEF Sent, Kept, Targets
    <3> QED
      BY <2>5, <3>1, <3>2 DEF Typed, Parts, Sent
  <2> QED
    BY <1>6, <2>1, <2>2, <2>3, <2>4, <2>5 DEF OfCall
<1> QED
  BY <1>1, <1>2, <1>3, <1>4, <1>5, <1>6 DEF Shaped

\* Moves and sends are counted up to their bounds.
LEMMA BoundsStep ==
  ASSUME Parts, Next
  PROVE  moves' \in 0..MaxMoves /\ sends' \in 0..MaxSends
<1>1. moves \in 0..MaxMoves /\ sends \in 0..MaxSends
  BY DEF Parts
<1>2. CASE Moving \/ OthersChange
  <2>1. (Move \/ moves' = moves) /\ sends' = sends
    BY <1>2 DEF Moving, Select, CloseDrawer, OpenPage, Back, OthersChange
  <2> QED
    BY <1>1, <2>1 DEF Move
<1>3. CASE Editing \/ Archiving
  <2>1. (Type \/ OpenModal \/ CancelModal) => moves' = moves /\ sends' = sends
    BY DEF Type, OpenModal, CancelModal
  <2>2. ASSUME NEW m, NEW x, NEW v, Send(m, x, v)
        PROVE  moves' = moves /\ sends < MaxSends /\ sends' = sends + 1
    BY <2>2 DEF Send
  <2>3. ChangeStatus \/ SubmitScore \/ GenerateSummary \/ SaveNotes \/ ConfirmArchive =>
          moves' = moves /\ sends < MaxSends /\ sends' = sends + 1
    BY <2>2 DEF ChangeStatus, SubmitScore, GenerateSummary, SaveNotes, ConfirmArchive
  <2> QED
    BY <1>1, <1>3, <2>1, <2>3 DEF Editing, Archiving
<1>4. CASE \E s \in LoadSlots : Serve(s) \/ Answer(s) \/ LoadFails(s)
  BY <1>1, <1>4 DEF Serve, Answer, LoadFails
<1>5. CASE \E k \in CallSlots : Commit(k) \/ Return(k) \/ Fail(k) \/ FailUnseen(k)
  BY <1>1, <1>5 DEF Commit, Return, DrawerReturns, StatusReturns, NotesReturn, SummaryReturns,
                    ScoreReturns, ArchiveReturns, ArchiveReturnsToList, Fail, FailUnseen
<1> QED
  BY <1>2, <1>3, <1>4, <1>5 DEF Next

LEMMA InitIInv == Init => IInv
<1> SUFFICES ASSUME Init PROVE IInv
  OBVIOUS
<1>1. /\ server = [c \in Candidates |-> [now |-> [status |-> New, notes |-> Own(c)], past |-> {}]]
      /\ view = Mounted("list", Nobody)
      /\ load = [s \in LoadSlots |-> NoLoad] /\ call = [k \in CallSlots |-> NoCall]
      /\ misfiled = {} /\ moves = 0 /\ sends = 0
  BY DEF Init
<1>2. /\ Place(view) = <<"list", Nobody, FALSE, FALSE, FALSE>> /\ view.busy = {} /\ view \in View
      /\ Trust(view) = <<NoSlot, "no", TRUE, FALSE, FALSE>>
  BY <1>1, MountedIs
<1>3. view.at = "list" /\ ~view.modal
  BY <1>2 DEF Place
<1>4. view.newest = NoSlot /\ view.settled = "no"
  BY <1>2 DEF Trust
<1>5. \A c \in Candidates : server[c] \in Row /\ server[c].now.notes.of = c /\ server[c].past = {}
  BY <1>1, BlankIs DEF Row, Record
<1>6. Parts
  BY <1>1, <1>2, <1>5, NoneIs DEF Parts
<1>7. /\ \A s \in LoadSlots : load[s].pc = "free"
      /\ \A k \in CallSlots : call[k].pc = "free" /\ ~call[k].flagged
  BY <1>1, NoneIs
<1>8. OwnOnly /\ Targets /\ Flags /\ Drafts /\ Filed
  BY <1>2, <1>3, <1>5, <1>7
     DEF OwnOnly, Targets, Going, Flags, Flagged, Drafts, Filed, NotesReachTheirOwner
<1>9. Shown /\ Current /\ Clicked /\ Truth
  BY <1>3, <1>4, <1>7 DEF Shown, Current, Clicked, Truth, Calm
<1> QED
  BY <1>6, <1>8, <1>9 DEF IInv

LEMMA NextIInv == IInv /\ [Next]_vars => IInv'
<1> SUFFICES ASSUME IInv, [Next]_vars PROVE IInv'
  OBVIOUS
<1>1. Parts /\ Kept
  BY DEF IInv, Kept
<1>2. CASE Next
  <2>1. Shaped
    BY <1>1, <1>2, NextShaped DEF Kept
  <2>2. Typed' /\ Kept'
    BY <1>1, <2>1, ShapedStep
  <2>3. moves' \in 0..MaxMoves /\ sends' \in 0..MaxSends
    BY <1>1, <1>2, BoundsStep
  <2> QED
    BY <2>2, <2>3 DEF IInv, Kept, Typed, Parts
<1>3. CASE UNCHANGED vars
  <2>1. Parts'
    BY <1>1, <1>3 DEF Parts, vars
  <2>2. OwnOnly' /\ Targets' /\ Flags' /\ Drafts' /\ Filed'
    BY <1>1, <1>3 DEF Kept, vars, OwnOnly, Targets, Going, Flags, Flagged, Drafts, Filed,
                      NotesReachTheirOwner, Good
  <2>3. Shown' /\ Current' /\ Clicked' /\ Truth'
    BY <1>1, <1>3 DEF Kept, vars, Shown, Good, Current, Clicked, Going, Truth, Calm, Changing, Stores
  <2> QED
    BY <2>1, <2>2, <2>3 DEF IInv
<1> QED
  BY <1>2, <1>3

-----------------------------------------------------------------------------
(* The theorems. *)

\* The inductive invariant: who every load, call and flag is for, what the drawer and the profile
\* may show of it, and which status is stored or being stored.
THEOREM WorkspaceInductive == Spec => []IInv
  BY InitIInv, NextIInv, PTL DEF Spec

\* What is on display, in flight and stored keeps its type, and a profile waits for nothing but
\* its own candidate's loads and mutations.
THEOREM WorkspaceTypes == Spec => []TypeOK
<1>1. IInv => TypeOK
  BY DEF IInv, Parts, OwnOnly, TypeOK
<1> QED
  BY <1>1, WorkspaceInductive, PTL

\* Notes get into another candidate's record by nothing but a save from a box that had not been
\* settled for its candidate (handleSaveNotes before loadDetail has answered).
THEOREM NotesReachOwners == Spec => []NotesReachTheirOwner
<1>1. IInv => NotesReachTheirOwner
  BY DEF IInv, Filed
<1> QED
  BY <1>1, WorkspaceInductive, PTL

\* When the newest load of the drawer or the profile was the last to end, status, summary, notes
\* and, after an answer, the detail on display are the selected candidate's.
THEOREM FieldsAlwaysBelong == Spec => []FieldsBelong
<1>1. IInv => FieldsBelong
  <2> SUFFICES ASSUME IInv, Visible, view.settled # "no"
               PROVE  /\ \A f \in DOMAIN view.shows :
                           f # "detail" \/ view.settled = "answer" => view.shows[f] = view.cand
                      /\ view.notes.of = view.cand \/ view.cand \in misfiled
    BY DEF FieldsBelong
  <2>1. view.at # "list" /\ DOMAIN view.shows = {"status", "summary", "detail"}
    BY DEF Visible, IInv, Parts, View
  <2> QED
    BY <2>1 DEF IInv, Shown, Good
<1> QED
  BY <1>1, WorkspaceInductive, PTL

\* The status on display is the stored one, unless the view knows no better: a change failed,
\* others changed the candidates, a change is under way or was beside the last load, or that
\* load was answered from an outdated entry of the server's cache.
THEOREM StatusIsTruthful == Spec => []StatusTruthful
<1>1. IInv => StatusTruthful
  <2> SUFFICES ASSUME IInv, Visible, view.settled = "answer", view.clean, ~view.failed, ~view.elsewhere,
                      \A k \in CallSlots : \/ call[k].pc = "free" \/ call[k].left
                                          \/ call[k].kind \notin {"status", "archive"}
               PROVE  view.status = server[view.cand].now.status
    BY DEF StatusTruthful
  <2>1. Calm
    BY DEF Visible, Calm
  <2>2. \A k \in CallSlots : ~Changing(k)
    BY DEF Changing, Going
  <2> QED
    BY <2>1, <2>2 DEF IInv, Truth
<1> QED
  BY <1>1, WorkspaceInductive, PTL

\* A button is disabled exactly while the one call that set its flag is under way
\* (updatingStatus, submittingScore, generatingSummary, savingNotes, archiving).
THEOREM BusyIsTruthful == Spec => []BusyTruthful
<1>1. IInv => BusyTruthful
  <2> SUFFICES ASSUME IInv, NEW m \in Kinds
               PROVE  LET flagged == {k \in CallSlots : call[k].kind = m /\ call[k].flagged /\ ~call[k].left}
                      IN  /\ Cardinality(flagged) = IF m \in view.busy THEN 1 ELSE 0
                          /\ \A k \in flagged : call[k].pc # "free"
    BY DEF BusyTruthful
  <2> DEFINE F == {k \in CallSlots : call[k].kind = m /\ call[k].flagged /\ ~call[k].left}
  <2>1. \A k : k \in F <=> k \in CallSlots /\ Flagged(k, m)
    BY DEF Flagged
  <2> HIDE DEF F
  <2>2. \A k \in F : call[k].pc # "free"
    BY <2>1 DEF IInv, Flags
  <2>3. CASE m \in view.busy
    <3>1. PICK k \in CallSlots : Flagged(k, m)
      BY <2>3 DEF IInv, Flags
    <3>2. F = {k}
      BY <2>1, <3>1 DEF IInv, Flags
    <3>3. Cardinality(F) = 1
      BY <3>2, FS_Singleton
    <3> QED
      BY <2>2, <2>3, <3>3 DEF F
  <2>4. CASE m \notin view.busy
    <3>1. F = {}
      BY <2>1, <2>4 DEF IInv, Flags
    <3>2. Cardinality(F) = 0
      BY <3>1, FS_EmptySet
    <3> QED
      BY <2>2, <2>4, <3>2 DEF F
  <2> QED
    BY <2>3, <2>4
<1> QED
  BY <1>1, WorkspaceInductive, PTL

\* No status, summary or score that arrives in the drawer, no failure and no return of a save
\* takes away a text that was typed and not sent, save one whose card a reload has unmounted.
THEOREM DraftsAreKept == Spec => DraftKept
<1> DEFINE A == view.typed /\ ~view'.typed =>
       \/ "page" \in {view.at, view'.at} /\ view'.at # view.at
       \/ \E s \in LoadSlots : (load[s].pc = "free") # (load'[s].pc = "free")
       \/ "notes" \in view'.busy \ view.busy
       \/ \E k \in CallSlots : call[k].pc = "done" /\ ~call[k].flagged /\ call'[k].pc = "free"
<1>1. IInv /\ [Next]_vars => [A]_vars
  <2> SUFFICES ASSUME IInv, Next, view.typed, ~view'.typed PROVE A
    OBVIOUS
  <2>1. Parts /\ Targets /\ Shaped
    BY NextShaped DEF IInv
  <2>2. CASE Minor
    BY <2>2 DEF Minor
  <2>3. CASE Unmounted
    BY <2>3 DEF Unmounted
  <2>4. CASE Disturbed
    BY <2>4, UnseenIs DEF Disturbed
  <2>5. ASSUME NEW c \in Candidates, NEW s \in LoadSlots, Picked(c, s)
        PROVE  A
    BY <2>5 DEF Picked, Content
  <2>6. ASSUME NEW s \in LoadSlots, OfLoad(s)
        PROVE  A
    BY <2>6, NoneIs DEF OfLoad, Served, Fetched, Fallen, Errored, Ended
  <2>7. ASSUME NEW k \in CallSlots, OfCall(k)
        PROVE  A
    <3>1. CASE Committed(k)
      BY <3>1, UnseenIs DEF Committed
    <3>2. CASE Returned(k)
      <4>1. /\ call[k].pc = "done" /\ call[k].kind = "notes" /\ ~call[k].left /\ call'[k].pc = "free"
        BY <2>1, <3>2, FreedIs, NoneIs DEF Returned, Brought, Going
      <4>2. "notes" \notin view.busy
        BY DEF IInv, Drafts
      <4>3. ~call[k].flagged
        BY <4>1, <4>2 DEF IInv, Flags, Flagged, Kinds
      <4> QED
        BY <4>1, <4>3
    <3>3. CASE Forgotten(k)
      BY <3>3 DEF Forgotten
    <3>4. ASSUME NEW s \in LoadSlots, Rescored(k, s)
          PROVE  A
      BY <3>4 DEF Rescored
    <3>5. ASSUME NEW m \in Kinds, NEW x \in Record, Sent(k, m, x)
          PROVE  A
      BY <3>5 DEF Sent
    <3> QED
      BY <2>7, <3>1, <3>2, <3>3, <3>4, <3>5 DEF OfCall
  <2> QED
    BY <2>1, <2>2, <2>3, <2>4, <2>5, <2>6, <2>7 DEF Shaped
<1> QED
  BY <1>1, WorkspaceInductive, PTL DEF Spec, DraftKept
=============================================================================
