---------------------------- MODULE ScoreStream ----------------------------
(***************************************************************************)
(* The live scores of one candidate: SSEBroadcaster and the score upsert   *)
(* (backend/app/services/candidate_service.py), the endpoint of the stream *)
(* (routers/candidates.py), and the page that merges the messages into the *)
(* answer of its own GET (frontend/src/pages/CandidateDetailPage.tsx).     *)
(*                                                                         *)
(* A submission is its position in log; a score is the row of one reviewer *)
(* and category, which a second submission updates.  A message and a line  *)
(* of the page are the submission whose content they carry.  Everything on *)
(* the event loop between two awaits is one step; queue.put never waits,   *)
(* the queues being unbounded, so commit and broadcast are one step too.   *)
(***************************************************************************)
EXTENDS Integers, Sequences, FiniteSets, Functions

CONSTANTS Pages,        \* browser tabs
          Scores,       \* rows of the table scores
          Streams,      \* bound: queues that can exist at the same time
          Own,          \* per page, the scores that its user can submit
          Sees,         \* per page, the scores that its user's GET lists
          NoStream,
          MayAbandon,   \* whether a client may go before its generator starts
          MountLoads,   \* GETs of a mounted page: two in StrictMode, one in a production build
          MaxLag,       \* most submissions that an answer from the cache lacks
          MaxSubmits, MaxRestarts   \* bounds

ASSUME NoStreamIsNone == NoStream \notin Streams
ASSUME Views == /\ Own \in [Pages -> SUBSET Scores]
                /\ Sees \in [Pages -> SUBSET Scores]
ASSUME Abandoning == MayAbandon \in BOOLEAN
ASSUME StreamBounds == MountLoads \in Nat /\ MaxLag \in Nat /\ MaxSubmits \in Nat /\ MaxRestarts \in Nat

VARIABLES
  log,        \* the score of each committed submission
  stream,     \* per queue: its request, its generator and its contents
  listeners,  \* _listeners[candidate_id]
  gauge,      \* ACTIVE_SSE_CONNECTIONS
  page,       \* per tab, the state of CandidateDetailPage
  restarts    \* bounds the restarts of the backend

vars == <<log, stream, listeners, gauge, page, restarts>>

(***************************************************************************)
(* A stream: pc is where its generator is, cut says that its client went   *)
(* without the server having noticed.  since is history: the submissions   *)
(* committed before it was subscribed.                                     *)
(***************************************************************************)
Stream == [pc : {"unused", "subscribed", "running", "ghost"}, cut : BOOLEAN,
           queue : Seq(Nat), since : Nat]
Unused == [pc |-> "unused", cut |-> FALSE, queue |-> <<>>, since |-> 0]

(***************************************************************************)
(* A page: loads counts its GETs under way, rows is candidate.scores.  The *)
(* rest is history: asked counts the submissions when the oldest GET under *)
(* way began, asof those that the last answer had seen, and heard those    *)
(* that its stream had told of when that answer came.                      *)
(***************************************************************************)
Page == [open : BOOLEAN, loads : Nat, loading : BOOLEAN, loaded : BOOLEAN,
         error : BOOLEAN, posting : BOOLEAN, rows : SUBSET Nat,
         conn : Streams \cup {NoStream}, asked : Nat, asof : Nat, heard : Nat]
Closed == [open |-> FALSE, loads |-> 0, loading |-> TRUE, loaded |-> FALSE,
           error |-> FALSE, posting |-> FALSE, rows |-> {},
           conn |-> NoStream, asked |-> 0, asof |-> 0, heard |-> 0]

Init ==
  /\ log = <<>>
  /\ stream = [t \in Streams |-> Unused]
  /\ listeners = {}
  /\ gauge = 0
  /\ page = [p \in Pages |-> Closed]
  /\ restarts = 0

-----------------------------------------------------------------------------
(* The backend. *)

(* Operators named ..._bug are mutants of the definition they precede. *)
\* The scores of the detail's answer after n submissions, each as of its last one.
Listing(p, n) ==
  {i \in 1..n : log[i] \in Sees[p] /\ \A j \in (i + 1)..n : log[j] # log[i]}

Queued(t, i) == [stream[t] EXCEPT !.queue = Append(@, i)]

\* A bounded queue that drops what does not fit.
Broadcast_dropsWhenFull_bug(i) ==
  stream' = [t \in Streams |-> IF t \in listeners /\ stream[t].queue = <<>>
                               THEN Queued(t, i) ELSE stream[t]]
Broadcast(i) ==
  stream' = [t \in Streams |-> IF t \in listeners THEN Queued(t, i) ELSE stream[t]]

\* The client disconnects; the server does not know yet.
Cut(t) == [stream EXCEPT ![t].cut = TRUE]

\* create_score_service: the row is inserted or updated, then the listeners are told.
Commit(s) ==
  /\ Len(log) < MaxSubmits
  /\ log' = Append(log, s)
  /\ Broadcast(Len(log) + 1)
  /\ UNCHANGED <<listeners, gauge, restarts>>

\* A score comes from the drawer, another page or a client of the API.
Submit(s) ==
  /\ Commit(s)
  /\ UNCHANGED page

\* GET .../stream for the EventSource of page p: subscribe, then return the response.
Subscribe(p, t) ==
  /\ page[p].open /\ page[p].conn = NoStream
  /\ stream[t].pc = "unused"
  /\ listeners' = listeners \cup {t}
  /\ gauge' = gauge + 1
  /\ stream' = [stream EXCEPT ![t] = [pc |-> "subscribed", cut |-> FALSE, queue |-> <<>>,
                                       since |-> Len(log)]]
  /\ page' = [page EXCEPT ![p].conn = t]
  /\ UNCHANGED <<log, restarts>>

\* The server first asks event_generator for an item: its try is entered.
Start(t) ==
  /\ stream[t].pc = "subscribed"
  /\ stream' = [stream EXCEPT ![t].pc = "running"]
  /\ UNCHANGED <<log, listeners, gauge, page, restarts>>

Unsubscribe_noDec_bug(t) ==
  /\ stream[t].pc = "running" /\ stream[t].cut
  /\ listeners' = listeners \ {t}
  /\ stream' = [stream EXCEPT ![t] = Unused]
  /\ UNCHANGED <<log, gauge, page, restarts>>

\* The disconnect is noticed while the generator runs: its finally unsubscribes.
Unsubscribe(t) ==
  /\ stream[t].pc = "running" /\ stream[t].cut
  /\ listeners' = listeners \ {t}
  /\ gauge' = IF t \in listeners THEN gauge - 1 ELSE gauge
  /\ stream' = [stream EXCEPT ![t] = Unused]
  /\ UNCHANGED <<log, page, restarts>>

\* It is noticed before: a generator that never started has no finally to run.
Abandon(t) ==
  /\ MayAbandon
  /\ stream[t].pc = "subscribed" /\ stream[t].cut
  /\ stream' = [stream EXCEPT ![t].pc = "ghost"]
  /\ UNCHANGED <<log, listeners, gauge, page, restarts>>

\* The process goes and comes back, perhaps between a commit and its broadcast.
Restart ==
  /\ restarts < MaxRestarts
  /\ restarts' = restarts + 1
  /\ \/ UNCHANGED log
     \/ /\ Len(log) < MaxSubmits
        /\ \E s \in Scores : log' = Append(log, s)
  /\ stream' = [t \in Streams |-> Unused]
  /\ listeners' = {}
  /\ gauge' = 0
  /\ page' = [p \in Pages |-> [page[p] EXCEPT !.conn = NoStream]]

-----------------------------------------------------------------------------
(* The page. *)

Shown(p) == {log[i] : i \in page[p].rows}

\* Messages of its current stream that page p has been given.
Heard(p) ==
  IF page[p].conn = NoStream THEN 0 ELSE Len(log) - Len(stream[page[p].conn].queue)

\* onmessage: nothing before the first answer, nothing for a score already listed.
Merge_noIdCheck_bug(p, i) ==
  IF page[p].loaded THEN [page[p] EXCEPT !.rows = @ \cup {i}] ELSE page[p]
Merge_whileLoading_bug(p, i) ==
  IF page[p].loaded /\ ~page[p].loading /\ log[i] \notin Shown(p)
  THEN [page[p] EXCEPT !.rows = @ \cup {i}]
  ELSE page[p]
Merge(p, i) ==
  IF page[p].loaded /\ log[i] \notin Shown(p)
  THEN [page[p] EXCEPT !.rows = @ \cup {i}]
  ELSE page[p]

\* The generator takes an item and yields it; it reaches the page unless that is gone.
Deliver(t) ==
  /\ stream[t].pc = "running" /\ stream[t].queue # <<>>
  /\ stream' = [stream EXCEPT ![t].queue = Tail(@)]
  /\ page' = [p \in Pages |-> IF page[p].conn = t THEN Merge(p, Head(stream[t].queue))
                                                  ELSE page[p]]
  /\ UNCHANGED <<log, listeners, gauge, restarts>>

\* The page is mounted and its effects run.
Open(p) ==
  /\ ~page[p].open
  /\ page' = [page EXCEPT ![p] = [Closed EXCEPT !.open = TRUE, !.loads = MountLoads,
                                               !.asked = Len(log)]]
  /\ UNCHANGED <<log, stream, listeners, gauge, restarts>>

\* The connection ends at the page: the browser lost it, or StrictMode closed the first.
Disconnect(p) ==
  /\ page[p].conn # NoStream
  /\ stream' = Cut(page[p].conn)
  /\ page' = [page EXCEPT ![p].conn = NoStream]
  /\ UNCHANGED <<log, listeners, gauge, restarts>>

\* The page is unmounted; answers still on their way have nowhere to go.
Leave(p) ==
  /\ page[p].open
  /\ stream' = IF page[p].conn = NoStream THEN stream ELSE Cut(page[p].conn)
  /\ page' = [page EXCEPT ![p] = Closed]
  /\ UNCHANGED <<log, listeners, gauge, restarts>>

\* A GET is answered as of n submissions: it read them since it began, or came from
\* the cache, which can be older (CandidateCache says when).
Answer(p, n) ==
  /\ page[p].open /\ page[p].loads > 0
  /\ n >= page[p].asked - MaxLag
  /\ page' = [page EXCEPT ![p].loads = @ - 1, ![p].loading = FALSE, ![p].loaded = TRUE,
                          ![p].rows = Listing(p, n), ![p].asof = n, ![p].heard = Heard(p)]
  /\ UNCHANGED <<log, stream, listeners, gauge, restarts>>

\* setError: nothing ever takes it back.
LoadFails(p) ==
  /\ page[p].open /\ page[p].loads > 0
  /\ page' = [page EXCEPT ![p].loads = @ - 1, ![p].loading = FALSE, ![p].error = TRUE]
  /\ UNCHANGED <<log, stream, listeners, gauge, restarts>>

\* handleScoreSubmit, from a form that is there only while the candidate is.
Post(p, s) ==
  /\ page[p].open /\ page[p].loaded
  /\ ~page[p].loading /\ ~page[p].error /\ ~page[p].posting
  /\ Commit(s)
  /\ page' = [page EXCEPT ![p].posting = TRUE]

PostReturns(p) ==
  /\ page[p].posting
  /\ page' = [page EXCEPT ![p].posting = FALSE, ![p].loads = @ + 1, ![p].loading = TRUE,
                          ![p].asked = IF page[p].loads = 0 THEN Len(log) ELSE @]
  /\ UNCHANGED <<log, stream, listeners, gauge, restarts>>

\* A toast, and no reload.
PostFails(p) ==
  /\ page[p].posting
  /\ page' = [page EXCEPT ![p].posting = FALSE]
  /\ UNCHANGED <<log, stream, listeners, gauge, restarts>>

-----------------------------------------------------------------------------
Next ==
  \/ Restart
  \/ \E s \in Scores : Submit(s)
  \/ \E t \in Streams : Start(t) \/ Unsubscribe(t) \/ Abandon(t) \/ Deliver(t)
  \/ \E p \in Pages :
       \/ Open(p) \/ Disconnect(p) \/ Leave(p)
       \/ LoadFails(p) \/ PostReturns(p) \/ PostFails(p)
       \/ \E t \in Streams : Subscribe(p, t)
       \/ \E n \in 0..Len(log) : Answer(p, n)
       \/ \E s \in Own[p] : Post(p, s)

Spec == Init /\ [][Next]_vars

\* The event loop goes on: a generator that can run does, a disconnect gets noticed.
FairSpec ==
  /\ Spec
  /\ \A t \in Streams : WF_vars(Start(t)) /\ WF_vars(Deliver(t))
  /\ \A t \in Streams : WF_vars(Unsubscribe(t) \/ Abandon(t))

-----------------------------------------------------------------------------
(* Properties. *)

\* A stream belongs to one page at most, and the one of a page is not cut.
Connections ==
  /\ \A p, q \in Pages : page[p].conn # NoStream /\ page[p].conn = page[q].conn => p = q
  /\ \A p \in Pages : page[p].conn # NoStream =>
       /\ page[p].open
       /\ stream[page[p].conn].pc \in {"subscribed", "running"}
       /\ ~stream[page[p].conn].cut

(* Types, and whose streams are whose: the clean-up of the page's effect closes what it *)
(* opened, and the server tells a stream that has a page from one that lost it.         *)
TypeOK ==
  /\ log \in Seq(Scores)
  /\ stream \in [Streams -> Stream]
  /\ listeners \subseteq Streams
  /\ gauge \in Nat
  /\ page \in [Pages -> Page]
  /\ restarts \in Nat
  /\ Connections

(* The gauge of active streams is the number of queues that listen, and a queue listens *)
(* from its subscription until its generator ends, whoever comes, goes and restarts.    *)
GaugeTruthful ==
  /\ gauge = Cardinality(listeners)
  /\ listeners = {t \in Streams : stream[t].pc # "unused"}

(* broadcast leaves no gap: what a queue holds are the last submissions, in order and   *)
(* each once, and it was never told of one older than its subscription.                 *)
NoGaps ==
  \A t \in listeners :
    LET q == stream[t].queue IN
    /\ Len(q) + stream[t].since <= Len(log)
    /\ \A k \in 1..Len(q) : q[k] = Len(log) - Len(q) + k

(* A page lists each score once, however the messages and the answers about it are      *)
(* interleaved: the merge's id check is the only thing that keeps a second line out.    *)
OneLinePerScore ==
  \A p \in Pages : \A i, j \in page[p].rows : log[i] = log[j] => i = j

Listed(p, i)  == log[i] \in Shown(p)
OnItsWay(p, i) == page[p].conn # NoStream /\ i \in Range(stream[page[p].conn].queue)

\* The answer was read after the stream was subscribed and had seen what the stream had
\* told by then: the order that makes the merge complete.
AnsweredInOrder(p) ==
  /\ page[p].loaded /\ page[p].conn # NoStream
  /\ page[p].asof >= stream[page[p].conn].since
  /\ page[p].asof >= page[p].heard

(* A page whose last answer was read late enough misses no score that its user may see: *)
(* each is listed or still in its queue, although the two requests are not ordered.     *)
NothingMissed ==
  \A p \in Pages : AnsweredInOrder(p) =>
    \A i \in 1..Len(log) : log[i] \in Sees[p] => Listed(p, i) \/ OnItsWay(p, i)

(* What waits in the queue of a page that shows its candidate is listed in the end,     *)
(* unless the connection goes.                                                          *)
ShownInTheEnd ==
  \A p \in Pages : \A i \in 1..MaxSubmits :
    (page[p].loaded /\ OnItsWay(p, i)) ~> (i \in 1..Len(log) /\ Listed(p, i)) \/ page[p].conn = NoStream

(* The queue of a client that has gone is given back: README.md:159, "cleaning up the   *)
(* queue properly when a client disconnects so it does not leak memory".  It is not     *)
(* when the client goes before its generator starts.                                    *)
QueueReclaimed ==
  \A t \in Streams : stream[t].cut ~> ~stream[t].cut

=============================================================================

