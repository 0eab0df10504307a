-------------------------- MODULE ScoreStreamProofs --------------------------
(***************************************************************************)
(* What ScoreStream promises for any number of pages, queues, scores,      *)
(* submissions and restarts, whatever the cache answers.                   *)
(***************************************************************************)
EXTENDS ScoreStream, FiniteSetTheorems, WellFoundedInduction, TLAPS

-----------------------------------------------------------------------------
(* Types. *)

Types ==
  /\ log \in Seq(Scores)
  /\ stream \in [Streams -> Stream]
  /\ listeners \subseteq Streams
  /\ gauge \in Int
  /\ page \in [Pages -> Page]
  /\ restarts \in Nat

LEMMA TypesInit == Init => Types /\ Connections
  BY NoStreamIsNone DEF Init, Types, Connections, Stream, Unused, Page, Closed

LEMMA QueuedType ==
  ASSUME Types, NEW t \in Streams, NEW i \in Nat
  PROVE  Queued(t, i) \in Stream
<1>1. stream[t] \in Stream /\ stream[t].queue \in Seq(Nat)
  BY DEF Types, Stream
<1>2. Append(stream[t].queue, i) \in Seq(Nat)
  BY <1>1
<1> QED
  BY <1>1, <1>2 DEF Stream, Queued

LEMMA MergeType ==
  ASSUME Types, NEW p \in Pages, NEW i \in Nat
  PROVE  Merge(p, i) \in Page
<1>1. page[p] \in Page
  BY DEF Types
<1>2. page[p].rows \cup {i} \in SUBSET Nat
  BY <1>1 DEF Page
<1>3. [page[p] EXCEPT !.rows = @ \cup {i}] \in Page
  BY <1>1, <1>2 DEF Page
<1> QED
  BY <1>1, <1>3 DEF Merge

LEMMA HeardType ==
  ASSUME Types, NEW p \in Pages,
         page[p].conn # NoStream => Len(stream[page[p].conn].queue) <= Len(log)
  PROVE  Heard(p) \in Nat
<1>1. page[p].conn \in Streams \cup {NoStream} /\ Len(log) \in Nat
  BY DEF Types, Page
<1>2. CASE page[p].conn = NoStream
  BY <1>2 DEF Heard
<1>3. CASE page[p].conn # NoStream
  <2>1. stream[page[p].conn] \in Stream
    BY <1>1, <1>3 DEF Types
  <2>2. Len(stream[page[p].conn].queue) \in Nat
    BY <2>1 DEF Stream
  <2> QED
    BY <1>1, <1>3, <2>2 DEF Heard
<1> QED
  BY <1>2, <1>3

LEMMA CommitTypes ==
  ASSUME Types, NEW s \in Scores, Commit(s)
  PROVE  /\ log' \in Seq(Scores)
         /\ stream' \in [Streams -> Stream]
<1>1. Len(log) + 1 \in Nat
  BY DEF Types
<1>2. \A t \in Streams : Queued(t, Len(log) + 1) \in Stream
  BY <1>1, QueuedType
<1> QED
  BY <1>2 DEF Commit, Broadcast, Types

LEMMA CutType ==
  ASSUME Types, NEW t \in Streams
  PROVE  Cut(t) \in [Streams -> Stream]
  BY DEF Types, Stream, Cut

\* Queues never hold more than there was to tell since their subscription.
Short == \A t \in listeners : Len(stream[t].queue) + stream[t].since <= Len(log)

Registered == listeners = {t \in Streams : stream[t].pc # "unused"}

LEMMA ConnQueue ==
  ASSUME Types, Connections, Registered, Short, NEW p \in Pages, page[p].conn # NoStream
  PROVE  /\ page[p].conn \in Streams /\ page[p].conn \in listeners
         /\ stream[page[p].conn] \in Stream
         /\ Len(stream[page[p].conn].queue) \in Nat
         /\ Len(stream[page[p].conn].queue) + stream[page[p].conn].since <= Len(log)
<1>1. page[p].conn \in Streams
  BY DEF Types, Page
<1>2. stream[page[p].conn] \in Stream
  BY <1>1 DEF Types
<1>3. page[p].conn \in listeners
  BY <1>1 DEF Connections, Registered
<1> QED
  BY <1>1, <1>2, <1>3 DEF Stream, Short

LEMMA TypesStep ==
  ASSUME Types, Connections, Registered, Short, [Next]_vars
  PROVE  Types'
<1> USE DEF Types
<1>0. Len(log) \in Nat
  OBVIOUS
<1>1. CASE Restart
  <2>1. log' \in Seq(Scores)
    <3>1. \A s \in Scores : Append(log, s) \in Seq(Scores)
      OBVIOUS
    <3> QED
      BY <1>1, <3>1 DEF Restart
  <2>2. stream' \in [Streams -> Stream]
    BY <1>1 DEF Restart, Unused, Stream
  <2>3. page' \in [Pages -> Page]
    BY <1>1 DEF Restart, Page
  <2> QED
    BY <1>1, <2>1, <2>2, <2>3 DEF Restart
<1>2. ASSUME NEW s \in Scores, Submit(s)
      PROVE  Types'
  BY <1>2, CommitTypes DEF Submit, Commit
<1>3. ASSUME NEW t \in Streams, Start(t)
      PROVE  Types'
  <2>1. stream' \in [Streams -> Stream]
    BY <1>3 DEF Start, Stream
  <2> QED
    BY <1>3, <2>1 DEF Start
<1>4. ASSUME NEW t \in Streams, Unsubscribe(t)
      PROVE  Types'
  <2>1. stream' \in [Streams -> Stream]
    BY <1>4 DEF Unsubscribe, Stream, Unused
  <2> QED
    BY <1>4, <2>1 DEF Unsubscribe
<1>5. ASSUME NEW t \in Streams, Abandon(t)
      PROVE  Types'
  <2>1. stream' \in [Streams -> Stream]
    BY <1>5 DEF Abandon, Stream
  <2> QED
    BY <1>5, <2>1 DEF Abandon
<1>6. ASSUME NEW t \in Streams, Deliver(t)
      PROVE  Types'
  <2>1. stream[t].queue \in Seq(Nat) /\ stream[t].queue # <<>>
    BY <1>6 DEF Deliver, Stream
  <2>2. Tail(stream[t].queue) \in Seq(Nat) /\ Head(stream[t].queue) \in Nat
    BY <2>1
  <2>3. stream' \in [Streams -> Stream]
    BY <1>6, <2>2 DEF Deliver, Stream
  <2>4. \A p \in Pages : Merge(p, Head(stream[t].queue)) \in Page
    BY <2>2, MergeType
  <2>5. page' \in [Pages -> Page]
    BY <1>6, <2>4 DEF Deliver
  <2> QED
    BY <1>6, <2>3, <2>5 DEF Deliver
<1>7. ASSUME NEW p \in Pages, Open(p)
      PROVE  Types'
  <2>1. [Closed EXCEPT !.open = TRUE, !.loads = MountLoads, !.asked = Len(log)] \in Page
    BY <1>0, StreamBounds DEF Page, Closed
  <2>2. page' \in [Pages -> Page]
    BY <1>7, <2>1 DEF Open
  <2> QED
    BY <1>7, <2>2 DEF Open
<1>8. ASSUME NEW p \in Pages, Disconnect(p)
      PROVE  Types'
  <2>1. stream' \in [Streams -> Stream]
    BY <1>8, CutType, ConnQueue DEF Disconnect
  <2>2. page' \in [Pages -> Page]
    BY <1>8 DEF Disconnect, Page
  <2> QED
    BY <1>8, <2>1, <2>2 DEF Disconnect
<1>9. ASSUME NEW p \in Pages, Leave(p)
      PROVE  Types'
  <2>1. stream' \in [Streams -> Stream]
    BY <1>9, CutType, ConnQueue DEF Leave
  <2>2. page' \in [Pages -> Page]
    BY <1>9 DEF Leave, Page, Closed
  <2> QED
    BY <1>9, <2>1, <2>2 DEF Leave
<1>10. ASSUME NEW p \in Pages, LoadFails(p)
       PROVE  Types'
  <2>1. page[p] \in Page /\ page[p].loads - 1 \in Nat
    BY <1>10 DEF LoadFails, Page
  <2>2. page' \in [Pages -> Page]
    BY <1>10, <2>1 DEF LoadFails, Page
  <2> QED
    BY <1>10, <2>2 DEF LoadFails
<1>11. ASSUME NEW p \in Pages, PostReturns(p)
       PROVE  Types'
  <2>1. page' \in [Pages -> Page]
    BY <1>11 DEF PostReturns, Page
  <2> QED
    BY <1>11, <2>1 DEF PostReturns
<1>12. ASSUME NEW p \in Pages, PostFails(p)
       PROVE  Types'
  <2>1. page' \in [Pages -> Page]
    BY <1>12 DEF PostFails, Page
  <2> QED
    BY <1>12, <2>1 DEF PostFails
<1>13. ASSUME NEW p \in Pages, NEW t \in Streams, Subscribe(p, t)
       PROVE  Types'
  <2>1. stream' \in [Streams -> Stream]
    <3>1. [pc |-> "subscribed", cut |-> FALSE, queue |-> <<>>, since |-> Len(log)] \in Stream
      BY <1>0 DEF Stream
    <3>2. stream' = [stream EXCEPT ![t] = [pc |-> "subscribed", cut |-> FALSE, queue |-> <<>>,
                                           since |-> Len(log)]]
      BY <1>13 DEF Subscribe
    <3> QED
      BY <3>1, <3>2
  <2>2. page' \in [Pages -> Page]
    BY <1>13 DEF Subscribe, Page
  <2> QED
    BY <1>13, <2>1, <2>2 DEF Subscribe
<1>14. ASSUME NEW p \in Pages, NEW n \in 0..Len(log), Answer(p, n)
       PROVE  Types'
  <2>1. Heard(p) \in Nat
    BY HeardType, ConnQueue DEF Stream
  <2>2. Listing(p, n) \in SUBSET Nat
    BY DEF Listing
  <2>3. page[p] \in Page /\ page[p].loads - 1 \in Nat /\ n \in Nat
    BY <1>0, <1>14 DEF Answer, Page
  <2>4. [page[p] EXCEPT !.loads = @ - 1, !.loading = FALSE, !.loaded = TRUE,
                        !.rows = Listing(p, n), !.asof = n, !.heard = Heard(p)] \in Page
    BY <2>1, <2>2, <2>3 DEF Page
  <2>5. page' = [page EXCEPT ![p] =
           [page[p] EXCEPT !.loads = @ - 1, !.loading = FALSE, !.loaded = TRUE,
                           !.rows = Listing(p, n), !.asof = n, !.heard = Heard(p)]]
    BY <1>14 DEF Answer
  <2> QED
    BY <1>14, <2>4, <2>5 DEF Answer
<1>15. ASSUME NEW p \in Pages, NEW s \in Own[p], Post(p, s)
       PROVE  Types'
  <2>1. s \in Scores /\ Commit(s)
    BY <1>15, Views DEF Post
  <2>2. page' \in [Pages -> Page]
    BY <1>15 DEF Post, Page
  <2> QED
    BY <2>1, <2>2, CommitTypes DEF Commit
<1>16. CASE UNCHANGED vars
  BY <1>16 DEF vars
<1> QED
  BY <1>1, <1>2, <1>3, <1>4, <1>5, <1>6, <1>7, <1>8, <1>9, <1>10, <1>11, <1>12, <1>13, <1>14, <1>15, <1>16
  DEF Next

-----------------------------------------------------------------------------
(* Connections, and the gauge. *)

LEMMA ConnectionsStep ==
  ASSUME Types, Connections, [Next]_vars
  PROVE  Connections'
<1> USE DEF Connections
<1>0. \A p \in Pages : page[p] \in Page /\ page[p].conn \in Streams \cup {NoStream}
  BY DEF Types, Page
<1>1. CASE Restart
  <2>1. \A p \in Pages : page'[p].conn = NoStream
    BY <1>1 DEF Restart, Types, Page
  <2> QED
    BY <2>1
<1>2. ASSUME NEW i, Broadcast(i),
             \A p \in Pages : page'[p].conn = page[p].conn /\ page'[p].open = page[p].open
      PROVE  Connections'
  <2>1. \A t \in Streams : stream'[t].pc = stream[t].pc /\ stream'[t].cut = stream[t].cut
    BY <1>2 DEF Broadcast, Queued, Types, Stream
  <2> QED
    BY <1>0, <1>2, <2>1
<1>3. ASSUME NEW s \in Scores, Submit(s)
      PROVE  Connections'
  BY <1>2, <1>3 DEF Submit, Commit
<1>4. ASSUME NEW t \in Streams, Start(t)
      PROVE  Connections'
  <2>1. \A u \in Streams : /\ stream'[u].cut = stream[u].cut
                           /\ stream'[u].pc = stream[u].pc \/ stream'[u].pc = "running"
    BY <1>4 DEF Start, Types, Stream
  <2> QED
    BY <1>0, <1>4, <2>1 DEF Start
<1>5. ASSUME NEW t \in Streams, Unsubscribe(t) \/ Abandon(t)
      PROVE  Connections'
  <2>1. stream[t].cut /\ UNCHANGED page
    BY <1>5 DEF Unsubscribe, Abandon
  <2>2. \A u \in Streams \ {t} : stream'[u] = stream[u]
    BY <1>5 DEF Unsubscribe, Abandon, Types
  <2>3. \A p \in Pages : page[p].conn # t
    BY <2>1, NoStreamIsNone
  <2> QED
    BY <1>0, <2>1, <2>2, <2>3
<1>6. ASSUME NEW t \in Streams, Deliver(t)
      PROVE  Connections'
  <2>1. \A u \in Streams : stream'[u].pc = stream[u].pc /\ stream'[u].cut = stream[u].cut
    BY <1>6 DEF Deliver, Types, Stream
  <2>2. \A p \in Pages : page'[p].conn = page[p].conn /\ page'[p].open = page[p].open
    BY <1>0, <1>6 DEF Deliver, Merge, Page
  <2> QED
    BY <1>0, <2>1, <2>2
<1>7. ASSUME NEW p \in Pages, page' = [page EXCEPT ![p] = page'[p]],
             page'[p].conn = NoStream,
             page[p].conn = NoStream => UNCHANGED stream,
             page[p].conn # NoStream => stream' = Cut(page[p].conn)
      PROVE  Connections'
  <2>1. \A q \in Pages \ {p} : page'[q] = page[q]
    BY <1>7 DEF Types
  <2>2. \A u \in Streams : u # page[p].conn => stream'[u] = stream[u]
    BY <1>0, <1>7 DEF Cut, Types
  <2> QED
    BY <1>0, <1>7, <2>1, <2>2
<1>8. ASSUME NEW p \in Pages, Open(p) \/ Disconnect(p) \/ Leave(p)
      PROVE  Connections'
  <2>1. page' = [page EXCEPT ![p] = page'[p]] /\ page'[p].conn = NoStream
    <3>1. CASE Open(p)
      <4>1. [Closed EXCEPT !.open = TRUE, !.loads = MountLoads, !.asked = Len(log)].conn = NoStream
        BY DEF Closed
      <4> QED
        BY <3>1, <4>1 DEF Open, Types
    <3>2. CASE Disconnect(p)
      BY <1>0, <3>2 DEF Disconnect, Types, Page
    <3>3. CASE Leave(p)
      BY <3>3 DEF Leave, Closed, Types
    <3> QED
      BY <1>8, <3>1, <3>2, <3>3
  <2>2. /\ page[p].conn = NoStream => UNCHANGED stream
        /\ page[p].conn # NoStream => stream' = Cut(page[p].conn)
    BY <1>8 DEF Open, Disconnect, Leave
  <2> QED
    BY <1>7, <2>1, <2>2
<1>9. ASSUME UNCHANGED stream,
             \A q \in Pages : page'[q].conn = page[q].conn /\ page'[q].open = page[q].open
      PROVE  Connections'
  BY <1>0, <1>9
<1>10. ASSUME NEW p \in Pages, LoadFails(p) \/ PostReturns(p) \/ PostFails(p)
       PROVE  Connections'
  <2>1. \A q \in Pages : page'[q].conn = page[q].conn /\ page'[q].open = page[q].open
    <3>1. CASE LoadFails(p)
      BY <1>0, <3>1 DEF LoadFails, Types, Page
    <3>2. CASE PostReturns(p)
      BY <1>0, <3>2 DEF PostReturns, Types, Page
    <3>3. CASE PostFails(p)
      BY <1>0, <3>3 DEF PostFails, Types, Page
    <3> QED
      BY <1>10, <3>1, <3>2, <3>3
  <2> QED
    BY <1>9, <1>10, <2>1 DEF LoadFails, PostReturns, PostFails
<1>11. ASSUME NEW p \in Pages, NEW t \in Streams, Subscribe(p, t)
       PROVE  Connections'
  <2>1. page[p].open /\ stream[t].pc = "unused"
    BY <1>11 DEF Subscribe
  <2>2. /\ page'[p].conn = t /\ page'[p].open = page[p].open
        /\ \A q \in Pages \ {p} : page'[q] = page[q]
    BY <1>0, <1>11 DEF Subscribe, Types, Page
  <2>3. /\ stream'[t].pc = "subscribed" /\ ~stream'[t].cut
        /\ \A u \in Streams \ {t} : stream'[u] = stream[u]
    BY <1>11 DEF Subscribe, Unused, Types
  <2>4. \A q \in Pages : page[q].conn # t
    BY <2>1, NoStreamIsNone
  <2> QED
    <3>1. \A q, u \in Pages : page'[q].conn # NoStream /\ page'[q].conn = page'[u].conn => q = u
      BY <2>2, <2>4
    <3>2. ASSUME NEW q \in Pages, page'[q].conn # NoStream
          PROVE  /\ page'[q].open
                 /\ stream'[page'[q].conn].pc \in {"subscribed", "running"}
                 /\ ~stream'[page'[q].conn].cut
      <4>1. CASE q = p
        BY <2>1, <2>2, <2>3, <4>1
      <4>2. CASE q # p
        <5>1. page'[q] = page[q] /\ page[q].conn \in Streams \ {t}
          BY <1>0, <2>2, <2>4, <3>2, <4>2
        <5> QED
          BY <2>3, <3>2, <5>1
      <4> QED
        BY <4>1, <4>2
    <3> QED
      BY <3>1, <3>2
<1>12. ASSUME NEW p \in Pages, NEW n \in 0..Len(log), Answer(p, n)
       PROVE  Connections'
  <2>1. \A q \in Pages : page'[q].conn = page[q].conn /\ page'[q].open = page[q].open
    BY <1>0, <1>12 DEF Answer, Types, Page
  <2> QED
    BY <1>9, <1>12, <2>1 DEF Answer
<1>13. ASSUME NEW p \in Pages, NEW s \in Own[p], Post(p, s)
       PROVE  Connections'
  <2>1. \A q \in Pages : page'[q].conn = page[q].conn /\ page'[q].open = page[q].open
    BY <1>0, <1>13 DEF Post, Types, Page
  <2> QED
    BY <1>2, <1>13, <2>1 DEF Post, Commit
<1>14. CASE UNCHANGED vars
  BY <1>14 DEF vars
<1> QED
  BY <1>1, <1>3, <1>4, <1>5, <1>6, <1>8, <1>10, <1>11, <1>12, <1>13, <1>14 DEF Next

Counted == IsFiniteSet(listeners) /\ gauge = Cardinality(listeners)

LEMMA GaugeStep ==
  ASSUME Types, Registered, Counted, [Next]_vars
  PROVE  Registered' /\ Counted'
<1>1. CASE Restart
  <2>1. listeners' = {} /\ gauge' = 0 /\ \A t \in Streams : stream'[t].pc = "unused"
    BY <1>1 DEF Restart, Unused
  <2> QED
    BY <2>1, FS_EmptySet DEF Registered, Counted
<1>2. ASSUME UNCHANGED <<listeners, gauge>>,
             \A t \in Streams : stream'[t].pc = "unused" <=> stream[t].pc = "unused"
      PROVE  Registered' /\ Counted'
  BY <1>2 DEF Registered, Counted
<1>3. ASSUME NEW s, Commit(s)
      PROVE  Registered' /\ Counted'
  <2>1. \A t \in Streams : stream'[t].pc = stream[t].pc
    BY <1>3 DEF Commit, Broadcast, Queued, Types, Stream
  <2> QED
    BY <1>2, <1>3, <2>1 DEF Commit
<1>4. ASSUME NEW t \in Streams, Start(t) \/ Abandon(t) \/ Deliver(t)
      PROVE  Registered' /\ Counted'
  <2>1. \A u \in Streams : stream'[u].pc = "unused" <=> stream[u].pc = "unused"
    BY <1>4 DEF Start, Abandon, Deliver, Types, Stream
  <2> QED
    BY <1>2, <1>4, <2>1 DEF Start, Abandon, Deliver
<1>5. ASSUME NEW t \in Streams, Unsubscribe(t)
      PROVE  Registered' /\ Counted'
  <2>1. t \in listeners
    BY <1>5 DEF Unsubscribe, Registered
  <2>2. listeners' = listeners \ {t} /\ gauge' = gauge - 1
    BY <1>5, <2>1 DEF Unsubscribe
  <2>3. stream'[t].pc = "unused" /\ \A u \in Streams \ {t} : stream'[u] = stream[u]
    BY <1>5 DEF Unsubscribe, Unused, Types
  <2>4. Registered'
    BY <2>2, <2>3 DEF Registered
  <2>5. Counted'
    BY <2>1, <2>2, FS_RemoveElement DEF Counted
  <2> QED
    BY <2>4, <2>5
<1>6. ASSUME NEW p \in Pages, NEW t \in Streams, Subscribe(p, t)
      PROVE  Registered' /\ Counted'
  <2>1. t \notin listeners
    BY <1>6 DEF Subscribe, Registered
  <2>2. listeners' = listeners \cup {t} /\ gauge' = gauge + 1
    BY <1>6 DEF Subscribe
  <2>3. stream'[t].pc = "subscribed" /\ \A u \in Streams \ {t} : stream'[u] = stream[u]
    BY <1>6 DEF Subscribe, Unused, Types
  <2>4. Registered'
    BY <2>2, <2>3 DEF Registered
  <2>5. Counted'
    BY <2>1, <2>2, FS_AddElement DEF Counted
  <2> QED
    BY <2>4, <2>5
<1>7. ASSUME NEW p \in Pages, Disconnect(p) \/ Leave(p)
      PROVE  Registered' /\ Counted'
  <2>1. \A u \in Streams : stream'[u].pc = stream[u].pc
    <3>1. \A t \in Streams, u \in Streams : Cut(t)[u].pc = stream[u].pc
      BY DEF Cut, Types, Stream
    <3>2. page[p].conn \in Streams \cup {NoStream}
      BY DEF Types, Page
    <3> QED
      BY <1>7, <3>1, <3>2 DEF Disconnect, Leave
  <2> QED
    BY <1>2, <1>7, <2>1 DEF Disconnect, Leave
<1>8. CASE UNCHANGED <<stream, listeners, gauge>>
  BY <1>2, <1>8
<1> QED
  BY <1>1, <1>3, <1>4, <1>5, <1>6, <1>7, <1>8
  DEF Next, Submit, Post, Open, LoadFails, PostReturns, PostFails, Answer, vars

-----------------------------------------------------------------------------
(* Queues. *)

\* What NoGaps says of one queue.
Tight(st, n) ==
  /\ Len(st.queue) + st.since <= n
  /\ \A k \in 1..Len(st.queue) : st.queue[k] = n - Len(st.queue) + k

LEMMA NoGapsByQueue == NoGaps <=> \A t \in listeners : Tight(stream[t], Len(log))
  BY DEF NoGaps, Tight

LEMMA TightAppend ==
  ASSUME NEW st \in Stream, NEW n \in Nat, Tight(st, n)
  PROVE  Tight([st EXCEPT !.queue = Append(@, n + 1)], n + 1)
<1> DEFINE q == Append(st.queue, n + 1)
<1>1. st.queue \in Seq(Nat) /\ st.since \in Nat
  BY DEF Stream
<1>2. Len(q) = Len(st.queue) + 1 /\ Len(st.queue) \in Nat
  BY <1>1
<1>3. \A k \in 1..Len(st.queue) : q[k] = st.queue[k]
  BY <1>1
<1>4. q[Len(st.queue) + 1] = n + 1
  BY <1>1
<1>5. [st EXCEPT !.queue = q].queue = q /\ [st EXCEPT !.queue = q].since = st.since
  BY DEF Stream
<1>6. \A k \in 1..Len(q) : q[k] = (n + 1) - Len(q) + k
  <2> SUFFICES ASSUME NEW k \in 1..Len(q)
               PROVE  q[k] = (n + 1) - Len(q) + k
    OBVIOUS
  <2>1. CASE k = Len(st.queue) + 1
    BY <1>2, <1>4, <2>1
  <2>2. CASE k # Len(st.queue) + 1
    <3>1. k \in 1..Len(st.queue)
      BY <1>2, <2>2
    <3>2. q[k] = n - Len(st.queue) + k
      BY <1>3, <3>1 DEF Tight
    <3>3. (n + 1) - Len(q) + k = n - Len(st.queue) + k
      <4> HIDE DEF q
      <4> QED
        BY <1>2, <3>1
    <3> QED
      BY <3>2, <3>3
  <2> QED
    BY <2>1, <2>2
<1>7. Len(q) + st.since <= n + 1
  BY <1>1, <1>2 DEF Tight
<1> QED
  BY <1>5, <1>6, <1>7 DEF Tight

LEMMA TightTail ==
  ASSUME NEW st \in Stream, NEW n \in Nat, Tight(st, n), st.queue # <<>>
  PROVE  /\ Tight([st EXCEPT !.queue = Tail(@)], n)
         /\ Head(st.queue) = n - Len(st.queue) + 1
         /\ Len(st.queue) \in 1..n
<1> DEFINE q == Tail(st.queue)
<1>1. st.queue \in Seq(Nat) /\ st.since \in Nat
  BY DEF Stream
<1>2. Len(q) = Len(st.queue) - 1 /\ Len(st.queue) \in Nat \ {0}
  BY <1>1
<1>3. \A k \in 1..Len(q) : q[k] = st.queue[k + 1]
  BY <1>1
<1>4. [st EXCEPT !.queue = q].queue = q /\ [st EXCEPT !.queue = q].since = st.since
  BY DEF Stream
<1>5. \A k \in 1..Len(q) : k + 1 \in 1..Len(st.queue) /\ st.queue[k + 1] = n - Len(q) + k
  <2> SUFFICES ASSUME NEW k \in 1..Len(q)
               PROVE  k + 1 \in 1..Len(st.queue) /\ st.queue[k + 1] = n - Len(q) + k
    OBVIOUS
  <2> HIDE DEF q
  <2>1. k + 1 \in 1..Len(st.queue)
    BY <1>2
  <2>2. st.queue[k + 1] = n - Len(st.queue) + (k + 1)
    BY <2>1 DEF Tight
  <2>3. \A a, b \in Int : a = b - 1 => n - b + (k + 1) = n - a + k
    BY <1>2
  <2>4. Len(q) \in Int /\ Len(st.queue) \in Int /\ Len(q) = Len(st.queue) - 1
    BY <1>2
  <2> QED
    BY <2>1, <2>2, <2>3, <2>4
<1>6. Tight([st EXCEPT !.queue = q], n)
  BY <1>1, <1>2, <1>3, <1>4, <1>5 DEF Tight
<1>7. Head(st.queue) = st.queue[1] /\ 1 \in 1..Len(st.queue)
  BY <1>1, <1>2
<1> QED
  BY <1>1, <1>2, <1>6, <1>7 DEF Tight

LEMMA QueueStep ==
  ASSUME Types, Registered, NoGaps, [Next]_vars
  PROVE  NoGaps'
<1>0. Len(log) \in Nat /\ \A t \in Streams : stream[t] \in Stream
  BY DEF Types
<1>1. \A t \in listeners : t \in Streams /\ Tight(stream[t], Len(log))
  BY NoGapsByQueue DEF Types
<1>2. SUFFICES \A t \in listeners' : Tight(stream'[t], Len(log'))
  BY DEF NoGaps, Tight
<1>3. CASE Restart
  BY <1>3 DEF Restart
<1>4. ASSUME NEW s, Commit(s)
      PROVE  \A t \in listeners' : Tight(stream'[t], Len(log'))
  <2>1. Len(log') = Len(log) + 1 /\ listeners' = listeners
    BY <1>4 DEF Commit, Types
  <2>2. \A t \in listeners : stream'[t] = [stream[t] EXCEPT !.queue = Append(@, Len(log) + 1)]
    BY <1>1, <1>4 DEF Commit, Broadcast, Queued
  <2>3. ASSUME NEW t \in listeners
        PROVE  Tight(stream'[t], Len(log) + 1)
    <3>1. stream[t] \in Stream /\ Tight(stream[t], Len(log))
      BY <1>0, <1>1
    <3>2. Tight([stream[t] EXCEPT !.queue = Append(@, Len(log) + 1)], Len(log) + 1)
      BY <1>0, <3>1, TightAppend
    <3> QED
      BY <2>2, <3>2
  <2> QED
    BY <2>1, <2>3
<1>5. ASSUME listeners' \subseteq listeners, UNCHANGED log,
             \A t \in listeners' : /\ stream'[t].queue = stream[t].queue
                                   /\ stream'[t].since = stream[t].since
      PROVE  \A t \in listeners' : Tight(stream'[t], Len(log'))
  BY <1>1, <1>5 DEF Tight
<1>6. ASSUME NEW t \in Streams, Start(t) \/ Abandon(t)
      PROVE  \A u \in listeners' : Tight(stream'[u], Len(log'))
  <2>1. \A u \in Streams : stream'[u].queue = stream[u].queue /\ stream'[u].since = stream[u].since
    <3>1. CASE Start(t)
      BY <1>0, <3>1 DEF Start, Types, Stream
    <3>2. CASE Abandon(t)
      BY <1>0, <3>2 DEF Abandon, Types, Stream
    <3> QED
      BY <1>6, <3>1, <3>2
  <2>2. UNCHANGED <<log, listeners>>
    BY <1>6 DEF Start, Abandon
  <2> QED
    BY <1>1, <1>5, <2>1, <2>2
<1>7. ASSUME NEW t \in Streams, Unsubscribe(t)
      PROVE  \A u \in listeners' : Tight(stream'[u], Len(log'))
  <2>1. listeners' = listeners \ {t} /\ UNCHANGED log
    BY <1>7 DEF Unsubscribe
  <2>2. \A u \in listeners' : stream'[u] = stream[u]
    BY <1>1, <1>7, <2>1 DEF Unsubscribe, Types
  <2> QED
    BY <1>5, <2>1, <2>2
<1>8. ASSUME NEW t \in Streams, Deliver(t)
      PROVE  \A u \in listeners' : Tight(stream'[u], Len(log'))
  <2>1. stream'[t] = [stream[t] EXCEPT !.queue = Tail(@)] /\ stream[t].queue # <<>>
    BY <1>8 DEF Deliver, Types
  <2>2. \A u \in Streams \ {t} : stream'[u] = stream[u]
    BY <1>8 DEF Deliver, Types
  <2>3. UNCHANGED <<log, listeners>>
    BY <1>8 DEF Deliver
  <2>4. t \in listeners => Tight(stream'[t], Len(log))
    BY <1>0, <1>1, <2>1, TightTail
  <2> QED
    BY <1>1, <2>2, <2>3, <2>4
<1>9. ASSUME NEW p \in Pages, Disconnect(p) \/ Leave(p)
      PROVE  \A u \in listeners' : Tight(stream'[u], Len(log'))
  <2>1. \A t \in Streams, u \in Streams :
          Cut(t)[u].queue = stream[u].queue /\ Cut(t)[u].since = stream[u].since
    BY DEF Cut, Types, Stream
  <2>2. page[p].conn \in Streams \cup {NoStream}
    BY DEF Types, Page
  <2>3. UNCHANGED <<log, listeners>>
    BY <1>9 DEF Disconnect, Leave
  <2> QED
    BY <1>1, <1>5, <1>9, <2>1, <2>2, <2>3 DEF Disconnect, Leave
<1>10. ASSUME NEW p \in Pages, NEW t \in Streams, Subscribe(p, t)
       PROVE  \A u \in listeners' : Tight(stream'[u], Len(log'))
  <2>1. stream'[t].queue = <<>> /\ stream'[t].since = Len(log)
    BY <1>10 DEF Subscribe, Types
  <2>2. listeners' = listeners \cup {t} /\ UNCHANGED log /\ \A u \in Streams \ {t} : stream'[u] = stream[u]
    BY <1>10 DEF Subscribe, Types
  <2>3. Tight(stream'[t], Len(log))
    BY <1>0, <2>1 DEF Tight
  <2> QED
    BY <1>1, <2>2, <2>3
<1>11. CASE UNCHANGED <<stream, listeners, log>>
  BY <1>1, <1>11
<1> QED
  BY <1>3, <1>4, <1>6, <1>7, <1>8, <1>9, <1>10, <1>11
  DEF Next, Submit, Post, Open, LoadFails, PostReturns, PostFails, Answer, vars

LEMMA NoGapsIsShort == NoGaps => Short
  BY DEF NoGaps, Short

-----------------------------------------------------------------------------
(* What a page lists. *)

\* The latest of the submissions of a score exists: naturals are well-founded.
LEMMA LatestExists ==
  ASSUME NEW n \in Nat, NEW T, T \subseteq 1..n, T # {}
  PROVE  \E j \in T : \A k \in T : k <= j
<1> DEFINE S == {n - j : j \in T}
<1>0. \A j \in T : j \in Nat /\ j <= n /\ n - j \in Nat
  OBVIOUS
<1>1. S \subseteq Nat /\ S # {}
  BY <1>0
<1>2. \E x \in S : \A y \in S : ~(<<y, x>> \in OpToRel(<, Nat))
  BY <1>1, NatLessThanWellFounded, WFMin
<1>3. PICK x \in S : \A y \in S : ~(<<y, x>> \in OpToRel(<, Nat))
  BY <1>2
<1>4. \A y \in S : ~(y < x)
  BY <1>1, <1>3 DEF OpToRel
<1>5. PICK j \in T : x = n - j
  BY <1>3
<1>6. \A k \in T : ~(n - k < n - j)
  BY <1>4, <1>5
<1>7. \A k \in T : k <= j
  BY <1>0, <1>6
<1> QED
  BY <1>7

\* The answer as of n submissions lists each score in them that p may see, and once.
LEMMA ListingComplete ==
  ASSUME Types, NEW p \in Pages, NEW n \in 0..Len(log)
  PROVE  /\ Listing(p, n) \subseteq 1..n
         /\ \A i, j \in Listing(p, n) : log[i] = log[j] => i = j
         /\ \A i \in 1..n : log[i] \in Sees[p] => \E j \in Listing(p, n) : log[j] = log[i]
<1>1. \A i, j \in Listing(p, n) : log[i] = log[j] => i = j
  <2> SUFFICES ASSUME NEW i \in Listing(p, n), NEW j \in Listing(p, n), log[i] = log[j]
               PROVE  ~(i < j)
    BY DEF Listing
  <2> QED
    BY DEF Listing
<1>2. ASSUME NEW i \in 1..n, log[i] \in Sees[p]
      PROVE  \E j \in Listing(p, n) : log[j] = log[i]
  <2> DEFINE T == {j \in 1..n : log[j] = log[i]}
  <2>1. T \subseteq 1..n /\ T # {} /\ n \in Nat
    BY DEF Types
  <2>2. PICK j \in T : \A k \in T : k <= j
    BY <2>1, LatestExists
  <2>3. \A k \in (j + 1)..n : log[k] # log[j]
    BY <2>1, <2>2
  <2> QED
    BY <1>2, <2>2, <2>3 DEF Listing
<1> QED
  BY <1>1, <1>2 DEF Listing

LinesOf(p) ==
  /\ page[p].rows \subseteq 1..Len(log)
  /\ page[p].asof <= Len(log)
  /\ page[p].loaded => \A i \in 1..page[p].asof : log[i] \in Sees[p] => Listed(p, i)
  /\ \A i, j \in page[p].rows : log[i] = log[j] => i = j

\* NothingMissed for one page, in terms of what its stream has told.
MissesNothing(p) ==
  AnsweredInOrder(p) =>
    \A i \in 1..Len(log) : log[i] \in Sees[p] => Listed(p, i) \/ i > Heard(p)

LEMMA OnItsWayIsUnheard ==
  ASSUME Types, Connections, Registered, NoGaps, NEW p \in Pages, page[p].conn # NoStream,
         NEW i \in 1..Len(log)
  PROVE  OnItsWay(p, i) <=> i > Heard(p)
<1> DEFINE q == stream[page[p].conn].queue
<1>1. page[p].conn \in listeners /\ Tight(stream[page[p].conn], Len(log)) /\ Len(q) \in Nat
      /\ q \in Seq(Nat) /\ Len(log) \in Nat
  BY ConnQueue, NoGapsIsShort, NoGapsByQueue DEF Types, Stream
<1>2. Heard(p) = Len(log) - Len(q)
  BY DEF Heard
<1>3. Range(q) = {q[k] : k \in 1..Len(q)}
  BY <1>1 DEF Range
<1>4. OnItsWay(p, i) <=> \E k \in 1..Len(q) : i = q[k]
  BY <1>3 DEF OnItsWay
<1>5. \A k \in 1..Len(q) : q[k] = Len(log) - Len(q) + k
  BY <1>1 DEF Tight
<1>6. ASSUME i > Len(log) - Len(q)
      PROVE  \E k \in 1..Len(q) : i = q[k]
  <2>1. i - (Len(log) - Len(q)) \in 1..Len(q)
    BY <1>1, <1>6
  <2>2. q[i - (Len(log) - Len(q))] = i
    <3>1. \A k \in 1..Len(q) : k = i - (Len(log) - Len(q)) => Len(log) - Len(q) + k = i
      <4> HIDE DEF q
      <4> QED
        BY <1>1
    <3> QED
      BY <1>5, <2>1, <3>1
  <2> QED
    BY <2>1, <2>2
<1>7. ASSUME NEW k \in 1..Len(q), i = q[k]
      PROVE  i > Len(log) - Len(q)
  <2>1. i = Len(log) - Len(q) + k
    BY <1>5, <1>7
  <2> HIDE DEF q
  <2> QED
    BY <1>1, <2>1
<1> QED
  BY <1>2, <1>4, <1>6, <1>7

LEMMA NothingMissedByPage ==
  ASSUME Types, Connections, Registered, NoGaps
  PROVE  NothingMissed <=> \A p \in Pages : MissesNothing(p)
<1>1. \A p \in Pages, i \in 1..Len(log) :
        AnsweredInOrder(p) => (OnItsWay(p, i) <=> i > Heard(p))
  BY OnItsWayIsUnheard DEF AnsweredInOrder
<1> QED
  BY <1>1 DEF NothingMissed, MissesNothing

\* The log never loses a submission, and what a page lists depends on its own only.
Extends == log' = log \/ \E s \in Scores : log' = Append(log, s)

LEMMA LogExtends ==
  ASSUME Types, Extends
  PROVE  /\ Len(log) \in Nat /\ Len(log') \in Nat
         /\ Len(log) <= Len(log') /\ Len(log') <= Len(log) + 1
         /\ \A i \in 1..Len(log) : log'[i] = log[i]
<1>1. CASE log' = log
  BY <1>1 DEF Types
<1>2. ASSUME NEW s \in Scores, log' = Append(log, s)
      PROVE  /\ Len(log') = Len(log) + 1
             /\ \A i \in 1..Len(log) : log'[i] = log[i]
  BY <1>2 DEF Types
<1>3. Len(log) \in Nat
  BY DEF Types
<1> QED
  BY <1>1, <1>2, <1>3 DEF Extends

LEMMA LinesKept ==
  ASSUME Types, Extends, NEW p \in Pages, LinesOf(p),
         page'[p].rows = page[p].rows, page'[p].asof = page[p].asof,
         page'[p].loaded = page[p].loaded
  PROVE  /\ LinesOf(p)'
         /\ \A i \in 1..Len(log) : Listed(p, i)' <=> Listed(p, i)
<1>1. page[p].asof \in Nat /\ page[p].rows \subseteq 1..Len(log)
  BY DEF Types, Page, LinesOf
<1>2. Shown(p)' = Shown(p)
  BY <1>1, LogExtends DEF Shown
<1>3. \A i \in 1..Len(log) : Listed(p, i)' <=> Listed(p, i)
  BY <1>2, LogExtends DEF Listed
<1>4. page[p].rows \subseteq 1..Len(log')
  BY <1>1, LogExtends
<1>5. 1..page[p].asof \subseteq 1..Len(log) /\ page[p].asof <= Len(log')
  BY <1>1, LogExtends DEF LinesOf
<1>6. page[p].loaded => \A i \in 1..page[p].asof : log'[i] \in Sees[p] => Listed(p, i)'
  BY <1>3, <1>5, LogExtends DEF LinesOf
<1>7. \A i, j \in page[p].rows : log'[i] = log'[j] => i = j
  BY <1>1, LogExtends DEF LinesOf
<1> QED
  BY <1>3, <1>4, <1>5, <1>6, <1>7 DEF LinesOf

\* A page that keeps its lines and its stream, which told it nothing in between.
LEMMA PageKept ==
  ASSUME Types, Extends, NEW p \in Pages, LinesOf(p), MissesNothing(p),
         page'[p].rows = page[p].rows, page'[p].asof = page[p].asof,
         page'[p].loaded = page[p].loaded, page'[p].heard = page[p].heard,
         page'[p].conn = page[p].conn,
         page[p].conn # NoStream =>
           /\ stream'[page[p].conn].since = stream[page[p].conn].since
           /\ Heard(p)' = Heard(p)
           /\ Heard(p) \in 0..Len(log)
  PROVE  LinesOf(p)' /\ MissesNothing(p)'
<1>1. LinesOf(p)' /\ \A i \in 1..Len(log) : Listed(p, i)' <=> Listed(p, i)
  BY LinesKept
<1>2. AnsweredInOrder(p)' => AnsweredInOrder(p) /\ Heard(p)' = Heard(p) /\ Heard(p) \in 0..Len(log)
  BY DEF AnsweredInOrder
<1>3. ASSUME AnsweredInOrder(p)', NEW i \in 1..Len(log'), log'[i] \in Sees[p]
      PROVE  Listed(p, i)' \/ i > Heard(p)'
  <2>1. CASE i \in 1..Len(log)
    <3>1. log[i] \in Sees[p]
      BY <1>3, <2>1, LogExtends
    <3> QED
      BY <1>1, <1>2, <1>3, <2>1, <3>1 DEF MissesNothing
  <2>2. CASE i \notin 1..Len(log)
    <3>1. i > Len(log)
      BY <2>2, LogExtends
    <3> QED
      BY <1>2, <1>3, <3>1, LogExtends
  <2> QED
    BY <2>1, <2>2
<1> QED
  BY <1>1, <1>3 DEF MissesNothing

\* A page without a stream is promised nothing.
LEMMA PageAlone ==
  ASSUME NEW p \in Pages, page'[p].conn = NoStream
  PROVE  MissesNothing(p)'
  BY DEF MissesNothing, AnsweredInOrder

LEMMA HeardBounds ==
  ASSUME Types, Connections, Registered, NoGaps, NEW p \in Pages, page[p].conn # NoStream
  PROVE  /\ Heard(p) = Len(log) - Len(stream[page[p].conn].queue)
         /\ Heard(p) \in 0..Len(log)
         /\ Heard(p) >= stream[page[p].conn].since
<1>1. /\ stream[page[p].conn] \in Stream
      /\ Len(stream[page[p].conn].queue) \in Nat
      /\ Len(stream[page[p].conn].queue) + stream[page[p].conn].since <= Len(log)
  BY ConnQueue, NoGapsIsShort
<1>2. stream[page[p].conn].since \in Nat /\ Len(log) \in Nat
  BY <1>1 DEF Stream, Types
<1>3. Heard(p) = Len(log) - Len(stream[page[p].conn].queue)
  BY DEF Heard
<1> QED
  BY <1>1, <1>2, <1>3

-----------------------------------------------------------------------------
(* The steps, as one page sees them. *)

IInv ==
  /\ Types /\ Connections /\ Registered /\ Counted /\ NoGaps
  /\ \A p \in Pages : LinesOf(p) /\ MissesNothing(p)

\* Whatever leaves a page and the queue of its stream alone.
LEMMA Untouched ==
  ASSUME IInv, NEW p \in Pages, page'[p] = page[p], UNCHANGED log,
         page[p].conn # NoStream =>
           /\ stream'[page[p].conn].since = stream[page[p].conn].since
           /\ stream'[page[p].conn].queue = stream[page[p].conn].queue
  PROVE  LinesOf(p)' /\ MissesNothing(p)'
<1>1. page[p].conn # NoStream => Heard(p)' = Heard(p) /\ Heard(p) \in 0..Len(log)
  BY HeardBounds DEF IInv, Heard
<1> QED
  BY <1>1, PageKept DEF IInv, Extends

LEMMA CommitPages ==
  ASSUME IInv, NEW s \in Scores, Commit(s), NEW p \in Pages,
         page'[p].rows = page[p].rows, page'[p].asof = page[p].asof,
         page'[p].loaded = page[p].loaded, page'[p].heard = page[p].heard,
         page'[p].conn = page[p].conn
  PROVE  LinesOf(p)' /\ MissesNothing(p)'
<1>1. log' = Append(log, s)
  BY DEF Commit
<1>2. ASSUME page[p].conn # NoStream
      PROVE  /\ stream'[page[p].conn].since = stream[page[p].conn].since
             /\ Heard(p)' = Heard(p)
             /\ Heard(p) \in 0..Len(log)
  <2> DEFINE t == page[p].conn
  <2>1. t \in Streams /\ t \in listeners /\ stream[t] \in Stream
    BY <1>2, ConnQueue, NoGapsIsShort DEF IInv
  <2>2. stream'[t] = Queued(t, Len(log) + 1)
    BY <2>1 DEF Commit, Broadcast
  <2>3. /\ stream'[t].since = stream[t].since
        /\ stream'[t].queue = Append(stream[t].queue, Len(log) + 1)
    BY <2>1, <2>2 DEF Queued, Stream
  <2>4. Len(stream'[t].queue) = Len(stream[t].queue) + 1 /\ Len(log') = Len(log) + 1
        /\ Len(stream[t].queue) \in Nat /\ Len(log) \in Nat
    BY <1>1, <2>1, <2>3 DEF Stream, IInv, Types
  <2>5. Heard(p)' = Len(log') - Len(stream'[t].queue) /\ Heard(p) = Len(log) - Len(stream[t].queue)
    BY <1>2 DEF Heard
  <2>6. Len(log') - Len(stream'[t].queue) = Len(log) - Len(stream[t].queue)
    BY <2>4
  <2>7. Heard(p) \in 0..Len(log)
    BY <1>2, HeardBounds DEF IInv
  <2> QED
    BY <2>3, <2>5, <2>6, <2>7
<1> QED
  BY <1>1, <1>2, PageKept DEF IInv, Extends

LEMMA DeliverPages ==
  ASSUME IInv, NEW t \in Streams, Deliver(t), NEW p \in Pages
  PROVE  LinesOf(p)' /\ MissesNothing(p)'
<1>1. UNCHANGED log /\ stream' = [stream EXCEPT ![t].queue = Tail(@)] /\ stream[t].queue # <<>>
  BY DEF Deliver
<1>2. CASE page[p].conn # t
  <2>1. page'[p] = page[p]
    BY <1>2 DEF Deliver
  <2>2. \A u \in Streams \ {t} : stream'[u] = stream[u]
    BY <1>1 DEF IInv, Types
  <2>3. page[p].conn \in Streams \cup {NoStream}
    BY DEF IInv, Types, Page
  <2> QED
    BY <1>1, <1>2, <2>1, <2>2, <2>3, Untouched
<1>3. CASE page[p].conn = t
  <2> DEFINE i == Head(stream[t].queue)
  <2>1. stream[t] \in Stream /\ t \in listeners /\ t # NoStream /\ Len(log) \in Nat /\ page[p] \in Page
    BY <1>3, ConnQueue, NoGapsIsShort, NoStreamIsNone DEF IInv, Types
  <2>2. Tight(stream[t], Len(log))
    BY <2>1, NoGapsByQueue DEF IInv
  <2>3. i = Len(log) - Len(stream[t].queue) + 1 /\ Len(stream[t].queue) \in 1..Len(log)
    BY <1>1, <2>1, <2>2, TightTail
  <2>7. page'[p] = Merge(p, i)
    BY <1>3 DEF Deliver
  <2> HIDE DEF i
  <2>4. Heard(p) = Len(log) - Len(stream[t].queue) /\ i = Heard(p) + 1 /\ i \in 1..Len(log)
    BY <1>3, <2>1, <2>3 DEF Heard
  <2>5. stream'[t].queue = Tail(stream[t].queue) /\ stream'[t].since = stream[t].since
    BY <1>1, <2>1 DEF IInv, Types, Stream
  <2>6. Len(stream'[t].queue) = Len(stream[t].queue) - 1
    <3>1. stream[t].queue \in Seq(Nat)
      BY <2>1 DEF Stream
    <3>2. \A q \in Seq(Nat) : q # <<>> => Len(Tail(q)) = Len(q) - 1
      OBVIOUS
    <3> QED
      BY <1>1, <2>5, <3>1, <3>2
  <2>8. page'[p].conn = t /\ page'[p].asof = page[p].asof /\ page'[p].heard = page[p].heard
        /\ page'[p].loaded = page[p].loaded
    BY <1>3, <2>1, <2>7 DEF Merge, Page
  <2>9. Heard(p)' = i
    <3>1. Heard(p)' = Len(log) - Len(stream'[t].queue)
      BY <1>1, <2>1, <2>8 DEF Heard
    <3>2. Len(stream[t].queue) \in Nat
      BY <2>3
    <3> QED
      BY <2>1, <2>3, <2>6, <3>1, <3>2
  <2>10. /\ page[p].rows \subseteq page'[p].rows
         /\ page'[p].rows \subseteq page[p].rows \cup {i}
         /\ i \in page'[p].rows => i \in page[p].rows \/ log[i] \notin Shown(p)
         /\ page[p].loaded => log[i] \in Shown(p)'
    BY <1>1, <2>1, <2>7 DEF Merge, Page, Shown
  <2>11. LinesOf(p)
    BY DEF IInv
  <2>12. page'[p].rows \subseteq 1..Len(log)
    BY <2>4, <2>10, <2>11 DEF LinesOf
  <2>13. \A j \in 1..Len(log) : Listed(p, j) => Listed(p, j)'
    BY <1>1, <2>10 DEF Listed, Shown
  <2>14. \A j, k \in page'[p].rows : log[j] = log[k] => j = k
    BY <2>10, <2>11 DEF LinesOf, Shown
  <2>15. LinesOf(p)'
    <3>1. page[p].asof <= Len(log) /\ 1..page[p].asof \subseteq 1..Len(log)
      BY <2>1, <2>11 DEF LinesOf, Page
    <3>2. page[p].loaded => \A j \in 1..page[p].asof : log[j] \in Sees[p] => Listed(p, j)'
      BY <2>11, <2>13, <3>1 DEF LinesOf
    <3> QED
      BY <1>1, <2>8, <2>12, <2>14, <3>1, <3>2 DEF LinesOf
  <2>16. AnsweredInOrder(p)' => AnsweredInOrder(p)
    BY <1>3, <2>5, <2>8 DEF AnsweredInOrder
  <2>17. ASSUME AnsweredInOrder(p)', NEW j \in 1..Len(log), log[j] \in Sees[p]
         PROVE  Listed(p, j)' \/ j > Heard(p)'
    <3>1. Listed(p, j) \/ j > Heard(p)
      BY <2>16, <2>17 DEF MissesNothing, IInv
    <3>2. CASE Listed(p, j)
      BY <2>13, <3>2
    <3>3. CASE j > Heard(p) /\ j # i
      <4>1. Heard(p) \in Int /\ i = Heard(p) + 1
        BY <2>1, <2>3, <2>4
      <4> QED
        BY <2>9, <3>3, <4>1
    <3>4. CASE j = i
      BY <1>1, <2>10, <2>16, <2>17, <3>4 DEF Listed, AnsweredInOrder
    <3> QED
      BY <3>1, <3>2, <3>3, <3>4
  <2> QED
    BY <1>1, <2>15, <2>17 DEF MissesNothing
<1> QED
  BY <1>2, <1>3

LEMMA AnswerPages ==
  ASSUME IInv, NEW p \in Pages, NEW n \in 0..Len(log), Answer(p, n)
  PROVE  LinesOf(p)' /\ MissesNothing(p)'
<1>1. page[p] \in Page /\ Len(log) \in Nat
  BY DEF IInv, Types
<1>2. /\ page'[p].loaded /\ page'[p].rows = Listing(p, n) /\ page'[p].asof = n
      /\ page'[p].heard = Heard(p) /\ page'[p].conn = page[p].conn
  BY <1>1 DEF Answer, IInv, Types, Page
<1>3. UNCHANGED <<log, stream>>
  BY DEF Answer
<1>4. /\ Listing(p, n) \subseteq 1..n
      /\ \A i, j \in Listing(p, n) : log[i] = log[j] => i = j
      /\ \A i \in 1..n : log[i] \in Sees[p] => \E j \in Listing(p, n) : log[j] = log[i]
  BY ListingComplete DEF IInv
<1>5. \A i \in 1..n : log[i] \in Sees[p] => Listed(p, i)'
  BY <1>2, <1>3, <1>4 DEF Listed, Shown
<1>6. LinesOf(p)'
  BY <1>1, <1>2, <1>3, <1>4, <1>5 DEF LinesOf
<1>7. Heard(p)' = Heard(p)
  BY <1>2, <1>3 DEF Heard
<1>8. ASSUME AnsweredInOrder(p)', NEW i \in 1..Len(log), log[i] \in Sees[p]
      PROVE  Listed(p, i)' \/ i > Heard(p)'
  <2>1. n >= Heard(p) /\ page[p].conn # NoStream
    BY <1>2, <1>3, <1>8 DEF AnsweredInOrder
  <2>2. Heard(p) \in Nat
    BY <2>1, HeardBounds DEF IInv
  <2>3. CASE i <= n
    BY <1>1, <1>5, <1>8, <2>3
  <2>4. CASE i > n
    BY <1>1, <1>7, <2>1, <2>2, <2>4
  <2> QED
    BY <1>1, <2>3, <2>4
<1> QED
  BY <1>3, <1>6, <1>8 DEF MissesNothing

LEMMA SubscribePages ==
  ASSUME IInv, NEW p \in Pages, NEW t \in Streams, Subscribe(p, t)
  PROVE  LinesOf(p)' /\ MissesNothing(p)'
<1>1. page[p] \in Page /\ Len(log) \in Nat /\ UNCHANGED log
  BY DEF IInv, Types, Subscribe
<1>2. /\ page'[p].conn = t /\ page'[p].rows = page[p].rows /\ page'[p].asof = page[p].asof
      /\ page'[p].loaded = page[p].loaded
  BY <1>1 DEF Subscribe, IInv, Types, Page
<1>3. stream'[t].since = Len(log)
  BY DEF Subscribe, IInv, Types
<1>4. LinesOf(p)' /\ \A i \in 1..Len(log) : Listed(p, i)' <=> Listed(p, i)
  BY <1>1, <1>2, LinesKept DEF IInv, Extends
<1>5. ASSUME AnsweredInOrder(p)', NEW i \in 1..Len(log), log[i] \in Sees[p]
      PROVE  Listed(p, i)'
  <2>1. page[p].loaded /\ page[p].asof >= Len(log) /\ page[p].asof \in Nat
    BY <1>1, <1>2, <1>3, <1>5 DEF AnsweredInOrder, Page
  <2>2. i \in 1..page[p].asof
    BY <1>1, <2>1
  <2>3. Listed(p, i)
    BY <1>5, <2>1, <2>2 DEF IInv, LinesOf
  <2> QED
    BY <1>4, <2>3
<1> QED
  BY <1>1, <1>4, <1>5 DEF MissesNothing

LEMMA PagesStep ==
  ASSUME IInv, [Next]_vars, NEW q \in Pages
  PROVE  LinesOf(q)' /\ MissesNothing(q)'
<1>0. page \in [Pages -> Page] /\ page[q] \in Page /\ page[q].conn \in Streams \cup {NoStream}
  BY DEF IInv, Types, Page
<1>1. CASE Restart
  <2>1. Extends
    BY <1>1 DEF Restart, Extends
  <2>2. /\ page'[q].conn = NoStream /\ page'[q].rows = page[q].rows
        /\ page'[q].asof = page[q].asof /\ page'[q].loaded = page[q].loaded
    BY <1>0, <1>1 DEF Restart, Page
  <2> QED
    BY <2>1, <2>2, LinesKept, PageAlone DEF IInv
<1>2. ASSUME NEW s \in Scores, Submit(s)
      PROVE  LinesOf(q)' /\ MissesNothing(q)'
  BY <1>2, CommitPages DEF Submit
<1>3. ASSUME NEW t \in Streams, Start(t) \/ Unsubscribe(t) \/ Abandon(t)
      PROVE  LinesOf(q)' /\ MissesNothing(q)'
  <2>1. UNCHANGED <<log, page>>
    BY <1>3 DEF Start, Unsubscribe, Abandon
  <2>2. ASSUME page[q].conn # NoStream
        PROVE  /\ stream'[page[q].conn].since = stream[page[q].conn].since
               /\ stream'[page[q].conn].queue = stream[page[q].conn].queue
    <3>1. page[q].conn \in Streams /\ ~stream[page[q].conn].cut
      BY <1>0, <2>2 DEF IInv, Connections
    <3>2. CASE Start(t)
      BY <3>1, <3>2 DEF Start, IInv, Types, Stream
    <3>3. CASE Unsubscribe(t) \/ Abandon(t)
      <4>1. page[q].conn # t
        BY <3>1, <3>3 DEF Unsubscribe, Abandon
      <4> QED
        BY <3>1, <3>3, <4>1 DEF Unsubscribe, Abandon, IInv, Types
    <3> QED
      BY <1>3, <3>2, <3>3
  <2> QED
    BY <2>1, <2>2, Untouched
<1>4. ASSUME NEW t \in Streams, Deliver(t)
      PROVE  LinesOf(q)' /\ MissesNothing(q)'
  BY <1>4, DeliverPages
<1>5. ASSUME NEW p \in Pages, p # q, page' = [page EXCEPT ![p] = page'[p]], UNCHANGED log,
             \A t \in Streams \ {page[p].conn} :
               page[q].conn = t => stream'[t].queue = stream[t].queue /\ stream'[t].since = stream[t].since
      PROVE  LinesOf(q)' /\ MissesNothing(q)'
  <2>1. page'[q] = page[q]
    BY <1>0, <1>5
  <2>2. page[q].conn # NoStream => page[q].conn \in Streams \ {page[p].conn}
    BY <1>0, <1>5 DEF IInv, Connections
  <2> QED
    BY <1>5, <2>1, <2>2, Untouched
<1>6. ASSUME NEW p \in Pages, Disconnect(p) \/ Leave(p)
      PROVE  LinesOf(q)' /\ MissesNothing(q)'
  <2>1. UNCHANGED log /\ page' = [page EXCEPT ![p] = page'[p]]
    BY <1>0, <1>6 DEF Disconnect, Leave
  <2>2. \A t \in Streams \ {page[p].conn} : stream'[t] = stream[t]
    BY <1>6 DEF Disconnect, Leave, Cut, IInv, Types
  <2>3. CASE p # q
    BY <1>5, <2>1, <2>2, <2>3
  <2>4. CASE p = q /\ Disconnect(p)
    <3>1. /\ page'[q].conn = NoStream /\ page'[q].rows = page[q].rows
          /\ page'[q].asof = page[q].asof /\ page'[q].loaded = page[q].loaded
      BY <1>0, <2>4 DEF Disconnect, Page
    <3> QED
      BY <2>1, <3>1, LinesKept, PageAlone DEF IInv, Extends
  <2>5. CASE p = q /\ Leave(p)
    <3>1. /\ page'[q].conn = NoStream /\ page'[q].rows = {} /\ page'[q].asof = 0
          /\ ~page'[q].loaded
      BY <1>0, <2>5 DEF Leave, Closed
    <3>2. Len(log) \in Nat
      BY DEF IInv, Types
    <3> QED
      BY <2>1, <3>1, <3>2, PageAlone DEF LinesOf
  <2> QED
    BY <1>6, <2>3, <2>4, <2>5
<1>7. ASSUME NEW p \in Pages, Open(p)
      PROVE  LinesOf(q)' /\ MissesNothing(q)'
  <2> DEFINE fresh == [Closed EXCEPT !.open = TRUE, !.loads = MountLoads, !.asked = Len(log)]
  <2>1. UNCHANGED <<log, stream>> /\ page' = [page EXCEPT ![p] = fresh]
    BY <1>7 DEF Open
  <2>2. fresh.conn = NoStream /\ fresh.rows = {} /\ fresh.asof = 0 /\ ~fresh.loaded
    BY DEF Closed
  <2>3. CASE p # q
    <3> HIDE DEF fresh
    <3>1. page'[q] = page[q]
      BY <1>0, <2>1, <2>3
    <3> QED
      BY <2>1, <3>1, Untouched
  <2>4. CASE p = q
    <3> HIDE DEF fresh
    <3>1. page'[q] = fresh
      BY <1>0, <2>1, <2>4
    <3>2. Len(log) \in Nat
      BY DEF IInv, Types
    <3> QED
      BY <2>1, <2>2, <3>1, <3>2, PageAlone DEF LinesOf
  <2> QED
    BY <2>3, <2>4
<1>8. ASSUME NEW p \in Pages, LoadFails(p) \/ PostReturns(p) \/ PostFails(p)
      PROVE  LinesOf(q)' /\ MissesNothing(q)'
  <2>1. UNCHANGED <<log, stream>>
    BY <1>8 DEF LoadFails, PostReturns, PostFails
  <2>2. /\ page'[q].conn = page[q].conn /\ page'[q].rows = page[q].rows
        /\ page'[q].asof = page[q].asof /\ page'[q].loaded = page[q].loaded
        /\ page'[q].heard = page[q].heard
    <3>1. CASE LoadFails(p)
      BY <1>0, <3>1 DEF LoadFails, Page
    <3>2. CASE PostReturns(p)
      BY <1>0, <3>2 DEF PostReturns, Page
    <3>3. CASE PostFails(p)
      BY <1>0, <3>3 DEF PostFails, Page
    <3> QED
      BY <1>8, <3>1, <3>2, <3>3
  <2>3. page[q].conn # NoStream => Heard(q)' = Heard(q) /\ Heard(q) \in 0..Len(log)
    BY <2>1, <2>2, HeardBounds DEF Heard, IInv
  <2> QED
    BY <2>1, <2>2, <2>3, PageKept DEF IInv, Extends
<1>9. ASSUME NEW p \in Pages, NEW t \in Streams, Subscribe(p, t)
      PROVE  LinesOf(q)' /\ MissesNothing(q)'
  <2>1. CASE p = q
    BY <1>9, <2>1, SubscribePages
  <2>2. CASE p # q
    <3>1. page' = [page EXCEPT ![p] = page'[p]] /\ UNCHANGED log
      BY <1>0, <1>9 DEF Subscribe
    <3>2. page[q].conn # t
      BY <1>9, NoStreamIsNone DEF Subscribe, IInv, Connections
    <3>3. \A u \in Streams \ {t} : stream'[u] = stream[u]
      BY <1>9 DEF Subscribe, IInv, Types
    <3> QED
      BY <1>5, <2>2, <3>1, <3>2, <3>3
  <2> QED
    BY <2>1, <2>2
<1>10. ASSUME NEW p \in Pages, NEW n \in 0..Len(log), Answer(p, n)
       PROVE  LinesOf(q)' /\ MissesNothing(q)'
  <2>1. CASE p = q
    BY <1>10, <2>1, AnswerPages
  <2>2. CASE p # q
    <3>1. page'[q] = page[q] /\ UNCHANGED <<log, stream>>
      BY <1>0, <1>10, <2>2 DEF Answer
    <3> QED
      BY <3>1, Untouched
  <2> QED
    BY <2>1, <2>2
<1>11. ASSUME NEW p \in Pages, NEW s \in Own[p], Post(p, s)
       PROVE  LinesOf(q)' /\ MissesNothing(q)'
  <2>1. s \in Scores /\ Commit(s)
    BY <1>11, Views DEF Post
  <2>2. /\ page'[q].conn = page[q].conn /\ page'[q].rows = page[q].rows
        /\ page'[q].asof = page[q].asof /\ page'[q].loaded = page[q].loaded
        /\ page'[q].heard = page[q].heard
    BY <1>0, <1>11 DEF Post, Page
  <2> QED
    BY <2>1, <2>2, CommitPages
<1>12. CASE UNCHANGED vars
  BY <1>12, Untouched DEF vars
<1> QED
  BY <1>1, <1>2, <1>3, <1>4, <1>6, <1>7, <1>8, <1>9, <1>10, <1>11, <1>12 DEF Next

-----------------------------------------------------------------------------
(* Theorems. *)

\* The inductive invariant: types, registrations, gauge, queues, and for each page the
\* lines of its last answer and of what its stream has told since.
THEOREM Inductive == Spec => []IInv
<1>1. Init => IInv
  <2> SUFFICES ASSUME Init PROVE IInv
    OBVIOUS
  <2>1. Types /\ Connections
    BY TypesInit
  <2>2. Registered /\ Counted
    BY FS_EmptySet DEF Init, Registered, Counted, Unused
  <2>3. NoGaps
    BY DEF Init, NoGaps
  <2>4. \A p \in Pages : LinesOf(p) /\ MissesNothing(p)
    BY DEF Init, LinesOf, MissesNothing, AnsweredInOrder, Closed
  <2> QED
    BY <2>1, <2>2, <2>3, <2>4 DEF IInv
<1>2. IInv /\ [Next]_vars => IInv'
  <2> SUFFICES ASSUME IInv, [Next]_vars PROVE IInv'
    OBVIOUS
  <2>1. Short
    BY NoGapsIsShort DEF IInv
  <2>2. Types' /\ Connections' /\ Registered' /\ Counted' /\ NoGaps'
    BY <2>1, TypesStep, ConnectionsStep, GaugeStep, QueueStep DEF IInv
  <2>3. \A p \in Pages : LinesOf(p)' /\ MissesNothing(p)'
    BY PagesStep
  <2> QED
    BY <2>2, <2>3 DEF IInv
<1> QED
  BY <1>1, <1>2, PTL DEF Spec

\* Every variable of the stream's model keeps its type, and connections pair up.
THEOREM TypeCorrect == Spec => []TypeOK
<1>1. IInv => TypeOK
  <2> SUFFICES ASSUME IInv PROVE TypeOK
    OBVIOUS
  <2>1. gauge \in Nat
    BY FS_CardinalityType DEF IInv, Counted
  <2> QED
    BY <2>1 DEF IInv, Types, TypeOK
<1> QED
  BY <1>1, Inductive, PTL

\* The gauge counts the queues that listen, whoever comes, goes and restarts.
THEOREM GaugeIsTrue == Spec => []GaugeTruthful
<1>1. IInv => GaugeTruthful
  BY DEF IInv, Counted, Registered, GaugeTruthful
<1> QED
  BY <1>1, Inductive, PTL

\* No queue of a listener has a gap, a duplicate or a message out of order.
THEOREM QueuesHaveNoGaps == Spec => []NoGaps
<1>1. IInv => NoGaps
  BY DEF IInv
<1> QED
  BY <1>1, Inductive, PTL

\* A page lists each score once.
THEOREM ScoresListedOnce == Spec => []OneLinePerScore
<1>1. IInv => OneLinePerScore
  BY DEF IInv, LinesOf, OneLinePerScore
<1> QED
  BY <1>1, Inductive, PTL

\* A page whose answer was read late enough misses nothing.
THEOREM PageMissesNothing == Spec => []NothingMissed
<1>1. IInv => NothingMissed
  BY NothingMissedByPage DEF IInv
<1> QED
  BY <1>1, Inductive, PTL

=============================================================================
