# Verification of the candidate review system

TLA+ models of the FastAPI backend (`src/backend/app`) and of the React
frontend (`src/frontend/src`), checked with TLC on small instances, with
theorems checked by TLAPS for all instances. Paths below are relative to
`src/backend/app` unless they start with `frontend` or `backend`, or end in
`.tsx` or `.ts`, which are below `src/frontend/src`.

## 1. The system

One process (`backend/Dockerfile` l.14: `uvicorn ... --reload`), one event
loop. `async def` code is atomic between two awaits; plain `def` endpoints and
dependencies run in worker threads and interleave with everything. A request
passes, outermost first, RateLimitMiddleware, IdempotencyMiddleware, the
Prometheus middleware, CORS, and the router; routers call services, which
commit to the database (SQLite unless `DATABASE_URL` says otherwise), broadcast
to SSE listeners and await webhooks; candidate routers then invalidate the
cache. The frontend is a React single-page application that talks to
`/api/v1` and listens to the score stream.

| Component | State | Operations | Hard behaviour | What makes it correct |
|---|---|---|---|---|
| Idempotency middleware (`idempotency.py`) | table `idempotency_keys` | dispatch: lookup, expire, replay, refuse, insert; save; clean up | concurrent retries, failing handlers, refused commits, crashes, 24 h expiry | a replay is the answer of an execution of the same request; a key takes effect once; nobody waits for ever |
| Rate limiter (`rate_limiter.py`) | registry of token buckets, in memory | get_bucket, prune, consume | wall clock, pruning, restart, shared identities | bounded bursts; truthful headers; clients do not throttle each other |
| Candidate cache (`cache.py`, `routers/candidates.py`) | Redis and a memory tier | get, set, delete_pattern around queries and commits | reader threads against writers, Redis outages, crashes, TTL | bounded staleness; outdated entries only for known reasons |
| Candidate, score, summary services (`services/candidate_service.py`) | candidates, scores | create, update, archive, score upsert, summary | reads used after an await, status events | one score per reviewer and category; events tell real transitions |
| Score stream (`SSEBroadcaster`; `frontend/.../CandidateDetailPage.tsx`) | listener sets, queues; the page's candidate | subscribe, unsubscribe, broadcast; merge | disconnects, messages against answers | gauge equals listeners; the page ends up with every score |
| Webhooks (`services/webhook_service.py`, `routers/integrations.py`) | webhooks, deliveries | dispatch, deliver, test ping, create, update, delete | snapshot used across awaits, deletion under a call, no retry, crash | each subscriber is called at most once per event and nobody else; the log speaks of real calls |
| Authentication (`auth.py`, `routers/auth.py`) | users, blacklist, session gauge | register, login, logout, `/me` | two logouts of one token, expiry | a token that was logged out stays out |
| API keys (`auth.py`, `routers/integrations.py`) | keys | create, list, revoke, use | revocation against use | a revoked key is not listed and not accepted |
| Startup (`main.py`, `seed.py`, `alembic/`) | schema, revision, seed rows | inspect, stamp, upgrade, create_all, seed | crash between steps | every restart ends in a complete schema and seed |
| Queries (`list_candidates_service`, analytics, export) | none | pagination, averages, filters | several statements per answer | pages partition the result; counts agree |
| Dashboard (`DashboardPage.tsx`, `AddCandidateModal.tsx`, `ConfirmModal.tsx`) | list, statistics, filters, sorting, page, modals | load, filter, sort, page, create, archive | overlapping loads, reloads with the inputs of an old render, modals closed under a call | what is shown belongs to the inputs shown and holds one's own mutations; no spinner for ever |
| Drawer and profile (`CandidateDrawer.tsx`, `CandidateDetailPage.tsx` and its cards) | the candidate selected, its fields, drafts, flags | select, load, status, notes, score, summary, archive | answers for a candidate left behind, optimistic status, cards unmounted by a reload | every field belongs to the candidate selected; text typed is kept; no button stays disabled |
| Session of a browser (`AuthProvider.tsx`, `App.tsx`, `AuthForm.tsx`, logout modals) | user, loading, cookie | mount, register, login, logout, routes | `/me` against login, lost answers, tabs that share a cookie | who is shown as signed in is; a tab that shows nobody leaves no session |
| Integrations modal (`IntegrationsModal.tsx`, `api/integrations.ts`) | lists, forms, log, ping result | load, create, revoke, delete, ping, logs | stays mounted when closed; overlapping pings and logs | lists hold one's own mutations; a log belongs to its webhook; nothing is created twice |
| Metrics, schemas, presentation, monitoring | counters, configuration | - | - | not modelled: no control of their own |

How they interact: the browser's components call the API (`api/client.ts`, with
a fresh Idempotency-Key per call) and each other through callbacks - the drawer's
`onCandidateUpdate` is the dashboard's reload -; the tabs share a cookie; the
modal manages the webhooks that the services' events go to.

`PROJECT.json` lists every component with its status, and under `hazards` the
places in the code that tests hardly reach, each with the properties that cover
it or the reason why none does yet.

## 2. Plan

Done, each with its invariants proved: `Idempotency`, `RateLimiter`,
`CandidateCache`, `ScoreStream`, `Dashboard`, `Session`, `Workspace` (drawer and
profile); `Notify`, the abstract specification that `Webhooks` implements, with its
proof; `Console`, the integrations modal composed with `Webhooks`.

Left, in this order:

1. `Startup`: migration and seed with a crash between any two steps.
2. `CandidateServices`: the summary's stale read, and the order of status events.
3. The use of API keys: a request authenticated with a key that is revoked or
   expires meanwhile.
4. `Queries`: pagination, cache keys and analytics as operators, checked against
   reference definitions over bounded inputs.

Runs are few on purpose, one per question: the properties of a component share
one instance.

## 3. What is modelled

### Idempotency

A member of `Requests` is one HTTP request; `pc` follows its dispatch. The code
from the lookup to the insert (l.87-172) has no await, so every outcome of it is
one action: `Bypass`, `RejectLongKey`, `RejectMismatch`, `Replay`,
`RejectConflict`, `MissFresh`, `MissExpired`, `MissFailed`, and `LookupRefused`
when one of its commits fails. `CommitEffect` and `HandlerEnds` are the route
handler, which commits and can still fail afterwards; `Save`, `CleanUp` and
`CommitRefused` are what dispatch does with the outcome. `Crash`, `TimePasses`
and `Retry` are the environment. The lookup of l.91 has no ORDER BY, so the row
it finds is any row of the key. Time is an order: `born` numbers inserts and
`horizon` is the youngest row older than 24 hours. Assumption: no handler runs
for 24 hours.

### RateLimiter

A request is one action, because get_bucket and consume (l.154-158) run without
an await. Tokens are counted in parts of which one is gained per tick, so all
arithmetic is in integers: an auth bucket, at one second per tick, has
`Cost = 12` and `Capacity = 120`. The code's floats can differ from this by
rounding only. `clock` is `time.time()`, which can be set back; `ticks` is real
time. `hint` is what the last answer of a bucket said in Retry-After or
X-RateLimit-Reset, `owed` how many requests a client was last told it had left
(X-RateLimit-Remaining), less those it made. The assumption `StaleIsFull` says of
both tiers what l.63,
l.66 and l.92 make true: a bucket idle for 15 minutes is full.

### CandidateCache

Reader threads run cache.get, the query and cache.set, tier by tier, as separate
steps; a writer commits, awaits webhooks and then invalidates "list" and its
candidate in each tier, without another await, so writers do not overlap there
(`LoopFree`). Redis goes away and comes back with its data; the process crashes.
The value of an entry is the number of commits its query had seen. All list keys
are one entry and so are the detail keys of a candidate: delete_pattern treats
the keys of a pattern alike. Abstractions: a query is one step although a
listing is several statements; Redis answers or fails between calls, not within
one; `delete` and `clear` have no caller in the application.

### ScoreStream

One candidate. A submission is its position in `log`, so a message and a line of
the page are just the submission whose content they carry, and an answer is
`Listing` as of so many submissions. `Commit` is create_score_service from its
lookup to the end of the broadcast: put on an unbounded queue never waits, so the
event loop runs it in one piece, whether the score comes from elsewhere
(`Submit`) or from the page's form (`Post`). A stream is registered by the
handler (`Subscribe`), its generator is started by the server later (`Start`) and
alone unregisters it (`Unsubscribe`); a client can go at any time (`Disconnect`,
`Leave`), the server notices later, and when it notices before the generator
started the queue is a ghost (`Abandon`). The page's two effects run
independently: `Open` asks for the candidate, twice under StrictMode, which is
what `frontend/Dockerfile` serves, and `Subscribe` may come at any time after;
`Deliver` is queue.get, yield and onmessage in one, since a message on the wire
is to the page the same as one in the queue. `asked`, `asof`, `heard` and `since`
are history variables. An answer may lack `MaxLag` submissions made before it was
asked for, which stands for a hit on an outdated cache entry. Abstractions:
created_at orders rows only and the order of a page's lines is left out; the
server's noticing of a disconnect is external, and assumed to happen in the end.

### Dashboard

One user's page: `query` is what the inputs show, `load` the requests under way
per kind (list, statistics), `call` the mutations. React runs a handler to its
next await and then renders: so an input, the render and the effect that loads
the list are one action (`Edit` with `Render`), and what a handler does after its
await is another (`Return`), with the inputs of the render it was created in
(`closure`). A create goes to page 1 and reloads with the old inputs, whereupon
the effect reloads with the new ones; an archive or a mutation in the drawer
reloads with the inputs of before its await, which may be outdated by then
(`strayed`). Answers come in any order. Statistics are read from the database
between request and answer; a list may come from a cache entry of any age
(`list.outdated` when it is older than its request), because an entry that a
reader stored behind an invalidation is served like any other. `trusted`,
`outdated`, `own` and `strayed` are history.
`DrawerSends` stands for the drawer's mutations, whose state is in `Workspace`.

### Workspace

The drawer and the profile of one user, who is an administrator. `view` holds the
candidate selected and, of every field, whose content it is (`shows`, `notes.of`).
The drawer keeps its state when it is closed or moved on: a load or a call that
was for another candidate still writes its fields (`DrawerFilled`,
`DrawerReturns`). The profile unmounts its cards while it loads, and with them
drafts and flags (`NoCards`, `Unflagged`); leaving a view drops its loads and
lets the server finish its calls (`Adrift`). Their returns change nothing, but
for a DELETE's: it navigates to the list from wherever the user is by then, and
takes the profile on display with it (`ArchiveReturns`, `ArchiveReturnsToList`).
`server` keeps, beside the record of a candidate, those it had before
(`Versions`), and a GET is answered with any of them, as the cache may. `Failed`
restores the row's status in the drawer and nothing on the profile. `misfiled`,
`settled`, `clean`, `failed`, `elsewhere` are history; `clean` says of the load
answered last that no mutation ran beside it and that its entry was not outdated.
Scores are `ScoreStream`'s matter; here a score only shows whose detail it was put into. A flag is not modelled for its looks but
because a handler may clear the flag of another's call.

### Session

Tabs of one browser; a token is a model value with a life at the server (`live`,
`expired`, `blacklisted`), and the browser may hold a live one at the start. A
tab has up to two logins or registrations under way (`first`, `second`) and a
logout (`out`): the links between the two forms are never disabled, and a form
that they open is a new one, whatever the old one waits for (`FollowLink`,
`form`). `Serve` executes a request, and the answer reaches the tab later
(`LoginReturns`, `RegisterReturns`, `LogoutReturns`), with the cookie it sets.
`register` logs out what it has just signed in. A request of a tab that was
reloaded, or whose answer was lost, is `stray`: the server may still execute it.
`Routed` is the two route guards. GET /me runs beside all this, also while the
login form is on display, and its answer overwrites the user: a tab is `late`
when what it shows was told by a GET that another answer had overtaken, and
`told` is the cookie that one carried. `drift` says that another tab, or a
request nobody waits for, touched cookie or token. These, `lost` and `revoked`
are history.

### Notify, Webhooks, Console

`Webhooks` has one `job` per event: the hooks read once (`todo`), called one after
another, each call recorded in its own session. Hooks are created, changed,
deleted and pinged meanwhile. A deletion is two steps, as in the code: `db.delete`
loads the deliveries there are (`StartDelete`), the commit deletes those and the
hook (`DeleteHook`, or `DeleteFails`), and threads run in between. A delivery
committed between the two, or after them by a call still under way, survives
where the database does not check foreign keys (`Enforced = FALSE`, SQLite as
configured here). A row knows which deletions have `loaded` it and, as history,
when in its hook's life it was `written`. `wants` merges `events` and `is_active`.

`Notify` is what all this promises: at publication an event becomes `due` for
exactly its `audience`, the hooks then active and subscribed, however that
changes later; a status goes from `due` to `told` to `logged`; an event is over
only when nothing of it is due; and only the death of the process drops
(`dropped`) what is due. `StatusOf` and `PhaseOf` are the refinement mapping, and
a hook called twice for one event has a status that `Notify` does not know.

`Console` EXTENDS `Webhooks` with the modal: every mutation of the webhooks but
PATCH, which only other clients send, comes from a call of the modal. A ping or a
deletion is executed by the server in two steps of the call's `pc`. When the
connection is lost (`Lose`) the modal is told of a failure and the server goes
on: a `lost` call is still executed, recorded and then forgotten (`Unheard`).
`Restart` ends what the server was executing; its callers learn it later.

### Assumptions and abstractions of the frontend's modules

- The user is an administrator: others see fewer buttons.
- The server's cache is `CandidateCache`'s matter; for the frontend an answer that
  can come from it is one of any age (`Dashboard`, `Workspace`) or lacks up to
  `MaxLag` submissions (`ScoreStream`). Statistics, `/me`, keys, webhooks and
  deliveries are not cached.
- The cookie of an answer and what the handler does with the answer are one step.
- Overlays keep the mouse, not the keyboard, from what they cover.
- A tab has one logout under way; that a navigation resets `isLoggingOut` is not
  modelled. Nor is a jump in the browser's history from one profile to another,
  which keeps the page mounted with a new `id`. Nor is leaving the dashboard while a
  call of the integrations modal runs: the modal of the next visit waits for nothing.
- Texts, toasts, styles, the export menu and links have no state here.

## 4. Runs

| Run | Instance | Shows |
|---|---|---|
| `idem_safety` | 3 requests, 2 keys, 2 fingerprints, 1 crash | `ReplayFaithful`, `AtMostOnce`, `OneInFlight`, `ProcessingAccounted`, `RowLifecycle`. Three requests are a failed execution, its retry and a third that meets both |
| `idem_retry` | 3 requests, 1 key, 1 crash, fair | `RetrierGetsThrough` |
| `idem_once` | 3 requests, 1 key | what the docstring (l.50) and README l.267 say and the code does not do: after a failure two executions under one key both succeed |
| `rate_safety` | 2 buckets (6 and 4 parts), 8 ticks, 1 clock step, 1 restart | `AdmissionBound`, `HintsKept`, `RetryNotTooLong`, `RemainingKept`. A stale age of 6 lets a bucket be pruned and come back; the registry is pruned as soon as it holds a bucket |
| `cache_time` | 1 reader, 1 writer, TTL 2, query 1, 4 instants, outage, crash | `BoundedStaleness`, `StaleOnlyByRace` |
| `cache_fresh` | 1 reader, 1 writer | a GET after an answered mutation is not guaranteed fresh (README l.363, l.395) |
| `stream_page` | 1 page, 2 queues, 2 submissions of 2 scores, 1 restart, 2 loads per mount, fair | `GaugeTruthful`, `NoGaps`, `OneLinePerScore`, `NothingMissed`, `ShownInTheEnd`. Two queues are a page's old and new connection; two submissions are a score and its update, or two scores, one told before an answer and one after |
| `stream_ghost` | 1 page, 2 queues, fair | `QueueReclaimed` fails when a client goes before its generator starts (README l.159) |
| `dashboard` | 2 loads of the list and 1 of the statistics, 1 mutation, 2 edits, 2 pages, 2 page sizes, 1 filter | `ListBelongs`, `OwnWritesShown`, `SpinnerTruthful`, `BusyTruthful`. Two loads overlap and answer in either order; two edits are one before a mutation's await and one after. A list is answered with any version up to the current one |
| `workspace` | 2 candidates, 2 loads, 2 mutations, 3 moves | `FieldsBelong`, `NotesReachTheirOwner`, `StatusTruthful`, `BusyTruthful`, `DraftKept`. Three moves select a candidate, another, and leave. A GET is answered with any version the record has had |
| `session` | 2 tabs, 2 users, 3 tokens, 2 submissions, 1 reload, a session at the start or none | `SignedInTruthful`, `SignedOutTruthful`, `LogoutRevokes`, `WaitingEnds`. With the session of the start, two submissions are two logouts of one token, a logout beside a login, two logins at once, or either of them overtaking a GET /me |
| `console` | 2 webhooks, 1 event, 1 key, 2 loads, 2 mutations, 5 acts, SQLite | `LogTruthful`, `OwnWritesShown`, `LogsBelong`, `SpinnerTruthful`, `SavingTruthful`, and the refinement `NotifySpec`. Two mutations are two pings, a ping and a deletion, or an event and a deletion; a lost connection, a failure and a restart may come between any two steps of theirs |

Every module's `TypeOK` is an invariant of its run, except where it is proved
(section 5).

Each property of a passing run has a mutant in `PROJECT.json`: a definition
changed the way a plausible bug would change the code (`..._bug`), under which
TLC finds the property violated.

**Bounds.** `MaxSubmits`, `Streams` (queues at one time), `MaxLag`, `MaxCrashes`,
`MaxTicks`, `MaxSteps`, `MaxRestarts`, `MaxTime` and `MaxOutages` cap the
environment of the backend; `Slots`, `LoadSlots`, `CallSlots`, `Requests` (of the modal),
`MaxEdits`, `MaxMoves`, `MaxSends`, `MaxReloads`, `MaxActs`, `MaxCalls`,
`MaxWrites` and `MaxPages` cap what a user does and has under way; requests,
readers and writers are finite sets. Each invariant relates at most two
requests, buckets, queues, loads or calls, or a reader and the mutations it
races, and one environment event, all of which its instance contains; that more
of them change nothing is what the proofs show where there are any. `MountLoads`
is 1 in the runs of the frontend: StrictMode's second load is one more load that
overlaps, as edits and reloads produce them anyway. `SubscribedInit` starts the
console with webhooks that are subscribed; `UpdateHook` changes that. `MaxQuery`
is an assumption on the code's surroundings (how long a query and its cache.set
take), not only a bound.

**Fairness** is used in `idem_retry`, `stream_page` and `stream_ghost`. In the
first, the event loop runs ready tasks (weak fairness of each dispatch, end and
save), handlers end, clients follow Retry-After, and days pass. In the others,
a generator that can go on does, and a disconnect gets noticed. Crashes,
failures, restarts and what users do are never fair.

The frontend's modules state no fairness: "no spinner without a load that will
end it" and "no button disabled without a call" are invariants, and that a load or
a call ends is the network's doing.

**Deadlock** is off where requests and writers are finite and may all be done, or
the user may stop; the rate limiter, the stream and the dashboard are checked for
it.

## 5. What is proved

All theorems hold for every value of the constants under the named assumptions.

- `IdempotencyProofs`: `TypeCorrect`; `Inductive` (`TypeOK /\ IInv`);
  `ReplayIsFaithful`; `EffectAtMostOnce`; `AtMostOneInFlight`;
  `RowsAreClosedOnce`; `ProcessingIsAccounted`. `AtMostOnce` speaks of two requests and is not inductive:
  `IInv` adds that inserts are numbered (`Births`), that the table holds every
  unexpired row (`Rows`), that two rows of a key stand side by side only after a
  failure (`Shared`), and that a COMPLETED row is its request's answer
  (`Stored`). Half of `ProcessingAccounted` is in it (`Births`); the other half,
  that a PROCESSING row is `Attended`, is inductive beside it, because a step
  changes one request's row and at most deletes others.
- `RateLimiterProofs`: `TypeCorrect`; `Inductive`; `AdmissionsBounded`;
  `HintsTrue`; `RetryIsShort`; `RemainingIsKept`. `Ledger` carries the bound: granted parts plus
  parts in the bucket never exceed what it gained by its last request. A pruned
  bucket forgets its debt, which is harmless because by `StaleIsFull` it had
  been idle for longer than it takes to fill. `Owed` does the same for what a client
  was told it has left: it was in the bucket at its last request, and nothing
  lowers a bucket between requests. `CeilDivBounds` is the lemma on
  rounding to whole seconds.
- `CandidateCacheProofs`: `TypeCorrect`; `AgesHold`; `StalenessIsBounded`;
  `StaleOnlyByRaceHolds`. `Ages` ties each entry's expiry, and each reader's
  pending store, to the commit that outdated it. `SInv` makes `StaleOnlyByRace`
  inductive. A version is `Covered` while, if it is outdated and no invalidation
  was lost, a writer is `Coming` to it; entries that no race left behind are, and
  so is what a reader will store, if no invalidation of the tier came since its
  query (`ReadersCovered`). A writer that has found nothing in Redis when it
  scanned comes there no more, so what was queried since must be current already
  (`DeleteClean`).
- `ScoreStreamProofs`: `TypeCorrect`; `Inductive`; `GaugeIsTrue`;
  `QueuesHaveNoGaps`; `ScoresListedOnce`; `PageMissesNothing`. `NothingMissed` is
  restated per page as `MissesNothing`: what the stream has told (`Heard`) is
  listed. It is inductive with the tightness of queues, because a delivery then
  tells exactly the next submission, and with `LinesOf`: the last answer's
  submissions are listed, which is all a page that subscribes afterwards needs.
  That an answer lists every score (`ListingComplete`) needs the latest
  submission of a score to exist, which `LatestExists` takes from the
  well-foundedness of the naturals.

- `ConsoleProofs`, about `Webhooks`: `WebhooksInductive`; `LogIsTruthful`;
  `DispatchImplementsNotify` (`HSpec => NotifySpec`). The log is inductive only
  with `Known`: a hook that is still to be called, is being called or was
  recorded existed once, and since an id is not given twice it cannot come into
  being later without its rows; and with `Loaded`: a deletion under way has loaded
  every row that was written in its hook's life, and loads rows of no other hook.
  The refinement needs `Once`: what is left to do has not been called, and what is
  being called or recorded has been, exactly once. Then `Publish`, `Call`,
  `Finish` and `Crash` map to Notify's `Publish`, `Tell`, `Close` and `Die`,
  `Record` to `Log` or, if its commit fails, to nothing, the endpoints that change
  hooks to `Resubscribe`, and all else to nothing. That `Publish` maps to
  `Publish` is where the hooks that are told have to be exactly those subscribed.
- `ConsoleProofs`, about `Console`: `ConsoleTypes`; `ConsoleUsesHooks` (`Spec => HSpec`), from
  which `ConsoleKeepsPromises` carries the two results above over to the
  composition; `SpinnerIsTruthful`; `LogsAlwaysBelong`; `SavingIsTruthful`;
  `ConsoleShowsOwnWrites`. `RequestsMatch` and `Targets` connect the two sides: the
  server executes a ping or a deletion exactly for a call that is at that point,
  awaited or not, and of the same hook; and a call under way names a key or a hook
  as its kind says. `LogsInv` adds to `LogsBelong` what the newest load under way
  was asked for; a webhook that is deleted or folded meanwhile unfolds nothing.
  `OneEach` is `SavingTruthful` without cardinalities. `OInv` makes
  `OwnWritesShown` inductive: what was told deleted is gone and what was made is
  not unborn, and so it is for calls that are done and not yet back (`Done`); the
  newest load, once served, carries what should be shown (`Fresh`); a list shows
  only its own kind (`Sorted`), so the return of a call for one list disturbs
  nothing of the other. It rests on `GoesForward`: a key or webhook is created
  once and removed once, which for webhooks follows from `HSpec`'s steps. That
  no key is a webhook is an assumption (`ConsoleConstants`): they are rows of two
  tables and `Console` puts their ids into one history.
- `DashboardProofs`: `DashboardInductive`; `DashboardTypes`; `ListAlwaysBelongs`;
  `OwnWritesAreShown`; `SpinnerIsTruthful`; `BusyIsTruthful`. The shown list is
  the newest load's, so `IInv` says of that load what the properties say of the
  list: it was asked for with the inputs of the page, unless `strayed` (`Apt`),
  and after every mutation that has returned (`Timely`), because a handler
  reloads after its await and no call is numbered beyond the commits
  (`Counted`). A list answered from an outdated entry claims nothing. A page that
  is not mounted waits for nothing (`Blank`).
- `SessionProofs`: `SessionInductive`; `SessionTypes`; `SignedInIsTruthful`;
  `SignedOutIsTruthful`; `LogoutHolds`; `WaitingAlwaysEnds`. Both truths about
  what a tab shows are one statement (`Shows`) about a tab that no other has
  disturbed and that is not about to sign out (`Settled`). It needs the same of
  what GET /me is about to tell while it has not been overtaken (`MeTells`), and of
  requests under way what their answers carry (`ReqOK`). Of a GET that was
  overtaken, and of the tab that shows its answer, `Told` says what remains true:
  the cookie it carried belongs to the user shown, or is no live session. A logout
  in one tab must not revoke a login that is executed but unanswered in another, nor
  two logins of one tab share a token: such a token is known to nobody else yet
  (`Fresh`).
- `WorkspaceProofs`: `WorkspaceInductive`; `WorkspaceTypes`; `FieldsAlwaysBelong`;
  `NotesReachOwners`; `StatusIsTruthful`; `BusyIsTruthful`; `DraftsAreKept`
  (`Spec => DraftKept`, an action property). `Filed` follows notes wherever they
  are on their way to a record: in the database, in a record of before that a cache may
  still hold, in an answer, in a call. `Shown`
  adds that a profile that is filled holds notes of its own candidate even while
  it is not settled, for the answer to come may leave them in the box. `Truth`
  makes `StatusTruthful` inductive: while the view has no reason to be wrong
  (`Calm`), at most one change of the status is under way, because its flag is
  set, and it stores what is on display; an archive call only adds that nothing
  is claimed until it is back. It needs `Current`, that a load which is `clean`
  carries the stored status, and `Clicked`, that a profile's
  card shows its candidate's status or one that is being saved, for an answer
  that brings nothing new leaves the card alone. `Flags` is `BusyTruthful`
  without cardinalities. A step has one of a dozen shapes (`Shaped`), each with a
  lemma that it keeps all of this; a call's returns to the drawer and the profile
  and its failures share one (`Returned`).

Model-checked only: `RetrierGetsThrough` and `ShownInTheEnd` (liveness under
fairness is out of the prover's reach). `NothingMissed` and `GaugeTruthful` for
several pages at once, of users who see different scores, are proved but not
model-checked.
The run of `Console` starts with every webhook subscribed to every event; the
theorems are about `Spec`, which starts with any subscriptions.

## 6. Findings

Three disagreements between the code and what it says of itself, each a run that
TLC finds violated (`findings` in `PROJECT.json`): a FAILED idempotency row hides
the rows of later retries, a GET after a mutation can be served from an outdated
entry, and a stream that ends before it starts keeps its queue.

Not run, but read off the code while modelling it, and allowed by the models:

- Two API keys with one 10-character prefix share a rate-limit bucket
  (`rate_limiter.py` l.113), although `backend/tests/test_rate_limiter.py` l.71 has
  clients throttle only themselves.
- A page that listens to the stream keeps the old content of a score that is
  submitted again (`CandidateDetailPage.tsx` l.64; README l.121).
- The session gauge goes up at a login only and down at every logout, including
  the one that follows a registration and those without a session, so it can go
  below zero (`routers/auth.py` l.34-92; README l.572).
- The login form is there while GET /me is under way (`App.tsx` l.35-39), and the
  answer overwrites whatever a login or a logout has set meanwhile
  (`AuthProvider.tsx` l.24-29): a tab can show nobody although it has just signed
  in and holds a live cookie, or a user whose session it has just ended. It stays
  so until the page is loaded again. `SignedInTruthful` and `SignedOutTruthful` say
  what holds of such a tab (`late`).
- A second form can be sent while the first one's call is under way, by way of the
  links between them (`AuthForm.tsx` l.181-197): the last answer decides who is
  signed in, and the return of a registration signs out whoever is.
- A DELETE that returns after its profile was left navigates to the list all the
  same, from whatever profile is on display by then, with what was typed there
  (`CandidateDetailPage.tsx` l.150-151).
- Who mutates a candidate may not see it in the list or on the profile, if the GET
  that follows is answered from an outdated entry (`routers/candidates.py` l.64-67,
  l.109-115): what the run `cache_fresh` shows at the server, seen from the pages.
- The stream sends every reviewer's scores, with their notes and the reviewer's
  address, to every user who listens (`routers/candidates.py` l.173-191,
  `candidate_service.py` l.306-312), although reviewers "only ever see their own
  scores" (README l.459). In `ScoreStream` only a GET is limited to `Sees`.
- A key whose execution failed after its commit is executed again by a retry, which
  repeats the effect (`idempotency.py` l.183).
- Scores committed while the process restarts or a browser reconnects are told to
  nobody; a page lists them with its next load (`candidate_service.py` l.312).
- A retry by hand after a lost answer creates a second candidate, score or
  webhook: every call draws a new key (`client.ts` l.16; README l.263).
- The banner with a new API key stays until the page is left, although it says
  that the key will not be shown again (`IntegrationsModal.tsx` l.303-309).
- Notes saved while the drawer still loads the next candidate go to that
  candidate with the previous one's text (`CandidateDrawer.tsx` l.209; `misfiled`
  in `Workspace`).
- An error on the profile is never cleared, even by a later answer
  (`CandidateDetailPage.tsx` l.45).
- A status change that fails in the drawer restores the status of the row, which
  may be older than the one before the change (`CandidateDrawer.tsx` l.156), and
  on the profile restores nothing.
- The return of one test ping clears the sign of another, and the return of a
  create closes a form that was opened again meanwhile (`IntegrationsModal.tsx`
  l.218, l.133).
- On SQLite, whose foreign keys are not switched on (`database.py` l.5-10), a
  delivery row can outlive its webhook: one that is committed between the two steps
  of a deletion (`routers/integrations.py` l.200-201), or by a call that is still
  under way after it (`webhook_service.py` l.67). `LogTruthful` says that there are
  no others.
- The order in which one webhook hears of two events is not decided.

About the properties themselves: after a failure, two handlers under one key can
run at once (docstring l.52), which is why `OneInFlight` excepts keys that
failed; X-RateLimit-Reset of a 429 (`rate_limiter.py` l.170) carries the seconds
until one token, not until the bucket is full (l.136); and the page's GET and
stream are not ordered, so a score committed after the GET was read and before
the stream was subscribed is not listed until a reload, which is why
`NothingMissed` is about pages that are `AnsweredInOrder`.

## 7. Not modelled

- Startup and the queries: planned (section 2).
- The use of an API key in place of a token, roles, and the session gauge.
- The text of summaries and the order of status events of one candidate.
- Metrics, schemas, the database session, monitoring: no control of their own.
- Toasts, charts, styles, copying to the clipboard, the export menu and the link
  to the exports: nothing in them outlives a component or is read by another.
