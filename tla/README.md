# Verification of detect-backend-threat

TLA+ models of the ingest gateway, the dashboard's event path and the detector,
the TLC runs that check them on small instances, and TLAPS proofs, for every
value of the constants, of every safety property the runs check: of the limiter,
the gateway, the fan-out and their composition, of the browser's connection, store
and views, and of the detector.
Paths are relative to the repository.

## The system

```
sensors --REST/WS--> apps/ingest --XADD--> Redis threats:stream --XREAD--> dashboard server --WS--> browsers
                        |                                    \--(planned consumer)--> cmd/detector
                  rate limiters                                                        |-> ClamAV, VirusTotal,
                                                                                       |   AbuseIPDB (Redis cache)
```

| Component | State | Operations | Interacts through | Hard parts |
|---|---|---|---|---|
| Rate limiter (`apps/ingest/src/ratelimiter.ts`) | `Map` of buckets | `allow`, `prune` | calls of the handlers, a 60 s timer (WebSocket limiter only) | lazy refill, forgetting buckets, `Date.now()` going back |
| Event schema (`schema.ts`) | none | `safeParse` | handlers | defaults, absent fields |
| Ingest gateway (`server.ts`, `ws.ts`, `redis.ts`, `index.ts`) | sockets, pending XADDs, the process | POST /events, WS message, publish, SIGTERM | HTTP, WebSocket, ioredis | concurrent awaits, resend after a break, the flush of `maxRetriesPerRequest`, hang-ups, shutdown |
| Dashboard fan-out (`apps/dashboard/app/api/ws/route.ts`) | `lastId`, `wss.clients`, heartbeat flags | reader loop, broadcast, GET, heartbeat | XREAD BLOCK, WebSocket | `$`, breaks and resends, clients coming and going, evicted streams |
| Event stream hook (`hooks/useEventStream.ts`) | `wsRef`, `reconnectRef`, sockets, timers | connect, effect and cleanup, onclose, onerror | browser WebSocket, React | timers racing sockets, remounts |
| Event store (same file) | event list, rolling rate, active threats, top country | push, subscribe, getSnapshot, getStats | hook, views | windows over two clocks, values that go stale, snapshots compared by identity |
| Detector (`cmd/detector`, `internal/detector`) | the `Result` of a call | `main`, `Engine.Detect` | calls, one scanner after the other | partial failure, silent scanners |
| Scanners (`internal/clamav`, `virustotal`, `abuseipdb`) and cache (`internal/cache`) | a cache entry per address in Redis | `ScanBuffer`, `LookupHash`, `CheckIP`, `Get`, `Set` | TCP, HTTP, Redis | timeouts, slow answers, TTL, evictions, restarts |
| Feed, graph, sidebar, page (`components/EventFeed.tsx`, `ThreatGraph.tsx`, `StatsSidebar.tsx`, `app/page.tsx`) | filters, the debounced text and its timer, selected address and event, active view | controls, node clicks, `buildGraph`, counts | the store's list as a prop, callbacks of the page | timers racing other filters, elements replaced under the mouse, windows over one list |
| Globe (`components/Globe.tsx`) | arcs and their progress, instances, drag | effects, frames, mouse handlers | refs shared by callbacks | clicks on an earlier frame, a buffer that must hold all arcs |
| Tracing, SQL schema, MITRE layer, containers, health routes | none of interest | | | not modelled |

What makes each part correct, in short: a limiter admits no more than its bucket
and its refill allow and never refuses a client that keeps its distance; an
acknowledged event is in the stream under the id given and a rejected one never
is; dashboards see one log without gaps or repetitions; a page never loses its
way back to a connection and never multiplies its connections; statistics count
what they claim; the views agree on the list they share and select what exists; a
detection result is the worst that any answering scanner
said, rests on fresh scores and comes to an end. `PROJECT.json` lists the
hazards line by line with the properties that cover them.

## Modules

| Module | Models | State and actions |
|---|---|---|
| `TokenBucket` | what the limiter promises (abstract) | `level` per client; Grant, Refuse, Elapse, Rewind |
| `RateLimiter` | `ratelimiter.ts` with the timer of `ws.ts` | `buckets` is the Map, `now` is `Date.now()`, `timer` the interval; Allow, Prune, Advance, SetClock; Observe and the variables marked history serve the properties |
| `EventSchema` | `schema.ts` | operators Valid and Parsed over field classes |
| `Subsequences` | `Ascending`, the elements of a set in their order, and `Picked`, the elements of a sequence at some indices | pure operators of `Ingest`, `StreamFanout`, `ThreatFeed` and the views, by counting so that they can be proved about |
| `Ingest` | `server.ts`, `ws.ts`, `redis.ts`, `index.ts` | a handler is RestEvent or WsEvent up to its `await` and Settle (or the flush in ReconnectFails) after it; `pending` is ioredis's command queue, `results` the unread replies, `log` the stream |
| `ThreatFeed` | what a dashboard may rely on (abstract) | one position over the log; F_Add, F_Lose, F_Deliver, F_Join, F_Leave |
| `StreamFanout` | `route.ts` | an iteration of the loop is Serve (Redis takes the XREAD), an answer (Add, BlockTimeout or at once) and Handle; Break, Reconnect, ReadFails, Retry; Connect, Disconnect, Heartbeat, Pong per dashboard |
| `Pipeline` | gateway and reader over one stream | `Ingest` extended, `StreamFanout` instantiated on its log; `Store` is one step of both, every other step is one of either |
| `EventStream` | the hook of `useEventStream.ts` | Mount and Unmount are the effect and its cleanup; Opens, Fails, Closed the socket's events; TimerFires the timers, those included that `reconnectRef` has lost |
| `EventStore` | `createStore` of `useEventStream.ts` | push with all it recomputes; Tick, SetBack for the browser's clock |
| `StoreHook` | the `useSyncExternalStore` calls and the getters they are given | `phase` is what React does next; push, useEventStream (a render), Settled or Changed (the check after it) |
| `ThreatEvents` | the list of events the views get | Arrive |
| `EventFeed` | `EventFeed.tsx` | `pending` is the debounce timer; handleIpChange, TimerFires, toggleSeverity, chooseTactic; `filtered` are the rows |
| `ThreatGraph` | `ThreatGraph.tsx` | `buildGraph` and `fill`; `pressed` is the circle under a held button; Press, Release, Rebuild |
| `Dashboard` | `page.tsx`, `StatsSidebar.tsx`; composes `EventFeed` and `ThreatGraph` over `ThreatEvents` | one action per control; `up` ends with a render that throws |
| `Globe` | `Globe.tsx` | `arcs` is `arcsRef`, `drawn` the instances of the last frame (`Filled` is the loop that packs them); Mount, Unmount, G_NewEvents, Frame, MouseDown, MouseMove, MouseUp, MouseUpOn with Click |
| `Views` | `page.tsx` with the globe in it: `Dashboard` and `Globe` extended, over one list | NewList is one step of both, ChangeView takes the globe away with its view, PickArc is a click of the globe that calls the page's `handleSelectEvent`; Turn and Control are steps of one of them |
| `Severity` | pure functions of `engine.go`, `ScoreToSeverity` | operators |
| `Detector` | `main.go`, `engine.go`, the three clients, the cache | `at` is where Detect is; one action per external answer, failure or cache step; Tick, Evict, Restart |
| `RateLimiterProofs`, `StreamFanoutProofs`, `PipelineProofs`, `EventStreamProofs`, `EventStoreProofs`, `ViewsProofs`, `DetectorProofs`, `SubsequenceProofs` | the theorems about the module they are named after and, in `PipelineProofs` and `ViewsProofs`, about the modules it is composed of (`Ingest`; `Dashboard` and `Globe`) | |
| `MCRateLimiter`, `MCIngest`, `MCStreamFanout`, `MCBroadcast`, `MCPipeline`, `MCDashboard`, `MCViews`, `MCDetector` | the instances, and what documents say | properties named `Documented...`; `MCBroadcast` adds one history to `StreamFanout`, the stream's length at the reader's first XREAD |

`Ingest` abstracts the limiters to whole tokens, with `TokenBucket`'s grant,
refusal and refill; that this is what the limiter does is `ImplementsTokenBucket`.
`Ingest` extends `EventSchema`, `Detector` extends `Severity`. `Pipeline` keeps
to the steps between a message and a page: the limiters' refill, hang-ups,
shutdown, foreign entries and heartbeats are in the runs of its two parts.
`Dashboard` alone offers every event of the list for selection while the globe is
the active view; that the globe does no more is `ImplementsPage`. The views start
where `StoreHook` shows the code does not get to: the modules say what the views do
with a list once they are given it.

External code is modelled from how the sources use it: Redis executes commands
in order; ioredis keeps unanswered commands over a break, sends them again after
it reconnects, oldest first, and rejects all of them at every
`maxRetriesPerRequest + 1`st failed attempt (`null`: never); the browser follows
an error by a close event; go-redis gives up on a command within `RedisWait`;
clamd and the HTTP services answer anything or nothing; React compares the
snapshots of a store by identity after every commit and renders again, without
yielding, while they differ, up to 50 times in a row; a click needs its element
to have been there from press to release.

## Runs

| Run | Shows | Bounds and why they are enough |
|---|---|---|
| `limiter_ws` | types, `WindowBound`, `PacedIsServed`, `NoStaleBucket`, `DebtBounded`, and that `RateLimiter` implements `TokenBucket` | two interchangeable clients, a bucket of 4/3 tokens, refill of 2/3 a millisecond (a rest of a token is possible), pruning after 3 ms every ms, two clock corrections, 6 ms: buckets fill, empty, are pruned and come back. The proofs remove the bounds |
| `ingest` | the pairing of replies, acknowledgements, rejections, and both liveness properties | one REST request, one socket with two messages, one break, one retry: the shortest history with a resend, a flush, two concurrent awaits on a socket and a hang-up between them |
| `fanout` | no gap, no repetition, the same feed for all, the heartbeat ends only a dashboard whose last ping is unanswered, `ThreatFeed` implemented | two dashboards (symmetric), three entries with COUNT 2 so that an answer is cut, one fault of any kind |
| `pipeline` | acknowledged events reach the open dashboards, in the sensor's order, with copies only from the gateway's breaks | one sensor with two messages, one break of its side, one fault of the reader's, one dashboard, entries for every resend |
| `event_stream` | a page never waits for nothing, reconnecting never multiplies, a connection comes back | two components, two mounts each, two faults; four socket names are enough as each mount adds at most one lifeline |
| `event_store` | the rolling rate, and an active count that is off only by what has aged since the last push | two events kept, four pushes, windows of 2 and 1 seconds, one clock correction: the list, the window and the rounding all cut |
| `dashboard` | feed, graph and sidebar agree; colours; selections exist; the debounced text | a list of three with windows of two, four arrivals so that an address leaves the list, three kinds of event, five inputs: enough to press a node after typing, toggling or switching |
| `views` | the page with the globe does what `Dashboard` says; no arc cut or missing; a click selects what was hit or something newer and the detail shows it; arcs complete | two arcs of three segments with a tail of one (untailed arcs overflow the instances, as 33 * 500 > 32 * 500 would), two speeds so that arcs of one frame differ in length, three arrivals into a list of two so that a clicked event can leave it, two mounts, three inputs and three mouse events: enough to change the view before or after a click and to come back |
| `detector` | severity and tactic against what the scanners said, fresh scores that AbuseIPDB sent, termination | counts and scores on both sides of every threshold and bodies without data, a TTL of two ticks, timeouts of one |

`MaxBreaks`, `MaxFaults`, `MaxEntries`, `MaxMounts`, `MaxPushes`, `MaxArrivals`,
`MaxInputs`, `MaxMouse`, `Corrections` and `Horizon` bound what the environment may do, never what the code does. A
bounded environment runs dry, so the runs do not check for deadlock; what must
not stop is stated as liveness.

### Disagreements with the documents

Each of these runs checks one statement of a document and TLC finds a
behaviour of the code that breaks it, one that takes several steps of several
parts. `PROJECT.json` (findings) quotes the lines.

| Run | The code |
|---|---|
| `ingest_one_entry` | a resend after a break stores an event twice |
| `fanout_broadcast` | until the first delivery `$` is resolved anew by every XREAD, and entries between two are lost: no fault is needed (`MaxFaults` is 0), a BLOCK timeout and an event before the next XREAD are enough. What was in the stream before the reader's first XREAD is not held against it |
| `render_loop` | `getStats` returns a new object per call; React renders again after every render until it gives up and the page is gone |

Others need no run, the code says them plainly, and the models follow the code:

- `server.ts:6` builds the REST limiter with 5000 tokens and 1000/s;
  `docs/api/ingest.md:105` says "1000 burst, 500/sec refill". No timer prunes it;
  `README.md:395` says "Stale buckets removed every 60s".
- `server.ts:10`: `express.json` runs before the limiter, so a body that does
  not parse is answered 500 whatever the bucket holds;
  `docs/guides/how-it-works.md:42` says "If the bucket is empty, immediate 429".
- `redis.ts:13`: a flush also rejects what Redis has executed, so `internal_error`
  does not mean that the event is not in the stream (`docs/api/ingest.md:114`).
- `ingest/src/index.ts:20`: nothing closes the WebSockets on SIGTERM, so that one
  open client keeps `server.close` from calling back; `docs/guides/deployment.md:180`
  says "Graceful shutdown on SIGTERM" (`RestShutdown` has the condition it needs).
- `useEventStream.ts:57`: the schema gives a timestamp no default, and an event
  without one is never an active threat (`Absent` in `EventStore`);
  `README.md:635` says "Event time, defaults to server time". The sidebar shows too
  few active threats then, so `ActiveOnlyAges` counts the events that have a
  timestamp, and says nothing of the others. In the sidebar the
  detail of such an event throws and takes the page away
  (`StatsSidebar.tsx:98`, `DetailRenders`).
- `internal/clamav/client.go:85`: a line of clamd that is neither OK nor FOUND
  counts as an infection; `internal/detector/engine.go:68` says "Individual
  scanner failures are tolerated; the result will reflect partial data.", and
  `README.md:197` gives TA0002 to a "ClamAV match" only, where such a line is
  MALICIOUS and TA0002 with nothing found (`SeverityIsWorstAnswer` and
  `TacticExplainsVerdict` leave it out).
- `internal/abuseipdb/client.go:93`: a body of status 200 without `data` decodes to
  the score 0, which is cached for the TTL like a score; `README.md:333` says "The
  abuse confidence score (0–100) is cached in Redis for **1 hour**"
  (`ScoresWereSent` has the exception: `Decoded` in `Detector`).
- `page.tsx:29`: closing the detail of an event also clears the address the feed
  is filtered by; no document speaks of it.
- `route.ts:90`: one unanswered ping ends a dashboard; `docs/api/ingest.md:258`
  says "2 consecutive pings" (`TerminatedIsSilent`: `unanswered` is 1 when it ends).
- `useEventStream.ts:90`: every component that uses the hook has its own
  connection; `docs/guides/how-it-works.md:270` says there is exactly one.
- `useEventStream.ts:56`: `activeThreats` changes with the next push only, not
  when the 60 s of the comment above it have passed (`ActiveOnlyAges` bounds it by
  what was recent at the last push).
- `cmd/detector/main.go:65`: the detector reads nothing from the stream;
  `docs/guides/how-it-works.md:77` describes a blocking read loop.

### Fairness

- `Ingest`: Redis executes or refuses what it was sent; the event loop runs a
  settled promise; ioredis keeps trying (its default retry strategy never gives
  up); the callback of `server.close` runs. Nothing is owed by clients or
  signals. `PublishSettles` rests on the attempts as much as on success: a flush
  settles too, so Redis may stay away for ever.
- `Pipeline`: what `Ingest` assumes, and that Redis takes an XREAD it was sent,
  the reader's loop handles answers, its sleeps end and its ioredis reconnects.
  No message, dashboard or `BlockTimeout` is owed.
- `EventStream`: handshakes and closings end, timers run.
- `Dashboard`, `Views`: the browser runs the timers and the animation frames it
  was given. No event and no input is owed. `StoreHook`: React finishes renders
  and checks.
- `Detector`: time passes, a wait that has reached its timeout is left (`Leave`:
  `SetDeadline`, `http.Client.Timeout`), cache commands end, main goes on. That a
  scanner answers is not assumed.

Faults are finite in every instance, so liveness says: once the faults end.

## Proofs

Each of these modules extends the one it is about (the globe's specification is
`G_Spec`). All theorems are of the form
`Spec => []Inv`, or `Spec =>` a specification, and hold for every value of the
constants that meets the assumptions named. Their inductive invariants
(`IInv`; `PageInv`, `GlobeInv` and `ViewsInv` of the views) were model-checked on the
instances of the runs.

| Module | Theorems (property) | Assumptions |
|---|---|---|
| `RateLimiterProofs` | `Typing`, `Debt` (`DebtBounded`), `Window` (`WindowBound`), `Paced` (`PacedIsServed`), `Stale` (`NoStaleBucket`), `Implements` (`ImplementsTokenBucket`) | `LimiterAssumption`, `RefillBeforePrune` |
| `PipelineProofs` (of `Ingest`) | `TypeCorrect`, `PairingHolds` (`RepliesPaired`), `AcksAreTrue` (`AckMeansStored`), `RejectionsAreFinal` (`RejectedNeverStored`), `NoSecondAnswer` (`AnsweredOnce`), `AcksKeepOrder` (`AcksInOrder`) | `IngestAssumption` |
| `StreamFanoutProofs` | `TypeCorrect`, `FeedHasNoGap` (`NoGapNoRepeat`), `FeedsAgree` (`SameFeed`), `OnlyTheSilentEnd` (`TerminatedIsSilent`), `ReaderImplementsFeed` (`ImplementsFeed`) | `FanoutAssumption` |
| `PipelineProofs` (of `Pipeline`) | `GatewayRuns`, `ReaderRuns`, `SendOrderIsShown` (`ShownInSendOrder`), `CopiesAreFromBreaks` (`CopiesFromBreaks`) | `IngestAssumption`, `PipelineAssumption` |
| `EventStreamProofs` | `TypeCorrect`, `NeverForgotten` (`NoneForgotten`), `NoMultiplication` (`NeverMultiplies`) | `StreamAssumption` |
| `EventStoreProofs` | `TypeCorrect`, `RateIsRight` (`RateCoversWindow`), `ActiveIsOfLastPush` (`ActiveOnlyAges`) | `StoreAssumption` |
| `DetectorProofs` | `TypeCorrect`, `SeverityCorrect` (`SeverityIsWorstAnswer`), `TacticCorrect` (`TacticExplainsVerdict`), `ScoresStayFresh` (`ScoreIsFresh`), `ScoresAreReal` (`ScoresWereSent`) | `DetectorAssumption` |
| `ViewsProofs` (of `Dashboard`) | `PageInvariant`, `ViewsAgree` (`CountsAgree`), `ColoursAreWorst` (`ColourIsWorst`), `SelectionsExist` (`SelectionExists`), `LatestQuery` (`QueryIsLatest`) | `EventsAssumption`, `GraphAssumption`, `DashboardAssumption` |
| `ViewsProofs` (of `Globe`) | `GlobeInvariant`, `EveryArcIsDrawn` (`FullyDrawn`), `ClicksAreNeverOlder` (`ClickNeverOlder`, a part of `DetailIsClicked`) | `EventsAssumption`, `GlobeAssumption` |
| `ViewsProofs` (of `Views`) | `ViewsImplementPage` (`ImplementsPage`), `ViewsImplementGlobe`, `TheDetailIsClicked` (`DetailIsClicked`) | all of these |
| `SubsequenceProofs` | lemmas only: what `Ascending` and `Picked` return | none |

With them, every invariant and every action property of the passing runs is proved,
and all refinements (`ImplementsTokenBucket`, `ImplementsFeed`, `ImplementsPage`).

### Assumptions

They are types and disjointness (the names of requests, clients and messages
differ; the value for "nothing" is no socket, no component and no cache entry),
bounds that are natural numbers, and these:

- `LimiterAssumption`: a request costs no more than a full bucket.
- `RefillBeforePrune`: `Rate * (MaxAge - MaxBack) >= Capacity`. The code depends
  on it without saying so: a bucket must be full again before it is old enough to
  be forgotten, or a client could get a second full bucket early. For `ws.ts`
  (1000 tokens, 500/s, 60 s) it holds as long as the clock is never more than
  58 s behind its highest reading. It is the weakest that makes pruning invisible
  in the worst case.
- `GraphAssumption`: addresses are not empty and not `DEFEND`, severities are the
  four known ones. `schema.ts` takes IP addresses only and defaults the severity;
  an entry another program put in the stream is not held to it.
- `GlobeAssumption`: `Trail + 1 <= Segments`, an arc
  that is all there is no longer than its share of the instances (8 + 1 and 500 in
  `Globe.tsx`).
- `StreamAssumption`: there are names for as many sockets as a browser makes; a
  `new WebSocket` that fails for want of a name is nothing the code can meet.

### Arguments

*Limiter.* None of the properties is inductive: they say nothing of how old a
bucket's `lastRefill` is against a clock that moved. `IInv` adds to `TypeOK` that
the clock is at most `MaxBack` behind `high` (`ClockInv`) and that every bucket
lies between the debt of a set-back and `Capacity`, with its `lastRefill` never
later than `high` (`BucketInv`). From it follow, as lemmas, what each action does
to `Level`, the tokens a client could spend now: `AllowLevel` (minus `Cost` if
granted, for that client only), `PruneLevel` (nothing, this is where
`RefillBeforePrune` is used), `ForwardLevel` (up by `Rate * d`, capped) and
`BackLevel` (down by at most `Rate * d`). `Window`, `Paced` and `Implements` are
each one more induction over these four lemmas; `Stale` is an induction of its
own over the timer (`AgeInv`).

*Gateway.* An acknowledgement is right if the reply it was made from belonged to
its XADD, so `IInv` follows a call through the process: a call seen on a
connection or in the stream is not idle (`FreshInv`); a pending XADD belongs to
one handler that waits for it, came in on one connection, and is pending once
(`PendingInv`); no unread reply outlives the connection (`LinkInv`); what is
answered is over (`AnsweredInv`) and is answered where it came in (`OwnReplies`).
Order needs two more: replies carry growing ids, above all that were passed on
(`IdOrder`), and XADDs are pending in the order of each inbox, after all that
were acknowledged (`InboxOrder`). A resend keeps all of it because `pending` keeps
its order and Redis's log only grows. The lemmas `SendFacts` and `AnswersStep`
say once what answering a sequence of calls does, for the single answer of Settle
and the flush of ReconnectFails alike.

*Fan-out.* `NoGapNoRepeat` speaks of neighbours, and holds only because an answer
starts where the reader stands and has no hole itself (`ReplyInv`, also for an
XREAD that Redis still holds: it waits at the end of the log). From it a dashboard
has every event from its first one up to the reader's position, or up to its own
last one when it has left (`CompleteInv`), in order (`OrderInv`). `SameFeed` is not
a consequence of that: entries that Redis has dropped are excused in
`CompleteInv`, and two dashboards must agree on those too. `TogetherInv` states the
agreement itself. `TerminatedIsSilent` needs that a dashboard's flag is down exactly
while a ping is unanswered (`BeatInv`). The refinement maps `lastId` to the position of `ThreatFeed`:
Handle is F_Deliver of the entries that are left between the old position and the
new one (`HandleDelivers`; `AscendingUnique` identifies the two sequences), Add,
Lose, Connect and Disconnect are their namesakes, and every step of Redis and the
connection is a stutter.

*Pipeline.* `GatewayRuns` and `ReaderRuns` show that the composition takes no step
its parts could not take alone, so that both invariants hold of it
(`PipelineInvariance`; `StreamFanoutProofs` is instantiated on the gateway's log,
and `SameReader` identifies its definitions with those `Pipeline` uses).
`ShownInSendOrder` then follows from `AcksInOrder`, `OrderInv` and from every call
being made once (`InboxOnce`). `CopiesFromBreaks` needs a count: a call has at most
`breaks + 1` entries, and at most `breaks` while Redis has yet to execute its XADD
(`CopiesInv`); positions of a feed map into them one to one.

*Hook.* `NoneForgotten` and `NeverMultiplies` are inductive together, with the
facts that exactly the sockets in use have an owner (`InUse`) and that a
component's reference is to a socket of its own (`OwnRef`): each step moves one
lifeline from a socket to a timer or back. The type of `orphans` is not inductive
by itself: its bound is a consequence of `NeverMultiplies`.

*Store.* The stamps are those of the last pushes, in order (`StampsInv`); what has
left is out of the window that ended with the last push, if it came after the
clock was last set back, since the clock has only gone forward from there
(`ClockInv`). What leaves is a longest run of old stamps (`RolledFacts`), so with a
clock that was never set back what stays is in the window. The active threats are
those recent at the last push (`ActiveInv`), and the number of recent events falls as
time passes (`ActiveFacts`): together `ActiveOnlyAges`.

*Page.* The properties of the views follow from three facts about the page (`PageInv`):
the list is in the order of arrival and no longer than its cap, a pressed circle is a
node of the graph of now, and a timer that waits carries the text of the field. The
rest is about the loops. `GraphFacts` says what `buildGraph` counts, by rounds
(`Nodes`, `CountedFacts`); `PickedPrefix` says that the rows of the newest events come
first among the rows of all. `CountsAgree` joins the two: the rows of an address begin
with the ones its node counts, as both pick the same indices of the window.

*Globe.* A click divides the index of an instance by `ARC_SEGMENTS`, while a frame packs
the instances more tightly: arc `j` may start at any index up to `(j - 1) * Segments`.
`ClickNeverOlder` is not inductive. `GlobeInv` has what it rests on: the arcs are those
of the list of now (`ArcsInv`), and the instance at an index is of the arc that the index
stands for now or of an older one (`DrawnInv`). A new list moves every arc to a higher
index, which only widens the gap (`NewListFacts`); a frame restores it from what the loop
over the arcs appends (`FillStep`: at most `Segments` instances an arc, so that there is
room for all of them, and the head last). `HeadsInv` says that a frame which shows the
first arc shows the head of every one; a frame of an older list shows none of the first.

*Views.* `ViewsInv` joins both with the fact that a mounted globe is the active view. A
step of the composition is then one of the page or leaves it alone; the step that needs
the invariant is PickArc, where the arc's event has to be in the list (`ClickFacts`).

*Recursive functions.* `buildGraph` and `Filled` are loops over a list, written as
recursive functions, and an induction over the list is not available. The proofs go
through the least number of rounds after which the claim fails (`LeastElement`), once to
show that a function with the recursive equation exists at all (`RoundsExist`,
`FillingsExist`) and once for what it computes (`GraphFacts`, `FilledFacts`).

*Detector.* The age of a score is followed from AbuseIPDB's answer, whose waits
cover it (`WireInv`), into the cache, where it is the time spent there and those
two waits at most (`CacheInv`), and into a result (`AgeInv`); `ScoreIsFresh` is the
sum of the three bounds. `ScoresWereSent` follows a score down the same path: what
is on the wire was sent (`WireInv`), so was what is cached (`CacheInv`), and a result
has its score from one of the two (`AgeInv`). Severity and tactic
follow, over all integers, from the result holding what the scanners said (`SaidInv`),
and the thresholds of the three functions from the signals that were raised
(`SignalsAreSaid`, `TacticAndVerdict`).

*Sequences.* What `Ascending` and `Picked` return is shown without induction over a
recursive definition: they are defined by counting, and the step from one index to
the next goes through the least number with a property (`LeastElement`, from the
library's well-founded induction on `Nat`, with the relation fixed).

### Model-checked only

All liveness (`PublishSettles`, `RestShutdown`, `AckedIsShown`, `Reconnects`,
`FeedSettles`, `ArcsComplete`, `DetectEnds`): fairness and ENABLED are beyond the
prover. The `Documented...` properties are refuted, by TLC. What `StoreHook` says has
no safety property of its own.

## Not modelled

- Tracing, health routes, container files, SQL schema and MITRE layer: no state
  or no code that uses them. No service writes to the database.
- Rendering: the layout of the views, virtual scrolling, Three.js and D3 (camera,
  positions, zoom, the graph's simulation), the globe's auto-rotation and resize,
  and the graph's tooltip, which may show the counts of a list that has gone.
- `geoForIP`'s coordinates: they place arcs. For an IPv6 address they are NaN,
  and its arc is drawn nowhere.
- `Engine.Detect` has one caller, main's test event (an address only). The
  model calls it with every kind of event, as the tests of the package do.
- HTTP details: keep-alive connections that are idle (Node 20 closes them in
  `server.close`), `/health`, the 1 MB limit (counted as a body that does not
  parse).
- The time a command spends in ioredis and the kernel, other than that it may be
  lost or answered at any moment; Redis as a cluster; clocks of several hosts,
  except the sender's timestamps in `EventStore`.

## Plan

1. Done: limiter with proofs; gateway; fan-out; hook; store; detector; the
   pipeline; the snapshot loop; page, feed, graph and globe.
2. Done: the proofs of all safety properties, the views included, and the
   composition of page and globe.
3. Left: the views' tooltip, zoom and auto-rotation, if a property ever depends on
   them; the liveness properties, should the prover learn fairness.
