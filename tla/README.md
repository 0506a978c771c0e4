# Verification of trabbits

trabbits is an AMQP 0-9-1 proxy: a client talks to it as to a RabbitMQ server, and
trabbits spreads what the client does over one or two upstream RabbitMQ servers or
clusters. This directory holds TLA+ models of the parts of it where goroutines,
several upstreams, failures and reloads meet, the TLC runs that check them on small
instances, and TLAPS proofs of the properties that matter most.

## The system

| component | source | state | operations |
|---|---|---|---|
| publisher confirms | `confirm.go`, `methods.go` | per channel a `confirmState`: client tag counter and a map from (upstream, upstream tag) to client tag | Confirm.Select, Basic.Publish, one `listenConfirm` goroutine per upstream, Channel.Close |
| consuming | `delivery.go`, `methods.go` | the goroutines of each consumer, the interleaved delivery tags | Basic.Consume, Cancel, Get, Ack, Nack, the `consume` goroutine |
| server | `server.go`, `api.go`, `cmd/trabbits/main.go` | configuration and its hash, `activeProxies` | `handleConnection`, reload by SIGHUP and API, `disconnectProxies`, client shutdown by API, SIGTERM |
| health checks | `health/health.go`, `server.go` | `healthManagers`, per node status and failure count, the gauges | `StartHealthCheck`, rounds of checks, `Stop`, `initHealthManagers` |
| upstreams and queues | `upstream.go`, `methods.go`, `proxy.go` | `Upstream.channel`, `Upstream.destruct`, the gauge of connections | connecting, Channel.Open and Close, Queue.Declare and Delete, `Upstream.Close` |
| client connection | `proxy.go`, `server.go`, `methods.go` | socket, negotiated limits, `p.mu` and the buffered writer, heartbeat timer, `upstreamDisconnect` | handshake, main loop, `recv` (content put together from frames), `send` (cut into frames), heartbeat, `shutdown`, `sendConnectionError` |
| methods for every upstream | `methods.go` | none | Queue.Bind, Unbind and Purge, Basic.Qos, Exchange.Declare |
| AMQP codec | `amqp091/` | the octets read ahead | `WriteFrame`, `ReadFrame`, the methods, properties, tables |
| routing | `pattern/match.go`, `proxy.go` | none | `Match`, `GetChannelWithIndex` |
| probe logs | `probe.go`, `server.go`, `api.go` | ring per proxy, LRU of finished proxies, the streams | `probeLog`, `UnregisterProxy`, the SSE handler |
| server log buffer | `log_buffer.go` | ring, subscribers | `Add`, `Subscribe`, unsubscribe |
| configuration | `config/config.go` | none | load, validate, hash |
| API server | `api.go` | none of its own | PUT config, reload, shutdown of a client, the log streams; the rest reads |
| API client, CLI, terminal UI, metrics | `apiclient/`, `cli.go`, `manage.go`, `tui/`, `metrics/` | presentation, counters | |

How they interact. Each accepted connection has a goroutine that runs
`handleConnection`: header, `NewProxy`, handshake, `RegisterProxy`,
`ConnectToUpstreams`, then a loop that looks at the contexts and at
`upstreamDisconnect` and handles one client frame after the other. A handler goes over
the upstreams in a loop and calls the RabbitMQ client library, which has a reader
goroutine per upstream connection that hands deliveries and confirmations to Go
channels. `consume` and `listenConfirm` goroutines take them from there and write to the
client, beside the main loop. A reload replaces `Server.config`, restarts the health
managers and starts a goroutine that cancels the contexts of the proxies stamped with
another hash. The end of the main loop unregisters the proxy and closes its upstreams,
which deletes queues first.

What is hard here, and what makes each part correct:

- *confirms*: each upstream numbers its own publishes, so that tags have to be
  translated back while publishes go on; a confirmation must be the verdict on the very
  publish the client counts, and none may be lost or doubled;
- *consuming*: tags of two upstreams share one number space; an answer must settle the
  message it is about and no other, deliveries must keep their order, and no message may
  be forgotten when goroutines, cancels and closed channels race;
- *server*: the configuration is read more than once while it may change; no proxy may
  slip through a reload and stay on old upstreams, and the goroutine that disconnects the
  old ones must come to an end, since it cuts off new ones that an older reload finds;
- *health checks*: failures are counted in two places; a node's status must follow its
  dials, a stopped manager must not write over its successor's gauges, and a reload must
  leave the checks of the new configuration running;
- *queues*: what is to be deleted at the end of a connection must be deleted whatever
  failed before, and nothing else; a client that is told Declare-Ok must have its queue
  everywhere;
- *client connection*: several goroutines write frames to one socket and two may read
  it; frames of channels are interleaved; a message must reach an upstream whole, once and
  in order, a request must be answered, and whatever the client does a cancelled
  connection has to end;
- *codec*: what one side writes field by field the other must read in the same order,
  from octets that arrive cut anywhere, or the stream is lost from there on;
- *logs*: requests come and go while entries are written; an entry must come by the copy
  or by the channel and not by both, full channels must not block writers, and a request
  must leave nothing behind.

`PROJECT.json` lists the places in the code where these bite under `hazards`.

## The models

All modules keep the control of the handlers (order of calls, loops over the upstreams,
early returns, what an error ends) and abstract the data: a message is its tag at its
upstream, a configuration is a value that stands for its hash, a queue's attributes are
a set of flags. Each step is what happens between two points at which another goroutine,
the library or a broker can act. `i` is always the loop index of the handler.
Definitions keep the names of the functions they model, and `map` in `PROJECT.json`
gives the lines. Definitions marked *external* model the RabbitMQ client library and the
brokers by what the code relies on.

**Confirm** — one client channel number, opened up to `MaxOpen` times (*sessions*), with
up to `MaxSelect` confirmStates (*epochs*). `clientTag` and `tagMap` are the fields of
`confirmState`; `cs` is what `confirmStates` holds for the channel. `landed`, `verdict`
and `pushed` follow a publish through the library: taken by the broker, acked or nacked,
handed to the Go channel (of size `ConfirmBuf`, 64 in the code) of each listener. `lpc`,
`got`, `held` are the listeners. `sent` collects the frames written to the client. The
library's reader hands a confirmation to the listeners in the order they registered, and
blocks on a full Go channel. A publish can fail at any time, the broker can close a
channel, the client can be gone.

**Delivery** — one client channel number with up to `MaxConsume` consumers, each with a
goroutine per upstream. `unacked` is what a broker has sent and not seen settled, `buf`
the library's queue of a consumer (unbounded in the library), `gpc` and `hold` the
goroutines, `ctx2` the context they share. `received`, `answered`, `settled` and
`refused` record the client's view and what its answers did. `Gets`, `Multiple` and
`Breaks` switch Basic.Get, the multiple flag and failing upstream channels on. N is one
or two, as the configuration's validation demands.

**Server** — `cpc` is where a connection's goroutine is, `hash` the stamp of `NewProxy`,
`ups` the configuration that `ConnectToUpstreams` was called with, `active` the registry.
A reload is a job: `Load`, `UpdateConfig`, and the goroutine of `disconnectProxies` that
walks `sync.Map` (`WalkVisit` may or may not see what registers meanwhile) and cancels
its targets. SIGTERM is job 0. `Repeat` says whether a reload may bring an earlier
configuration back.

**Health** — jobs are `run` (0) and the reloads; each makes at most one manager, which
has its number. A round of checks is one step per node (`CheckNode`: passed over, dial
succeeds, dial fails) and one that sets the gauges. Time is ticks: `skipped` counts the
ticks at which an unhealthy node was passed over and stands for the time since
`LastCheck`. `streak` and `ever` record the dials themselves, to compare with what the
manager believes.

**Queues** — proxies with their channels, upstream connections, `destruct` lists and the
queues of the brokers. `Upstream.Close` is `CloseBegin` (any channel of the map, else a
new one), `Destruct` once per function, `CloseConn`; `CloseFail` is its early return.
`TryPassive` and `Emulate` are the upstreams with these options, `ForceOn` and
`ForceOff` the overridden attributes. `asked`, `wanted` and `noted` remember the past.

**Connection** — `handleConnection` from the AMQP header to its end. `pc` is where it
is: `header`, `startOk`, `tuneOk`, `open` (the method that `handshake` waits for),
`connect`, `loop` (the `select`), `read` (`process`), `content` (`recv`, with the frames
so far in `got`), `fan` (a method repeated on every upstream, `got` being the upstreams
done), `closing` (`shutdown` and `sendConnectionError` waiting for Close-Ok), `end`. The
client is an environment that follows the protocol: it interleaves frames of two channels
and heartbeats, stops in the middle, hangs up. `Silence` is a read without a frame: a
deadline or the end of the stream. Bodies have the size of their frames, which are
numbered, so that a lost or doubled one shows; methods that
differ in nothing the control sees are one kind (`bind` stands for those that wait for
each upstream, `purge` for those that do not). A message written to the client is one
step; **Framing** is the reason that it may be. **Pattern** has `Match`, `matchTokens`,
`matchTokenWithPercent` (patterns and keys are sequences of words, a word is a sequence of letters)
and `Route`, which is `GetChannelWithIndex`; `KeyMeans` says without an algorithm what a
pattern matches according to the README, for keys of one word too. The recursion of the code is a table by the two positions, since the
result for one pair of them depends on those for later pairs only.

**Framing** — the other end of the same connection: `send` frame by frame. `mu` is
`p.mu`, `buf` the `bufio.Writer`, `wire` what was flushed (a write blocks when the client
does not read), `err` the writer's error, which stays. `asked` is the order in which
senders got the mutex. The client puts messages together from frames and is `confused`
when one does not belong where it is. **MessageStream** is the abstract specification:
messages asked for, and delivered whole in that order; the refinement maps `asked` and
`delivered` to themselves, and every write of a frame that does not complete a message to
a stutter.

**Codec** — `WriteFrame` and `ReadFrame` as functions on octets: every method of
`spec091.go` as a list of its fields (`Msg`), the properties with their flags, tables and
fields with their tags. The state machine around them is a connection on which octets
arrive in chunks and the reader's deadline may pass (`Timeout`, as `process` handles it).
A frame with a value that `writeField` refuses (`Writable`) is not written. **MCWire** has
the frames to try, and explores Codec and Framing each while the other rests, since they
share no state.

**LogBuffer** — `LogBuffer.Add`, `Subscribe` with its replay and unsubscribe goroutines,
and `apiServerLogsHandler`; entries are numbers. **ProbeLog** — `probeLog` in its three
attempts (send, discard, send again), `RegisterProxy` and `UnregisterProxy` in its two
halves, and `apiProbeLogHandler` (`LoadActive`, `Lookup`, `LookupRetained`,
`WriteBuffered`, `WriteLive`). **MCLogs** explores each while the other rests, since they
share no state.

**ConfirmProofs**, **DeliveryProofs**, **ServerProofs**, **HealthProofs**,
**QueuesProofs**, **ConnectionProofs**, **FramingProofs**, **LogProofs** (LogBuffer and
ProbeLog) — the theorems.

## The runs

Passing runs:

| run | instance | what it shows |
|---|---|---|
| `ConfirmRoutes` | 2 upstreams, buffer 1, 2 publishes, 1 session, 1 epoch, fairness | `ConfirmSound`: a confirmation carries the tag its publish was recorded under and the broker's verdict on it. `ConfirmConserved`: every tag given out is in the map, with one listener or written, exactly once. `TagsFollowClient`: the tag is the one the client counts. `ConfirmDelivered`: every verdict reaches the client unless the connection ends. |
| `DeliveryMerge` | 2 upstreams, 1 consumer, Basic.Get, 2 messages each | `SettlesMeant`, `NeverRefused`: an answer settles exactly its message and no upstream refuses it. `DeliveriesOrdered`: no delivery before Consume-Ok, order kept. `UnackedAccounted`: no message forgotten. |
| `DeliveryLive` | 1 upstream, 2 sessions, 2 consumers, multiple flag, fairness | `MultipleSettlesExactly`: the multiple flag settles exactly the deliveries up to the tag; `QueuedIsDelivered`, `GoroutinesEnd`. |
| `ServerLive` | 1 connection, 3 configurations, 2 reloads, SIGTERM, fairness | `StaleIsDoomed`: a proxy on the upstreams of an old configuration is cancelled or going to be. `DoomedEnd`: it ends, and so does every cancelled proxy. `ReloadSettles`: the goroutines of both reloads come to their end, or the process does, although the proxies on their lists may end meanwhile. |
| `HealthChecks` | 2 nodes going down and up twice, threshold 2, 1 reload, fairness | `UnhealthyMeansFailing`: unhealthy exactly after the threshold of failed dials in a row, or failures only since the start. `OnlyStoredManager`: gauges and goroutines belong to the manager in the map. `StatusConverges`, `ReloadCompletes`. |
| `QueuesCleanup` | 2 clients, 2 upstreams (one with try_passive, both emulating auto_delete), 3 requests, 1 failure; `MCQueues` makes clients and queue names interchangeable (no action tells them apart) | `CleanedUp`: a connection closed with no dead channel has left no queue it was to delete. `OnlyAskedFor`: no other queue disappears. `DeclaredEverywhere`: when Queue.Declare is about to be answered Ok, the queue is at every upstream that was waited for, unless it was deleted on demand or the connection there is lost. |
| `WireStream` | Codec: every method with zero and non-zero fields and each of its bits, every property alone, missing and together, every type of table entry, short strings of 255, 256 and 258 octets; 2 frames, cut anywhere into 2 chunks, 1 deadline. Framing: 2 senders, 2 messages with no body or one of 0, 1, 3 octets at 2 to a frame, a window of 2 frames; fairness | `FramesIntact`: the frames read are the ones written. `StaysInSync`: the reader consumes exactly the octets of a frame. `NeverConfused`; `StreamOfMessages`: Framing implements MessageStream. `OneReader`: the heartbeat goroutine never reads the connection. `WritersProceed`: messages arrive, and who wants to cancel the proxy gets its turn. |
| `ConnectionServe` | 2 channels, 2 upstreams, bodies of 0 or 1 frame, 2 methods or heartbeats, 1 upstream lost, 2 keys (one for the second upstream, one that both have patterns for), fairness | `PublishIntact`: what reaches an upstream is whole, once, in the order of its channel. `OkMeansApplied`: Ok to a method that waits for its upstreams (Queue.Bind, Queue.Unbind, Basic.Qos, Exchange.Declare) only if every one carried it out. `Answered`, `Ends`. `RoutedAsMeant`: a message goes to the first upstream whose patterns mean its key, but for keys of one word that a pattern of several means. `PatternsByRules`, an assumption that TLC evaluates before the run, compares `Match` with `KeyMeans` and `Route` with the rule on keys and patterns of up to 3 words. |
| `LogsFollow` | server log: 1 request, ring of 2, channel of 1, 4 entries; probe logs: 2 proxies, 2 goroutines, 1 request, ring of 2, LRU of 1, 4 entries; fairness | `LogFollowed`: every entry once or passed over, in order. `ChannelOrderly`: making room in a probe channel reorders and repeats nothing, and every entry taken out is made up for. `ToldTruly`: what a request is told of a proxy is true. `RequestsProceed`: replays get through, requests end and leave nothing behind. |

Three runs show that what a document or a comment of the repository says and what the code does
disagree:

- `ConfirmExit` (1 upstream, buffer 1, 3 publishes, fairness) finds `ChannelsClosed` violated.
  `Upstream.Close` leaves its channels to `connection.Close()`. When a send to the client fails,
  `listenConfirm` returns and its Go channel stays registered; once that is full, the library's
  reader blocks on it, and `Close` waits for an answer that only the reader could read. In the code
  it takes 64 unread confirmations, and one more under way.
- `ConnectionTopic` (1 channel, a key of one word, a pattern `word.#` at the second upstream) finds
  `RoutingMeans` violated: `Match` turns a key of one word away from every pattern of several, though
  the README has `#` match zero words. A test of the repository expects it as it is.
- `QueuesTryPassive` finds `AsConfigured` violated, because the "passive" declaration is a
  no-wait one and creates the queue without its attributes.

Several properties are conjunctions of named parts (`DoomedEnd` is `StaleEnds` and
`CancelledEnds`, and so on); the modules state each part. Every module but the codec and
the logs has a `TypeOK`; the runs check those of Confirm and Delivery, where it is proved.

Bounds. The counters that are capped (sessions, epochs, publishes, messages, consumers,
reloads, flips, requests, breaks) only limit how long a behaviour is; each bound is the
smallest with which the races of its property happen, as the mutants show: for every
property of every passing run `PROJECT.json` names a plausible bug in the mapped code
that the run finds under the same bounds. Two upstreams are the most a configuration may
have. `ConfirmBuf` is far below 64: in `ConfirmRoutes` the buffer
of a listener can be full with the first of two confirmations, and in `ConfirmExit` three fill it
and block the reader. One connection is enough
for the server's properties, which are about one proxy against all reloads; proxies
share nothing but the registry. `MaxFails` caps `ConsecutiveFails` above the threshold,
where only `>=` is asked. `Window` stands for the socket's buffers; `MaxSize`,
`ChanSize`, `BufferSize` and `Retained` are 200, 100, 100 and 1000 in the code: only
whether something is full matters. TLC's integers have 32 bits, so that Codec checks 64-bit
fields on values that fit. Deadlock is not checked: a connection, a process and a
bounded behaviour may end.

Fairness. Go runs every goroutine that can run: weak fairness of each handler that has
been entered, of each goroutine, of the library's readers and of the jobs. A read of the
client's socket returns (deadline `processTimeout`), a dial returns (timeout), a ticker
ticks. Strong fairness is assumed where the runtime gives more than that: of
`GoroutineEnd` in Health and `HandlerReturns` in LogBuffer, because a `select` with
several cases ready picks at random, and of those who wait for `p.mu` in Framing, because
`sync.Mutex` is starvation-free. Nothing is assumed of brokers. Of clients it is assumed
in Framing that they read (without it no message arrives), and in Connection that a
client that began a content completes it or hangs up: `recv` has a deadline, but one that
passes inside a frame is outside this model. In
Connection a write is one step that completes or fails; a client that keeps the
connection and never reads would hold it up (Known limits).

## The proofs

Every safety property of a run is a theorem for all values of the constants, but for those
listed at the end of this section. The assumptions on constants are named in the module that
declares them and say what sizes and bounds are (naturals, positive where the code has a
buffer), that a mark for "none" is not one of the things it stands beside, and what
`config.Validate` demands. Where a theorem has a hypothesis of its own (`~Repeat`,
`~Overlap`, `~ReSelect`, `MaxOpen = 1`, `N = 1`), the property fails without it, and Known limits
says how; `~Multiple` is what the property says of the client. Each proof is one inductive invariant, preserved by every action.

`ConfirmProofs`, for any number of upstreams, sessions, epochs and publishes and any buffer:

- `ConfirmTypes`: `TypeOK`; `ConfirmSafe`: `ConfirmSound`. The property speaks of frames
  already written and is not inductive. `IInv` adds where frames come from: `TagInv` (an
  entry of a map belongs to a publish that has landed under its key, or to the one under
  way: the reason for recording before publishing), `HoldInv` (the same of what a listener
  holds), `CountInv` (each stage is behind the one before) and `EpochInv` (which session
  and epoch the main loop works on). `LandedGrows`, `VerdictGrows` and `EpochFixed` say
  that what the invariant refers to only grows, `MatchesStable` that a match stays one.
- `ConfirmNumbers`: `~ReSelect => (Spec => []TagsFollowClient)`, with the count on both
  sides (`FreshInv`, `SeqInv`, `LandedInv`).
- `ConfirmsConserved`: `ConfirmConserved`. The places of a tag (map, a listener's hands,
  written) are counted by cardinality, and `BoundInv` keeps tags not yet given out away.

`DeliveryProofs`, for one and two upstreams and any number of sessions, consumers, messages:

- `RestoreOfTag`, `TagInjective`: `restoreDeliveryTag` undoes `Tag`, and two messages never
  share a tag. `DeliveryTypes`: `TypeOK`; `SettlesExactly`: `SettlesMeant`, with `TagInv`,
  `GoInv` and `LoopInv`.
- `DeliveriesComeInOrder`: `DeliveriesOrdered`. `StartInv` has the goroutines start after
  Consume-Ok; `OrderInv` orders what was received, is in a goroutine's hands and is in the
  library's queue of a consumer. `Moves` sorts all steps by what they do to one message, so
  that this and the next proofs go over few cases.
- `NoMessageForgotten`: `UnackedAccounted`, with `AccountInv`.
- `RefusedOnlyAfterLate`: `~Multiple => (Spec => []RefusedNeedsLate)`, and
  `OneSessionNeverRefused`: `~Multiple /\ MaxOpen = 1 => (Spec => []NeverRefused)`.
  `UniqueInv` (a message is in one place) and `OpenInv` (in a session without late
  deliveries the broker still waits for what is unanswered). The attempt to prove
  `NeverRefused` for several sessions showed that it does not hold: a delivery of an
  earlier session that is written into a later one carries a tag the later one uses too;
  the answer to it settles the later message, whose own answer is then refused. So a
  refusal needs a late delivery, and one session has none.
- `MultipleNeedsDelivery`: `MultipleSettlesSeen`. A broker gives a consumer that has the
  channel to itself every tag in turn, and they are received in this order, so that below a
  tag the client was given there is none it was not: `GapInv` follows this (`Gapless`) from
  the broker's last tag over the library's queue and the goroutine to the client, `FreshInv`
  that a channel nobody has consumed from has numbered no message, `SettledInv` and `SourceInv` where settled
  tags come from.
- `MultipleIsExact`: `N = 1 \/ ~Multiple => (Spec => []MultipleSettlesExactly)`. For the other
  half `AnswerInv` follows what the client has answered until the upstream has settled it.

`ServerProofs`, for any connections and configurations and any number of overlapping reloads:

- `NoProxySlips`: `~Repeat => (Spec => []StaleIsDoomed)`. `StaleIsDoomed` is inductive
  together with `WalkInv` (where connections and reloads are), `FreshInv` (nobody has met the configuration of a reload that has not called
  `UpdateConfig`) and `LoadedInv`, which gives that a loaded configuration is new.

`HealthProofs`, for any nodes, threshold and number of reloads:

- `UnhealthyExactly`: `UnhealthyMeansFailing`, with `CountInv` (while a node is not
  unhealthy the count is the number of failures in a row) and `PhaseInv` (what the initial
  check has been to).
- `StoredManagerAlone`: `~Overlap => (Spec => []OnlyStoredManager)`, with `KeptInv`,
  `ClearInv` and `GaugeInv`: a reload waits for the manager in the map, and between that and
  storing its own nobody else is at work.

`QueuesProofs`, for any clients, upstreams, queues and configured attributes:

- `NothingElseDeleted`: `Spec => OnlyAskedFor`, from `AskInv` (whatever is on a list of
  destructors was asked to be deleted, or belongs to the proxy alone).
- `RegularCloseCleansUp`: `CleanedUp`, from `CleanInv` (what was noted is on the list until
  `Upstream.Close` has been at it).
- `DeclareOkEverywhere`: `DeclaredEverywhere`, from `DeclInv`: the same of the upstreams that the
  loop of `replyQueueDeclare` has passed. `LinkInv`, which all three rest on, says that neither
  connecting nor closing meets an upstream twice.

`ConnectionProofs`, for any channels, upstreams, sizes of bodies, frames and losses:

- `PublishedIntact`: `PublishIntact`. `WireInv` follows the frames: each one on its way is a
  method or a numbered piece of a publish (`GenuineInv`); a piece is followed, on its channel,
  by the next piece of the same publish or by nothing, and then the client has still to send
  it (`ContentInv`, `TodoInv`); `recv` has the first pieces of `cur`, and the next one is the
  next frame of its channel (`RecvInv`); numbers grow from what was handed on, over what `recv`
  reads, to what is under way (`OrderInv`, `BehindInv`). The step lemmas are about the three
  things that can happen to the frames: none moves, the first is taken, one is added.
- `OkOnlyIfApplied`: `OkMeansApplied`, for the methods that wait for their upstreams, from `FanInv` (a handler has been to the first
  upstreams with a method of the client) and `OkInv`.
- `MatchIsMeaning`: for all keys and patterns `Match(key, pat)` is equivalent to
  `(Len(pat) = 1 \/ Len(key) > 1) /\ KeyMeans(key, pat)`: `Match` is what the wildcards mean, but
  for the early return that `ConnectionTopic` is about. Both
  loops of the matcher fill a table of the same shape (`Entry`), once for the letters of a
  word (`PercentMeans`) and once for the words of a key (`TokensMean`). `EntryRight` is the
  step: if the entries further on say whether the rest of the text can be cut into pieces
  for the rest of the pattern (`Cuts`), so does this one. In the place of an induction
  stands the least counterexample (`LeastNumber`, from the library's theorem on minimal
  elements): in `TableRight` a wrong entry nearest to the end. That the recursive definition
  defines a table at all is `TableExists`: the one of the right answers is such a table.
- `RoutedByMeaning`: `RoutedAsMeant`. `RouteInv` says that what reached an upstream was routed
  by the key of its publish, `KeyInv` that this is a key, `RouteIsFirst` that `Route` is the
  first upstream whose patterns mean it, if it is not such a short key. It uses `RoutingAssumption`: keys and patterns have
  at least one word, as `strings.Split` returns them.

`FramingProofs`, for any number of senders, any bodies and any frame size:

- `ClientNeverConfused`: `NeverConfused`; `HeartbeatNeverReads`: `OneReader`;
  `FramingImplementsStream`: `Spec => StreamOfMessages`, the refinement of MessageStream.
  `PathInv` says that the frames in `wire` and then `buf` lead the client from the place it
  is at to the place of the sender that holds `p.mu`, and `LockInv` that this sender has the
  last message asked for. A sender extends the path at one end and the client takes it up
  at the other; a step of the client that completes a message is the abstract `Deliver`.

`LogProofs`, for any number of requests, proxies and goroutines and any sizes:

- `LogIsFollowed`: `LogFollowed` (`EntriesInv`: the buffer is the end of the log; `FollowedBy`
  and `Complete`: the copy and the channel meet without gap or overlap).
- `RequestToldTruly`: `ToldTruly` (`RetainInv`: a finished proxy is in the LRU or evicted;
  `ReadTruly`: what a handler has read still holds where it matters).
- `ProbeChannelOrderly`: `ChannelOrderly` (`LatestInv`, `LiveInv`: entries of a
  goroutine stay in order; `Balanced`: the goroutines in each of the three attempts are
  counted with the entries in the channel, so that two that make room at once do not empty
  it further).

Only model-checked: all liveness properties (fairness and ENABLED are out of the prover's
reach); and `FramesIntact` and `StaysInSync` of Codec, which say what operators that are
recursive over nested tables and arrays compute. Such operators cannot be used in a module
with proofs, and unlike the table of the matcher they have no function on a set of positions
in their place: the recursion follows the values themselves.

## Known limits of the code that the properties leave out

- After Channel.Close and Channel.Open a confirmation or delivery of the old session can
  still be written to the new channel: `replyChannelClose` does not wait for the
  goroutines. `ConfirmSound` and `SettlesMeant` say what holds nevertheless
  (`Timely` exempts answers to late deliveries); `ConfirmsStayInSession` in Confirm
  does not hold.
- A delivery of an earlier session, answered in a later one, can settle the later one's
  message of the same tag, whose own answer the upstream then refuses: `NeverRefused` holds
  for one session, `RefusedNeedsLate` for any number.
- A second Confirm.Select restarts the client's tags; `TagsFollowClient` holds with one. The
  runs of Confirm have one; `ConfirmSound` and `ConfirmConserved` are proved for any number.
- A publish that fails leaves its entry in the map, under a key that a later publish would
  reuse (methods.go:93). It also ends the connection, and the properties of Confirm say
  nothing of what is written after that.
- A listener that gave up on a dead client leaves a Go channel that nobody empties
  (confirm.go:132); full, it blocks the library's reader and `Proxy.Close` (`ConfirmExit`).
- With two upstreams the multiple flag reaches one of them only, and two consumers on
  one upstream can overtake each other: `MultipleSettlesAll` and `MultipleSettlesSeen`
  are stated for one upstream and for a consumer alone on its channel.
- The walk of an older reload can disconnect proxies made for a newer configuration;
  `ReloadSettles` says only that such a goroutine ends.
- Two reloads over the API at once can leave a health manager running that is not in the
  map (`NoOrphan` is checked with `Overlap = FALSE`).
- If the channel that `Upstream.Close` picks is dead, no queue is deleted; a destructor
  stays after the client has deleted its queue. A connection lost with no channel open
  leaves the gauge too high for good; the gauge is a variable of Queues, of which no property
  speaks.
- Health results are not used to choose nodes (`connectToUpstreamServers`).
- A consumer that one upstream ends stays registered at the others: the goroutines are
  stopped by `ctx2`, the consumers were started with `ctx` (methods.go:170).
  `ExitCancelsAll` in Delivery states the opposite.
- With `Repeat = TRUE` `StaleIsDoomed` fails: a proxy stamped with A connects with B after
  a reload, and a reload back to A finds the stamp equal and leaves it on B (server.go:584).
- `boot` returns when the listener is closed, and the process may end before the clients
  were told (server.go:477), though the repository's README promises a graceful
  disconnection. `ExitGraceful` in Server states it.
- `initHealthManagers` runs before `UpdateConfig`, on the configuration that is being
  replaced, and over the API with the context of the request (api.go:254).
  `ChecksFollowConfig` in Health states what would be expected.
- A deadline that passes inside a frame loses the octets read so far, and the next read
  starts in the middle (proxy.go:570): `FramesIntact` and `StaysInSync` speak of streams
  that were not torn. Short strings of 256 octets and more are cut to their length modulo
  256 (write.go:283).
- A message with an empty body is not flushed (proxy.go:695): without heartbeats it waits
  for the next write. `EveryMessageArrives` exempts it.
- `send` holds `p.mu` while it writes and sets no deadline: a client that does not read
  blocks `setShutdownMessage`, and with it `disconnectProxies` (proxy.go:679).
- `frameMax` has no minimum (proxy.go:710); Framing takes it to be above 8.
- A frame of another channel or a heartbeat between the frames of a content is lost, and
  the client is sent Connection.Close on the channel of the content, while the main loop
  goes on (proxy.go:749). `PublishIntact` says that no content is mixed up by it.
- Queue.Purge is called with no-wait though the comment at methods.go:441 says that the
  upstream's answer is always waited for; a reply is written also when the client asked
  for none. `OkMeansApplied` speaks of the methods that wait (in the model kind `bind`, not
  kind `purge`).
- `sendConnectionError` sets a short deadline that `recv` replaces by the process timeout
  (proxy.go:550): a silent client delays the end, and `Ends` says only that it comes.
- A key of one word matches no pattern of several, such as `a.#`, though the README says
  that `#` matches zero words (match.go:20, `ConnectionTopic`).
- The headers of a delivery are converted to the types of `amqp091` at their top level only
  (methods.go:292). A table inside them, such as in `x-death`, is then of a type that `writeField`
  refuses (write.go:444): `send` fails after it has put the method frame into the buffer, and the next write
  of any goroutine sends that frame without its header. Framing has only messages that can be
  written; `NeverConfused` and `StreamOfMessages` do not speak of the others.
- A request for the server log that ends during the replay can make the replay send on a
  closed channel, which panics (log_buffer.go:60). The model has it (`panicked`), and no
  property excludes it.
- Goroutines that make room in a full probe channel at the same time may drop the entry they
  have made room for, while an older one stays (proxy.go:102). `ChannelOrderly` does not say
  which entries remain.
- Nothing closes `probeChan`: the stream of a proxy that ends meanwhile is never told;
  two streams of one proxy share its entries; an entry may come by the ring and again by
  the channel (api.go:428). A lookup between the two halves of `UnregisterProxy` finds
  nothing, and proxies whose handshake failed take places in the LRU (server.go:200).
- Cancelling waits on a rate limiter whose burst size the configuration's validation does
  not bound; with 0 the wait fails and the proxy is not cancelled (server.go:274). The
  model takes the limiter as a delay.
- `ShutdownProxy` writes `shutdownMessage` without `p.mu` (server.go:800). The text of
  Connection.Close is not modelled.

## Not modelled, and the plan

Left out: the order of nodes by least connections (a sort by a gauge, which Queues
raises and lowers); loading, validating and hashing the configuration (a value in the
models); the terminal UI, the API client and the CLI (presentation and I/O); metrics
export and statistics; parsing of SASL responses (`amqp091/auth.go`), which either yields
credentials or ends the handshake; PID files and logging. Consumers with no_ack, `no-wait`
replies and the broker's own auto_delete are abstracted away in Delivery and Queues. The
text of errors and their codes are not modelled anywhere.

Every safety property of the runs but the two of Codec is proved. What would be left there
is to separate the stream (octets that arrive in chunks, frames read one after the other) from
the round trip of a single frame, and to prove the first from the second.
