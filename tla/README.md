# A TLA+ model of milky-onebot11-bridge

The program under `src/` connects a QQ gateway that speaks the Milky protocol to
bots that speak OneBot 11. It receives notifications from Milky over one client,
translates them into OneBot events and broadcasts them over WebSockets, forward
(bots connect to the bridge) and reverse (the bridge connects to bots). On the
same sockets bots call the OneBot API, which the bridge carries out by calls to
Milky. This directory holds TLA+ modules translated from that code, the TLC
configurations that check them, and proofs for TLAPS.

The paths below are relative to `src/`.

## 1. Inventory

| component | code | state | operations |
|---|---|---|---|
| WebSocket hub | `internal/onebot/server.go` | `Server.clients` under `Server.mu`; per connection `clientConn.mu`, the socket, gorilla's sticky write error | `handleUniversalWS`, `handleAPIWS`, `handleEventWS`, `runReverseClient`, `serveReverseConnection`, `addClient`, `removeClient`, `Broadcast`, `write` |
| HTTP API, authorization | `internal/onebot/server.go`, `api.go` | none | `handleHTTPAPI`, `buildHTTPParams`, `authorized`, `NormalizeAction` |
| Service loop | `internal/bridge/service.go`, `internal/onebot/server.go` | the goroutine of `Run`; `errCh`, ticker; the goroutines of `Server.Start` | `Run` with its deferred calls, `Start`, `OnWSConnect` |
| API execution | `internal/bridge/service.go` | none of its own | `HandleAPI` |
| Event translation | `internal/bridge/translator.go` | none of its own | `toOneBotEvent` |
| Maps | `internal/state/message_map.go`, `request_map.go` | `items` under a lock, `counter` (atomic) | `Put`, `Get` |
| Runtime status | `internal/state/cache.go` | login, `upstreamConnected` | `SetLogin`, `SetUpstreamConnected`, `Status` |
| Milky client | `internal/milky/client.go` | `events` channel, `session`, `login` | `Connect`, `Close`, SDK handlers, `emit`, upstream calls |
| Segments and CQ codes | `internal/bridge/message_ir.go`, `internal/milky/client.go` | none | `parseOneBotMessage`, `parseCQMessage`, `buildOneBotMessage`, `toMilkySegments`, `fromMilkySegments` |
| Configuration | `internal/config/config.go` | the loaded file | `Load`, `Validate` |
| Entry | `cmd/milky-ob11-bridge/main.go`, `internal/app/app.go` | ctx | signal handling, wiring |

How they interact:

- SDK goroutines call `emit`, which puts a notification into the bounded channel
  `Client.events`, or drops it.
- `Service.Run` is one goroutine. It takes notifications out of the channel,
  translates them (entering message ids and request flags in the maps) and calls
  `Server.Broadcast`, which holds `Server.mu` for reading for the whole range
  over the connections. Heartbeats go the same way.
- Every connection has a goroutine. It registers under `Server.mu`, answers API
  requests by `HandleAPI`, which reads and writes the same maps and calls Milky
  from this goroutine, and unregisters.
- Replies and events share a connection through `clientConn.mu`.

What is hard: `Broadcast` writes to sockets without a deadline while it holds the
registry lock, so one slow peer reaches every other goroutine; the two kinds of
connections leave a session in different orders; ids told on one connection are
used at once on another; Milky's answers may be lost; ids are translated with less
information than Milky needs to find a message again.

What makes each component correct:

- Hub: the registry is exact on every path out of a session; no two concurrent
  writers on a socket; nobody registered misses an event, and events have no gap;
  roles are respected; replies come in order; `Broadcast` returns; the reverse
  client reconnects; the process stops.
- API, translation and maps: a message id or flag that a bot is told resolves, for
  ever, and a flag to the same request; an upstream call is about what the bot means;
  decisions are of the kind of the request.
- Channel: nothing is reordered, and only a full buffer loses anything.
- Service: bots are served only once session, login, status and identity are
  there; one identity; a status that follows the session that `Run` has opened; an
  error of the listener, or a signal, ends the process; what was opened is closed.
- Codec: a bot that repeats what it was told says the same; the array and the
  string form mean the same; escapes are undone exactly; a number is exact or
  refused.
- Requests: the same call means the same over every transport, and a refused one
  has no effect.
- Configuration: what `Validate` accepts starts the clients it asks for.

`PROJECT.json` lists the hazards with their lines and the properties that cover
them; the few without a property say why.

## 2. Modules

| module | what it is |
|---|---|
| `EventFanout` | what the hub promises of events, without locks, sockets or goroutines |
| `OneBotServer` | the hub in detail, and its refinement mapping to `EventFanout` |
| `MCOneBotServer` | the kinds of connections with their direction and roles |
| `OneBotServer_proofs` | theorems about the registry, the locks and the fan-out of `OneBotServer` |
| `OneBotFrames_proofs` | theorems about the frames in its sockets; extends the former |
| `NameDirectory` | what the bridge promises of the flags of requests |
| `Bridge` | channel, service loop, `HandleAPI`, the maps, Milky, and a refinement mapping of `RequestMap` to `NameDirectory` |
| `Bridge_proofs` | theorems about `Bridge` |
| `Lifecycle` | what the bridge promises of its life as a process |
| `Config` | operators: `Default`, `Load`, `Validate`, and what `startReverseClients` makes of a configuration |
| `Service` | the process from `main` to its exit, and its refinement mapping to `Lifecycle`; uses `Config` |
| `MCService` | ten configuration files |
| `Service_proofs` | theorems about `Service` |
| `CQCodec` | operators: segments, CQ codes, Milky elements, and the conversions between them |
| `MessageFormats` | a message that is composed piece by piece and sent through `CQCodec` |
| `MCMessageFormats` | pieces of messages |
| `Texts_proofs` | lemmas about sequences that are concatenated piece by piece |
| `CQCodec_proofs` | lemmas about the operators of `CQCodec`: escaping, parsing, numbers; extends the former |
| `MessageFormats_proofs` | theorems about `MessageFormats`; extends the former |
| `APIRequests` | how a request reaches `HandleAPI`, and what `HandleAPI` makes of it |
| `MCAPIRequests` | requests a bot may want |
| `APIRequests_proofs` | theorems about `APIRequests` |

Some modules hold operators whose comment begins with "Fault". Each is a copy of
the definition after it with one plausible bug in it. No specification uses them;
substituting one for its original shows that a property can fail.

The modules cut the system where the code hands over: `Service` accepts and drops
connections in one step and `OneBotServer` opens a session up; in `Service` and
`Bridge` the loop is inside `Broadcast` until its writes are through, which may be
never, `OneBotServer` opens `Broadcast` up and takes `HandleAPI` for one step,
`Bridge` opens `HandleAPI` up from its parameters on, `APIRequests` up to them, and
`CQCodec` is the content of the messages that `Bridge` and `APIRequests` only pass on.

### OneBotServer

A *slot* of `Conns` is one remote peer; a session is one `clientConn`. What the
variables stand for:

| variable | in the code |
|---|---|
| `clients` | `Server.clients`. A slot has at most one session at a time, so a slot stands for its `clientConn` |
| `pc`, `job` | the goroutine of the slot: its place in the handler, the frame it is writing |
| `wmu` | `clientConn.mu` and its owner |
| `loop`, `event`, `todo`, `target` | the goroutine of `Run` inside `Broadcast`: what is left of the range and the connection being written to |
| `link`, `werr`, `sock` | the socket: open, half-closed, broken or closed; the sticky error; what the peer has not read |
| `asked`, `taken`, `answered` | requests sent, read and answered in a session |
| `sent`, `seen` | the last event written to and read by a peer |
| `done` | ctx is cancelled |

`Server.mu` has no variable. `Broadcast` is its only reader and `loop` tells
whether it holds it; writers hold it for one step. `sync.RWMutex` lets no new
reader in while a writer waits and lets a waiting reader in before the next
writer: that is the state `"rlock"`, entered when a writer waits and left by
that writer's Unlock. A slot that is `adding` or `removing` has called `Lock`; the
moment before the call is the end of its previous step, which nobody can tell
from the step itself.

The three forward handlers and the reverse client are one set of actions, whose
differences are conditions: a connection that cannot send writes no lifecycle
frame, one that cannot receive drops what it reads, a reverse one looks at ctx
before it reads, ends at any failed reply, and runs `removeClient` before
`conn.Close`, where the deferred calls of the forward handlers run in the opposite
order. `HandleAPI` happens inside `ReadRequest`; `Bridge` opens it up.

`Exit` is the end of the process: `main` returns right after `Run`, without
waiting for handlers or for `Shutdown`.

### Bridge

Each action is one access to shared memory or to Milky. `MessageMap.Put` and the
telling of an id are apart; `RequestMap.Put` draws its flag before it takes the
lock, and is two steps; a call of `HandleAPI` is lookup, upstream call, `Put` and
response. `posted`, `sent`, `recalled` and `requested` are Milky's state. `toldIds`,
`recallIds` and `toldFlags` are history: what the bots were told that a name stands
for, by messages and responses, by the notices of recalls, and by requests. A
recall's notice tells the seq of the recalled message as its `message_id` and enters
nothing (`translator.go:117-136`), so its id is told whether or not it resolves. A
call carries, as `meant`, what the bot was told of the name it passes, or `None` if it
was told nothing.

The select loop takes events and heartbeats and is inside `Broadcast` (`"writing"`)
until `BroadcastReturns`, which has no fairness: the writes have no deadline. `RunEnds`
is the return of `Run` on ctx or on an error of the listener, with whatever is left
in the channel.

A seq belongs to a conversation: Milky addresses a message by peer and seq, and
nothing in the repository says that seqs differ between conversations, so the
messages are pairs and two of them may be *namesakes*. Milky pushes messages of other
users, not those the bridge itself posted (`sent`).

### Service

`pc` is the place of `main`, and of `Run` and `Connect` inside it: one action for
each statement that changes something another goroutine sees. `listener` is the
goroutine around `ListenAndServe`, `errCh` the channel to the select loop, `nil`
included, to which `Run` sets it once it is closed. `session` and `login` belong to
`Client`, `self` and `connected` to `Runtime`; `link` is the websocket of the SDK's
session, and may be lost while `connected` stays. A failure of Milky, a panic of the SDK, a
failure of the listener at the bind or later, and the signal may come wherever the
code admits them. `writing` holds the connections that a `Broadcast` under way has not
written to yet. Each write lasts until the peer reads or the connection ends, perhaps
for ever, and meanwhile `Run` is not in its select and nobody registers. A connection
is known by its role: the four forward paths that the configuration enables, and the
reverse clients of `ReverseRoles`. `told` is history: every self_id that a greeting, event, heartbeat, answer or header carried.
The only notification here is a nudge of the bot, since its handler is the one that
reads `Client.login`; all others are in `Bridge`. An element of `Nudges` is used again
once its nudge was taken or dropped, so their number is not bounded, only how many are
under way at a time.

`ServedAs`, the identity of the mapping to `Lifecycle`, is defined from the
configuration and the account and not from `Runtime`: that `SetLogin` has stored
that very number before anybody is told is what the refinement shows.

### CQCodec and MessageFormats

A string is a sequence of tokens: the characters that the code searches for,
`CQ:`, the second halves of the entities, digits, and words it only passes on. That
is enough to write text that looks like a code, an entity cut in two, a code that
never ends. `MessageFormats` composes a message from either side, and its invariants
relate the two directions of the conversion to each other.

`ParseCQMessage` is the loop of the source as a recursive function, one value for
each round: `Pieces` is what a round appends to the segments and `Remaining` the
input it leaves to the next. A round consumes at least a token, so there are no
more rounds than tokens. `strings.Index` is a `CHOOSE`, `strings.Split` and the map
that the entries of a code are collected in are sets of positions: nothing in the
module is a `RECURSIVE` operator, which the proofs could not use.

What a Milky message means is what its reader sees (`Seen`): the elements, and of
texts the characters, so that one text and the same text in two parts are equal.
The code does join and split texts: two adjacent text segments of an array become
one in a string.

### APIRequests

`wish` is what the bot wants, the other request variables how it asks: a frame, a
GET query, a body, or arguments split between query and body with the same key
twice. `stage` follows the handler: `route` (the refusals of `handleHTTPAPI` in their
order), `params` (`buildHTTPParams`), `handle`, `upstream`. A JSON value is a pair of
a type and a value, because decoding into a struct fails on a wrong type and
`normalizeHTTPScalar` chooses one by the key. `MaxExact` stands for 2^53, and `Decimal`
for `strconv.FormatInt`, of which all that matters is that different numbers are
written differently (`ParseFormatInt` of `CQCodec_proofs`).

A form in the body goes the way of the query (`r.Form` merges them), so `query` stands
for both; `sound` says that body, query and form can be parsed. `Unsendable` are the
messages that parse and of which `toMilkySegments` refuses a segment: `Send*` of the
client fail before their call, which is answered 1500 as a failed call is, and
`RefusedHasNoEffect` says that this is the only 1500 without a call. The other error
before a call, `currentSession` without a session, does not occur: `Client.session` is
set before `Server.Start` and never cleared, not by `Close` either (`ServedWhenReady`
of `Service`, proved as `ReadyBeforeServing`).

`TransportsAgree` is about requests whose arguments have the types the API documents
(`Documented`). A `group_id` that is a JSON string is refused in a frame or a body, where
its type is known, and accepted in a query, where all values are texts and the key
decides the type.

## 3. Runs

Expected to pass:

| run | instance | what it shows |
|---|---|---|
| `hub_safety` | a forward event and a reverse universal connection, 2 events, 2 requests a session | types, `WriteExclusion`, `RegistryExact`, `Delivered`, `RecipientsRegistered`, the inductive invariant, `RolesKept`, `EventsGapFree`, `RepliesInOrder`, and that the hub implements `EventFanout` |
| `hub_liveness` | one reverse universal connection, peers that read | requests are answered, a hang-up frees the registry, shutdown ends |
| `hub_contention` | a reverse event and a forward API connection, peers that read | `Broadcast` ends and the client reconnects though two goroutines compete for `Server.mu` |
| `hub_stall` | two forward connections, peers that need not read | a `Broadcast` that never returns is held by a recipient that is still connected, or whose own handler is stuck in a write |
| `bridge_api` | a friend and a group whose messages are namesakes, a caller of `HandleAPI`, a request | names that were told resolve for ever (`ToldResolves`), those of recall notices but for the three cases of `RecallResolves`, and calls reach Milky for what they mean or for a namesake of it (`ActsOnMeant`) |
| `bridge_channel` | a message, its recall and 2 requests, a buffer of 2 | order and completeness of what is broadcast (`EventsAccounted`), that it is, unless `Run` ends or a `Broadcast` hangs (`EmittedIsTold`), and that flags implement `NameDirectory` |
| `message_formats` | messages of up to 3 pieces, texts of up to 4 | conversions keep what they may not lose, between all pairs of formats |
| `service_life` | ten configurations, 2 nudges at a time, every role, peers that need not read | one identity, a status that follows `Run`, everything opened is closed, the process ends unless one peer that stays connected and does not read holds `Broadcast` for ever (`Stuck`), and it implements `Lifecycle` |
| `api_requests` | 32 requests, two with a message that cannot be sent, over a frame and three HTTP methods, with and without token | transports agree but for the divergences that the property names; a refused request has no effect |

Expected to fail, each a disagreement of the code with its documentation:

- `hub_reconnect`. `README.md:17` promises automatic reconnection. The peer of a
  reverse event connection stops reading and then hangs up. `Broadcast` is inside
  the write to it and holds `Server.mu`; `runReverseClient` reads the error and
  waits for `Server.mu` in `removeClient` (`server.go:411`), while the
  `conn.Close` that would end the write is on the next line. It never dials
  again, and nothing is broadcast any more. The peer's half-close is what makes
  this last: a reset of the connection ends the write. `hub_stall` shows that
  forward connections, which close first, do not have this.
- `bridge_collide`. `README.md:34-35` list `get_msg` and `delete_msg`.
  `MessageMap` files a message under its seq alone, while every upstream call
  addresses it by peer and seq. If conversations are numbered separately, an
  entry is overwritten by a message of another conversation and `delete_msg`
  recalls that one. `ActsOnMeant` of `bridge_api` shows that this is the only way in
  which a call goes astray: without namesakes it is about what the bot means.
- `bridge_get`. `Client.GetMessage` passes `"private"` as the scene, and the
  scenes this file takes from Milky are `"friend"` and `"group"`: `get_msg` of a
  private message never succeeds.

Some properties of the passing runs name a divergence along with the rule it
breaks: numbers beyond the exact float64s are rounded
in an HTTP body and nowhere else, and of two suffixes only one order is known
(`TransportsAgree`); a numeric id of a million or more in a segment has the whole
message refused (`NumbersExactOrRefused`); a nudge that arrives before `Connect`
has stored the login names account 0 (the `early` of `SelfNudgeRecognised`); the
status does not notice that Milky is gone (`OnlineUnlessEnding`); a panic of the SDK
leaves a session open (`OpenedIsClosed`).

Deadlock is not checked in any run. The hub and the service really stop at their
exit, the request of `APIRequests` ends with its answer, and elsewhere the
bounds end the behaviour; goroutines that wait for each other are the subject of
the liveness properties. No run uses symmetry.

### Bounds

- `SockCap = 1`: a socket is full after one frame. All that matters is whether a
  write has to wait, and a larger socket only waits later.
- `NumEvents = 2`: one event before and one after a change of the registry, so
  that a gap or a repetition is visible. Runs with one event are about a single
  `Broadcast`.
- `MaxReq`: 2 requests where the order of replies is the question, else 1 or 0.
- two connections: one `Broadcast` and two connections contend for both locks;
  the proofs cover any number. The liveness runs have one or two.
- sessions are unbounded: a slot connects again for ever.
- `Buffer` 1 or 2, with more notifications than it holds.
- `MaxSeq = 1` in each conversation: with two conversations (`bridge_api`,
  `bridge_collide`) there are two messages with one seq, and the loop and one caller
  already race for its entry (2.9 million states); the proofs cover any number of
  callers, peers and seqs. `bridge_channel` has one conversation, and its second
  notification is the recall.
- `MaxRequests`: 2 in `bridge_channel`, two of a kind or one of each, so that a flag could
  be given twice; 1 in `bridge_api`, where a flag meets a decision of either kind.
- `message_formats`: the longest construct is a code of four tokens between two
  texts, or two adjacent codes; three pieces and four chunks make both, with an
  entity split over two pieces.
- `api_requests`: `MaxExact = 8`, with 9 as the number that is no float64 and 8 as its
  neighbour, both message ids; one wish for each way in which an action decodes
  its parameters.
- `service_life`: each configuration is there for one branch of `Validate` or of
  `startReverseClients`; two nudges at a time, one more than the buffer holds; the nudges,
  broadcasts and sessions of a role are unbounded.

### Fairness

`GoroutineFairness` is what the Go runtime gives. A goroutine that can run does
(weak fairness). A goroutine in `Lock` gets the mutex if it is free again and
again: `sync.Mutex` hands over to a waiter that has starved, and `RWMutex` does
not let readers pass a waiting writer (strong fairness of `ConnLock`,
`LoopLock`, `AddClient`, `RemoveClient`). `Exit` has strong fairness, because
`select` chooses at random among the cases that are ready, and `ctx.Done` stays
ready. Peers owe nothing: accepting, dialling, sending, hanging up and the signal
have no fairness. `ReadingPeersSpec` adds that peers go on reading; runs that use
it say what holds when nobody stalls, and `hub_stall` and `hub_reconnect` are about
peers that may. In `Bridge`, `TakeEvent` has strong fairness, because
`select` chooses at random between events, heartbeats and the end of `Run`, and
`Translate` weak fairness. `BroadcastReturns` has none, and `EmittedIsTold` names what
that leaves open: a `Broadcast` that never returns, which is what `hub_stall` and
`hub_reconnect` are about. Nor does it promise anything once `Run` has ended.

In `Service`, the goroutine of `main` runs while it can (`Start`, `End`), which for
the three calls of `Connect` means that Milky answers or the SDK gives up;
`TakeDone` and `TakeError` have strong fairness for the same random `select`, with
heartbeats and events competing, and a `Broadcast` that has written to all
returns. That it can write to one peer is not assumed (`BroadcastWrites` has no
fairness), so `SignalEnds` and `ListenFailureEnds` allow for one that is `Stuck`. A
`Broadcast` writes to a connection only once, so if it never ends it is one write that
does not. The listener, the connections, Milky and the
signal have none.

## 4. Proofs

TLAPS checks the theorems and lemmas of eight modules. Each of the five that are
about concurrent components gives an inductive invariant, one lemma per action with
one step per conjunct that the action can disturb, and derives the properties from
it. The three about messages are lemmas about operators. Every invariant and action
property that a passing run checks is a theorem.

### The hub

`OneBotServer_proofs` proves for any `Conns`, any split of it into directions and
roles, and any `SockCap > 0`, `NumEvents` and `MaxReq` (`ConnsAssumption`,
`BoundsAssumption`; nothing else is assumed):

- `RegistryInvariant`, and from it `TypeCorrect`, `WritesExclusive`, `RegistryIsExact`,
  `RecipientsStayRegistered` and `NobodyLeftOut`;
- `ImplementsFanout`: every behaviour of the hub, seen through
  `Subscribers`, `event` and `sent`, is one of `EventFanout`.

None of the five properties is inductive. `RegistryInv` adds to them:

- `MutexHeld`: `clientConn.mu` is held by exactly the goroutine that is inside the
  write. Without it a second goroutine could enter (`WriteExclusion`).
- `BroadcastState`: there is a target exactly while `Broadcast` is at it, it is
  among the recipients, recipients can send, and nothing is left to do outside
  the range. `Delivered` needs it: an event may begin only when nobody still
  misses the previous one.
- `FreshSession`: a connection that is being registered has had no write error.
  Without it a join could create a subscriber whose writes already fail.
- `JobAtHand`: a goroutine that is about to write has something to write.
- `RegistryExact` is what keeps `RecipientsRegistered`: while `Broadcast` holds the
  lock nobody leaves.

The refinement has a lemma for each way a step of the hub can look to a
subscriber: `Join`, `Leave` (the end of a session or a failed write), `Publish` (the
start of the range), `Deliver`, `Stop`, or nothing.

`OneBotFrames_proofs` goes on, from the same assumptions, to what is in the sockets:

- `HubInvariant`: `HubInv`, which is `RegistryInv` with `ConnInv` for each connection;
- from it `RolesAreKept`, `NoEventSkipped` and `RepliesAreInOrder`.

`EventsGapFree` and `RepliesInOrder` speak of what a peer reads, while the order is
made where frames are written, by two goroutines, and the socket lies between.
`FramesInOrder` closes the gap: the frames of one kind in a socket are numbered one
after the other (`Numbered`), from what the peer has read up to what was written
(`Complete`, `Replied`). `JobOfRole` says that a handler never takes up a frame
its role forbids, `SocketState` what a socket holds in each state of the link. `Append`
at the write and `Tail` at the read preserve `Numbered` by lemmas about sequences.

### Names

`Bridge_proofs` proves for any friends, groups, callers, buffer and bounds, without any
assumption on how Milky numbers messages:

- `BridgeInvariant`, and from it `BridgeTypes`, `NamesResolve`, `RecallsResolve` and
  `CallsActOnMeant`;
- `RequestFlagsAreNames`: `RequestMap`, with the flags that bots were told, implements
  `NameDirectory`;
- `EventsInOrder`, from an invariant of the channel.

The invariant says why an entry stays: it may be replaced by that of a namesake, and is
never taken away, so what resolves does for ever (`Keeps`). An entry is the ref of a
posted message of its seq; a message of a user is entered, under way to be, or was
dropped (`Accounted`, which `RecallsResolve` needs); flags are numbered up to `counter`
and one that is drawn but not entered belongs to one request; what the loop and the
callers hold between lookup, `Put` and telling agrees with the maps; what a call means
exists. `MessageMap` does not implement `NameDirectory`, and `bridge_collide` shows why.

### The life of the process

`Service_proofs` proves for any set of configuration files whose `self_id` is a
natural number, any account but 0 and any buffer (`FilesAssumption`,
`AccountAssumption`):

- `ServiceInvariant`, and from it `ServiceTypes`, `OneIdentity`,
  `ReadyBeforeServing`, `StatusFollowsRun`, `NudgeNamesBot`, `SessionClosed` and
  `ReverseHasClient`;
- `LivesAsPromised`: the process implements `Lifecycle`.

`ServiceInv` says what holds at each place of `main` (`StartOrder`, `StatusExact`,
`LinkExact`), that before `Server.Start` there is nobody to tell (`Quiet`), that after
it only the identity is told (`ToldIdentity`), why it ends (`EndsForReason`), and
that a nudge was read from a login that is stored, unless it was early
(`NudgesRead`).

### Requests

`APIRequests_proofs` proves for any wishes and any contents of the maps:

- `RefusedWithoutEffect`, from `RequestInv`, which says what is settled at each stage:
  beyond `route` a request was admitted, beyond `params` it was sound, and `effect` is
  set exactly once Milky was called. `FailureBeforeCall` goes through `HandleAPI`:
  by itself it answers 1500 only to a message that cannot be sent.
- `TransportsAgreeAlways`, from `TransportsInv`. `Carried` says that every argument is
  in the query, as its text, or in the body, as itself; `Understood`, that the
  parameters which `BuildParams` makes of them are the ones meant. `ReadBack` shows it
  for one value of a query, `SameCall` that `HandleAPI` depends on nothing else.
  `TrimmedTwice` settles which suffixes `NormalizeAction` accepts.

Assumed are that the constant for "nothing" is not a number (`NoneAssumption`), that
decimals differ (`DecimalAssumption`) and that a wish has JSON values and no argument
of the name of the access token (`WishesAssumption`; no action has one, see
`TokenIsNoField`).

### Messages

`MessageFormats_proofs` proves all five invariants of `message_formats`, for messages of
any length and any texts over any words:

- `EchoIsFaithfulAlways`, `FormatsAgreeAlways`, `NumbersExactOrRefusedAlways`,
  `EscapedTextIsTextAlways`, `WrittenAsReadAlways`.

Assumed is what is given by the types of Go and the two APIs: elements with a segment
type have texts and numbers where they should, others may be anything
(`ElementsAssumption`); the data of an object are finitely many strings or numbers
(`ObjectsAssumption`); what is typed is text (`ChunksAssumption`).

The state is a message under construction, so nothing but its type is inductive. The
difficulty is in the operators, which loop over texts of any length:

- `Texts_proofs` holds lemmas only: it solves the recursion of `FlattenSeq`
  (`FlattenFunction`) and derives how
  it distributes over concatenation (`FlattenCat`, `MappedLast`, `MappedCat`). Induction is
  over a set of sequences (`InductionLast`, `InductionFirst`), from the well-foundedness
  of the natural numbers: the theorems of the library that have an operator for a
  parameter cannot be instantiated.
- `UnescapeEscape`: the three or four passes of `strings.ReplaceAll` are one pass
  (`EscapeMore`; this is where escaping `&` first is needed), and one pass of
  `strings.NewReplacer` undoes it. No escaped text ends with half an entity
  (`EscapedEnds`), so neither does a concatenation of them create one.
- `ParseUnfolds` turns the rounds of `parseCQMessage` into an equation, `ParseText` and
  `ReadCode` evaluate it for an input that begins with a text without `[`, or with such
  a text and a code that the bridge has written.
- `ReadWritten`, by induction on the segments: what is read of a string that was
  written is what was written. Adjacent texts are read as one, so this is not an
  equation of segments but of any *view* of them (`View`) that does not tell where
  a text was cut. Two views are used: what a reader sees of a segment (`Sight`), and a
  mark for one that cannot be sent (`Refusal`), because one such segment has the whole
  message refused (`AllSent`).
- `ReadBackAlike`: a segment that was written and read is `Alike` to Milky, unless it had
  two addresses of which a code keeps one. `EchoOfElement` says the same of each element
  that Milky pushes, for the string and for the array.
- `ParseFormatInt` and `SprintFloatIs`: digits are read back as the number, and the
  exponent form as no number.

### Only model-checked

Liveness: `RequestAnswered`, `ShutdownEnds`, `HangupReleases`, `BroadcastEnds`,
`AutoReconnect`, `StuckBroadcastHasCause`, `EmittedIsTold`, `SignalEnds` and
`ListenFailureEnds`. The prover has no rules for fairness and ENABLED.

## 5. Not modelled

- Numbers with signs or white space, and int64 overflow in `ParseInt` and in message
  ids: the codec's numbers are natural.
- The payload of events beyond ids, flags, self_id, target_id and the message; the
  conversion of member and group records. They are copied field by field.
- Group nudges and the other notices of the Milky client that keep no state and
  read none: they are `InboundEvent`s of one kind to the channel.
- `sdkLogger`, log lines, flags of the command line.
- TLS, HTTP framing, the WebSocket upgrade, and the time limits of
  `http.Server`; the missing handshake timeout of `dialReverse`, which is a dial
  that never returns here.
- Reconnection inside the Milky SDK, which is not in this repository: `LoseLink` is
  permanent.
- Memory: nothing is evicted from `MessageMap` or `RequestMap`; `cache_size` is
  validated and not used.
- A closed loop of channel, select loop and hub in one module. A stalled peer
  that holds `Broadcast` (`hub_stall`) keeps the loop from the channel, which then
  drops notifications (`bridge_channel`); the two halves are checked each by
  itself.
