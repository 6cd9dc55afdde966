# Verification of onvifsim

onvifsim simulates ONVIF cameras for people who test ONVIF clients: one process, one Qt
event loop, many virtual cameras, and some ninety *quirks* (deliberate misbehaviours copied
from real cameras) that can be switched while everything runs. The modules here model its
stateful parts, TLC checks them on small instances, and TLAPS proves the safety properties
for every instance.

Paths below are relative to the repository (`src/` in `PROJECT.json` is its root).

## The system

Everything runs on one thread. Concurrency is the interleaving of callbacks: socket
readiness, timers, posted calls, SOAP requests, REST requests, what the user does in the
window. A callback can also re-enter the component that called it (a SOAP handler takes its
own camera offline, a write reports a disconnection from inside `flush()`, a quirk that is
switched off makes an RTSP session handle what had piled up, a dialog runs an event loop of
its own). A step of a model is one whole callback.

| Component | State it keeps | Operations | Talks to | Hard because |
|---|---|---|---|---|
| PullPoint subscriptions (`events/SubscriptionManager`, `services/events`) | subscriptions with queue, expiry, address; suspended long polls; address cursors | create, pull, renew, unsubscribe, deliver, reap, clear | the event engine delivers to it; it answers HTTP exchanges | long polls race timeouts, disconnections, removals and events; limits evict; addresses recur |
| Event engine (`events/EventEngine`, `EventTypes`) | property states, pairing timers, schedules and their timers, storm | trigger, schedule, storm, reload topics | calls `deliver`; called by REST, UI, model and quirk changes | the topic table is rebuilt under running timers; two owners of the storm |
| Virtual camera (`core/VirtualCamera`) | running and offline flags, outage timer, listeners | start, stop, outage, model change, own-port listeners | owns all components of a camera; Hello and Bye | partial failures of binding; overlapping outages; late reboots |
| HTTP server (`net/HttpServer`, `HttpTypes`) | connections, buffers, the exchange in progress, timers | accept, read, answer, stream, suspend, listen | hands exchanges to SOAP, REST, vendor handlers | answers come late, in pieces, never or after the connection died |
| SOAP dispatcher and authentication (`soap/`, `net/HttpAuth`, `services/media/SnapshotService`) | services and routes, nonces, tokens, outages | dispatch, authorise, rebuild, snapshot | the services below | nonces once only; handlers that rebuild the table they run from |
| Device, Media, Media2, PTZ, imaging services with their states (`services/`, `ptz/PtzState`, `imaging/ImagingState`, `core/CameraModel`) | users, scopes, profiles, configurations, head, focus, presets | set, create, delete, move, stop | the model of the camera; the vendor APIs and the window work on the same state | lists that fail half way; motion integrated only when somebody looks |
| RTSP server and sessions (`rtsp/RtspServer`, `RtspSession`) | sessions, tracks, busy talkback slot, read buffers | adopt, request, sweep, teardown, suspend | media pump; quirk changes | slots held by clients that vanish; quirks that stop reading |
| Media pump, RTP sender, sources (`rtsp/RtspSession`, `RtpSender`, `media/`) | frame counters, clock, sequence numbers, queue, token bucket | pump, send, drain, start, stop | sockets of the session | late timers, rate limits, losses, pauses |
| RTP receiver and talkback tab (`rtsp/RtpReceiver`, `gui/tabs/TalkbackTab`) | losses, talkspurts, recording; the session shown | feed, reset, record | RTSP sessions that come and go | wrapping numbers; dialogs that outlive receivers |
| Discovery (`discovery/`) | sockets, delayed answers | start, stop, Hello, Bye, answer | cameras announce through it | answers delayed past a stop |
| Vendor API stubs (`vendor/`) | tokens, nonces, attached streams, lamp, presets, routes | log in, attach, command | HTTP exchanges, event engine, PTZ and imaging state | one token for all clients; five dialects of one state |
| Simulator, REST, scenarios (`core/Simulator`, `Scenario`, `control/ControlApi`) | cameras, ports, ids, quirk tables | add, remove, change, save, load | everything | ports in use elsewhere; what a file keeps |
| Desktop (`gui/`) | the camera shown, tabs, dialogs, log rows | select, edit, add, remove | the simulator, which others change too | dialogs hold pointers while an event loop runs |
| Log bus, IP aliases (`core/LogBus`, `gui/LogPanel`, `net/IpAlias`, `gui/NetworkDialog`) | history, rows, owned addresses | post, filter, export; add, remove, release | all cameras; the system's tools | posts under filters and limits; scripts that stop half way |
| Quirks, personas, DeviceIO, analytics, command line, network utilities | data, fixed replies, pure I/O | | | |

What makes each component correct is said at its properties below; what could go wrong
where, line by line, is the `hazards` list of `PROJECT.json`.

## Modules

Each component is a module with its state as variables named after the fields of the code,
one action per operation, and its properties at the end. Definitions named
`<Definition>_<Bug>` are mutants: a plausible bug of that definition, next to it, that the
named property catches.

**`Subscriptions`** (with `PullPoint`, `MCSubscriptions`). `SubscriptionManager` plus the
four operations of the events service. A subscription is its serial number, an event the
number of its production, a path a pair. Time is relative (`ttl`, `left`), so it is bounded
by the durations asked for. `Create` is reap, evict, append in one step; `Deliver` queues
at every match and wakes long polls in order, each up to its limit; `PullServed`,
`PullEmpty` and `PullRefused` are the outcomes of a pull, whose long poll then ends by
`PullTimeout`, `Abort`, `Deliver` or a removal. `Resolve` is `subscriptionKey()` with its
fallbacks. `PullPoint` is what a pull point promises with no clock, quirk or address in it;
`Subscriptions` implements it under `open <- subs, owed <- queue, sent <- got, asking <- on`.

**`EventEngine`** (`MCEventEngine`). `state`, `off`, `armed`, `rate` and `fromQuirk` are the
fields of `EventEngine::Private`; `off` and `armed` say which timers run. `told` remembers
what clients heard last of each topic, to compare the snapshot of SetSynchronizationPoint
with. `ReloadTopics` and `SyncStorm` are called where `VirtualCamera` calls them.

**`CameraLifecycle`**. A listener is open or not, remembers its port, and may be flagged
suspended; `Bind`, `Resumed` and `Closed` are `listen()`, `resume()` and `close()`. Other
processes take and release ports. `botched` sets aside the time after a failed or ill-timed
rebinding, where the code is known to leave a mess (see the findings). The routes of a
vendor stub and the private TLS port of VIGI are in it.

**`HttpServer`** (`MCHttpServer`). One record per connection with the fields of
`HttpConnection` and its exchanges. A handler may answer at once, keep the exchange, open a
stream, or take the camera offline, and may call a kept exchange at any later time. `busy`
is the connection whose `processBuffer()` is on the stack: one request is one step, and
nothing else moves between. Every write that goes out later than its callback (a piece, a
delayed head, the end of a stream) may find the connection broken, and then `Flush` reports
the disconnection from inside it; `Sending` are the ways an answer itself goes out, each of
which may also be delayed.

**`SoapDispatch`**. A request is its `Headers` and its operation; `dated` says whether it has
a Created, without which the time window is not asked. The order of checks in front of a service: outage quirks (dropout,
overload by a sliding second), WS-Security with clock drift and nonces, levels; the digest
and token ways to a snapshot; handlers that rebuild services under their own call.

**`DeviceAdmin`, `MediaConfig`**. Requests that carry a list are carried out entry by entry,
and a refusal leaves the earlier entries done. `MediaConfig` has profiles, shared
configurations, the stream paths with the personas that change them, which stream a path
leads to, and what a scenario file keeps. Profiles have a token and no name.

**`LazyMotion`, `PtzState`, `ImagingState`**. `LazyMotion` is the arithmetic of a motor whose
position is computed when somebody looks; `PtzState` moves three axes with it, with presets,
home and the ticker that signals IDLE; `ImagingState` the focus, with picture settings and
the panel that follows them. The reads are actions: they integrate.

**`Fleet`**. Cameras added, removed and changed over REST, ports and ids searched for, quirk
tables merged from preset, globals and wishes, and written to and read from a scenario
(`MCFleet` has its instances).

**`RtspServer`, `Talkback`** (`MCStreaming`). One record per session. `Handle` is
`handleRequest()` as a function on a `World`, because `resumeDraining()` handles several
waiting requests in one callback (`HandleAll`), for one session after the other,
in whichever order they are told (`ResumeAll`, `Orders`). A request that only keeps a session alive stands for everything refused
before any state changes. `Tick` is one second and the sweep in it. `Talkback` takes over
where a talkback track is set up: packets over TCP or a network that loses, repeats and
reorders them, the marker quirk, statistics, recordings, and the tab that follows a session.

**`MediaPump`, `MediaSource`** (`MCMediaPump`). The pump and one sender per track. Time
advances by one or more units at once when the event loop is late, and the timers then due
fire in any order before it advances again. One packet stands for a frame; its size depends
on its number, so that big and small ones mix. Time stamps are counted without end (32 bits
in the code). `MediaSource` holds the pure functions (Annex
B scan, frame table, fragments, companding, packing); `MCMediaPump` compares each with its
inverse in an ASSUME that TLC evaluates.

**`VendorStreams`, `VendorSessions`, `VendorControl`**. Streams attached to eventManager and
alertStream; logins with one token for all clients, challenges and leases; lamp, filter,
presets and head commanded in five dialects over one state. `last` remembers of each command
what in it that can be read asks to switch off or stop (`Wanted`), which is what the
properties of `VendorControl` (`MCVendorControl`) hold the outcome against.

**`Discovery`, `LogPanel`, `IpAlias`, `Desktop`**. Hello, Bye and answers at once, late or
twice, with what was last said of each camera; records posted, buffered, filtered, trimmed
and exported; addresses added and taken back by commands and elevated scripts that stop half
way; the window with one tab followed and dialogs that wait while the simulator changes (a
menu and the warning of a failed start keep a pointer to a camera, a question its id).

**`Selection`**. What a loop leaves of a list: `Sifted` keeps the members that pass a test,
in their order (the filters of the log panel, the clients that are still there). It is a
recursive function, and `SelectionProofs` has its lemmas, shared by the proofs about lists
(`Climb` also by those about the window's loops over cameras).

**Compositions.** `MCPlant` puts life cycle, engine, vendor modules, discovery, log panel,
aliases and window side by side; `MCStreaming` RTSP sessions, talkback and the media pump;
`MCServices` subscriptions, focus, media, administration, gate and fleet; `MCTimers`
subscriptions and the head, with their fairness. Their components share no state in the
models, so a behaviour picks one of them (`worked`) and leaves the others alone; checking
all interleavings of unrelated components would only multiply states.

Where components meet in the code, one model's promise is what the other relies on:
`Deliver` of `Subscriptions` is what `trigger()` of `EventEngine` calls; the exchanges of
`HttpServer` are the long polls of `Subscriptions` (`ToldOrAnswered` of the one is what
`Abort` of the other relies on, `NoDanglingCallback` what `PullTimeout` relies on) and the
streams of `VendorStreams`; the outages of `CameraLifecycle` are `Suspend` of `HttpServer`
and `RtspServer`; the pump `RtspServer` starts and stops is `MediaPump`; the commands of
`VendorControl` are those of `PtzState` and `ImagingState`.

## Runs

| Run | Module | Asks | Distinct states |
|---|---|---|---|
| `plant` | `MCPlant` | life cycle, engine, vendor APIs, discovery, log panel, aliases, window | 151,000 |
| `http` | `MCHttpServer` | order, completeness and ownership of answers; nothing stranded | 96,000 |
| `streaming` | `MCStreaming` | slots, busy talkback slot, draining, silence, timeouts; talkback; sequence numbers, timestamps, order, bursts, queue; the pure functions | 507,000 |
| `services` | `MCServices` | long polls, events, order, the slot limit, addresses, refinement of `PullPoint`; focus, media, users and scopes, gate, fleet | 117,000 |
| `timers` | `MCTimers` | every long poll ends, expired subscriptions go, while five quirks are switched; the head arrives, stops and says so | 58,000 |
| `subs_silent` | `MCSubscriptions` | a refused subscription faults (violated) | few |
| `camera_failed` | `CameraLifecycle` | a failed rebinding stops the camera (violated) | few |
| `vendor_routes` | `CameraLifecycle` | the vendor API survives a change of the model (violated) | few |
| `engine_manual` | `MCEventEngine` | a refresh never stops a storm started by hand (violated) | few |
| `media_slow` | `MCMediaPump` | a rate limited stream goes on (violated) | few |
| `vendor_unreadable` | `MCVendorControl` | a value that cannot be read switches nothing off (violated) | few |
| `fleet_export` | `MCFleet` | a camera saved and loaded has the quirks it had (violated) | few |

### Bounds, and why they are enough

- `services`: two connections are what a race on one subscription needs; two subscriptions
  make one an eviction victim and one a survivor; a queue of two overflows with three events
  and still has an order; `Limits` has one value that splits a queue and one that empties it;
  `Timeouts` the immediate answer and the long poll. Connections are symmetric in it. The
  races are played on two subscriptions (the part `pulls`); the part `slots` has three and no
  pulls, and switches a limit of one on over more than it allows. In `pulls` the limit comes
  with one event and the quirk that empties answers with two, and not both at once; three
  events overflow a queue without them. In `slots` the limit and the port of its own do not
  come together. The quirks of the gate that last are on with all others or not at all, and
  without them one other is on at a time. The focus has its range one
  or two steps wide, so that a move reaches and is cut by it; two factory profiles and two
  more; three users, two of them administrators at times; one nonce that can return before
  and after it is forgotten; overload from the second request in a second; two cameras on
  indexes where a foreign port lies between.
- `timers`: one client, two creations and one event, but every quirk that touches time or
  addresses, with a clock that is slow; limits of the head one or two steps away, so that a
  move reaches, passes and is cut by them; a preset list that can be full. No symmetry, as it
  checks liveness.
- `plant`: two outages overlap; a port for HTTP is also one subscriptions may get, and one of
  each sort is contested. Two kinds over two naming styles give a topic both styles share,
  one that leaves with a style, and one that is a property in one style only. Three streams
  make one that fails between two that do not; two clients with four tokens can lose one to
  each other and win it back. A number in a vendor request is absent, unreadable, 0 or 1; one
  preset fills the list. One camera with two delayed answers can be stopped between them. A
  history of two with four records trims twice. Three addresses with ranges of two overlap.
  Three camera objects with two ids are a camera, its replacement under the same id, and
  another; two lines of a table are the edited one and one below it. Others hold one port at a
  time, a camera without a vendor API has one outage, the storm and the missing pairs are
  not switched on together, and the head of `VendorControl` is commanded while the filter is
  automatic.
- `http`: one connection that pipelines two requests, or two with one each; two pieces make
  a first and a last.
- `streaming`: one slot and two sessions are a winner and a loser; every time constant is one
  second, so that a moment before, at and after it exist. Its quirks are all on for good, or come on
  one at a time. Two talkers, one over UDP, whose
  eight sequence numbers (`SeqRange`; 65536 in the code) wrap at the third packet; the one over TCP, which loses nothing, is heard once between two
  setups and its files do not fail. The pump
  has two tracks (one set up late), a queue of two, a bucket worth one big packet, a lateness
  beyond the catch-up limit, numbers that wrap after two packets and four units of time
  (`MaxTime`): long enough to queue, to overflow, to pause and to send again.

Deadlock is checked everywhere but in `http`, where a server with all requests spent and
all connections closed may stop.

### Fairness

Only timers and posted calls of the event loop are assumed to happen, which Qt does as long
as callbacks return: the clock, the reaper and the timeouts of long polls (`timers`); the
pairing timers and the outage timer (`plant`); the idle timer, delayed and piecewise answers
and posted calls (`http`); and that time passes for a head that nobody reads, by the signal
ticker (`timers`: the fair step leaves `attended` alone). Nothing is assumed of clients,
REST, the user or other processes. `streaming` states its deadlines as invariants
over counted time instead.

## What the properties say

Each is stated in words above its definition. Every module has one bookkeeping invariant, a
conjunction of named parts with its type invariant: `PullsConsistent`, `TableConsistent`,
`ListenersFollow`, `ExchangesConsistent`, `SessionsConsistent`, `SendersConsistent`,
`HeadConsistent`, `ImagingConsistent`, `MediaConsistent`, `AdminConsistent`,
`GateConsistent`, `FleetConsistent`, `StreamsFollow`, `SessionsTrue`, `DiscoveryTrue`,
`LogTrue`, `AliasesAccounted`, `TalkTrue`, `WindowTrue`. The others say what the component is
for:

- Subscriptions: no long poll sleeps over events (`NoLostWakeup`), none is lost or repeated
  (`Conservation`, `InOrder`, `KeepsPromise`), `always_empty` is airtight (`MuteSilences`),
  the limit holds when switched on late (`SlotLimitKept`), addresses differ (`PathUnique`),
  pulls end and expired subscriptions go (`PullEnds`, `ExpiredReclaimed`).
- Engine and life cycle: a raised property falls (`PropertiesFall`), an outage ends
  (`ComesBack`).
- HTTP: answers in order and complete (`ResponsesInOrder`), what was answered goes out
  (`AnswersGoOut`), no connection is forgotten (`IdleReaped`).
- Services: reading the head does not move it (`MovesOnItsOwn`), a bounded move ends with its
  signal (`MovesEnd`), no DeleteUsers takes the last administrator (`NeverDeletesLastAdmin`),
  a refused request burns no nonce (`RefusalBurnsNothing`).
- RTSP and media: the session limit (`SlotLimit`), time and order of packets
  (`TimestampsRise`).
- HTTP again: a connection whose answer is still being prepared, sent in pieces or streamed
  is not idle, so the idle timer cannot reap it (`AnsweredNotReaped`, in
  `ExchangesConsistent`).
- Vendor APIs: where a handler looks whether a number can be read, one that cannot neither
  puts out the lamp nor stops the head, and a lamp reads back as it was set
  (`VendorWritesHonest`). Where it does not look is the subject of the run
  `vendor_unreadable`.
- Fleet: saved and loaded again, a camera keeps id, preset, ports and every quirk that was on
  (`ExportKeeps`, in `FleetConsistent`). That nothing else comes on is the subject of the run
  `fleet_export`.

## Proofs

Each module of theorems `EXTENDS` what it proves about; nothing but the named assumptions
on constants is assumed (TLC evaluates those in the runs) and, where the table says so, one
hypothesis more. An invariant is proved by one
lemma for the initial states, one per action (more where an action has several outcomes),
and one that puts them together; what actions share (an operator on a list, a state of one
connection) has lemmas of its own. Where the invariant a run checks is not inductive, the
inductive one is given here with the reason.

| Theorem | In | States | Inductive invariant |
|---|---|---|---|
| `PullsStayConsistent`, `NoWakeupLost`, `EventsConserved` | `SubscriptionsProofs` | `PullsConsistent`, `NoLostWakeup`, `Conservation` | `IInv`: none is inductive alone. That a wake-up serves the right pull needs waiters and pulls to agree; that needs types, and that nobody can have waited on a number not yet given out. `Conservation` speaks of a history, so the quirk is tied to it (`Mute => muted`) |
| `PathsStayUnique` | `SubscriptionsProofs` | `PathUnique` | `PathInv`: an address is a subscription's own number or a port the cursor has passed. The hypothesis `MaxId <= MaxPort - BasePort` is needed, since the cursor wraps (see below) |
| `SubscriptionsKeepPromise` | `PromiseProofs` | the refinement of `PullPoint` (`KeepsPromise`) | `PInv`: `IInv` and positive limits; every action is an action of `PullPoint` or a stutter |
| `EventsInOrder`, `MuteIsAirtight`, `LimitIsKept` | `PromiseProofs` | `InOrder`, `MuteSilences`, `SlotLimitKept` | order follows from the steps of `PullPoint`; the two action properties step by step under `PInv` |
| `TableStaysConsistent` | `PlantProofs` | `TableConsistent` | `TableConsistent`, that a stopped engine is silent, and that the storm's owner is known; as long as the naming quirk is not among `GlobalQuirks` (see below) |
| `ListenersStayFollowing` | `PlantProofs` | `ListenersFollow` | also `Resumable`: while the camera runs, its listeners are open or can be resumed on the ports the model names |
| `DiscoveryStaysTrue` | `PlantProofs` | `DiscoveryTrue` | itself |
| `SessionsStayTrue` | `PlantProofs` | `SessionsTrue` | tokens and nonces come from one counter, and no two clients were ever given the same |
| `AliasesStayAccounted` | `PlantProofs` | `AliasesAccounted` | an owned address that is missing, or owned twice, is one of those the program was misled about |
| `StreamsStayFollowing` | `PlantProofs` | `StreamsFollow` | itself and the types of its lists |
| `VendorsStayHonest` | `PlantProofs` | `VendorWritesHonest` | types of lamp, lists and head (`ControlTyped`); then command by command and dialect by dialect, against what can be read of each. `SetWhiteLed` and `CoaxialControl` are exempt for the lamp, and for ISAPI a readable 0 asks to stop its group even beside an unreadable axis: with those included it is false (`vendor_unreadable`) |
| `LogStaysTrue` | `PlantProofs` | `LogTrue` | `LogInv`: the records kept and those waiting rise and end with the newest posted, the gaps between them are covered by what was counted as lost, and the rows shown end with the records that pass the filters |
| `GateHolds`, `RefusalsBurnNothing` | `ServicesProofs` | `GateConsistent`, `RefusalBurnsNothing` | the sliding second is counted: below the threshold, what was noted in it is no longer than what was seen since |
| `AdministrationHolds`, `LastAdminStays` | `ServicesProofs` | `AdminConsistent`, `NeverDeletesLastAdmin` | users distinct by name, fixed scopes kept |
| `HeadStaysConsistent` | `ServicesProofs` | `HeadConsistent` | each axis between its limits with a well-formed target, idle axes at rest, signals owed, presets and home. A capacity of 0 does not bound the list (`generateFactoryPresets`). Coordinates are finite (see below) |
| `LazyIsLive` | `ServicesProofs` | `MovesOnItsOwn`: integrated late, the head is where it would be had it been integrated at every tick | that of `HeadConsistent` |
| `PictureStaysConsistent` | `ServicesProofs` | `ImagingConsistent` | also that a focus sent somewhere is there or on its way |
| `MediaStaysConsistent` | `ServicesProofs` | `MediaConsistent` | which configuration a token came from, and that profiles that share one agree on it |
| `FleetStaysConsistent` | `ServicesProofs` | `FleetConsistent` | `FleetInv`: ids and ports of the cameras apart, none foreign, quirk tables with an entry and a state for every quirk. What comes on after loading besides what was on is a default of the preset or a global. `FleetAssumption` says of the scenario files somebody wrote by hand that they name no port twice and none that is foreign, which `applyScenario` does not look at |
| `ExchangesStayConsistent`, `AnswersInOrder` | `HttpProofs` | `ExchangesConsistent`, `ResponsesInOrder` | `HttpInv`: neither is inductive alone. It ties the last bytes on a connection's wire, its buffer and its exchanges to what the connection is doing (`Waiting` for a request or its body; `Asked`, `Delayed`, `InPieces` or streaming, `Flows`), keeps an account per exchange of what was accepted, sent and queued (`Held`), and lets only the connection whose `processBuffer()` is on the stack be ready. Every member function leads from such a state to another (`Follow`), so a step is one lemma each |
| `AccountsStay`, `SendersStayConsistent`, `TimestampsKeepRising` | `MediaProofs` | `SendersConsistent` without its last part, `SendersConsistent`, `TimestampsRise` | `PumpInv`: per track, accounts and bucket (`Fit`: what was let out and what the bucket would pay for make at most one full bucket), order (`Lined`: the queue holds, in their order, packets made after the one written last), time (`Paying`: the wait of a queue is paid for by what the bucket gained, and a queue whose timer is not due was served by now), and a last timestamp below that of the next packet. That a queue waits no longer than promised needs `Biggest <= Bandwidth * Window`: `media_slow` is the counterexample without it. A tick sends any number of packets and a drain writes any number; both are recursive functions, treated by a least counterexample |
| `SessionsStayConsistent`, `SlotsStayWithin` | `RtspProofs` | `SessionsConsistent`, `SlotLimit` | `RtspInv`: each session sound by itself, draining only under its quirk, the busy slot held only after a talk, nothing left of a server that is down. One callback may handle any number of requests (`HandleAll`) of any number of sessions (`ResumeAll`); that they keep it is shown by a least counterexample, as these are recursive functions |
| `TalkStaysTrue` | `RtspProofs` | `TalkTrue` | `TalkInv`: for each receiver an account of its packets (the number expected next follows the newest, and what was counted as dropped is what is missing as long as packets rise), a tape that runs holds all that was heard so far, and the tab's list, where it is as long as the receivers' own, names all of them |
| `WindowStaysTrue` | `PlantProofs` | `WindowTrue` | `DesktopInv`: no two cameras have an id or an object in common, window, page and dialog have their types, and the parts of `WindowTrue` hold, each stated for whatever cameras and window a handler is at (`Good`), since one handler runs another's signals half way. A pointer a dialog keeps stays out of the addresses given anew; `DesktopAssumption` has more objects than ids, so there is always a free one |

What loops over lists compute is shared: `SelectionProofs` shows of `Sifted` what it keeps,
in which order, and what it makes of two lists in a row; that a set with 0 which each number
hands on to the next has them all (`Climb`); and that a chain of functions on a set stays in
it (`Iterates`). These are least counterexamples, since the provers cannot instantiate an
induction theorem.

Where a component shares its run with others (`MCPlant`, `MCStreaming`, `MCServices`, `MCTimers`), the
theorem is about the component's own specification (`PtzSpec`, `GateSpec`, ...), of which
the composition only interleaves the steps.

Every safety invariant a passing run checks is stated by a theorem. What stays with TLC,
and why:

- Liveness under fairness (`PullEnds`, `ExpiredReclaimed`, `ComesBack`, `PropertiesFall`,
  `IdleReaped`, `AnswersGoOut`, `MovesEnd`): beyond the prover, as is ENABLED.
- The pure functions of `MediaSource`: induction over data.

## Where the code departs from what it says

Shown by a run, listed as findings:

1. `subs_silent`: a client refused by `silent_fail` is handed an address whose pulls fall
   back to the only live subscription and drain somebody else's events.
2. `vendor_routes`: every change of the model empties the route table, and the vendor stubs
   believe that their routes are still there; their API answers 404 from then on.
3. `engine_manual`: switching the storm quirk off stops a storm the user started by hand, if
   the quirk's own had been stopped by hand before.
4. `camera_failed`: a rebinding that fails marks the camera stopped, but its subscriptions'
   listeners stay open, and an outage timer may reopen the rest.
5. `media_slow`: at 112 kbps or less the token bucket cannot hold a full-size packet; a rate
   limited stream stops instead of slowing down.
6. `vendor_unreadable`: a "state" that cannot be read puts a Reolink lamp out, and the answer
   is a success; so does an unreadable IO of Dahua's coaxial control, and an unreadable pan
   beside a tilt of 0 stops an ISAPI head. Comments in three stubs call just this the wrong
   way round.
7. `fleet_export`: a quirk the preset switches on and a client switched off is on again after
   the scenario is saved and loaded.

Seen while modelling, kept in the models as they are in the code:

- Subscriptions: an expired one not yet reaped goes on serving pulls suspended on it; the
  port cursor wraps at 65535 and then hands out a port twice (`PathUnique` is about the time
  before); switching `always_empty` off wakes nobody who waits.
- Events: global quirks are written into a new camera behind `setQuirks()`, so its topic
  table is the persona's until the next refresh; a disabled row of a schedule disarms an
  earlier one of its kind.
- Life cycle: the VIGI private port stays closed after a stop and a start, and a change of
  quirks or model while stopped or offline opens it; a model change during an outage makes
  the camera listen while it counts as offline; `stop()` says that discovery goes first, and
  cameras do.
- HTTP: `listen()` on a new port keeps the connections of the old one.
- Services: SetUser may demote the last administrator; CreateUsers and RemoveScopes that
  fail half way keep what was done but announce nothing; the discovery mode and relay states
  are forgotten by every change of the model; an absolute move of the focus to where it is
  runs to the limit; `generateFactoryPresets` ignores a capacity of 0; a PATCH of the
  identity replaces the endpoint reference; the names clients gave their profiles are
  overwritten whenever a quirk changes and when a scenario is loaded
  (`applyProfileNamingStyle()`, VirtualCamera.cpp:93, 431).
- PTZ: `toDouble()` accepts "nan" and "inf", and so does the clamp to the limits; a head sent
  to a coordinate that is no number never arrives and never is idle (PtzService.cpp:125-131,
  PtzState.cpp:37). A PanTilt with one coordinate missing or unreadable counts, with 0 for
  it, against the comment above (PtzService.cpp:116-121). The grid of the model has neither.
- RTSP: the busy talkback slot is asked at DESCRIBE only, a SETUP without one passes; the
  time of the last periodic teardown survives its quirk; the sequence number in RTP-Info is
  off by one after PAUSE and PLAY.
- RTP: switching the rate limit off over a queue sends packets out of order while it still
  drains; a new frame rate makes timestamps jump; switching `no_rtcp` off waits for the next
  PLAY.
- Talkback: resetting the statistics within a talkspurt makes the next packet a boundary
  whose marker is missing; switching the marker quirk off leaves a session muted until a
  marker; late packets are counted as lost for good; the record dialog may use a receiver
  that is gone.
- Vendor APIs: a Reolink lamp switched on at brightness 0 is on for one dialect and dark for
  another; a VIGI move along x re-aims the zoom; VIGI logins invalidate each other's challenges.
- Discovery: a delayed ProbeMatch may follow the Bye of its camera; the sending socket is
  not bound again when the address changes.
- Log panel and aliases: removing the filtered camera resets the filter and leaves the rows;
  rows outlive the records of the history; a script that stops half way leaves addresses
  nobody owns, or owned ones that are gone, and one such blocks the removal of all;
  releasing reports success whatever happened, and leaves cameras on withdrawn addresses.
- Desktop: dialogs and menus keep pointers and ids over a nested event loop: "add scope"
  goes to the camera shown when the dialog closes, "remove" to whichever has the id by then;
  a failed CreateUsers is undone by the identity tab's next edit; a new profile's token is
  not checked against those in use; a camera added over REST takes the selection, and what
  was being typed is lost.

## Not modelled

Parsing and rendering (SOAP, HTTP and RTSP heads, SDP, the bytes of RTP), the text of faults
and logs, and statistics no property uses.

Undefined behaviour that leaves no state to speak of: what an object does whose function is
on the stack when it is replaced (a SOAP handler that changes the model replaces its own
service, operation table, route and authentication, VirtualCamera.cpp:199; `Rebuilds` has
what stays of it, the nonces forgotten), and what the record dialog does with a receiver that
is gone (TalkbackTab.cpp:112; `FileForNobody` has that it happens). The hazards list them
without a property.

Left out of otherwise complete operations: 32-bit time stamps that wrap (after thirteen hours
of video, in a run of a few units of time), an RTP packet written to a socket that is no
longer connected or to no destination, which is neither sent nor counted (RtpSender.cpp:131-146;
the session ends with the socket, so nothing follows), and the bind of a UDP port that fails
in a SETUP (RtspSession.cpp:689-692: the answer is 461 and no track is added; the receiver that
was made stays without one, where neither packets nor the tab come to it). Of the components modelled in part: RTCP reports,
the timestamp jump and the frozen picture of the pump; encoder and ability pages of the
vendor APIs; the REST server's own sockets and log stream; Basic authentication; the
overview, events, PTZ and connections tabs of the window. Not at all: quirks and personas
(names, texts and presets: data; their effects are toggles of the other modules), DeviceIO
and analytics (fixed replies), the command line (argument parsing) and the network utilities
(listing interfaces).

## Plan

What could be modelled next: RTCP reports in `MediaPump`, the events tab and the REST log
stream.
