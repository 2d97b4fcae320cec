# A TLA+ model of Spyglass

Spyglass shows a developer, in a desktop window, what a running application
holds and does: its state stores, its key-value and relational storage, its
query cache, its navigation, its logs and its network traffic. An SDK inside the
application sends envelopes over a WebSocket; a desktop process (Tauri, Rust)
receives them and forwards them to a window (React), which can also write back.

This directory models the parts of it whose correctness depends on the order of
events: the server, the transport, the path of a write and its result, the path of an
application's state to the screen, the adapters inside the application, the feeds
behind the tabs, and the desktop's own small state machines. Each module is read off
the source; `PROJECT.json` ("map") names the lines behind every definition.

    tlc -workers 2 -config WsServerOverlap.cfg MCWsServer.tla     (a run)
    tlapm WsServer_proofs.tla                                    (the proofs)

## 1. Inventory

| Part | Source | State it keeps | Operations | What is hard about it |
|---|---|---|---|---|
| Desktop server and registry | `desktop/src-tauri/src/ws_server.rs`, `registry.rs` | connection counter, one reader and one writer task per socket, apps, cache of the latest envelope per (app, type), insertion queues, senders | accept, read, record, emit, clean up, sweep, list, fetch, send, forget | tasks interleave between critical sections; connections of one app overlap; caps with lazy queues; a dead peer closes nothing |
| Desktop commands | `desktop/src-tauri/src/main.rs` | none | `list_apps`, `get_cached_messages`, `forget_app`, `send_to_app` | answers and events reach the window on different paths |
| SDK transport | `sdk/src/transport/ws.ts`, `devHost.ts` | socket, queue, backoff, timers, resolver closure | connect, send, flush, reconnect, time out, close, pick and pin a host | timers, promises and socket events race; what a dead socket swallows |
| SDK initialisation | `sdk/src/index.ts`, `core.ts` | core singleton, capabilities, heartbeat | init, hello, auto-attach, close | hello awaits before it is sent; dynamic imports race close |
| SDK inbound commands | `sdk/src/commands.ts` | handler tables | storage, state, query and memory commands, each with a result | a handler is looked up now and run in a later microtask |
| Pending writes | `desktop/src/state/connection.ts` | one entry per request with a status, two kinds of timers | send, reconcile, time out, fail on disconnect, clear | six sources resolve one entry, in any order |
| Application list and store mirror | `connection.ts`, `App.tsx`, `ipc.ts` | pills, data per app | bootstrap, upsert, hydrate, apply, remove | replay of a cache against a live stream; events with no listener yet |
| State adapters | `sdk/src/state/*` | last reported state | init, diff, remote write | the stream is one snapshot and then diffs: a lost one is never repaired |
| Key-value storage adapters | `sdk/src/storage/asyncStorage.ts`, `mmkv.ts`, `webStorage.ts`, `shared.ts` | patched methods, originals | snapshot, patch, write, clear, detach | snapshot races writes; patches stack |
| Relational storage adapters | `sdk/src/storage/sqlite.ts`, `realm.ts`, `watermelondb.ts` | last snapshot, poll timer | snapshot, refresh, clear, stop | snapshots overlap |
| Query adapter | `sdk/src/query/reactQuery.ts` | subscriptions | snapshot, change, write, four commands | a refetch clobbers a write |
| Diff and serialisation | `protocol/src/diff.ts`, `serialize.ts`, `envelope.ts` | none | diff, apply, serialise, limits | pure algorithms with edge cases |
| Navigation graph | `sdk/src/navigation/*`, `connection.ts` | last route; nodes, edges, screen durations | route change, fold | out-of-order durations |
| Console, network, performance | `sdk/src/console.ts`, `network.ts`, `performance.ts`, `diagnostics.ts` | patched globals | forward | patches stack |
| Alerts | `desktop/src/lib/alert*.ts` | rate limiter, permission prompt | match, notify | one prompt for a burst |
| Updater | `desktop/src/state/updater.ts`, `lib/updater.ts` | status | check, download, restart, dismiss | a check overlaps a download or a dismissal |
| adb watcher and device tools | `adb.rs`, `ios_memory.rs`, `netinfo.rs` | device list, status | poll, reverse ports | devices come and go |
| Database export and import | `db_file.rs` | files | copy a database with its journals | a copy fails half way |
| Editing panels | `views/storage`, `views/stores`, `views/queries`, `components/jsonGraph` | what is picked and open, drafts, highlight | pick, open, type, save, jump | React keeps a component's state by its place and key while the data under it changes |
| Relational view, links, graph | `views/storage/inferForeignKeys.ts`, `lib/correlateNetworkEntry.ts`, `buildJsonGraph.ts` | selected table, dialog; opened rows | infer, link, clear, build | guesses that must not mislead; cycles and a budget |
| Other views | `desktop/src/views/*`, `components/*` | component state only | rendering | none |

How they interact. An adapter calls `transport.send()`; the transport hands the
frame to its socket or queues it. The server's reader task records a frame in the
registry, then emits `app-connected` (for a hello) and forwards it to the window as
`dm-message`; its cleanup and the sweeper emit `app-disconnected`. The window calls
commands, which read and write the same registry, and gets promises back. A write
goes window, command, registry sender, writer task, socket, SDK command, adapter,
and returns as a result envelope and as the adapter's ordinary report.

What makes each correct: the server never routes to a dead task, keeps its caps and
counters, and does not let a dead app look alive; the transport always has exactly
one thing that will make it go on, keeps order, and loses only by overflow; a write's
verdict agrees with what happened to it, and every write gets one; the window's list
and stores agree with the registry and the application once all is delivered.
`PROJECT.json` ("hazards") lists, line by line, what could break this.

## 2. How the project is built

Most important first:

1. `WsServer` (+ `MCWsServer`, `WsServer_proofs`): server and registry.
2. `Transport` (+ `MCTransport`, `Transport_proofs`): transport, resolver, hello.
3. `WriteContract`, and `WriteChannel` which implements it (+ `MCWriteChannel`,
   `WriteChannel_proofs`): a write end to end.
4. `UiMirror`, and `PageHistory` with what its properties remember (+ `MCUiMirror`,
   `Page_proofs`): adapter, cache, bootstrap, list and stores composed.
5. `Updater`, `SnapshotAdapter`, `SdkLifecycle`, `QueryAdapter`, `EditPanels`
   (+ `MCLifecycles`): components whose promises, handles or drafts overlap.
6. `Alerts`, `KvAdapter`, `NetworkFeed`, `NavFeed`, `StoreFeed`, `Values`, `Telemetry`,
   `DbTransfer`, `Relational`, `Correlation`, `JsonGraph` (+ `MCFeeds`): what the tabs show
   and what the user does in them.
7. `Sdk_proofs` (`QueryAdapter`, `Telemetry`, `KvAdapter`, `SdkLifecycle`),
   `Desktop_proofs` (`Updater`, `DbTransfer`, `Alerts`, `EditPanels`, `Correlation`,
   `Relational`, `JsonGraph`), `Feeds_proofs` (`NetworkFeed`, `NavFeed`, `StoreFeed`, `Values`), and
   `Recursion_proofs`: induction over the natural numbers, which the others share.

Components that share no state are checked side by side by one module: a variable
`part` says which of them takes the steps of a behaviour while the others stay at one
initial state, so that the state space is the sum of theirs and not the product. Each
name begins with two letters of its module (`Up`, `Sn`, `Kv`, ...) so that the modules
can be extended together. In the same way `MCWsServer` and `MCUiMirror` have a
variable `scenario`, chosen once, which restricts a behaviour to one kind of bounds.

Where components interact they are composed: `UiMirror` has the adapter, the transport's
queue, the server's registry and cache, the events and the page in one module, and
`WriteChannel` the window, the commands, the server's senders, the app and the way
back. The feeds rely on the order of the stream below them, which `Transport` proves
(`StreamIsKept`), and let frames act on the desktop in that order. Where a page
that reloads, or hears of a reconnect, is given the cache's frames on another path than the live ones
(`NavFeed`, `NetworkFeed`), both paths are in the model.

What is left to do: the relations between `NavFeed`, `NetworkFeed` and `UiMirror` as
refinements of one abstract "cache and live events".

The modules are written to be proved about: constants with named assumptions, one
action per handler, no RECURSIVE operator. Where the code walks a list or a chain of
patches, the model has a function defined by recursion over a natural number.

## 3. The modules

### WsServer

An action is one critical section of the registry's mutex, one emit, or one await.
`pc[c]` is where the task of socket `c` is (accept, handshake, the read loop,
`record`, the emits, and the four steps of cleanup: `unregister_sender`,
`mark_disconnected`, the emit, the release of the slot). `apps`, `appOrder`, `cache`,
`cacheOrder` and `senders` are the fields of `RegistryInner`; `Hits`, `FirstHit` and
`Evicted` are the eviction loop, which pops ids, stale ones included, until one of
them hits. `link[c]` is what the peer does: it may close, or vanish, which closes
nothing until TCP gives up. Time is one bit per app: its last message is older than
the heartbeat timeout. Payloads, sizes and parsing are left out.

### Transport

An action is one JavaScript callback: the host promise, the first-connection delay,
a reconnect timer, `onopen`, `onerror`, `onclose`, the connect timeout, a call of
`send()` or `close()`, or the end of `sendHello()`'s awaits. A socket is open to a
host; hosts refuse, hang or are the desktop; a desktop can stop and leave an orphaned
socket that swallows what it is given. Messages are numbered in the order of `send()`,
and `handed` is the order in which sockets got them. Backoff lengths are left out: a
timer is armed or not. An explicit `host` option, which skips the resolver, is not
modelled, nor are a second `connect()` after `close()` (nothing in the repository
calls it) and an envelope that cannot be encoded.

### WriteChannel

Several requests to one resource of one app. `status[r]` is the entry in the
window's store, `call[r]` the `send_to_app` promise and the no-response timer,
`sweeps[r]` the timers that will clear an applied entry, `sdk[r]` the app's handling of
it. `Kind` picks how reports are reconciled: `storage/write` (while pending),
`query/write` (pending or applied), or by the result alone (`state/write`,
`storage/clear`, `memory/clear-cache`, `query/command`). `Echo` is what a value looks
like when it comes back: an adapter reports `parseMaybeJson(serializeForKv(v))`,
which need not be `v`, so an instance can map two values to one. A handler that throws
is assumed to have written nothing. Attaching and detaching adapters between the
receipt of a command and its run is in `QueryAdapter`.

### WriteContract

What the user may rely on, with no frames, timers or connections in it: `told[r]` is
what the desktop says of a write, `had` the writes whose effect the app has had. A write
is asked for once, judged any number of times along `Move`, called applied only if it is
in `had`, and never comes back once it is no longer shown. `WriteChannel` maps `told` to
its `status` and `had` to `Had`, the requests whose handler ran to completion or whose
value the app has held; `ContractKept` is the abstract specification under that mapping.

### UiMirror

One application whose process can be restarted: each run has an appId of its own
and all have one (appName, platform), which is what `upsertApp` compares. The page is
`pill` and `data`, its bootstrap is `listing` (the `list_apps` call), `fetches` (each
`get_cached_messages` call), `heard` (which listeners are registered) and `events`.
Replies and events overtake each other; events keep their order. A reload empties
the page. A store is a record of fields, a field counts its writes, a diff replaces
one field. Connections of one run overlap: a run whose link is cut may connect again
before the server notices, and `unnoticed` counts the older connections whose tasks
have yet to end, each of which marks the run then. The sweeper may find any connected
run stale at any time, and a heartbeat (`PingFrame`) sets the flag again without an
event. `dropping` counts the marks whose `app-disconnected` is yet to be emitted, by
whichever task made them. What an older connection delivered is assumed to have been
read before the run connects again: the SDK waits `reconnectBaseDelayMs` at least.
A hello's own `dm-message`, which the page's reducer ignores, is left out.

`PageHistory` adds the history variables that the properties need: what this page
was told of and when (`told`, `met`), which runs had an event that nobody listened
for (`missed`), which were marked connected by a frame that is not announced since they
were last reported (`muted`), of which the last report crossed one of the opposite
(`raced`), and which fields were reported live since the last replay (`fresh`).
Each of its actions is an action of `UiMirror` and what it means for them, so that the
history restricts nothing; `MCUiMirror` only picks the bounds.

### The components of MCLifecycles

* `Updater`: `upStatus`, `upVersion` and `upDismissed` are the store, `upPending` is the one
  `pendingUpdate` handle, `upOps` the promises in flight; the guards of `runCheck`,
  download and restart look at the status when a call starts and never again.
* `SnapshotAdapter`: SQLite's snapshot is a query per table (`snCalls`, one record per call
  in flight), sent unless it equals `lastSnapshotJson`; Realm and WatermelonDB send on a
  notification. A table is a version number.
* `SdkLifecycle`: `lcOpen` has the handles of `init()`, `lcCore` the module-global core,
  `lcPatches` every patch with the one it found below it, `lcQueue` the dynamic imports
  that have not resolved.
* `QueryAdapter`: `qaWriter` and `qaCommander` are the two single slots, `qaJobs` the
  frames accepted and not yet handled; a write runs the app's observers, which may
  write or remove the query before it returns.
* `EditPanels`: `EdIdentity` is the React key of a panel, `EdRender` what is left of the
  page's state after a render and its effects; every action ends in it.

### The components of MCFeeds

* `Alerts`: `alBadges`, the settings, `alLimiter`, and the permission prompt that a burst of
  notifications shares (`alPending`, `alPrompts`, `alWaiting`).
* `KvAdapter`: AsyncStorage's native queue applies a call and its promise continues
  later; MMKV and the browser's storage are synchronous. Another tab of the browser may
  write too, which this one learns of by a `storage` event later. A value is the set of
  fragments written to it, so that merges can be told from overwrites.
* `NetworkFeed` and `NavFeed`: what the patches and the navigation adapters report, what the
  server keeps of it, and what the reducer makes of live frames and of a replay. The cache
  is replayed onto an empty page after a reload, and onto whatever the page shows after
  every `app-connected`; several such calls can be under way. An exchange or a transition
  has a number that the code does not know. Frames lost between the app and the server
  are outside of both modules.
* `StoreFeed`: five adapters of state managers against the desktop's copy, with losses,
  a second attachment, and edits sent back to a Zustand store.
* `Values`: `safeSerialize`, `diffValues` and `applyPatch` as operators, run on every heap of
  three objects that a bounded number of changes can make, cycles included. The app's value
  is a heap; what is sent is a tree, a function from the paths of its parts to what is there,
  so that a patch is a set of operations at paths and `applyPatch` a change of the function
  at one path after the other. The order of the operations is left open. Keys are none of
  `UNSAFE_KEYS`; the fields of a marker that nothing tests are left out.
* `Telemetry`: the frame loop with its windows and stalls, and throttled warnings.
* `DbTransfer`: a database is its main file and its log, a file the version of the one
  page in it. Export and import copy one file at a time while the app commits and
  checkpoints, two panels run transfers at once, and any step may fail.
* `Relational`: inference of foreign keys over names that are sequences of words, the
  row that is open and the one a link highlights, and the dialog that asks for a table's
  name before it clears it.
* `Correlation`: candidates, timing window and the choice of the best one.
* `JsonGraph`: `buildJsonGraph` as a function of the number of containers taken from its
  queue, on containers that can be shared or cyclic, while the user opens rows and values
  change. That number has a bound in the model, and that the loop is over by then is a part
  of the property.

## 4. The runs

Passing runs. All of them explore every reachable state within their bounds.

| Run | Question | Bounds, and why they are enough |
|---|---|---|
| `WsServerOverlap` | live senders, the counter and both caps, a drop reported once | scenario `pair`: 2 sockets are the old and the new connection of a reconnect, 2 apps over a cap of 1 evict on every second hello, 2 frames each reach hello, heartbeat and a spoofed appId; scenario `crowd`: 3 sockets on 2 slots, so that one is refused; symmetric in sockets and apps (the third socket stays apart); 1.25 million states |
| `WsServerLive` | dead apps are marked, slots freed, writers end | 2 sockets, 1 app, one queued frame; no symmetry, which liveness does not allow; 117 thousand states |
| `TransportLinks` | one future, order and loss up to the sockets, pinning, close, progress, hello | 2 sockets (one old, one new), 2 candidate hosts of which one hangs and one is the desktop, which refuses while it is stopped, queue of 2 with 4 messages so that it overflows, 2 breaks or restarts; 77 thousand states |
| `WriteStorage` | storage writes: verdict, confirmation, results kept, the contract | 2 writes and one write of the app's own, so that each can supersede another; values that come back in another form; 2 disconnects, reports of one, or removals; 1.37 million states |
| `WriteQuery` | query writes: all are resolved and all confirmations pass | as above with 1 disconnect, so that liveness can be checked on it; 450 thousand states |
| `Mirror` | one pill per application, dots that follow the registry, live values, the bootstrap | `restarts`: 2 runs, 1 removal, so that late events of the old run meet the new one; `reconnects`: 1 run, any three of breaks, a sweep, a heartbeat and a removal, or one of them and a reload, so that a break, a reconnect and the old connection's late end meet a sweep or a heartbeat; `fields`: 1 store with 1 field, 2 writes, 1 break after the list was answered, where a replay restores an older value and the next diff repairs it; 280 thousand states |
| `Lifecycles` | updater, relational adapters, SDK handles, query adapter, editing panels | 2 versions and 7 calls, so that a check, a download and a restart overlap with one more check; 2 tables, 2 overlapping snapshots, 2 writes; 2 handles of `init()` with every option set or unset; 2 attachments, 2 frames, 2 acts of the app; one key in engines of two apps, two stores and a query with 3 reports, one change of tab and one save, so that the entry under a draft can vanish or be passed by another; 160 thousand states |
| `Feeds` | the eleven feeds and views | see below; 720 thousand states |

In `Feeds` each part has the smallest bounds in which its conflict exists: two adapters
stacked and one key with two calls (`KvAdapter`); one reused request object, two rows, and
any four of sends (three at most), reconnects, reloads and clears, so that a replay can
follow a clear (`NetworkFeed`); any five of moves and attachments (two at most of each),
reconnects, reloads and clears (`NavFeed`); two fields of two values, two changes and two edits (`StoreFeed`);
three objects and three
changes with a depth limit of 2, so that the limit and cycles are reached (`Values`); 5 ticks
with a window of 2 (`Telemetry`); three transfers and two commits (`DbTransfer`); three
schemas (`Relational`); four candidates for two requests (`Correlation`); three heaps with
a budget of 4 nodes (`JsonGraph`); two apps, two alerts, one tick (`Alerts`).

Several properties are conjunctions that a reader should see together:
`CapsHeld` (applications and cache), `ConnectionsEnd` (slots and writers), `StreamKept`
(order and losses), `Recovers` (reconnecting and greeting), `AlAttention` (seen badges and
one prompt), `LcHandlesHonest` (detached with its handle, reported once), `RlTableMeant`
(the clear dialog and the links).

Runs that refute what a comment promises:

| Run | What it shows |
|---|---|
| `WsServerForget` | an app that the user removed while it was connected does not come back with its next message, as `registry.rs` and `ipc.ts` say: a heartbeat refreshes only apps that are still in the map |
| `WriteClobber` | a query write's acknowledgement that comes after the report of a refetch that clobbered it turns "superseded" back into "applied", although the entry is watched after its ack for that very case |
| `MirrorRegress` | on every `app-connected` the window replays the cached `state/init` and the single cached `state/action`, so a store with two changes behind it falls back to its first state plus the last diff, with no frame lost |
| `DbStaleLog` | a second export into one directory, made when the app has no log, leaves the first export's log there, and importing the directory puts the old log over the new main file |

Further disagreements are stated in the modules and not run; TLC finds each when the
property is added to a configuration:

| Property | Configuration | What happens |
|---|---|---|
| `NewcomerKept` | `WsServerOverlap.cfg` | a stale id in the insertion queue evicts the app that has just registered |
| `CleanupSparesReconnect` | `WsServerOverlap.cfg` | the cleanup of an old connection marks a reconnected app |
| `DeadAppsTold` | `WsServerLive.cfg` (a minute) | the sweeper's report overtakes the announcement it follows |
| `RestartLosesNothing` | `TransportLinks.cfg` | frames given to the socket of a stopped desktop are gone |
| `LivePillShown` | `Mirror.cfg` | the order of a hash map picks the run that is shown |
| `DotsAgree` | `Mirror.cfg` | after a sweep, or the late end of an older connection, a heartbeat marks the app connected and the window is not told |
| `NfPendingTrue` | `Feeds.cfg` | after a clear, a reconnect replays a request whose response is not in the cache: it is pending for ever |
| `RlOpensAsked` | `Feeds.cfg` | `StorageView.tsx:549-556`: while a followed link is highlighted, selecting another table opens the row of that id there |
| `CoTimingBreaksTies` | `Feeds.cfg` | `correlateNetworkEntry.ts:13-17` and `doc/produto/specs/0011`: timing is to decide between equal overlaps only; `pickBest` looks at it first |
| `EveryStoreBack` | `Mirror.cfg` with scenario `any`, two stores, one run and one reload, and the other bounds 0 | after a reload only the store that introduced itself last is there |

The models below allow these behaviours too, and the properties are stated so that they
hold beside them; no run is kept for them:

| Where | What the text says | What the code does |
|---|---|---|
| `packages/sdk/README.md:283-287`, `zustand.ts:77-79` | an edit of a Zustand store is merged, so that its actions survive | a store with an action has a marker in its state, and a state with a marker is refused: such a store cannot be edited at all |
| `JsonGraph.tsx:129-130` | a changed selection starts with a fresh draft | in the Queries tab the panel has no key: the draft moves to the entry that takes its place |
| `connection.ts:354-356` | a jump never survives to a later, unrelated visit of its tab | it stays until its target exists, however often the tab was left meanwhile |
| `jotai.ts:24-25` | each atom is a named slice of one store | one `state/init` per atom under one storeId: the last replaces the others |
| `serialize.ts:5-6` | what is circular is replaced by a marker | so is an object that is only reached twice |
| `index.ts:114-116`, `:255` | attaching an adapter yourself is a no-op; an original is restored before the handle is used again | only for adapters that ask `markAttached`; patches detached in the order they were attached restore the inner one for good |
| `connection.ts:124-130` | a replay never counts a transition twice | it does when it overtakes the live event |
| `connection.ts:1321-1345` | a row is found by its id, so that a replay adds no second one | when the replayed response comes first, the request after it is dropped and the row keeps method and url `?` |
| `asyncStorage.ts:33-35` | every write is observed | `mergeItem` reports its argument; a key that comes between `getAllKeys` and `multiGet` is missed |
| `inferForeignKeys.ts:7-9` | a link opens the row it names | rows are matched by a column called `id`, else by their place in the list |
| `buildJsonGraph.ts:92` | an id names one path | the path `a`, `b` and the key `a.b` have the same id |
| `StorageView.tsx:571` | the status of a clear | is not filtered by engine, as that of the engine's own clear is |
| `db_file.rs:120-131` | an import reports what it did | an import whose picked file has gone reports success after removing the app's log; on Android failures of `rm` are ignored |

## 5. Fairness

* `WsServer`: the runtime schedules every task that is ready (weak fairness of each
  task's own steps, of its writer, of the sweeper). Nothing is asked of peers: they
  may stay silent for ever. A silent app does become stale, since the clock runs.
* `Transport`: timers fire, promises settle, a socket that was refused or lost says
  so. Opening is strongly fair: a desktop that listens answers some attempt,
  though attempts at other hosts come in between; nothing is asked of hosts that hang.
* `WriteChannel`: the server answers commands, promises settle, timers fire.
  Nothing is asked of the network or the app, so `Resolves` rests on the timeout alone.
* `UiMirror`: commands are answered and their answers taken. Nothing is asked of
  the application, the network or the user.
* `Updater`: a promise settles, with a result or an error (`UpFairness`).
* `SnapshotAdapter`: queries answer, the poll timer fires, notifications are delivered.
  Nothing is asked of the app, which may write as often as its bound allows.

The models stop when their bounds are used up and all is delivered, and the systems
may come to rest too (a closed transport, a page with nothing to do), so the runs do
not check deadlock. That a component does not get stuck half way is what the
liveness properties and `OneFuture` say.

## 6. What is proved

For every value of the constants that satisfies the named assumptions, so for any
number of sockets, apps, messages or requests and any caps.

**WsServer.** `TypeInv` strengthens `TypeOK` with the facts a task's position gives it
(a task that is recording has an appId and a type) and with the counter being the
number of slots held, which makes `SlotCapHolds` inductive. `SendersAreLive` follows
from a sender being registered only by the task it belongs to. `AppsStayCapped` and
`CacheStaysCapped` need one fact about the queues: every live entry is in its queue.
So the eviction loop always finds a victim before its queue is empty, whatever stale
ids it pops first, and one insertion costs at most one eviction. The action properties
`SendersOutliveOthers` and `DropsAreReportedOnce` follow action by action. Neither speaks of
a mark that an old connection's cleanup makes of an app that has reconnected, which the
code does make (`CleanupSparesReconnect`).

**Transport.** Types first (`TypeInv`, with the resolver's index inside its list);
then `FutureInv`: exactly one future, and a closed transport holds no socket; then
`PinInv`, which needs it (the socket that opens is the one dialled last, since there is
only one); then `StreamInv`: the queue is the newest messages in a row, everything
before them was handed over in order or pushed out, and the queue is empty while a
socket is open. `InOrderOnce` and `LossOnlyByOverflow` are read off it. All three are about
what sockets are handed: a socket whose desktop has gone swallows it.

**WriteChannel.** Every frame on its way to the window tells the truth: a reported value
was held, a positive result belongs to a handler that ran to completion (`HonestInv`).
With it an entry is set to "applied" only on such evidence. `ResultsAreKept` is an
action property over the types. `ChannelKeepsContract` is the refinement of
`WriteContract`: a step that changes a status is `Judges` (lemma `Judged`: every way the
reducer, the timers and the removal set a status is in `Move`, and "applied" comes with
evidence, by `HonestInv`), or `Asks` for the step that sends; a step that only lets the
app run is `Happens`, since `Had` never shrinks (`HadGrows`); all others stutter.

`VerdictsAgree` says the converse: what is shown is what happened. `VerdictInv` has
three parts. A request goes its way once (`OnceOnly`: it is on the way to the app at
most once, and no handler has run for it before it is read). A result on its way is the
last word of its request and says what became of it (`ResultsTrue`). And, unless a frame
was lost, a request the app has answered either has its result still on the way or is
shown as what it came to (`VerdictOwed`). The last is inductive only with the first
two: the frame that settles an entry must be its own, and no later step of the handler
may turn the answer into a lie.

**The page** (`Page_proofs`, about `UiMirror` with the history of `PageHistory`).

* `OnePillShown`: replacing the other run's pill keeps the list at one (`UpsertedOne`);
  the reply of `list_apps` folds that over any list, so the lemma for the reply is an
  induction over its length (`UpsertsDefined`, and `SetInduction` of `Recursion_proofs`).
* `DotsFollowTheRegistry`: a report that a run is connected, or no longer, is in three places
  in turn: with the task that has yet to emit it, among the events, in the pill. `NewsInv`
  says of each run that a report `Fits` the registry wherever it is the last one: it
  agrees, or says "no longer" of a run that a heartbeat has marked connected since
  (`muted`). A run with two opposite reports to be emitted may have them emitted in either
  order, so it is excepted until the next report (`raced`). It needs `WireInv` (a run that
  has not started has sent and marked nothing, a closed connection has nothing on its wire).
  The steps are about the last element of a kind in a queue (`LastIn`, `NoneIn`), for which
  there is one lemma each for appending, taking the head, and a queue of one; the older
  connections' ends and the sweeper are one lemma, `NewsOfMark`.
* `LiveFieldsAreRight`: the same argument over a longer chain: backlog, wire, emission,
  events, page. `ReportInv` says for each field that the last report on the way is what
  the app holds now, and that the page agrees with the app when there is none.
  Reports of other fields pass through without disturbing it. The condition on `lost`
  and `missed` enters where the frame leaves the chain.

**The desktop's own state machines** (`Desktop_proofs`).

* `RestartInstallsDownloaded`: at most one check or download is in flight, the status is
  busy while it is, and a download is of the one handle (`UpOneAtATime`). That is what
  the guards are for; it fails after a restart that fails in the middle of a
  check, which the property excepts.
* `TransfersTellTheTruth`: a transfer that counts as exact has been alone since it began,
  and between its two files it has made the main files agree (`DbAlone`, `DbHalfway`).
* `AttentionAskedOnce`: the property is inductive once the badges have their types.
* `DraftsFindTheirHome`: the page always agrees with itself: after every render the
  draft was opened on an entry with the identity of the one shown, and a raw row's draft
  on a key of its name (`EdPageFits`). One lemma says that `EdRender`, with which every
  action ends, restores it.
* `GraphIsWellFormed`: between two containers the graph is sound (`GrSound`): the nodes and
  what is queued stay within the budget, no node is there twice, an edge leads to a node or
  to what is queued, and a row folds only what may still be opened. Between two fields of
  one container the same holds of all but that container (`GrFilling`), so the lemma about
  a visit is one about each kind of field. That the queue runs empty is by the measure
  `GrLeft`, which every visit lowers: a visit either fills a node, and adds no more to the
  queue than the budget leaves room for, or only shortens the queue.
* `LinksHold`: the link is the one candidate better than every other (`CoLinkIsBest`), and two
  candidates that a step does not touch compare as before (`CoUntouched`), so the one that
  is linked can lose to none but a touched one.
* `TheTableMeant`: follows the dialog, which is closed whenever the engine under it
  changes.

**The SDK** (`Sdk_proofs`).

* `QueriesAnsweredHonestly`: every way the cache changes tells each attached adapter.
* `FramesCountedOnce`: the dropped frames are those reported and those of the open window
  (`TeOpenWindow`), and the throttle's clock is the time of the last warning
  (`TeThrottled`).
* `EntriesFollowEngine`: patches are stacked (`KvStacked`), so as long as none was
  restored from under another a call meets an adapter whenever one is attached.
  `KvCovered` then says of each key that the last continuation that will show it shows
  what the engine holds, or that it is shown already; a snapshot on its way makes up for
  all keys at once (`KvRefreshComing`). For MMKV and the browser there is nothing in
  between (`KvAtOnceFollows`).
* `HandlesStayHonest`: a method's patches are a chain, each on top of an older one
  (`LcStack`); a handle patches a method once, and so does a core (`LcOnce`); what waits
  for an import is of one handle each (`LcJobsFit`); and unless a method was restored from
  under a patch, every patch that a call goes through is the app's own, held by an open
  handle, or about to be detached (`LcCovered`). The chain is a recursive function of the
  patch's number; that it stays inside any set closed under "the one below" is by
  induction.

**The feeds** (`Feeds_proofs`).

* `RowsAreHonest`: a frame or a row is of the exchange it names, or of one that used the
  same XMLHttpRequest (`NfFramesOwn`, `NfRowsOwn`); the rows have distinct ids, whatever
  order a replay has; and each pending row runs, was dropped by `open()`, has its answer
  on the way, or was replayed after its end had been told (`NfPendingOpen`).
* `TransitionsCountedOnce`: the live transitions are in order and, unless the replay
  crossed them, none is older than what is counted; the key of the newest counted one is
  the one the graph remembers (`NvSound`), so the guard recognises a replayed frame.
* `CopyIsTheStore`: the copies the desktop goes through on the frames under way are a trail
  (`StTrail`) that ends in what the adapter last reported; sending appends to the trail,
  applying takes its head, and a loss cuts it until the next `state/init`.
* `CopyIsTheValue`: what `safeSerialize` makes is a tree with no object below the level
  `MAX_SERIALIZE_DEPTH` and nothing below that but the fields of a marker (`VaGood`, by
  induction over the depth that is left, and in it over the fields). Two operations of a
  diff are never at, or below, each other's paths (`VaApart`), and a part of the tree that
  none is above is the same on both sides (`VaUntouched`). So a copy to which some of the
  operations have been applied is the next value below their paths and the previous one
  elsewhere (`VaMixed`), whichever came first; one more makes it that of one more
  (`VaMixedStep`, where the guards of `setAtPath` must let it through: `VaTakes`), and
  with all of them it is the next value (`PatchesAreExact`). An array is where this could
  fail, and `diffArrays` replacing one of another length is what `VaSameItems` needs. From
  the same lemmas: a diff is empty exactly when nothing changed (`SilenceIsNoChange`: with
  no operation applied the mixed value is the previous one, with all of them the next), so
  the adapters' early return on an empty diff swallows nothing; and the copy only ever
  moves to what the value is at that moment (`CopyMovesToTheValue`).

**What rests on what.** The proofs assume the named ASSUMEs of the modules and nothing
else. The library's induction theorems take an operator, which none of the provers can
instantiate; `Recursion_proofs` states induction for a set of numbers instead
(`SetInduction`, `PrefixInduction`), from the well-foundedness of `<`, and from it that
a function defined by recursion exists (`RecursionExists`).

**Only model-checked.** Liveness (`DeadAppsMarked`, `ConnectionsEnd`, `Recovers`, `Resolves`,
`AppliedPasses`, `PageBecomesReady`, `UpUnsticks`, `SnHeals`), which is out of the
prover's reach. Every safety invariant and action property that a passing run checks is
stated by a theorem. The refutations of section 4 are TLC's too: a
counterexample needs no proof.

## 7. What is not modelled, and why

* The adb watcher, simulator memory and network addresses (`adb.rs`, `ios_memory.rs`,
  `netinfo.rs`), and the panels that poll them: each call runs an external tool and parses
  its output; the watcher repeats an idempotent `adb reverse` and keeps only a status.
* Log lines: an envelope each, added to a capped list. The patch of `console` is in
  `SdkLifecycle`.
* Rendering, layout of graphs and diagrams, styles, translations, sounds, curl export,
  JSON trees, the tray and window set-up, detection of framework and platform: no state
  that outlives a call, or none that a property could be about.
* Message sizes, parsing errors and rate limits of the socket: a frame that does not
  parse is skipped and changes nothing.
* An envelope that cannot be encoded, a second `connect()` on a closed transport: nothing in
  the repository does either. A key that is the empty string: `Values` keeps a path as its
  segments, so it cannot confuse such a key with the root, as the joined path `/` does.
* The hash of a state (`nextStateHash`), which is sent and never compared; the sizes of long
  strings; the counter that numbers envelopes.
* The contents of rows, columns and requests beyond what a property tells apart.

Hazards that no passing property covers, because the code leaves them open: the cleanup
that marks a reconnected app (`ws_server.rs:160`), the handshake without a timeout
(`ws_server.rs:84`), frames given to a dead socket (`ws.ts:161`), and the path of an empty
key (`diff.ts:33`). Half covered are those whose property excepts what the code does wrong,
as its note in `PROJECT.json` says: the gap of the bootstrap (`App.tsx:61`), a mark made
again without a word (`registry.rs:207`), reports that cross (`ws_server.rs:153`), a request
replayed after its end (`connection.ts:1340`), a replay that crosses live transitions
(`connection.ts:1470`), an adapter restored from under another (`asyncStorage.ts:138`), and
an import that fails half way (`db_file.rs:120`).
