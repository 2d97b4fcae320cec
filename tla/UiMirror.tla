------------------------------ MODULE UiMirror ------------------------------
(***************************************************************************)
(* What the desktop window shows of an application, and how it gets there: *)
(* the adapter's stream of one state/init and then diffs (zustand.ts,      *)
(* redux.ts), the registry's latest-envelope-per-type cache, the events    *)
(* the server emits, and the page's bootstrap (App.tsx) with its list_apps *)
(* and get_cached_messages calls, hydrateFromCache and upsertApp.          *)
(*                                                                         *)
(* The page can be reloaded at any time, which empties its store.  Replies *)
(* to the page's commands and events reach it on different paths, so they  *)
(* overtake each other; events among themselves keep their order.          *)
(*                                                                         *)
(* One application; every run of its process has an appId of its own, and  *)
(* all runs have the same appName and platform.  A run connects again while *)
(* the server may not have noticed the end of its older connections; each  *)
(* of those, when it does, marks the run disconnected, and so does the     *)
(* sweeper.  What an older connection delivered is read before the next is *)
(* open, reconnectBaseDelayMs at least after it was lost.  A store is a    *)
(* record of fields, a field is the number of times it was written, and a  *)
(* diff names the one field it replaces.                                   *)
(***************************************************************************)
EXTENDS Naturals, Sequences, FiniteSets, SequencesExt, FiniteSetsExt

CONSTANTS
  Store,      \* storeIds
  Field,      \* the fields of a store's state
  None,       \* no state, no envelope
  MaxRuns,    \* bound of the model: starts of the application
  MaxWrites,  \* bound of the model: writes to the stores by one run
  MaxBreaks,  \* bound of the model: broken connections
  MaxPings,   \* bound of the model: heartbeats
  MaxSweeps,  \* bound of the model: times a run is found stale
  MaxReloads, \* bound of the model: reloads of the page
  MaxForgets  \* bound of the model: removals by the user

ASSUME RunAssumption == MaxRuns \in Nat \ {0}
ASSUME NoneAssumption == None \notin Store \cup Field

Run == 1..MaxRuns

VARIABLES
  now,        \* the run of the application that is alive
  value,      \* what its adapters last reported of each store (prevState); None before state/init
  link,       \* the run's connection: "none", "up", or "cut" until the server notices
  backlog,    \* the transport's queue
  unnoticed,  \* how many of its older connections the server believes open
  greeting,   \* onOpen's sendHello() has not sent yet
  wire,       \* frames on the socket
  lost,       \* runs of which a frame was lost with its socket
  reg,        \* Registry.apps: run -> connected
  cache,      \* Registry.cache: the last state/init and the last state/action
  emitting,   \* what the run's connection task has yet to emit of its frames
  dropping,   \* how often the run was marked disconnected and it has yet to be emitted
  heard,      \* the events this page has a listener for
  events,     \* events on their way to the page
  listing,    \* this page's list_apps: "asked", "answered" or "done"
  listed,     \* its answer
  fetches,    \* this page's get_cached_messages calls, in the order they were made
  pill,       \* the page's apps: run -> connected
  data,       \* the page's data: run -> storeId -> state
  forgetting, \* forget_app calls on their way
  writes, pings, breaks, sweeps, reloads, forgets  \* model bounds

program == <<now, value, writes, pings>>
network == <<link, unnoticed, backlog, greeting, wire, lost, breaks>>
server == <<reg, cache, emitting, dropping, sweeps>>
page == <<heard, events, listing, listed, fetches, pill, data, reloads>>
user == <<forgetting, forgets>>
vars == <<program, network, server, page, user>>

NoStores == [s \in Store |-> None]
Zero == [f \in Field |-> 0]

HelloFrame == [type |-> "hello"]
PingFrame == [type |-> "ping"]
InitFrame(s, st) == [type |-> "state/init", store |-> s, state |-> st]
ActionFrame(s, f, v) == [type |-> "state/action", store |-> s, field |-> f, val |-> v]
EmptyCache == [init |-> None, action |-> None]

Connected(r) == [kind |-> "connected", run |-> r]
Disconnected(r) == [kind |-> "disconnected", run |-> r]
Message(r, e) == [kind |-> "message", run |-> r, frame |-> e]

Without(f, S) == [x \in (DOMAIN f) \ S |-> f[x]]
With(f, x, y) == [z \in (DOMAIN f) \cup {x} |-> IF z = x THEN y ELSE f[z]]

Init ==
  /\ now = 1
  /\ value = [r \in Run |-> NoStores]
  /\ link = [r \in Run |-> "none"] /\ unnoticed = [r \in Run |-> 0]
  /\ backlog = [r \in Run |-> << >>]
  /\ greeting = {}
  /\ wire = [r \in Run |-> << >>]
  /\ lost = {}
  /\ reg = [r \in {} |-> FALSE]
  /\ cache = [r \in Run |-> EmptyCache]
  /\ emitting = [r \in Run |-> << >>] /\ dropping = [r \in Run |-> 0]
  /\ heard = {} /\ events = << >>
  /\ listing = "asked" /\ listed = << >> /\ fetches = << >>
  /\ pill = [r \in {} |-> FALSE] /\ data = [r \in {} |-> NoStores]
  /\ forgetting = {}
  /\ writes = 0 /\ pings = 0 /\ breaks = 0 /\ sweeps = 0 /\ reloads = 0 /\ forgets = 0

-----------------------------------------------------------------------------
(* The application: adapters over Transport.send()                         *)

\* Mutant: what is sent without a connection is not queued.
MutSendsUnqueued(r, frame) ==
  IF link[r] = "up"
  THEN wire' = [wire EXCEPT ![r] = Append(@, frame)] /\ UNCHANGED backlog
  ELSE UNCHANGED <<wire, backlog>>

Sends(r, frame) ==
  IF link[r] = "up"
  THEN wire' = [wire EXCEPT ![r] = Append(@, frame)] /\ UNCHANGED backlog
  ELSE backlog' = [backlog EXCEPT ![r] = Append(@, frame)] /\ UNCHANGED wire

\* An adapter starts watching a store: state/init.
StoreAttached(s) ==
  /\ value[now][s] = None
  /\ value' = [value EXCEPT ![now][s] = Zero]
  /\ Sends(now, InitFrame(s, Zero))
  /\ UNCHANGED <<now, writes, pings, link, unnoticed, greeting, lost, breaks, server, page, user>>

\* The store changes: diffValues() against what was last reported.
StoreWritten(s, f) ==
  /\ value[now][s] # None
  /\ writes < MaxWrites
  /\ writes' = writes + 1
  /\ value' = [value EXCEPT ![now][s][f] = @ + 1]
  /\ Sends(now, ActionFrame(s, f, value'[now][s][f]))
  /\ UNCHANGED <<now, pings, link, unnoticed, greeting, lost, breaks, server, page, user>>

\* The interval of index.ts, from init() on, connected or not.
HeartbeatSent ==
  /\ pings < MaxPings
  /\ pings' = pings + 1
  /\ Sends(now, PingFrame)
  /\ UNCHANGED <<now, value, writes, link, unnoticed, greeting, lost, breaks, server, page, user>>

\* onopen: the queue is flushed, the hello follows when sendHello() has awaited.
LinkOpens(r) ==
  /\ r = now
  /\ \/ link[r] = "none" /\ UNCHANGED unnoticed
     \/ /\ link[r] = "cut" /\ wire[r] = << >> /\ emitting[r] = << >>
        /\ unnoticed' = [unnoticed EXCEPT ![r] = @ + 1]
  /\ link' = [link EXCEPT ![r] = "up"]
  /\ wire' = [wire EXCEPT ![r] = backlog[r]]
  /\ backlog' = [backlog EXCEPT ![r] = << >>]
  /\ greeting' = greeting \cup {r}
  /\ UNCHANGED <<program, lost, breaks, server, page, user>>

HelloSent(r) ==
  /\ r \in greeting
  /\ greeting' = greeting \ {r}
  /\ Sends(r, HelloFrame)
  /\ UNCHANGED <<program, link, unnoticed, lost, breaks, server, page, user>>

\* Whatever the socket had not delivered may be gone with it.
Cut(r) ==
  /\ link' = [link EXCEPT ![r] = IF @ = "up" THEN "cut" ELSE @]
  /\ \E n \in 0..Len(wire[r]) :
       /\ wire' = [wire EXCEPT ![r] = SubSeq(@, 1, n)]
       /\ lost' = IF n < Len(wire[r]) THEN lost \cup {r} ELSE lost

LinkBreaks(r) ==
  /\ link[r] = "up"
  /\ breaks < MaxBreaks
  /\ breaks' = breaks + 1
  /\ Cut(r)
  /\ UNCHANGED <<program, unnoticed, backlog, greeting, server, page, user>>

\* The process ends and starts again, under a new appId.
AppRestarts ==
  /\ now < MaxRuns
  /\ now' = now + 1
  /\ writes' = 0
  /\ Cut(now)
  /\ backlog' = [backlog EXCEPT ![now] = << >>]
  /\ greeting' = greeting \ {now}
  /\ UNCHANGED <<value, pings, unnoticed, breaks, server, page, user>>

-----------------------------------------------------------------------------
(* The server: a task per connection and the sweeper; each emit is a step  *)
(* of its own                                                              *)

\* Registry::record: the cache keeps the last envelope of each type.
Recorded(r, frame) ==
  /\ reg' = IF frame.type = "hello" \/ r \in DOMAIN reg THEN With(reg, r, TRUE) ELSE reg
  /\ cache' = CASE frame.type = "state/init"   -> [cache EXCEPT ![r].init = frame]
                [] frame.type = "state/action" -> [cache EXCEPT ![r].action = frame]
                [] OTHER -> cache

\* A hello is announced (it is forwarded too, which the page's store ignores); any other
\* envelope is forwarded.
ServerReads(r) ==
  /\ wire[r] # << >>
  /\ emitting[r] = << >>
  /\ LET frame == Head(wire[r])
     IN /\ Recorded(r, frame)
        /\ emitting' = [emitting EXCEPT ![r] =
             <<IF frame.type = "hello" THEN Connected(r) ELSE Message(r, frame)>>]
  /\ wire' = [wire EXCEPT ![r] = Tail(@)]
  /\ UNCHANGED <<program, link, unnoticed, backlog, greeting, lost, breaks, dropping, sweeps, page, user>>

\* Mutant: the mark is made but not reported.
MutMarkedDown(r) ==
  /\ reg' = IF r \in DOMAIN reg THEN With(reg, r, FALSE) ELSE reg
  /\ UNCHANGED dropping

\* mark_disconnected, or sweep_stale, says whether there is something to emit.
MarkedDown(r) ==
  IF r \in DOMAIN reg /\ reg[r]
  THEN reg' = [reg EXCEPT ![r] = FALSE] /\ dropping' = [dropping EXCEPT ![r] = @ + 1]
  ELSE UNCHANGED <<reg, dropping>>

\* The end of the stream.
ServerEnds(r) ==
  /\ link[r] = "cut"
  /\ wire[r] = << >> /\ emitting[r] = << >>
  /\ link' = [link EXCEPT ![r] = "none"]
  /\ MarkedDown(r)
  /\ UNCHANGED <<program, unnoticed, backlog, greeting, wire, lost, breaks, cache, emitting, sweeps, page, user>>

\* The end of an older connection, of a run that may have connected again.
OldConnectionEnds(r) ==
  /\ unnoticed[r] > 0
  /\ unnoticed' = [unnoticed EXCEPT ![r] = @ - 1]
  /\ MarkedDown(r)
  /\ UNCHANGED <<program, link, backlog, greeting, wire, lost, breaks, cache, emitting, sweeps, page, user>>

\* heartbeat_sweeper: nothing was read of the run for HEARTBEAT_TIMEOUT_MS.
Sweeps(r) ==
  /\ r \in DOMAIN reg /\ reg[r]
  /\ sweeps < MaxSweeps
  /\ sweeps' = sweeps + 1
  /\ MarkedDown(r)
  /\ UNCHANGED <<program, network, cache, emitting, page, user>>

\* An event nobody listens for yet goes nowhere.
ServerEmits(r) ==
  /\ emitting[r] # << >>
  /\ emitting' = [emitting EXCEPT ![r] = Tail(@)]
  /\ events' = IF Head(emitting[r]).kind \in heard
               THEN Append(events, Head(emitting[r])) ELSE events
  /\ UNCHANGED <<program, network, reg, cache, dropping, sweeps, heard, listing, listed, fetches,
                 pill, data, reloads, user>>

\* app-disconnected, by the task that marked the run.
DropEmitted(r) ==
  /\ dropping[r] > 0
  /\ dropping' = [dropping EXCEPT ![r] = @ - 1]
  /\ events' = IF "disconnected" \in heard THEN Append(events, Disconnected(r)) ELSE events
  /\ UNCHANGED <<program, network, reg, cache, emitting, sweeps, heard, listing, listed, fetches,
                 pill, data, reloads, user>>

\* list_apps returns the values of a HashMap: any order.
ServerLists ==
  /\ listing = "asked"
  /\ listing' = "answered"
  /\ \E order \in SetToSeqs(DOMAIN reg) :
       listed' = [i \in DOMAIN order |-> [run |-> order[i], connected |-> reg[order[i]]]]
  /\ UNCHANGED <<program, network, server, heard, events, fetches, pill, data, reloads, user>>

ServerFetches(i) ==
  /\ i \in DOMAIN fetches
  /\ ~fetches[i].answered
  /\ fetches' = [fetches EXCEPT ![i].answered = TRUE, ![i].found = cache[fetches[i].run]]
  /\ UNCHANGED <<program, network, server, heard, events, listing, listed, pill, data, reloads,
                 user>>

ServerForgets(r) ==
  /\ r \in forgetting
  /\ forgetting' = forgetting \ {r}
  /\ reg' = Without(reg, {r})
  /\ cache' = [cache EXCEPT ![r] = EmptyCache]
  /\ UNCHANGED <<program, network, emitting, dropping, sweeps, page, forgets>>

-----------------------------------------------------------------------------
(* connection.ts: the page's store                                         *)

\* Mutant: runs of the same application pile up.
MutUpsertedAll(ui, app) ==
  [pill |-> With(ui.pill, app.run, app.connected),
   data |-> IF app.run \in DOMAIN ui.data THEN ui.data ELSE With(ui.data, app.run, NoStores)]

\* upsertApp(): another run of the same application gives way.
Upserted(ui, app) ==
  LET others == DOMAIN ui.pill \ {app.run}
      stale == IF others = {} THEN {} ELSE {CHOOSE r \in others : TRUE}
      kept == Without(ui.data, stale)
  IN [pill |-> With(Without(ui.pill, stale), app.run, app.connected),
      data |-> IF app.run \in DOMAIN kept THEN kept ELSE With(kept, app.run, NoStores)]

\* The apps one after the other.
Upserts(ui, apps) ==
  LET after[i \in 0..Len(apps)] == IF i = 0 THEN ui ELSE Upserted(after[i - 1], apps[i])
  IN after[Len(apps)]

Shown(d, r) == IF r \in DOMAIN d THEN d[r] ELSE NoStores

\* handleEnvelope(): a diff for a store that is not there changes nothing.
Applied(d, r, frame) ==
  CASE frame.type = "state/init" ->
         With(d, r, [Shown(d, r) EXCEPT ![frame.store] = frame.state])
    [] frame.type = "state/action" /\ Shown(d, r)[frame.store] # None ->
         With(d, r, [Shown(d, r) EXCEPT ![frame.store][frame.field] = frame.val])
    [] OTHER -> d

\* hydrateFromCache(): the snapshot first, then the one diff.
Hydrated(d, r, found) ==
  LET snapshot == IF found.init = None THEN d ELSE Applied(d, r, found.init)
  IN IF found.action = None THEN snapshot ELSE Applied(snapshot, r, found.action)

Fetch(r, origin) == [run |-> r, origin |-> origin, answered |-> FALSE, found |-> EmptyCache]

-----------------------------------------------------------------------------
(* App.tsx: the bootstrap effect                                           *)

Listens(kind) ==
  /\ kind \notin heard
  /\ heard' = heard \cup {kind}
  /\ UNCHANGED <<program, network, server, events, listing, listed, fetches, pill, data, reloads,
                 user>>

\* Every listed app is upserted, then all their caches are asked for.
ListArrives ==
  /\ listing = "answered"
  /\ listing' = "done"
  /\ LET ui == Upserts([pill |-> pill, data |-> data], listed)
     IN pill' = ui.pill /\ data' = ui.data
  /\ fetches' = fetches \o [i \in DOMAIN listed |-> Fetch(listed[i].run, "list")]
  /\ listed' = << >>
  /\ UNCHANGED <<program, network, server, heard, events, reloads, user>>

\* Mutant: the answer about an app that has gone meanwhile is never taken.
MutFetchArrivesShown(i) ==
  /\ i \in DOMAIN fetches
  /\ fetches[i].answered
  /\ fetches[i].run \in DOMAIN pill
  /\ data' = Hydrated(data, fetches[i].run, fetches[i].found)
  /\ fetches' = RemoveAt(fetches, i)
  /\ UNCHANGED <<program, network, server, heard, events, listing, listed, pill, reloads, user>>

FetchArrives(i) ==
  /\ i \in DOMAIN fetches
  /\ fetches[i].answered
  /\ data' = Hydrated(data, fetches[i].run, fetches[i].found)
  /\ fetches' = RemoveAt(fetches, i)
  /\ UNCHANGED <<program, network, server, heard, events, listing, listed, pill, reloads, user>>

\* onAppConnected: upsert, and ask for the cache as well.
AppConnected(r) ==
  /\ LET ui == Upserted([pill |-> pill, data |-> data], [run |-> r, connected |-> TRUE])
     IN pill' = ui.pill /\ data' = ui.data
  /\ fetches' = Append(fetches, Fetch(r, "event"))

\* markDisconnected() knows only the apps that are shown.
AppDisconnected(r) ==
  /\ pill' = IF r \in DOMAIN pill THEN With(pill, r, FALSE) ELSE pill
  /\ UNCHANGED <<data, fetches>>

EnvelopeArrives(r, frame) ==
  /\ data' = Applied(data, r, frame)
  /\ UNCHANGED <<pill, fetches>>

EventArrives ==
  /\ events # << >>
  /\ events' = Tail(events)
  /\ LET e == Head(events)
     IN \/ e.kind = "connected" /\ AppConnected(e.run)
        \/ e.kind = "disconnected" /\ AppDisconnected(e.run)
        \/ e.kind = "message" /\ EnvelopeArrives(e.run, e.frame)
  /\ UNCHANGED <<program, network, server, heard, listing, listed, reloads, user>>

\* ErrorBoundary's button, or the development server.
PageReloads ==
  /\ reloads < MaxReloads
  /\ reloads' = reloads + 1
  /\ heard' = {} /\ events' = << >>
  /\ listing' = "asked" /\ listed' = << >> /\ fetches' = << >>
  /\ pill' = [r \in {} |-> FALSE] /\ data' = [r \in {} |-> NoStores]
  /\ UNCHANGED <<program, network, server, user>>

\* handleForget(): removeApp() at once, forget_app on its way.
UserForgets(r) ==
  /\ r \in DOMAIN pill
  /\ forgets < MaxForgets
  /\ forgets' = forgets + 1
  /\ pill' = Without(pill, {r}) /\ data' = Without(data, {r})
  /\ forgetting' = forgetting \cup {r}
  /\ UNCHANGED <<program, network, server, heard, events, listing, listed, fetches, reloads>>

-----------------------------------------------------------------------------
Kinds == {"connected", "disconnected", "message"}

Next ==
  \/ \E s \in Store : StoreAttached(s) \/ \E f \in Field : StoreWritten(s, f)
  \/ AppRestarts \/ HeartbeatSent
  \/ \E r \in Run : \/ LinkOpens(r) \/ HelloSent(r) \/ LinkBreaks(r)
                   \/ ServerReads(r) \/ ServerEmits(r) \/ ServerEnds(r) \/ OldConnectionEnds(r)
                   \/ Sweeps(r) \/ DropEmitted(r) \/ ServerForgets(r)
                   \/ UserForgets(r)
  \/ ServerLists \/ ListArrives
  \/ \E i \in DOMAIN fetches : ServerFetches(i) \/ FetchArrives(i)
  \/ \E k \in Kinds : Listens(k)
  \/ EventArrives \/ PageReloads

Spec == Init /\ [][Next]_vars

\* Commands are answered.
Fairness ==
  /\ WF_vars(ServerLists) /\ WF_vars(ListArrives)
  /\ WF_vars(\E i \in DOMAIN fetches : ServerFetches(i))
  /\ WF_vars(\E i \in DOMAIN fetches : FetchArrives(i))

FairSpec == Spec /\ Fairness

-----------------------------------------------------------------------------
(* What the window promises *)

\* Nothing is on its way anywhere.
Settled ==
  /\ greeting = {} /\ forgetting = {}
  /\ heard = Kinds /\ listing = "done" /\ fetches = << >> /\ events = << >>
  /\ \A r \in Run : wire[r] = << >> /\ emitting[r] = << >> /\ dropping[r] = 0 /\ link[r] # "cut"

\* The splash screen is gone.
Ready == listing = "done" /\ \A i \in DOMAIN fetches : fetches[i].origin # "list"

\* An application that restarts again and again, with reloads and late events of its
\* older runs in between, is one pill in the list, and one that has data to show.
OnePill == Cardinality(DOMAIN pill) <= 1 /\ DOMAIN pill \subseteq DOMAIN data

\* The splash screen goes away, whatever happens to the listed apps meanwhile.
PageBecomesReady == ~Ready ~> Ready

=============================================================================
