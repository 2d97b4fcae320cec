------------------------------ MODULE WsServer ------------------------------
(***************************************************************************)
(* The desktop's WebSocket server (ws_server.rs) and the registry it       *)
(* shares with the Tauri commands (registry.rs).                           *)
(*                                                                         *)
(* One task per accepted socket runs handle_connection; a second task per  *)
(* socket owns the write half; one more task sweeps stale heartbeats.      *)
(* They meet only in the registry's mutex, so an action of this module is  *)
(* one critical section, one emit to the webview, or one await point, and  *)
(* everything between two of them interleaves with the other tasks.        *)
(*                                                                         *)
(* Abstractions.  An envelope is its appId and its type; time is the one   *)
(* bit `stale' per app (now - last_seen > HEARTBEAT_TIMEOUT_MS); the events *)
(* emitted to the webview are kept as the last one sent about each app.    *)
(***************************************************************************)
EXTENDS Naturals, Sequences, FiniteSets

CONSTANTS
  Conn,       \* the sockets that will ever be opened, each used once
  App,        \* application identifiers (appId)
  Kind,       \* message types
  Hello,      \* the message type "hello"
  None,       \* no app / no connection
  MaxConns,   \* MAX_CONCURRENT_CONNECTIONS
  MaxApps,    \* MAX_APPS
  MaxCache,   \* MAX_CACHE_ENTRIES
  MaxFrames,  \* bound of the model: frames one socket delivers
  MaxQueued   \* bound of the model: frames waiting in one writer's channel

ASSUME ConnAssumption == IsFiniteSet(Conn) /\ None \notin Conn
ASSUME AppAssumption == None \notin App
ASSUME KindAssumption == Hello \in Kind /\ None \notin Kind
ASSUME CapAssumption == /\ MaxConns \in Nat \ {0}
                        /\ MaxApps \in Nat \ {0}
                        /\ MaxCache \in Nat \ {0}
ASSUME BoundAssumption == MaxFrames \in Nat /\ MaxQueued \in Nat

VARIABLES
  pc,         \* where each connection's task is
  link,       \* what its reader will still see: more frames, nothing, or the end
  bound,      \* current_app_id of the task
  cur,        \* type of the envelope the task is handling, None between two
  frames,     \* frames delivered so far (model bound)
  writer,     \* the socket's writer task
  queued,     \* frames in the writer's channel
  active,     \* active_connections
  apps,       \* RegistryInner.apps: registered app -> [connected, stale]
  appOrder,   \* RegistryInner.app_order
  cache,      \* keys of RegistryInner.cache
  cacheOrder, \* RegistryInner.cache_order
  senders,    \* RegistryInner.senders: app -> connection whose channel it is
  sweeping,   \* apps the sweeper has marked and not yet reported
  announced   \* the last lifecycle event emitted to the webview about each app

task == <<pc, link, bound, cur, frames, active>>
channel == <<writer, queued>>
registry == <<apps, appOrder, cache, cacheOrder>>
ui == <<sweeping, announced>>
vars == <<task, channel, registry, senders, ui>>

Key == App \X Kind

\* The task has a slot of active_connections from accept to fetch_sub.
Slotted == {"handshake", "reading", "record", "announce", "forward",
            "unregister", "mark", "announceDown", "release"}
\* The task's loop is running, or its cleanup has not unregistered it yet.
Registered == {"reading", "record", "announce", "forward", "unregister"}
PC == Slotted \cup {"waiting", "refused", "gone"}

Slots == {c \in Conn : pc[c] \in Slotted}

AppRec == [connected : BOOLEAN, stale : BOOLEAN]
Known == DOMAIN apps
Connected(a) == a \in Known /\ apps[a].connected
Fresh == [connected |-> TRUE, stale |-> FALSE]
Holds(c) == \E a \in App : senders[a] = c

Init ==
  /\ pc = [c \in Conn |-> "waiting"]
  /\ link = [c \in Conn |-> "up"]
  /\ bound = [c \in Conn |-> None]
  /\ cur = [c \in Conn |-> None]
  /\ frames = [c \in Conn |-> 0]
  /\ writer = [c \in Conn |-> "none"]
  /\ queued = [c \in Conn |-> 0]
  /\ active = 0
  /\ apps = [a \in {} |-> Fresh]
  /\ appOrder = << >>
  /\ cache = {}
  /\ cacheOrder = << >>
  /\ senders = [a \in App |-> None]
  /\ sweeping = {}
  /\ announced = [a \in App |-> "none"]

-----------------------------------------------------------------------------
(* The two "evict the oldest insertion" loops.  An insertion overshoots the *)
(* cap by one, so each loop pops queue entries up to and including the      *)
(* first that still names an element.                                       *)

Hits(live, order) == {i \in DOMAIN order : order[i] \in live}
FirstHit(live, order) ==
  CHOOSE i \in Hits(live, order) : \A j \in Hits(live, order) : i <= j
Overshoots(live, cap) == Cardinality(live) > cap

\* Everything before that element is stale.
Popped(live, order, cap) ==
  {order[i] : i \in {i \in DOMAIN order : Overshoots(live, cap) /\ \A j \in Hits(live, order) : i <= j}}

Evicted(live, order, cap) ==
  IF Overshoots(live, cap) /\ Hits(live, order) # {}
  THEN {order[FirstHit(live, order)]} ELSE {}

QueueAfter(live, order, cap) ==
  IF ~Overshoots(live, cap) THEN order
  ELSE IF Hits(live, order) = {} THEN << >>
  ELSE SubSeq(order, FirstHit(live, order) + 1, Len(order))

-----------------------------------------------------------------------------
(* The accept loop *)

\* Mutant: off by one at the cap.
MutAcceptOneMore(c) ==
  /\ pc[c] = "waiting"
  /\ active <= MaxConns
  /\ active' = active + 1
  /\ pc' = [pc EXCEPT ![c] = "handshake"]
  /\ UNCHANGED <<link, bound, cur, frames, channel, registry, senders, ui>>

Accept(c) ==
  /\ pc[c] = "waiting"
  /\ active < MaxConns
  /\ active' = active + 1
  /\ pc' = [pc EXCEPT ![c] = "handshake"]
  /\ UNCHANGED <<link, bound, cur, frames, channel, registry, senders, ui>>

Refuse(c) ==
  /\ pc[c] = "waiting"
  /\ active >= MaxConns
  /\ pc' = [pc EXCEPT ![c] = "refused"]
  /\ UNCHANGED <<link, bound, cur, frames, active, channel, registry, senders, ui>>

(* The network: a peer closes its socket, or disappears without a word. *)

\* The end may also be the TCP error that a lost peer's silence turns into.
PeerCloses(c) ==
  /\ pc[c] \in {"handshake"} \cup Registered
  /\ link[c] # "closed"
  /\ link' = [link EXCEPT ![c] = "closed"]
  /\ UNCHANGED <<pc, bound, cur, frames, active, channel, registry, senders, ui>>

PeerVanishes(c) ==
  /\ pc[c] \in {"handshake"} \cup Registered
  /\ link[c] = "up"
  /\ link' = [link EXCEPT ![c] = "lost"]
  /\ UNCHANGED <<pc, bound, cur, frames, active, channel, registry, senders, ui>>

-----------------------------------------------------------------------------
(* handle_connection *)

Handshake(c) ==
  /\ pc[c] = "handshake"
  /\ link[c] = "up"
  /\ pc' = [pc EXCEPT ![c] = "reading"]
  /\ writer' = [writer EXCEPT ![c] = "up"]
  /\ UNCHANGED <<link, bound, cur, frames, active, queued, registry, senders, ui>>

HandshakeFails(c) ==
  /\ pc[c] = "handshake"
  /\ link[c] # "lost"
  /\ pc' = [pc EXCEPT ![c] = "release"]
  /\ UNCHANGED <<link, bound, cur, frames, active, channel, registry, senders, ui>>

\* A protocol ping is answered through the writer's channel, never recorded.
Ping(c) ==
  /\ pc[c] = "reading"
  /\ link[c] = "up"
  /\ writer[c] = "up"
  /\ queued[c] < MaxQueued
  /\ queued' = [queued EXCEPT ![c] = @ + 1]
  /\ UNCHANGED <<task, writer, registry, senders, ui>>

\* The first envelope binds the connection and registers its channel.
Bind(c, a, k) ==
  /\ bound[c] = None
  /\ bound' = [bound EXCEPT ![c] = a]
  /\ senders' = [senders EXCEPT ![a] = c]
  /\ cur' = [cur EXCEPT ![c] = k]
  /\ pc' = [pc EXCEPT ![c] = "record"]

\* A later one must name the same app.
Continue(c, a, k) ==
  /\ bound[c] = a
  /\ cur' = [cur EXCEPT ![c] = k]
  /\ pc' = [pc EXCEPT ![c] = "record"]
  /\ UNCHANGED <<bound, senders>>

\* Otherwise it is dropped; the connection stays.
DropSpoof(c, a) ==
  /\ bound[c] \notin {None, a}
  /\ UNCHANGED <<bound, senders, cur, pc>>

ReadFrame(c, a, k) ==
  /\ pc[c] = "reading"
  /\ link[c] = "up"
  /\ frames[c] < MaxFrames
  /\ frames' = [frames EXCEPT ![c] = @ + 1]
  /\ Bind(c, a, k) \/ Continue(c, a, k) \/ DropSpoof(c, a)
  /\ UNCHANGED <<link, active, channel, registry, ui>>

-----------------------------------------------------------------------------
(* Registry::record *)

Inserted(a) == [x \in Known \cup {a} |-> IF x = a THEN Fresh ELSE apps[x]]
Without(f, S) == [x \in (DOMAIN f) \ S |-> f[x]]

\* Mutant: is_new is computed after the insertion, so it is never true.
MutRecordHelloUnqueued(a) == apps' = Inserted(a) /\ UNCHANGED appOrder

\* A hello replaces the app's entry; only a new key joins app_order and can
\* overshoot MAX_APPS.  An evicted app takes its cached envelopes with it.
RecordHello(a) ==
  LET live == Known \cup {a}
      order == Append(appOrder, a)
      out == Evicted(live, order, MaxApps)
  IN IF a \in Known
     THEN /\ apps' = Inserted(a)
          /\ UNCHANGED appOrder
     ELSE /\ apps' = Without(Inserted(a), out)
          /\ appOrder' = QueueAfter(live, order, MaxApps)

\* Any other type only refreshes an app that is already registered.
RecordOther(a) ==
  /\ apps' = IF a \in Known THEN [apps EXCEPT ![a] = Fresh] ELSE apps
  /\ UNCHANGED appOrder

\* What an eviction by RecordHello leaves of the cache: an id that is popped takes its
\* envelopes along, also the id of an app that was forgotten and has gone on sending.
Surviving(a, k) ==
  LET out == IF k = Hello /\ a \notin Known
             THEN Popped(Known \cup {a}, Append(appOrder, a), MaxApps) ELSE {}
  IN {e \in cache : e[1] \notin out}

CacheEnvelope(a, k) ==
  LET kept == Surviving(a, k)
      live == kept \cup {<<a, k>>}
      order == Append(cacheOrder, <<a, k>>)
  IN IF <<a, k>> \in kept
     THEN cache' = kept /\ UNCHANGED cacheOrder
     ELSE /\ cache' = live \ Evicted(live, order, MaxCache)
          /\ cacheOrder' = QueueAfter(live, order, MaxCache)

Record(c) ==
  /\ pc[c] = "record"
  /\ IF cur[c] = Hello THEN RecordHello(bound[c]) ELSE RecordOther(bound[c])
  /\ CacheEnvelope(bound[c], cur[c])
  /\ pc' = [pc EXCEPT ![c] = IF cur[c] = Hello THEN "announce" ELSE "forward"]
  /\ UNCHANGED <<link, bound, cur, frames, active, channel, senders, ui>>

\* emit("app-connected"), outside the registry's lock.
Announce(c) ==
  /\ pc[c] = "announce"
  /\ announced' = [announced EXCEPT ![bound[c]] = "connected"]
  /\ pc' = [pc EXCEPT ![c] = "forward"]
  /\ UNCHANGED <<link, bound, cur, frames, active, channel, registry, senders, sweeping>>

\* emit("dm-message"); back to the top of the loop.
Forward(c) ==
  /\ pc[c] = "forward"
  /\ pc' = [pc EXCEPT ![c] = "reading"]
  /\ cur' = [cur EXCEPT ![c] = None]
  /\ UNCHANGED <<link, bound, frames, active, channel, registry, senders, ui>>

-----------------------------------------------------------------------------
(* The end of handle_connection: three separate critical sections *)

\* Mutant: cleanup forgets to unregister the sender.
MutEndStaysRegistered(c) ==
  /\ pc[c] = "reading"
  /\ link[c] = "closed"
  /\ pc' = [pc EXCEPT ![c] = IF bound[c] = None THEN "release" ELSE "mark"]
  /\ UNCHANGED <<link, bound, cur, frames, active, channel, registry, senders, ui>>

\* Mutant: a connection that never announced an app is not cleaned up.
MutEndOnlyBound(c) ==
  /\ pc[c] = "reading"
  /\ link[c] = "closed"
  /\ bound[c] # None
  /\ pc' = [pc EXCEPT ![c] = "unregister"]
  /\ UNCHANGED <<link, bound, cur, frames, active, channel, registry, senders, ui>>

EndOfStream(c) ==
  /\ pc[c] = "reading"
  /\ link[c] = "closed"
  /\ pc' = [pc EXCEPT ![c] = IF bound[c] = None THEN "release" ELSE "unregister"]
  /\ UNCHANGED <<link, bound, cur, frames, active, channel, registry, senders, ui>>

\* Mutant: no same_channel test.
MutUnregisterAny(c) ==
  /\ pc[c] = "unregister"
  /\ senders' = [senders EXCEPT ![bound[c]] = None]
  /\ pc' = [pc EXCEPT ![c] = "mark"]
  /\ UNCHANGED <<link, bound, cur, frames, active, channel, registry, ui>>

\* Registry::unregister_sender, with its same_channel test.
Unregister(c) ==
  /\ pc[c] = "unregister"
  /\ senders' = IF senders[bound[c]] = c
                THEN [senders EXCEPT ![bound[c]] = None] ELSE senders
  /\ pc' = [pc EXCEPT ![c] = "mark"]
  /\ UNCHANGED <<link, bound, cur, frames, active, channel, registry, ui>>

\* Mutant: cleanup reports without looking at the flag.
MutMarkAlways(c) ==
  /\ pc[c] = "mark"
  /\ apps' = IF bound[c] \in Known
             THEN [apps EXCEPT ![bound[c]].connected = FALSE] ELSE apps
  /\ pc' = [pc EXCEPT ![c] = "announceDown"]
  /\ UNCHANGED <<link, bound, cur, frames, active, channel, appOrder, cache, cacheOrder, senders, ui>>

\* Registry::mark_disconnected; only the caller that flips the flag reports it.
MarkDisconnected(c) ==
  /\ pc[c] = "mark"
  /\ IF Connected(bound[c])
     THEN /\ apps' = [apps EXCEPT ![bound[c]].connected = FALSE]
          /\ pc' = [pc EXCEPT ![c] = "announceDown"]
     ELSE /\ pc' = [pc EXCEPT ![c] = "release"]
          /\ UNCHANGED apps
  /\ UNCHANGED <<link, bound, cur, frames, active, channel, appOrder, cache, cacheOrder, senders, ui>>

AnnounceDown(c) ==
  /\ pc[c] = "announceDown"
  /\ announced' = [announced EXCEPT ![bound[c]] = "disconnected"]
  /\ pc' = [pc EXCEPT ![c] = "release"]
  /\ UNCHANGED <<link, bound, cur, frames, active, channel, registry, senders, sweeping>>

\* drop(tx), return (current_app_id goes with it), fetch_sub.
Release(c) ==
  /\ pc[c] = "release"
  /\ active' = active - 1
  /\ bound' = [bound EXCEPT ![c] = None]
  /\ pc' = [pc EXCEPT ![c] = "gone"]
  /\ UNCHANGED <<link, cur, frames, channel, registry, senders, ui>>

-----------------------------------------------------------------------------
(* The writer task, and the commands that feed it *)

\* send_to: an error (no sender, or its receiver is gone) changes nothing.
SendTo(a) ==
  /\ senders[a] # None
  /\ writer[senders[a]] = "up"
  /\ queued[senders[a]] < MaxQueued
  /\ queued' = [queued EXCEPT ![senders[a]] = @ + 1]
  /\ UNCHANGED <<task, writer, registry, senders, ui>>

WriterSends(c) ==
  /\ writer[c] = "up"
  /\ queued[c] > 0
  /\ link[c] # "closed"
  /\ queued' = [queued EXCEPT ![c] = @ - 1]
  /\ UNCHANGED <<task, writer, registry, senders, ui>>

WriterFails(c) ==
  /\ writer[c] = "up"
  /\ queued[c] > 0
  /\ link[c] # "up"
  /\ writer' = [writer EXCEPT ![c] = "ended"]
  /\ queued' = [queued EXCEPT ![c] = 0]
  /\ UNCHANGED <<task, registry, senders, ui>>

\* rx.recv() yields None once every copy of tx has been dropped: the task's
\* own, and the registry's.
WriterDrained(c) ==
  /\ writer[c] = "up"
  /\ queued[c] = 0
  /\ pc[c] = "gone"
  /\ ~Holds(c)
  /\ writer' = [writer EXCEPT ![c] = "ended"]
  /\ UNCHANGED <<task, queued, registry, senders, ui>>

-----------------------------------------------------------------------------
(* Time, the sweeper, and the forget_app command *)

Busy(a) == \E c \in Conn : bound[c] = a /\ pc[c] \in {"record", "announce", "forward"}

\* HEARTBEAT_TIMEOUT_MS pass without an envelope of a.  A task that already
\* holds one needs far less than that to record and emit it.
FallsSilent(a) ==
  /\ a \in Known
  /\ ~apps[a].stale
  /\ ~Busy(a)
  /\ apps' = [apps EXCEPT ![a].stale = TRUE]
  /\ UNCHANGED <<task, channel, appOrder, cache, cacheOrder, senders, ui>>

\* Mutant: an app that still has a sender is taken to be alive.
MutStaleOnlyUnregistered ==
  {a \in Known : apps[a].connected /\ apps[a].stale /\ senders[a] = None}

Stale == {a \in Known : apps[a].connected /\ apps[a].stale}

\* One tick: sweep_stale marks them all under one lock ...
Sweep ==
  /\ sweeping = {}
  /\ Stale # {}
  /\ sweeping' = Stale
  /\ apps' = [a \in Known |-> IF a \in Stale THEN [apps[a] EXCEPT !.connected = FALSE]
                                             ELSE apps[a]]
  /\ UNCHANGED <<task, channel, appOrder, cache, cacheOrder, senders, announced>>

\* ... and the sweeper then emits one event for each, in HashMap order.
SweepReports(a) ==
  /\ a \in sweeping
  /\ sweeping' = sweeping \ {a}
  /\ announced' = [announced EXCEPT ![a] = "disconnected"]
  /\ UNCHANGED <<task, channel, registry, senders>>

\* Registry::forget leaves senders and both queues alone.
Forget(a) ==
  /\ a \in Known \/ \E k \in Kind : <<a, k>> \in cache
  /\ apps' = Without(apps, {a})
  /\ cache' = {e \in cache : e[1] # a}
  /\ UNCHANGED <<task, channel, appOrder, cacheOrder, senders, ui>>

-----------------------------------------------------------------------------
Task(c) ==
  \/ Accept(c) \/ Refuse(c)
  \/ Handshake(c) \/ HandshakeFails(c)
  \/ Ping(c) \/ \E a \in App, k \in Kind : ReadFrame(c, a, k)
  \/ Record(c) \/ Announce(c) \/ Forward(c)
  \/ EndOfStream(c) \/ Unregister(c) \/ MarkDisconnected(c)
  \/ AnnounceDown(c) \/ Release(c)

Writer(c) == WriterSends(c) \/ WriterFails(c) \/ WriterDrained(c)

Next ==
  \/ \E c \in Conn : Task(c) \/ Writer(c) \/ PeerCloses(c) \/ PeerVanishes(c)
  \/ \E a \in App : SendTo(a) \/ FallsSilent(a) \/ SweepReports(a) \/ Forget(a)
  \/ Sweep

Spec == Init /\ [][Next]_vars

\* The runtime polls a task that is ready, a closed socket wakes its reader,
\* the interval ticks, and time passes.  Nothing makes a peer speak or close.
Fairness ==
  /\ \A c \in Conn :
       /\ WF_vars(Record(c)) /\ WF_vars(Announce(c)) /\ WF_vars(Forward(c))
       /\ WF_vars(EndOfStream(c)) /\ WF_vars(Unregister(c))
       /\ WF_vars(MarkDisconnected(c)) /\ WF_vars(AnnounceDown(c)) /\ WF_vars(Release(c))
       /\ WF_vars(link[c] = "closed" /\ HandshakeFails(c))
       /\ WF_vars(Writer(c))
  /\ \A a \in App : WF_vars(FallsSilent(a)) /\ WF_vars(SweepReports(a))
  /\ WF_vars(Sweep)

FairSpec == Spec /\ Fairness

-----------------------------------------------------------------------------
(* What the server promises *)

TypeOK ==
  /\ pc \in [Conn -> PC]
  /\ link \in [Conn -> {"up", "lost", "closed"}]
  /\ bound \in [Conn -> App \cup {None}]
  /\ cur \in [Conn -> Kind \cup {None}]
  /\ frames \in [Conn -> Nat]
  /\ writer \in [Conn -> {"none", "up", "ended"}]
  /\ queued \in [Conn -> Nat]
  /\ active \in Nat
  /\ Known \subseteq App
  /\ apps \in [Known -> AppRec]
  /\ appOrder \in Seq(App)
  /\ cache \subseteq Key
  /\ cacheOrder \in Seq(Key)
  /\ senders \in [App -> Conn \cup {None}]
  /\ sweeping \subseteq App
  /\ announced \in [App -> {"none", "connected", "disconnected"}]

\* A registered sender is the channel of a connection that announced that very
\* app and whose cleanup has not run: send_to never reaches a finished task or
\* another app's socket, however old and new connections of an app overlap.
SendersLive ==
  \A a \in App : senders[a] # None =>
    bound[senders[a]] = a /\ pc[senders[a]] \in Registered

\* The cleanup of an old connection never removes the channel a reconnect has
\* registered in the meantime: a sender disappears only with its own connection.
SenderOutlivesOthers ==
  [][\A a \in App : (senders[a] # None /\ senders'[a] = None)
                       => pc[senders[a]] = "unregister" /\ pc'[senders[a]] = "mark"]_vars

\* active_connections counts exactly the tasks between accept and fetch_sub and
\* never passes MAX_CONCURRENT_CONNECTIONS, whatever order tasks end in.
SlotsCounted ==
  /\ active = Cardinality(Slots)
  /\ active <= MaxConns

\* MAX_APPS holds after any mix of hello, forget and eviction, and app_order can
\* always supply a victim: the loop's "deque exhausted but still over cap" break
\* is never taken, although forget leaves stale ids behind.
AppsCapped ==
  /\ Cardinality(Known) <= MaxApps
  /\ \A a \in Known : \E i \in DOMAIN appOrder : appOrder[i] = a

\* The same for MAX_CACHE_ENTRIES and cache_order, whose keys also lose their
\* entries when their app is forgotten or evicted.
CacheCapped ==
  /\ Cardinality(cache) <= MaxCache
  /\ \A e \in cache : \E i \in DOMAIN cacheOrder : cacheOrder[i] = e

\* Both caps hold together: an eviction that keeps one of them never breaks the other,
\* although evicting an app also takes its envelopes.
CapsHeld == AppsCapped /\ CacheCapped

Reporting(c, a) == pc[c] = "announceDown" /\ bound[c] = a

\* The sweeper and the cleanups of an app's connections race to mark it
\* disconnected; a drop of the flag on a registered app is reported by exactly
\* the step that dropped it, and nothing else starts a report.
DropsReportedOnce ==
  [][\A a \in App :
       (Connected(a) /\ a \in DOMAIN apps' /\ ~apps'[a].connected)
         <=> (\/ a \in sweeping' \ sweeping
              \/ \E c \in Conn : Reporting(c, a)' /\ ~Reporting(c, a))]_vars

\* Some socket may still speak for a.
Audible(a) == \E c \in Conn : /\ link[c] = "up" /\ bound[c] \in {a, None}
                              /\ pc[c] \in {"waiting", "handshake"} \cup Registered

\* An app all of whose sockets are closed or silently dead does not stay
\* connected in the registry: cleanup or the sweeper gets to it.
DeadAppsMarked == \A a \in App : Connected(a) ~> (~Connected(a) \/ Audible(a))

\* A closed socket gives its slot back, from whichever await its task was at.
SlotsFreed ==
  \A c \in Conn : (link[c] = "closed" /\ pc[c] \in Slotted) ~> pc[c] = "gone"

\* Dropping tx ends the writer task: no registry copy keeps its channel open
\* once the connection is over.
WritersEnd == \A c \in Conn : pc[c] = "gone" ~> writer[c] # "up"

\* What a connection held is given back when it is over.
ConnectionsEnd == SlotsFreed /\ WritersEnd

-----------------------------------------------------------------------------
(* What comments in the source say, and the code does not do *)

\* registry.rs says a stale id in app_order is a no-op when popped and that the
\* oldest insertion is evicted: so a hello never evicts the app it registers.
NewcomerKept ==
  [][\A c \in Conn : (cur[c] = Hello /\ pc[c] = "record" /\ pc'[c] = "announce")
                        => bound[c] \in DOMAIN apps']_vars

\* unregister_sender is careful that a late cleanup does not tear down the new
\* connection; the mark_disconnected that follows it should not either.
CleanupSparesReconnect ==
  [][\A c \in Conn : (pc[c] = "mark" /\ pc'[c] = "announceDown")
                        => senders[bound[c]] = None]_vars

\* heartbeat_sweeper "catches apps whose socket died without a clean close": the
\* webview is eventually told that such a registered app is disconnected.
DeadAppsTold ==
  \A a \in App : (announced[a] = "connected")
                    ~> (announced[a] = "disconnected" \/ a \notin Known \/ Audible(a))

=============================================================================
