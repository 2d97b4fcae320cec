----------------------------- MODULE Transport -----------------------------
(***************************************************************************)
(* The SDK's connection to the desktop: class Transport (transport/ws.ts), *)
(* the host resolver it is given (transport/devHost.ts), and the part of   *)
(* init() that drives it (index.ts: hostReady, onOpen, sendHello, close).  *)
(*                                                                         *)
(* JavaScript runs one callback at a time, so an action is one callback:   *)
(* a settled promise, a timer, a socket event, or a call to the API.       *)
(* Messages are numbered in the order send() was called.                   *)
(***************************************************************************)
EXTENDS Naturals, Sequences, FiniteSets

CONSTANTS
  Socket,      \* identities for WebSocket objects, reused once closed
  NoSocket,    \* this.socket = null
  Candidates,  \* what resolveDevHostCandidates() resolves to
  Fallback,    \* DEFAULT_HOST
  Desktop,     \* the host the desktop app really listens on
  Hangs,       \* hosts that never answer a connection attempt
  NeedsWarmUp, \* resolver.needsWarmUp at init(): the candidate cache is empty
  DelayFirst,  \* initialConnectDelayMs is set
  MaxQueue,    \* maxQueueSize
  MaxSends,    \* bound of the model: messages the adapters send
  MaxDrops     \* bound of the model: connections lost, and desktop restarts

ASSUME SocketAssumption == NoSocket \notin Socket
ASSUME CandidateAssumption == Candidates \in Seq(STRING) /\ Len(Candidates) > 0
ASSUME FlagAssumption == NeedsWarmUp \in BOOLEAN /\ DelayFirst \in BOOLEAN
ASSUME QueueAssumption == MaxQueue \in Nat

VARIABLES
  closed,     \* Transport.closed
  waiting,    \* hostReady.then(start) has not run
  delaying,   \* the initialConnectDelayMs timer is armed
  timers,     \* armed reconnect timers
  sock,       \* Transport.socket
  state,      \* readyState of each socket, "free" when there is no such socket
  dialled,    \* the host each socket was opened to
  connTimer,  \* sockets whose connect timeout is armed
  warm,       \* cachedCandidates is set
  index, last, pinned,  \* the resolver's closure
  accepted,   \* number of send() calls
  queue,      \* Transport.queue
  handed,     \* messages given to a socket, in order
  greeting,   \* sendHello() calls that are still awaiting
  greeted,    \* sockets a hello has been given to
  up,         \* the desktop is running
  orphans,    \* open sockets whose desktop is gone
  lost,       \* messages given to an orphan
  drops, sent \* model bounds

futures == <<closed, waiting, delaying, timers, sock, state, connTimer>>
resolver == <<warm, index, last, pinned>>
outbox == <<accepted, queue, handed, lost>>
world == <<up, orphans, drops>>
vars == <<futures, dialled, resolver, outbox, greeting, greeted, world, sent>>

Hosts == {Candidates[i] : i \in DOMAIN Candidates} \cup {Fallback}
Unpinned == ""
Live == {s \in Socket : state[s] # "free"}
IsOpen(s) == s \in Socket /\ state[s] = "open"

\* init() has just called connect().
Init ==
  /\ closed = FALSE
  /\ waiting = TRUE
  /\ delaying = FALSE
  /\ timers = 0
  /\ sock = NoSocket
  /\ state = [s \in Socket |-> "free"]
  /\ dialled = [s \in Socket |-> Fallback]
  /\ connTimer = {}
  /\ warm = ~NeedsWarmUp
  /\ index = 0 /\ last = Fallback /\ pinned = Unpinned
  /\ accepted = 0 /\ queue = << >> /\ handed = << >> /\ lost = {}
  /\ greeting = 0 /\ greeted = {}
  /\ up = TRUE /\ orphans = {} /\ drops = 0 /\ sent = 0

-----------------------------------------------------------------------------
(* The resolver *)

\* getDevHostCandidates(): the cache, or only the fallback until it is filled.
Cached == IF warm THEN Candidates ELSE <<Fallback>>
NextHost == IF pinned # Unpinned THEN pinned ELSE Cached[(index % Len(Cached)) + 1]

Advance ==
  IF pinned # Unpinned THEN UNCHANGED <<index, last>>
  ELSE last' = NextHost /\ index' = (index + 1) % Len(Candidates)

WarmUp ==
  /\ ~warm
  /\ warm' = TRUE
  /\ UNCHANGED <<futures, dialled, index, last, pinned, outbox, greeting, greeted, world, sent>>

-----------------------------------------------------------------------------
(* Connecting *)

\* openSocket(): what it does to the socket variables and the resolver.
OpenSocket ==
  \E s \in Socket :
    /\ state[s] = "free"
    /\ state' = [state EXCEPT ![s] = "connecting"]
    /\ sock' = s
    /\ dialled' = [dialled EXCEPT ![s] = NextHost]
    /\ connTimer' = connTimer \cup {s}
    /\ Advance

OpenUnlessClosed ==
  IF closed THEN UNCHANGED <<state, sock, dialled, connTimer, index, last>> ELSE OpenSocket

\* hostReady settles: the candidates are known, or withTimeout() gave up on them.
HostReady ==
  /\ waiting
  /\ waiting' = FALSE
  /\ IF DelayFirst /\ ~closed
     THEN delaying' = TRUE /\ UNCHANGED <<state, sock, dialled, connTimer, index, last>>
     ELSE UNCHANGED delaying /\ OpenUnlessClosed
  /\ UNCHANGED <<closed, timers, warm, pinned, outbox, greeting, greeted, world, sent>>

\* Mutant: the timer does not look at `closed'.
MutDelayFiresAnyway ==
  /\ delaying
  /\ delaying' = FALSE
  /\ OpenSocket
  /\ UNCHANGED <<closed, waiting, timers, warm, pinned, outbox, greeting, greeted, world, sent>>

DelayFires ==
  /\ delaying
  /\ delaying' = FALSE
  /\ OpenUnlessClosed
  /\ UNCHANGED <<closed, waiting, timers, warm, pinned, outbox, greeting, greeted, world, sent>>

ReconnectFires ==
  /\ timers > 0
  /\ timers' = timers - 1
  /\ OpenUnlessClosed
  /\ UNCHANGED <<closed, waiting, delaying, warm, pinned, outbox, greeting, greeted, world, sent>>

-----------------------------------------------------------------------------
(* Sending *)

\* Mutant: the newest message is dropped when the queue is full.
MutEnqueueDropsNewest(m) ==
  queue' = IF Len(queue) < MaxQueue THEN Append(queue, m) ELSE queue

\* push, then shift while over maxQueueSize.
Enqueue(m) ==
  LET longer == Append(queue, m)
  IN queue' = IF Len(longer) > MaxQueue
              THEN SubSeq(longer, Len(longer) - MaxQueue + 1, Len(longer)) ELSE longer

Send(m) ==
  /\ accepted' = m
  /\ IF IsOpen(sock)
     THEN /\ handed' = Append(handed, m)
          /\ lost' = IF sock \in orphans THEN lost \cup {m} ELSE lost
          /\ UNCHANGED queue
     ELSE /\ Enqueue(m)
          /\ UNCHANGED <<handed, lost>>

\* An adapter, or the heartbeat.
AdapterSends ==
  /\ sent < MaxSends
  /\ sent' = sent + 1
  /\ Send(accepted + 1)
  /\ UNCHANGED <<futures, dialled, resolver, greeting, greeted, world>>

\* Mutant: a hello is sent only before the first greeting.
MutHelloOnce ==
  /\ greeting > 0
  /\ greeting' = greeting - 1
  /\ IF handed = << >> THEN Send(accepted + 1) ELSE UNCHANGED outbox
  /\ greeted' = IF IsOpen(sock) /\ handed = << >> THEN greeted \cup {sock} ELSE greeted
  /\ UNCHANGED <<futures, dialled, resolver, world, sent>>

\* sendHello() resumes after detecting platform and framework.
HelloReady ==
  /\ greeting > 0
  /\ greeting' = greeting - 1
  /\ Send(accepted + 1)
  /\ greeted' = IF IsOpen(sock) THEN greeted \cup {sock} ELSE greeted
  /\ UNCHANGED <<futures, dialled, resolver, world, sent>>

-----------------------------------------------------------------------------
(* Socket events *)

\* Mutant: flushQueue() forgets to empty the queue.
MutOpensKeepsQueue(s) ==
  /\ state[s] = "connecting"
  /\ dialled[s] = Desktop /\ up
  /\ state' = [state EXCEPT ![s] = "open"]
  /\ connTimer' = connTimer \ {s}
  /\ handed' = handed \o queue
  /\ pinned' = last
  /\ greeting' = greeting + 1
  /\ UNCHANGED <<closed, waiting, delaying, timers, sock, dialled, warm, index, last,
                 accepted, queue, lost, greeted, world, sent>>

\* Mutant: the resolver pins the host it would try next.
MutOpensPinsNext(s) ==
  /\ state[s] = "connecting"
  /\ dialled[s] = Desktop /\ up
  /\ state' = [state EXCEPT ![s] = "open"]
  /\ connTimer' = connTimer \ {s}
  /\ handed' = handed \o queue /\ queue' = << >>
  /\ pinned' = NextHost
  /\ greeting' = greeting + 1
  /\ UNCHANGED <<closed, waiting, delaying, timers, sock, dialled, warm, index, last,
                 accepted, lost, greeted, world, sent>>

\* onopen: flush, then the open handlers: pin() and sendHello().
Opens(s) ==
  /\ state[s] = "connecting"
  /\ dialled[s] = Desktop /\ up
  /\ state' = [state EXCEPT ![s] = "open"]
  /\ connTimer' = connTimer \ {s}
  /\ handed' = handed \o queue /\ queue' = << >>
  /\ pinned' = last
  /\ greeting' = greeting + 1
  /\ UNCHANGED <<closed, waiting, delaying, timers, sock, dialled, warm, index, last,
                 accepted, lost, greeted, world, sent>>

\* The attempt is refused: onerror (reported only); onclose will follow.
Refused(s) ==
  /\ state[s] = "connecting"
  /\ dialled[s] \notin Hangs
  /\ dialled[s] # Desktop \/ ~up
  /\ state' = [state EXCEPT ![s] = "closing"]
  /\ UNCHANGED <<closed, waiting, delaying, timers, sock, connTimer, dialled, resolver,
                 outbox, greeting, greeted, world, sent>>

\* Mutant: a timed-out attempt is reported but its socket is left alone.
MutTimeoutOnlyReports(s) ==
  /\ s \in connTimer
  /\ connTimer' = connTimer \ {s}
  /\ UNCHANGED <<closed, waiting, delaying, timers, sock, state, dialled, resolver,
                 outbox, greeting, greeted, world, sent>>

\* Mutant: the timeout schedules the retry itself, on top of onclose.
MutTimeoutReschedules(s) ==
  /\ s \in connTimer
  /\ connTimer' = connTimer \ {s}
  /\ state' = IF state[s] = "connecting" THEN [state EXCEPT ![s] = "closing"] ELSE state
  /\ timers' = IF closed THEN timers ELSE timers + 1
  /\ UNCHANGED <<closed, waiting, delaying, sock, dialled, resolver,
                 outbox, greeting, greeted, world, sent>>

\* connectTimeoutMs: a socket still connecting is closed, and onclose retries.
Timeout(s) ==
  /\ s \in connTimer
  /\ connTimer' = connTimer \ {s}
  /\ state' = IF state[s] = "connecting" THEN [state EXCEPT ![s] = "closing"] ELSE state
  /\ UNCHANGED <<closed, waiting, delaying, timers, sock, dialled, resolver,
                 outbox, greeting, greeted, world, sent>>

\* An open connection ends: the network, or the end of an orphan is noticed.
Ends(s) == state' = [state EXCEPT ![s] = "closing"]

NetworkDrops(s) ==
  /\ state[s] = "open"
  /\ drops < MaxDrops
  /\ drops' = drops + 1
  /\ Ends(s)
  /\ UNCHANGED <<closed, waiting, delaying, timers, sock, connTimer, dialled, resolver,
                 outbox, greeting, greeted, up, orphans, sent>>

OrphanEnds(s) ==
  /\ state[s] = "open"
  /\ s \in orphans
  /\ Ends(s)
  /\ UNCHANGED <<closed, waiting, delaying, timers, sock, connTimer, dialled, resolver,
                 outbox, greeting, greeted, world, sent>>

\* onclose
Closes(s) ==
  /\ state[s] = "closing"
  /\ state' = [state EXCEPT ![s] = "free"]
  /\ connTimer' = connTimer \ {s}
  /\ orphans' = orphans \ {s}
  /\ greeted' = greeted \ {s}
  /\ sock' = NoSocket
  /\ timers' = IF closed THEN timers ELSE timers + 1
  /\ UNCHANGED <<closed, waiting, delaying, dialled, resolver, outbox, greeting, up, drops, sent>>

\* SpyglassHandle.close() -> Transport.close()
Close ==
  /\ ~closed
  /\ closed' = TRUE
  /\ timers' = 0
  /\ state' = IF sock = NoSocket \/ state[sock] = "closing" THEN state
              ELSE [state EXCEPT ![sock] = "closing"]
  /\ sock' = NoSocket
  /\ UNCHANGED <<waiting, delaying, connTimer, dialled, resolver, outbox, greeting, greeted,
                 world, sent>>

-----------------------------------------------------------------------------
(* The desktop *)

DesktopStops ==
  /\ up
  /\ drops < MaxDrops
  /\ drops' = drops + 1
  /\ up' = FALSE
  /\ orphans' = {s \in Socket : state[s] = "open"}
  /\ UNCHANGED <<futures, dialled, resolver, outbox, greeting, greeted, sent>>

DesktopStarts ==
  /\ ~up
  /\ up' = TRUE
  /\ UNCHANGED <<futures, dialled, resolver, outbox, greeting, greeted, orphans, drops, sent>>

Callback ==
  \/ HostReady \/ DelayFires \/ ReconnectFires
  \/ \E s \in Socket : Opens(s) \/ Refused(s) \/ Timeout(s) \/ OrphanEnds(s) \/ Closes(s)

Next ==
  \/ Callback \/ WarmUp \/ AdapterSends \/ HelloReady \/ Close
  \/ \E s \in Socket : NetworkDrops(s)
  \/ DesktopStops \/ DesktopStarts

Spec == Init /\ [][Next]_vars

\* Promises settle, timers fire, and a socket reports its open, its refusal or its
\* end (a heartbeat written to an orphan fails in the end).  An attempt that could
\* open again and again does not lose the race against connectTimeoutMs every time:
\* hence strong fairness for Opens.  Nobody need close the SDK or restart the desktop.
Fairness ==
  /\ WF_vars(HostReady) /\ WF_vars(DelayFires) /\ WF_vars(ReconnectFires)
  /\ WF_vars(WarmUp) /\ WF_vars(HelloReady)
  /\ \A s \in Socket : /\ SF_vars(Opens(s)) /\ WF_vars(Refused(s)) /\ WF_vars(Timeout(s))
                       /\ WF_vars(OrphanEnds(s)) /\ WF_vars(Closes(s))

FairSpec == Spec /\ Fairness

-----------------------------------------------------------------------------
(* What the transport promises *)

TypeOK ==
  /\ closed \in BOOLEAN /\ waiting \in BOOLEAN /\ delaying \in BOOLEAN
  /\ timers \in Nat
  /\ sock \in Socket \cup {NoSocket}
  /\ state \in [Socket -> {"free", "connecting", "open", "closing"}]
  /\ connTimer \subseteq Socket
  /\ accepted \in Nat /\ greeting \in Nat
  /\ queue \in Seq(Nat) /\ handed \in Seq(Nat)
  /\ greeted \subseteq Socket /\ orphans \subseteq Socket

\* A transport that is not closed is always in exactly one of the places that can
\* make it try again: never stuck with none, never racing two sockets.
OneFuture ==
  ~closed =>
    \/ waiting /\ ~delaying /\ timers = 0 /\ Live = {}
    \/ ~waiting /\ delaying /\ timers = 0 /\ Live = {}
    \/ ~waiting /\ ~delaying /\ timers = 1 /\ Live = {}
    \/ ~waiting /\ ~delaying /\ timers = 0 /\ Live = {sock}

\* Across queueing, flushing, direct sends and reconnects no message is given to
\* a socket twice or before an older one.
InOrderOnce ==
  \A i, j \in DOMAIN handed : i < j => handed[i] < handed[j]

\* The queue is the newest messages not yet given to a socket, at most
\* maxQueueSize of them, and a message is missing from both only if it was
\* pushed out by at least maxQueueSize newer ones: no reconnect loses one.
LossOnlyByOverflow ==
  /\ Len(queue) <= MaxQueue
  /\ \A m \in 1..accepted :
       \/ \E i \in DOMAIN handed : handed[i] = m
       \/ \E i \in DOMAIN queue : queue[i] = m
       \/ m + MaxQueue <= accepted

\* Over queue, flush and reconnect, what send() is called with is given to sockets in
\* order and once, and a frame never given to one is still queued or was pushed out by
\* maxQueueSize newer ones.  What becomes of a frame given to a socket whose desktop is
\* gone is another matter: ws.ts cannot tell, and RestartLosesNothing is about it.
StreamKept == InOrderOnce /\ LossOnlyByOverflow

\* The host the resolver freezes on is the one whose socket opened.
PinsOpenedHost == \A s \in Socket : state[s] = "open" => pinned = dialled[s]

\* After close() nothing is given to a socket and no socket is opened, whatever
\* timers and promises were pending.
CloseIsFinal ==
  [][closed => handed' = handed /\ \A s \in Socket : state[s] = "free" => state'[s] = "free"]_vars

\* While the desktop runs and the SDK is not closed, the transport gets through,
\* past refusing and hanging candidates.
Reconnects == []<>(closed \/ ~up \/ \E s \in Socket : state[s] = "open" /\ s \notin orphans)

\* Every connection that stays open is introduced by a hello.
Greets == \A s \in Socket : state[s] = "open" ~> (state[s] # "open" \/ s \in greeted)

\* The connection comes back with its introduction, however often it broke.
Recovers == Reconnects /\ Greets

\* ws.ts: the queue is there "so a brief desktop restart doesn't lose the SDK's
\* hello/state stream".
RestartLosesNothing == lost = {}

=============================================================================
