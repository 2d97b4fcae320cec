-------------------------- MODULE Transport_proofs --------------------------
(***************************************************************************)
(* Proofs about Transport, for every set of sockets, every candidate list, *)
(* every queue size and every number of sends and restarts.                *)
(*                                                                         *)
(* The argument has four layers, each inductive relative to the earlier    *)
(* ones: types; where the next attempt comes from (FutureInv); which host  *)
(* the resolver remembers (PinInv); what is in the queue and what has left *)
(* it (StreamInv).                                                         *)
(***************************************************************************)
EXTENDS Transport, SequenceTheorems, TLAPS

-----------------------------------------------------------------------------
(* Types *)

TypeInv ==
  /\ TypeOK
  /\ Len(queue) <= MaxQueue
  /\ dialled \in [Socket -> Hosts]
  /\ warm \in BOOLEAN
  /\ index \in Nat /\ last \in Hosts /\ pinned \in Hosts \cup {Unpinned}

\* The next host is always one of the candidates or the fallback: the index stays
\* inside whichever list is cached.
LEMMA NextHostIsHost ==
  ASSUME TypeInv
  PROVE  NextHost \in Hosts
<1>1. CASE pinned # Unpinned
  BY <1>1 DEF NextHost, TypeInv
<1>2. CASE pinned = Unpinned
  <2>1. /\ Len(Cached) \in Nat /\ Len(Cached) > 0
        /\ \A i \in 1..Len(Cached) : Cached[i] \in Hosts
    <3>1. CASE warm
      <4>1. Cached = Candidates
        BY <3>1 DEF Cached
      <4> QED BY <4>1, CandidateAssumption DEF Hosts
    <3>2. CASE ~warm
      <4>1. Cached = <<Fallback>>
        BY <3>2 DEF Cached
      <4> QED BY <4>1 DEF Hosts
    <3> QED BY <3>1, <3>2
  <2> DEFINE n == Len(Cached)
  <2>2. index \in Nat
    BY DEF TypeInv
  <2> HIDE DEF n
  <2>3. \A i \in Nat : n \in Nat /\ n > 0 => i % n \in 0..(n - 1)
    BY Z3
  <2>4. (index % n) + 1 \in 1..n
    BY <2>1, <2>2, <2>3 DEF n
  <2> QED BY <1>2, <2>1, <2>4 DEF NextHost, n
<1> QED BY <1>1, <1>2

LEMMA AdvanceType ==
  ASSUME TypeInv, Advance
  PROVE  index' \in Nat /\ last' \in Hosts
<1>1. CASE pinned # Unpinned
  BY <1>1 DEF Advance, TypeInv
<1>2. CASE pinned = Unpinned
  <2>1. Len(Candidates) \in Nat /\ Len(Candidates) > 0
    BY CandidateAssumption
  <2>2. index \in Nat /\ last' = NextHost /\ index' = (index + 1) % Len(Candidates)
    BY <1>2 DEF Advance, TypeInv
  <2> DEFINE n == Len(Candidates)
  <2> HIDE DEF n
  <2>3. \A i \in Nat : n \in Nat /\ n > 0 => (i + 1) % n \in Nat
    BY Z3
  <2> QED BY <2>1, <2>2, <2>3, NextHostIsHost DEF n
<1> QED BY <1>1, <1>2

\* Opening a socket, or not doing so because the transport is closed, keeps types.
LEMMA OpenType ==
  ASSUME TypeInv, OpenUnlessClosed
  PROVE  /\ sock' \in Socket \cup {NoSocket}
         /\ state' \in [Socket -> {"free", "connecting", "open", "closing"}]
         /\ dialled' \in [Socket -> Hosts]
         /\ connTimer' \subseteq Socket
         /\ index' \in Nat /\ last' \in Hosts
<1>1. CASE closed
  BY <1>1 DEF OpenUnlessClosed, TypeInv, TypeOK
<1>2. CASE ~closed
  <2>1. OpenSocket
    BY <1>2 DEF OpenUnlessClosed
  <2>2. PICK s \in Socket :
          /\ state' = [state EXCEPT ![s] = "connecting"]
          /\ sock' = s
          /\ dialled' = [dialled EXCEPT ![s] = NextHost]
          /\ connTimer' = connTimer \cup {s}
          /\ Advance
    BY <2>1 DEF OpenSocket
  <2> QED BY <2>2, NextHostIsHost, AdvanceType DEF TypeInv, TypeOK
<1> QED BY <1>1, <1>2

\* Enqueue keeps the newest messages: at most MaxQueue of them, and the whole of the
\* old queue unless that would be one too many.
LEMMA EnqueueKeepsNewest ==
  ASSUME queue \in Seq(Nat), Len(queue) <= MaxQueue, NEW m \in Nat, Enqueue(m)
  PROVE  /\ queue' \in Seq(Nat)
         /\ Len(queue') = IF Len(queue) < MaxQueue THEN Len(queue) + 1 ELSE MaxQueue
         /\ \A i \in 1..Len(queue') :
              LET j == i + (Len(queue) + 1 - Len(queue'))
              IN queue'[i] = IF j = Len(queue) + 1 THEN m ELSE queue[j]
<1> DEFINE longer == Append(queue, m)
<1>1. /\ longer \in Seq(Nat) /\ Len(longer) = Len(queue) + 1
      /\ \A j \in 1..Len(longer) : /\ longer[j] \in Nat
                                   /\ longer[j] = IF j = Len(queue) + 1 THEN m ELSE queue[j]
  OBVIOUS
<1>2. queue' = IF Len(longer) > MaxQueue
               THEN SubSeq(longer, Len(longer) - MaxQueue + 1, Len(longer)) ELSE longer
  BY DEF Enqueue
<1>3. MaxQueue \in Nat /\ Len(queue) \in Nat
  BY QueueAssumption
<1> HIDE DEF longer
<1>4. CASE Len(queue) < MaxQueue
  <2>1. queue' = longer
    BY <1>1, <1>2, <1>3, <1>4
  <2>2. Len(queue') = Len(queue) + 1
    BY <1>1, <2>1
  <2>3. \A i \in 1..Len(queue') : i + (Len(queue) + 1 - Len(queue')) = i
    BY <1>3, <2>2
  <2> QED BY <1>1, <1>4, <2>1, <2>2, <2>3
<1>5. CASE Len(queue) = MaxQueue
  <2>1. queue' = SubSeq(longer, 2, MaxQueue + 1)
    BY <1>1, <1>2, <1>3, <1>5
  <2>2. \A i \in 2..(MaxQueue + 1) : longer[i] \in Nat
    BY <1>1, <1>3, <1>5
  <2>3. /\ queue' \in Seq(Nat)
        /\ Len(queue') = IF 2 <= MaxQueue + 1 THEN (MaxQueue + 1) - 2 + 1 ELSE 0
        /\ \A i \in 1..((MaxQueue + 1) - 2 + 1) : queue'[i] = longer[2 + i - 1]
    BY <1>3, <2>1, <2>2, SubSeqProperties
  <2>4. Len(queue') = MaxQueue
    BY <1>3, <2>3
  <2>5. ASSUME NEW i \in 1..MaxQueue
        PROVE  queue'[i] = IF i + 1 = Len(queue) + 1 THEN m ELSE queue[i + 1]
    <3>1. i + 1 \in 1..Len(longer) /\ 2 + i - 1 = i + 1 /\ i \in 1..((MaxQueue + 1) - 2 + 1)
      BY <1>1, <1>3, <1>5
    <3>2. queue'[i] = longer[i + 1]
      BY <2>3, <3>1
    <3> QED BY <1>1, <3>1, <3>2
  <2> QED BY <1>3, <1>5, <2>3, <2>4, <2>5, SMTT(30)
<1> QED BY <1>3, <1>4, <1>5

LEMMA SendType ==
  ASSUME TypeInv, Send(accepted + 1)
  PROVE  /\ accepted' = accepted + 1
         /\ queue' \in Seq(Nat) /\ handed' \in Seq(Nat)
         /\ Len(queue') <= MaxQueue
<1> USE DEF TypeInv, TypeOK
<1>1. accepted' = accepted + 1 /\ accepted + 1 \in Nat
  BY DEF Send
<1>2. CASE IsOpen(sock)
  <2>1. handed' = Append(handed, accepted + 1) /\ queue' = queue
    BY <1>2 DEF Send
  <2> QED BY <1>1, <2>1
<1>3. CASE ~IsOpen(sock)
  <2>1. handed' = handed /\ Enqueue(accepted + 1)
    BY <1>3 DEF Send
  <2> QED BY <1>1, <2>1, EnqueueKeepsNewest, QueueAssumption
<1> QED BY <1>2, <1>3

\* Every variable keeps its type.
THEOREM TypeCorrect == Spec => []TypeInv
<1>1. Init => TypeInv
  <2> SUFFICES ASSUME Init PROVE TypeInv
    OBVIOUS
  <2>1. warm \in BOOLEAN
    BY FlagAssumption DEF Init
  <2>2. /\ dialled \in [Socket -> Hosts] /\ state \in [Socket -> {"free"}]
        /\ last \in Hosts /\ index \in Nat
    BY DEF Init, Hosts
  <2>3. Len(queue) <= MaxQueue /\ queue \in Seq(Nat) /\ handed \in Seq(Nat)
    BY QueueAssumption DEF Init
  <2> QED BY <2>1, <2>2, <2>3 DEF Init, TypeInv, TypeOK
<1>2. TypeInv /\ [Next]_vars => TypeInv'
  <2> SUFFICES ASSUME TypeInv, [Next]_vars PROVE TypeInv'
    OBVIOUS
  <2> USE DEF TypeInv, TypeOK, futures, resolver, outbox, world
  <2>1. CASE HostReady
    <3>1. CASE DelayFirst /\ ~closed
      BY <2>1, <3>1 DEF HostReady, Hosts
    <3>2. CASE ~(DelayFirst /\ ~closed)
      <4>1. OpenUnlessClosed
        BY <2>1, <3>2 DEF HostReady
      <4> QED BY <2>1, <3>2, <4>1, OpenType DEF HostReady, Hosts
    <3> QED BY <3>1, <3>2
  <2>2. CASE DelayFires
    BY <2>2, OpenType DEF DelayFires, Hosts
  <2>3. CASE ReconnectFires
    BY <2>3, OpenType DEF ReconnectFires, Hosts
  <2>4. ASSUME NEW s \in Socket, Opens(s) PROVE TypeInv'
    BY <2>4, QueueAssumption DEF Opens, Hosts
  <2>5. ASSUME NEW s \in Socket, Refused(s) PROVE TypeInv'
    BY <2>5 DEF Refused, Hosts
  <2>6. ASSUME NEW s \in Socket, Timeout(s) PROVE TypeInv'
    BY <2>6 DEF Timeout, Hosts
  <2>7. ASSUME NEW s \in Socket, OrphanEnds(s) PROVE TypeInv'
    BY <2>7 DEF OrphanEnds, Ends, Hosts
  <2>8. ASSUME NEW s \in Socket, Closes(s) PROVE TypeInv'
    BY <2>8 DEF Closes, Hosts
  <2>9. CASE WarmUp
    BY <2>9 DEF WarmUp, Hosts
  <2>10. CASE AdapterSends
    BY <2>10, SendType DEF AdapterSends, Hosts
  <2>11. CASE HelloReady
    BY <2>11, SendType DEF HelloReady, IsOpen, Hosts
  <2>12. CASE Close
    BY <2>12 DEF Close, Hosts
  <2>13. ASSUME NEW s \in Socket, NetworkDrops(s) PROVE TypeInv'
    BY <2>13 DEF NetworkDrops, Ends, Hosts
  <2>14. CASE DesktopStops
    BY <2>14 DEF DesktopStops, Hosts
  <2>15. CASE DesktopStarts
    BY <2>15 DEF DesktopStarts, Hosts
  <2>16. CASE UNCHANGED vars
    BY <2>16 DEF vars, Hosts
  <2> QED BY <2>1, <2>2, <2>3, <2>4, <2>5, <2>6, <2>7, <2>8, <2>9, <2>10, <2>11, <2>12,
             <2>13, <2>14, <2>15, <2>16 DEF Next, Callback
<1> QED BY <1>1, <1>2, PTL DEF Spec

\* The type invariant the runs check.
THEOREM WellTyped == Spec => []TypeOK
<1>1. TypeInv => TypeOK
  BY DEF TypeInv
<1> QED BY <1>1, TypeCorrect, PTL

-----------------------------------------------------------------------------
(* Where the next attempt comes from *)

\* OneFuture alone is not inductive: it says nothing of a closed transport, and
\* Closes would then not know which socket it is closing.
FutureInv ==
  /\ OneFuture
  /\ closed => sock = NoSocket /\ \A s \in Socket : state[s] \in {"free", "closing"}

\* What OpenUnlessClosed does when no socket is live.
LEMMA OpensOnlyOne ==
  ASSUME TypeInv, OpenUnlessClosed, ~closed, Live = {}
  PROVE  sock' \in Socket /\ Live' = {sock'} /\ state'[sock'] = "connecting"
<1>1. PICK s \in Socket : state' = [state EXCEPT ![s] = "connecting"] /\ sock' = s
  BY DEF OpenUnlessClosed, OpenSocket
<1>2. \A r \in Socket : state[r] = "free"
  BY DEF Live
<1> QED BY <1>1, <1>2 DEF Live, TypeInv, TypeOK

LEMMA FutureStep == TypeInv /\ FutureInv /\ [Next]_vars => FutureInv'
<1> SUFFICES ASSUME TypeInv, FutureInv, [Next]_vars PROVE FutureInv'
  OBVIOUS
<1> USE DEF FutureInv, OneFuture, futures
<1>0. TypeOK
  BY DEF TypeInv
<1>1. CASE HostReady
  <2>1. CASE closed
    BY <1>1, <2>1 DEF HostReady, OpenUnlessClosed
  <2>2. CASE ~closed /\ DelayFirst
    BY <1>1, <2>2 DEF HostReady, Live
  <2>3. CASE ~closed /\ ~DelayFirst
    <3>1. OpenUnlessClosed /\ Live = {} /\ timers' = timers /\ ~waiting' /\ delaying' = delaying /\ closed' = closed
      BY <1>1, <2>3 DEF HostReady
    <3> QED BY <1>1, <2>3, <3>1, OpensOnlyOne DEF HostReady
  <2> QED BY <2>1, <2>2, <2>3
<1>2. CASE DelayFires
  <2>1. CASE closed
    BY <1>2, <2>1 DEF DelayFires, OpenUnlessClosed
  <2>2. CASE ~closed
    BY <1>2, <2>2, OpensOnlyOne DEF DelayFires
  <2> QED BY <2>1, <2>2
<1>3. CASE ReconnectFires
  <2>1. CASE closed
    BY <1>3, <2>1 DEF ReconnectFires, OpenUnlessClosed
  <2>2. CASE ~closed
    BY <1>0, <1>3, <2>2, OpensOnlyOne DEF ReconnectFires, TypeOK
  <2> QED BY <2>1, <2>2
\* A socket that was live and is not the whole of Live afterwards has closed.
<1>4. ASSUME NEW s \in Socket, state[s] # "free", closed' = closed, waiting' = waiting,
             delaying' = delaying, timers' = timers, sock' = sock,
             NEW x \in {"open", "closing"}, state' = [state EXCEPT ![s] = x],
             closed => x = "closing"
      PROVE  FutureInv'
  BY <1>0, <1>4 DEF Live, TypeOK
<1>5. ASSUME NEW s \in Socket, Opens(s) PROVE FutureInv'
  BY <1>4, <1>5 DEF Opens
<1>6. ASSUME NEW s \in Socket, Refused(s) PROVE FutureInv'
  BY <1>4, <1>6 DEF Refused
<1>7. ASSUME NEW s \in Socket, Timeout(s) PROVE FutureInv'
  <2>1. CASE state[s] = "connecting"
    BY <1>4, <1>7, <2>1 DEF Timeout
  <2>2. CASE state[s] # "connecting"
    BY <1>7, <2>2 DEF Timeout, Live
  <2> QED BY <2>1, <2>2
<1>8. ASSUME NEW s \in Socket, OrphanEnds(s) PROVE FutureInv'
  BY <1>4, <1>8 DEF OrphanEnds, Ends
<1>9. ASSUME NEW s \in Socket, NetworkDrops(s) PROVE FutureInv'
  BY <1>4, <1>9 DEF NetworkDrops, Ends
<1>10. ASSUME NEW s \in Socket, Closes(s) PROVE FutureInv'
  <2>1. CASE closed
    BY <1>0, <1>10, <2>1 DEF Closes, TypeOK
  <2>2. CASE ~closed
    <3>1. Live = {s} /\ ~waiting /\ ~delaying /\ timers = 0
      BY <1>10, <2>2 DEF Closes, Live
    <3>2. Live' = {}
      BY <1>0, <1>10, <3>1 DEF Closes, Live, TypeOK
    <3> QED BY <1>10, <2>2, <3>1, <3>2 DEF Closes
  <2> QED BY <2>1, <2>2
<1>11. CASE Close
  <2>1. Live \subseteq {sock}
    BY <1>11 DEF Close
  <2>2. closed' /\ sock' = NoSocket
    BY <1>11 DEF Close
  <2>3. ASSUME NEW s \in Socket PROVE state'[s] \in {"free", "closing"}
    BY <1>0, <1>11, <2>1, SocketAssumption DEF Close, Live, TypeOK
  <2> QED BY <2>2, <2>3
<1>12. CASE WarmUp \/ AdapterSends \/ HelloReady \/ DesktopStops \/ DesktopStarts \/ UNCHANGED vars
  <2>1. UNCHANGED futures
    BY <1>12 DEF WarmUp, AdapterSends, HelloReady, DesktopStops, DesktopStarts, vars
  <2> QED BY <2>1 DEF Live
<1> QED BY <1>1, <1>2, <1>3, <1>5, <1>6, <1>7, <1>8, <1>9, <1>10, <1>11, <1>12 DEF Next, Callback

THEOREM FutureInvHolds == Spec => []FutureInv
<1>1. Init => FutureInv
  BY DEF Init, FutureInv, OneFuture, Live
<1> QED BY <1>1, FutureStep, TypeCorrect, PTL DEF Spec

\* The retry machinery never stalls and never forks: while the transport is not
\* closed exactly one of the warm-up, the first delay, a reconnect timer and a live
\* socket is there to make the next attempt.
THEOREM AlwaysOneFuture == Spec => []OneFuture
<1>1. FutureInv => OneFuture
  BY DEF FutureInv
<1> QED BY <1>1, FutureInvHolds, PTL

\* close() is final: no later callback opens a socket or writes to one.
THEOREM ClosedForGood == Spec => CloseIsFinal
<1> DEFINE A == closed => handed' = handed /\ \A s \in Socket : state[s] = "free" => state'[s] = "free"
<1>1. TypeInv /\ FutureInv /\ [Next]_vars => [A]_vars
  <2> SUFFICES ASSUME TypeInv, FutureInv, [Next]_vars, closed PROVE A
    OBVIOUS
  <2>0. /\ sock = NoSocket /\ ~IsOpen(sock)
        /\ \A s \in Socket : state[s] \in {"free", "closing"}
    BY SocketAssumption DEF FutureInv, IsOpen
  <2> USE <2>0 DEF futures, outbox
  <2>1. CASE HostReady \/ DelayFires \/ ReconnectFires
    BY <2>1 DEF HostReady, DelayFires, ReconnectFires, OpenUnlessClosed
  <2>2. ASSUME NEW s \in Socket, Opens(s) \/ Refused(s) \/ OrphanEnds(s) \/ NetworkDrops(s) PROVE A
    BY <2>2 DEF Opens, Refused, OrphanEnds, NetworkDrops
  <2>3. ASSUME NEW s \in Socket, Timeout(s) \/ Closes(s) PROVE A
    BY <2>3 DEF Timeout, Closes, TypeInv, TypeOK
  <2>4. CASE WarmUp \/ DesktopStops \/ DesktopStarts \/ UNCHANGED vars
    BY <2>4 DEF WarmUp, DesktopStops, DesktopStarts, vars
  <2>5. CASE AdapterSends \/ HelloReady
    BY <2>5 DEF AdapterSends, HelloReady, Send
  <2>6. CASE Close
    BY <2>6 DEF Close
  <2> QED BY <2>1, <2>2, <2>3, <2>4, <2>5, <2>6 DEF Next, Callback
<1> QED BY <1>1, TypeCorrect, FutureInvHolds, PTL DEF Spec, CloseIsFinal

-----------------------------------------------------------------------------
(* Which host the resolver remembers *)

\* A socket was dialled with the host the resolver returned last, because no other
\* attempt is made while it lives; so what pin() copies is what the socket dialled.
PinInv ==
  /\ pinned # Unpinned => pinned = last
  /\ \A s \in Socket : state[s] \in {"connecting", "open"} => dialled[s] = last
  /\ PinsOpenedHost

LEMMA OpenPin ==
  ASSUME TypeInv, FutureInv, PinInv, OpenUnlessClosed, closed \/ Live = {}, UNCHANGED pinned
  PROVE  PinInv'
<1>1. CASE closed
  BY <1>1 DEF OpenUnlessClosed, FutureInv, PinInv, PinsOpenedHost
<1>2. CASE ~closed
  <2>1. PICK s \in Socket : /\ state' = [state EXCEPT ![s] = "connecting"]
                           /\ dialled' = [dialled EXCEPT ![s] = NextHost]
                           /\ Advance
    BY <1>2 DEF OpenUnlessClosed, OpenSocket
  <2>2. \A r \in Socket : state[r] = "free"
    BY <1>2 DEF Live
  <2>3. last' = NextHost /\ (pinned' # Unpinned => pinned' = last')
    BY <2>1 DEF Advance, NextHost, PinInv
  <2> QED BY <2>1, <2>2, <2>3 DEF PinInv, PinsOpenedHost, TypeInv, TypeOK
<1> QED BY <1>1, <1>2

LEMMA PinStep == TypeInv /\ FutureInv /\ PinInv /\ [Next]_vars => PinInv'
<1> SUFFICES ASSUME TypeInv, FutureInv, PinInv, [Next]_vars PROVE PinInv'
  OBVIOUS
<1> USE DEF futures, resolver
<1>1. CASE HostReady
  <2>1. waiting
    BY <1>1 DEF HostReady
  <2>2. closed \/ Live = {}
    BY <2>1 DEF FutureInv, OneFuture
  <2>3. CASE DelayFirst /\ ~closed
    BY <1>1, <2>3 DEF HostReady, PinInv, PinsOpenedHost
  <2>4. CASE ~(DelayFirst /\ ~closed)
    BY <1>1, <2>2, <2>4, OpenPin DEF HostReady
  <2> QED BY <2>3, <2>4
<1>2. CASE DelayFires
  <2>1. closed \/ Live = {}
    BY <1>2 DEF DelayFires, FutureInv, OneFuture
  <2> QED BY <1>2, <2>1, OpenPin DEF DelayFires
<1>3. CASE ReconnectFires
  <2>1. closed \/ Live = {}
    BY <1>3 DEF ReconnectFires, FutureInv, OneFuture
  <2> QED BY <1>3, <2>1, OpenPin DEF ReconnectFires
<1>4. ASSUME NEW s \in Socket, Opens(s) PROVE PinInv'
  <2>1. ~closed /\ Live = {s}
    BY <1>4 DEF Opens, FutureInv, OneFuture, Live
  <2>2. \A r \in Socket : r # s => state[r] = "free"
    BY <2>1 DEF Live
  <2> QED BY <1>4, <2>2 DEF Opens, PinInv, PinsOpenedHost, TypeInv, TypeOK
<1>5. ASSUME NEW s \in Socket, Refused(s) \/ OrphanEnds(s) \/ NetworkDrops(s) \/ Timeout(s) \/ Closes(s)
      PROVE  PinInv'
  <2>1. /\ UNCHANGED <<dialled, last, pinned>>
        /\ \A r \in Socket : state'[r] = state[r] \/ state'[r] \in {"closing", "free"}
    BY <1>5 DEF Refused, OrphanEnds, NetworkDrops, Ends, Timeout, Closes, TypeInv, TypeOK
  <2> QED BY <2>1 DEF PinInv, PinsOpenedHost
<1>6. CASE Close
  <2>1. /\ UNCHANGED <<dialled, last, pinned>>
        /\ \A r \in Socket : state'[r] = state[r] \/ state'[r] \in {"closing", "free"}
    BY <1>6 DEF Close, TypeInv, TypeOK
  <2> QED BY <2>1 DEF PinInv, PinsOpenedHost
<1>7. CASE WarmUp \/ AdapterSends \/ HelloReady \/ DesktopStops \/ DesktopStarts \/ UNCHANGED vars
  <2>1. UNCHANGED <<state, dialled, last, pinned>>
    BY <1>7 DEF WarmUp, AdapterSends, HelloReady, DesktopStops, DesktopStarts, vars
  <2> QED BY <2>1 DEF PinInv, PinsOpenedHost
<1> QED BY <1>1, <1>2, <1>3, <1>4, <1>5, <1>6, <1>7 DEF Next, Callback

\* The host pinned for the rest of the session is the one the open socket dialled,
\* although last is overwritten by every attempt and pin() runs in a later callback.
THEOREM PinnedHostOpened == Spec => []PinsOpenedHost
<1>1. Init => PinInv
  BY DEF Init, PinInv, PinsOpenedHost
<1>2. PinInv => PinsOpenedHost
  BY DEF PinInv
<1> QED BY <1>1, <1>2, PinStep, TypeCorrect, FutureInvHolds, PTL DEF Spec

-----------------------------------------------------------------------------
(* The stream of messages *)

\* The queue holds the newest messages in order and is empty while the socket is
\* open; everything older has been handed over or was pushed out.
StreamInv ==
  /\ Len(queue) <= accepted
  /\ IsOpen(sock) => queue = << >>
  /\ \A i \in 1..Len(queue) : queue[i] = (accepted - Len(queue)) + i
  /\ \A i \in 1..Len(handed) : handed[i] \in 1..(accepted - Len(queue))
  /\ \A i, j \in 1..Len(handed) : i < j => handed[i] < handed[j]
  /\ \A m \in 1..(accepted - Len(queue)) :
       (\E i \in 1..Len(handed) : handed[i] = m) \/ m + MaxQueue <= accepted

LEMMA StreamImplies ==
  ASSUME TypeInv, StreamInv
  PROVE  InOrderOnce /\ LossOnlyByOverflow
<1>1. /\ queue \in Seq(Nat) /\ handed \in Seq(Nat) /\ accepted \in Nat /\ Len(queue) <= MaxQueue
      /\ Len(queue) \in Nat /\ MaxQueue \in Nat
  BY QueueAssumption DEF TypeInv, TypeOK
<1>2. DOMAIN queue = 1..Len(queue) /\ DOMAIN handed = 1..Len(handed)
  BY <1>1
<1>3. ASSUME NEW m \in 1..accepted, ~(m + MaxQueue <= accepted), ~(\E i \in 1..Len(handed) : handed[i] = m)
      PROVE  \E i \in 1..Len(queue) : queue[i] = m
  <2>1. m \notin 1..(accepted - Len(queue))
    BY <1>3 DEF StreamInv
  <2>2. m - (accepted - Len(queue)) \in 1..Len(queue)
    BY <1>1, <2>1
  <2>3. queue[m - (accepted - Len(queue))] = (accepted - Len(queue)) + (m - (accepted - Len(queue)))
    BY <2>2 DEF StreamInv
  <2> QED BY <1>1, <2>2, <2>3
<1> QED BY <1>1, <1>2, <1>3 DEF StreamInv, InOrderOnce, LossOnlyByOverflow

LEMMA SendStream ==
  ASSUME TypeInv, StreamInv, Send(accepted + 1), UNCHANGED <<sock, state>>
  PROVE  StreamInv'
<1>1. /\ queue \in Seq(Nat) /\ handed \in Seq(Nat) /\ accepted \in Nat /\ Len(queue) <= MaxQueue
      /\ Len(queue) \in Nat /\ MaxQueue \in Nat /\ Len(handed) \in Nat
  BY QueueAssumption DEF TypeInv, TypeOK
<1>2. accepted' = accepted + 1 /\ IsOpen(sock)' = IsOpen(sock)
  BY DEF Send, IsOpen
<1>3. CASE IsOpen(sock)
  <2>1. handed' = Append(handed, accepted + 1) /\ queue' = << >> /\ queue = << >>
    BY <1>3 DEF Send, StreamInv
  <2>2. /\ Len(handed') = Len(handed) + 1 /\ handed'[Len(handed) + 1] = accepted + 1
        /\ \A i \in 1..Len(handed) : handed'[i] = handed[i]
    BY <1>1, <2>1
  <2>3. \A i \in 1..Len(handed) : handed[i] \in 1..accepted
    BY <1>1, <2>1 DEF StreamInv
  <2>4. ASSUME NEW i \in 1..Len(handed') PROVE handed'[i] \in 1..(accepted + 1)
    <3>1. CASE i = Len(handed) + 1
      BY <1>1, <2>2, <3>1
    <3>2. CASE i # Len(handed) + 1
      <4>1. i \in 1..Len(handed)
        BY <1>1, <2>2, <3>2
      <4>2. handed'[i] = handed[i] /\ handed[i] \in 1..accepted
        BY <2>2, <2>3, <4>1
      <4> QED BY <1>1, <4>2
    <3> QED BY <3>1, <3>2
  <2>5. ASSUME NEW i \in 1..Len(handed'), NEW j \in 1..Len(handed'), i < j
        PROVE  handed'[i] < handed'[j]
    <3>1. i \in 1..Len(handed)
      BY <1>1, <2>2, <2>5
    <3>2. handed'[i] = handed[i] /\ handed[i] \in 1..accepted
      BY <2>2, <2>3, <3>1
    <3>3. CASE j = Len(handed) + 1
      <4>1. handed'[j] = accepted + 1
        BY <2>2, <3>3
      <4> QED BY <1>1, <3>2, <4>1
    <3>4. CASE j # Len(handed) + 1
      <4>1. j \in 1..Len(handed)
        BY <1>1, <2>2, <3>4
      <4>2. handed'[j] = handed[j] /\ handed[i] < handed[j]
        BY <2>2, <2>5, <3>1, <4>1 DEF StreamInv
      <4> QED BY <3>2, <4>2
    <3> QED BY <3>3, <3>4
  <2>6. ASSUME NEW m \in 1..(accepted + 1)
        PROVE  (\E i \in 1..Len(handed') : handed'[i] = m) \/ m + MaxQueue <= accepted + 1
    <3>1. CASE m = accepted + 1
      BY <1>1, <2>2, <3>1
    <3>2. CASE m # accepted + 1
      <4>1. m \in 1..(accepted - Len(queue))
        BY <1>1, <2>1, <3>2
      <4>2. CASE m + MaxQueue <= accepted
        BY <1>1, <4>2
      <4>3. CASE \E i \in 1..Len(handed) : handed[i] = m
        BY <1>1, <2>2, <4>3
      <4> QED BY <4>1, <4>2, <4>3 DEF StreamInv
    <3> QED BY <3>1, <3>2
  <2>7. Len(queue') = 0 /\ accepted' - Len(queue') = accepted + 1
    BY <1>1, <1>2, <2>1
  <2>8. Len(queue') <= accepted' /\ \A i \in 1..Len(queue') : queue'[i] = (accepted' - Len(queue')) + i
    BY <1>1, <1>2, <2>7
  <2>9. \A m \in 1..(accepted' - Len(queue')) :
          (\E i \in 1..Len(handed') : handed'[i] = m) \/ m + MaxQueue <= accepted'
    BY <1>2, <2>6, <2>7
  <2> QED BY <2>1, <2>4, <2>5, <2>7, <2>8, <2>9 DEF StreamInv
<1>4. CASE ~IsOpen(sock)
  <2>1. handed' = handed /\ Enqueue(accepted + 1)
    BY <1>4 DEF Send
  <2> DEFINE n == Len(queue')
  <2>2. /\ n = IF Len(queue) < MaxQueue THEN Len(queue) + 1 ELSE MaxQueue
        /\ \A i \in 1..n :
             LET j == i + (Len(queue) + 1 - n)
             IN queue'[i] = IF j = Len(queue) + 1 THEN accepted + 1 ELSE queue[j]
    BY <1>1, <2>1, EnqueueKeepsNewest
  <2> HIDE DEF n
  <2>3. n \in Nat /\ n <= Len(queue) + 1 /\ n <= accepted + 1 /\ Len(queue) <= n
    BY <1>1, <2>2 DEF StreamInv
  <2>4. ASSUME NEW i \in 1..n
        PROVE  queue'[i] = ((accepted + 1) - n) + i
    <3> DEFINE j == i + (Len(queue) + 1 - n)
    <3>0. queue'[i] = IF j = Len(queue) + 1 THEN accepted + 1 ELSE queue[j]
      BY <2>2
    <3>1. j \in 1..(Len(queue) + 1) /\ queue'[i] = IF j = Len(queue) + 1 THEN accepted + 1 ELSE queue[j]
      BY <1>1, <2>3, <3>0
    <3>2. CASE j = Len(queue) + 1
      BY <1>1, <2>3, <3>1, <3>2
    <3>3. CASE j # Len(queue) + 1
      <4>1. j \in 1..Len(queue)
        BY <1>1, <3>1, <3>3
      <4>2. queue[j] = (accepted - Len(queue)) + j
        BY <4>1 DEF StreamInv
      <4> QED BY <1>1, <2>3, <3>1, <3>3, <4>2
    <3> QED BY <3>2, <3>3
  <2>5. \A i \in 1..Len(handed) : handed[i] \in 1..((accepted + 1) - n)
    BY <1>1, <2>3, SMTT(30) DEF StreamInv
  <2>6. ASSUME NEW m \in 1..((accepted + 1) - n)
        PROVE  (\E i \in 1..Len(handed) : handed[i] = m) \/ m + MaxQueue <= accepted + 1
    <3>1. CASE m \in 1..(accepted - Len(queue))
      BY <1>1, <3>1 DEF StreamInv
    <3>2. CASE m \notin 1..(accepted - Len(queue))
      <4>1. n = MaxQueue
        BY <1>1, <2>2, <2>3, <3>2
      <4> QED BY <1>1, <2>3, <4>1
    <3> QED BY <3>1, <3>2
  <2> QED BY <1>1, <1>2, <1>4, <2>1, <2>3, <2>4, <2>5, <2>6 DEF StreamInv, n
<1> QED BY <1>3, <1>4

\* Flushing hands over the whole queue, in order, behind what was handed over before.
LEMMA FlushStream ==
  ASSUME TypeInv, StreamInv, handed' = handed \o queue, queue' = << >>, accepted' = accepted
  PROVE  StreamInv'
<1>1. /\ queue \in Seq(Nat) /\ handed \in Seq(Nat) /\ accepted \in Nat
      /\ Len(queue) \in Nat /\ MaxQueue \in Nat /\ Len(handed) \in Nat /\ Len(queue) <= accepted
  BY QueueAssumption DEF TypeInv, TypeOK, StreamInv
<1>2. /\ Len(handed') = Len(handed) + Len(queue)
      /\ \A i \in 1..Len(handed') :
           handed'[i] = IF i <= Len(handed) THEN handed[i] ELSE queue[i - Len(handed)]
  BY <1>1
<1>3. \A i \in 1..Len(handed') : i > Len(handed) => handed'[i] = (accepted - Len(queue)) + (i - Len(handed))
  BY <1>1, <1>2 DEF StreamInv
<1>4. \A i \in 1..Len(handed) : handed'[i] = handed[i] /\ handed[i] \in 1..(accepted - Len(queue))
  BY <1>1, <1>2 DEF StreamInv
<1>5. ASSUME NEW i \in 1..Len(handed') PROVE handed'[i] \in 1..accepted
  <2>1. CASE i <= Len(handed)
    <3>1. handed'[i] \in 1..(accepted - Len(queue))
      BY <1>1, <1>4, <2>1
    <3> QED BY <1>1, <3>1
  <2>2. CASE i > Len(handed)
    <3>1. handed'[i] = (accepted - Len(queue)) + (i - Len(handed))
      BY <1>3, <2>2
    <3> QED BY <1>1, <1>2, <2>2, <3>1
  <2> QED BY <1>1, <2>1, <2>2
<1>6. ASSUME NEW i \in 1..Len(handed'), NEW j \in 1..Len(handed'), i < j
      PROVE  handed'[i] < handed'[j]
  <2>1. CASE j <= Len(handed)
    BY <1>1, <1>4, <1>6, <2>1 DEF StreamInv
  <2>2. CASE i <= Len(handed) /\ j > Len(handed)
    <3>1. handed'[i] \in 1..(accepted - Len(queue))
      BY <1>1, <1>4, <2>2
    <3>2. handed'[j] = (accepted - Len(queue)) + (j - Len(handed))
      BY <1>3, <2>2
    <3> QED BY <1>1, <2>2, <3>1, <3>2, SMTT(30)
  <2>3. CASE i > Len(handed)
    <3>1. handed'[i] = (accepted - Len(queue)) + (i - Len(handed))
      BY <1>3, <2>3
    <3>2. j \in 1..Len(handed') /\ j > Len(handed)
      BY <1>1, <1>2, <1>6, <2>3
    <3>3. handed'[j] = (accepted - Len(queue)) + (j - Len(handed))
      BY <1>3, <3>2
    <3> QED BY <1>1, <1>6, <3>1, <3>2, <3>3
  <2> QED BY <1>1, <1>2, <1>6, <2>1, <2>2, <2>3, SMTT(30)
<1>7. ASSUME NEW m \in 1..accepted
      PROVE  (\E i \in 1..Len(handed') : handed'[i] = m) \/ m + MaxQueue <= accepted
  <2>1. CASE m \in 1..(accepted - Len(queue))
    <3>1. CASE m + MaxQueue <= accepted
      BY <3>1
    <3>2. ASSUME NEW i \in 1..Len(handed), handed[i] = m
          PROVE  \E k \in 1..Len(handed') : handed'[k] = m
      <4>1. i \in 1..Len(handed')
        BY <1>1, <1>2, <3>2
      <4>2. handed'[i] = m
        BY <1>4, <3>2
      <4> QED BY <4>1, <4>2
    <3>3. (\E i \in 1..Len(handed) : handed[i] = m) \/ m + MaxQueue <= accepted
      BY <2>1 DEF StreamInv
    <3> QED BY <3>1, <3>2, <3>3
  <2>2. CASE m \notin 1..(accepted - Len(queue))
    <3> DEFINE i == Len(handed) + (m - (accepted - Len(queue)))
    <3>1. i \in 1..Len(handed') /\ i > Len(handed)
      BY <1>1, <1>2, <2>2
    <3>2. handed'[i] = (accepted - Len(queue)) + (i - Len(handed))
      BY <1>3, <3>1
    <3>3. handed'[i] = m
      BY <1>1, <3>2
    <3> QED BY <3>1, <3>3
  <2> QED BY <2>1, <2>2
<1>8. Len(queue') = 0 /\ accepted' - Len(queue') = accepted
  BY <1>1
<1>9. Len(queue') <= accepted' /\ \A i \in 1..Len(queue') : queue'[i] = (accepted' - Len(queue')) + i
  BY <1>1, <1>8
<1>10. \A m \in 1..(accepted' - Len(queue')) :
         (\E i \in 1..Len(handed') : handed'[i] = m) \/ m + MaxQueue <= accepted'
  BY <1>7, <1>8
<1> QED BY <1>5, <1>6, <1>8, <1>9, <1>10 DEF StreamInv

LEMMA StreamStep == TypeInv /\ FutureInv /\ StreamInv /\ [Next]_vars => StreamInv'
<1> SUFFICES ASSUME TypeInv, FutureInv, StreamInv, [Next]_vars PROVE StreamInv'
  OBVIOUS
<1> USE DEF futures, outbox
<1>1. ASSUME UNCHANGED <<accepted, queue, handed>>, IsOpen(sock)' => IsOpen(sock)
      PROVE  StreamInv'
  BY <1>1 DEF StreamInv
<1>2. ASSUME OpenUnlessClosed, closed \/ Live = {}, UNCHANGED outbox
      PROVE  StreamInv'
  <2>1. CASE closed
    BY <1>1, <1>2, <2>1 DEF OpenUnlessClosed, IsOpen
  <2>2. CASE ~closed
    BY <1>1, <1>2, <2>2, OpensOnlyOne DEF IsOpen
  <2> QED BY <2>1, <2>2
<1>3. CASE HostReady
  <2>1. waiting
    BY <1>3 DEF HostReady
  <2>2. closed \/ Live = {}
    BY <2>1 DEF FutureInv, OneFuture
  <2>3. CASE DelayFirst /\ ~closed
    BY <1>1, <1>3, <2>3 DEF HostReady, IsOpen
  <2>4. CASE ~(DelayFirst /\ ~closed)
    BY <1>2, <1>3, <2>2, <2>4 DEF HostReady
  <2> QED BY <2>3, <2>4
<1>4. CASE DelayFires
  <2>1. closed \/ Live = {}
    BY <1>4 DEF DelayFires, FutureInv, OneFuture
  <2> QED BY <1>2, <1>4, <2>1 DEF DelayFires
<1>5. CASE ReconnectFires
  <2>1. closed \/ Live = {}
    BY <1>5 DEF ReconnectFires, FutureInv, OneFuture
  <2> QED BY <1>2, <1>5, <2>1 DEF ReconnectFires
<1>6. ASSUME NEW s \in Socket, Opens(s) PROVE StreamInv'
  BY <1>6, FlushStream DEF Opens
<1>7. ASSUME NEW s \in Socket, Refused(s) \/ OrphanEnds(s) \/ NetworkDrops(s) \/ Timeout(s) \/ Closes(s)
      PROVE  StreamInv'
  <2>1. /\ UNCHANGED outbox /\ sock' \in {sock, NoSocket}
        /\ \A r \in Socket : state'[r] = "open" => state[r] = "open"
    BY <1>7 DEF Refused, OrphanEnds, NetworkDrops, Ends, Timeout, Closes, TypeInv, TypeOK
  <2> QED BY <1>1, <2>1, SocketAssumption DEF IsOpen
<1>8. CASE Close
  <2>1. UNCHANGED outbox /\ sock' = NoSocket
    BY <1>8 DEF Close
  <2> QED BY <1>1, <2>1, SocketAssumption DEF IsOpen
<1>9. CASE AdapterSends \/ HelloReady
  BY <1>9, SendStream DEF AdapterSends, HelloReady
<1>10. CASE WarmUp \/ DesktopStops \/ DesktopStarts \/ UNCHANGED vars
  BY <1>1, <1>10 DEF WarmUp, DesktopStops, DesktopStarts, vars, IsOpen
<1> QED BY <1>3, <1>4, <1>5, <1>6, <1>7, <1>8, <1>9, <1>10 DEF Next, Callback

THEOREM StreamInvHolds == Spec => []StreamInv
<1>1. Init => StreamInv
  BY SocketAssumption DEF Init, StreamInv, IsOpen
<1> QED BY <1>1, StreamStep, TypeCorrect, FutureInvHolds, PTL DEF Spec

\* No message reaches a socket twice or out of order, over any number of reconnects.
THEOREM HandedInOrderOnce == Spec => []InOrderOnce
<1> QED BY StreamImplies, StreamInvHolds, TypeCorrect, PTL

\* The only way for send() to lose a message before a socket has it is the bounded
\* queue: maxQueueSize newer messages were sent since.
THEOREM LostOnlyToOverflow == Spec => []LossOnlyByOverflow
<1> QED BY StreamImplies, StreamInvHolds, TypeCorrect, PTL

\* Over any number of reconnects, hosts and overflows sockets are given what was sent, in
\* order and once, less what newer messages pushed out of the queue.
THEOREM StreamIsKept == Spec => []StreamKept
<1> QED BY HandedInOrderOnce, LostOnlyToOverflow, PTL DEF StreamKept

=============================================================================
