-------------------------- MODULE WsServer_proofs --------------------------
(***************************************************************************)
(* Proofs about WsServer, for any set of connections, apps and types, and  *)
(* any caps.  The order is that of the argument: what one eviction does;   *)
(* types; senders; the caps; the reports of the sweeper and the cleanups.  *)
(***************************************************************************)
EXTENDS WsServer, TLAPS, FiniteSetTheorems, WellFoundedInduction, SequenceTheorems

-----------------------------------------------------------------------------
(* Eviction *)

\* Every element of a set is somewhere in an insertion queue.
Covers(order, live) == \A x \in live : \E i \in DOMAIN order : order[i] = x

\* A non-empty set of naturals has a least element.
LEMMA LeastExists ==
  ASSUME NEW T, T \subseteq Nat, T # {}
  PROVE  \E i \in T : \A j \in T : i <= j
<1>1. PICK i \in T : \A j \in T : <<j, i>> \notin OpToRel(<, Nat)
  BY NatLessThanWellFounded, WFMin
<1>2. \A j \in T : ~(j < i)
  BY <1>1 DEF OpToRel
<1>3. QED
  BY <1>2

\* The first entry that still names a live element exists and is the least.
LEMMA FirstHitIsLeast ==
  ASSUME NEW E, NEW live, NEW order \in Seq(E), Hits(live, order) # {}
  PROVE  /\ FirstHit(live, order) \in 1..Len(order)
         /\ order[FirstHit(live, order)] \in live
         /\ \A j \in Hits(live, order) : FirstHit(live, order) <= j
<1>1. Hits(live, order) \subseteq 1..Len(order)
  BY DEF Hits
<1>2. \E i \in Hits(live, order) : \A j \in Hits(live, order) : i <= j
  <2>1. Hits(live, order) \subseteq Nat
    BY <1>1
  <2>2. QED
    BY <2>1, LeastExists
<1>3. QED
  BY <1>1, <1>2 DEF FirstHit, Hits

\* What the queue keeps after a loop is still a queue of the same elements.
LEMMA QueueType ==
  ASSUME NEW E, NEW live, NEW order \in Seq(E), NEW cap
  PROVE  QueueAfter(live, order, cap) \in Seq(E)
<1>1. CASE Hits(live, order) = {} \/ ~Overshoots(live, cap)
  BY <1>1 DEF QueueAfter
<1>2. CASE Hits(live, order) # {} /\ Overshoots(live, cap)
  <2>1. FirstHit(live, order) \in 1..Len(order)
    BY <1>2, FirstHitIsLeast
  <2>2. SubSeq(order, FirstHit(live, order) + 1, Len(order)) \in Seq(E)
    BY <2>1, SubSeqProperties
  <2>3. QED
    BY <1>2, <2>2 DEF QueueAfter
<1>3. QED
  BY <1>1, <1>2

\* One overshooting insertion, one loop: the cap holds again, and the queue
\* still covers what is left.
LEMMA EvictionRestoresCap ==
  ASSUME NEW E, NEW live, IsFiniteSet(live), NEW order \in Seq(E),
         NEW cap \in Nat, Cardinality(live) <= cap + 1, Covers(order, live)
  PROVE  /\ IsFiniteSet(live \ Evicted(live, order, cap))
         /\ Cardinality(live \ Evicted(live, order, cap)) <= cap
         /\ Covers(QueueAfter(live, order, cap), live \ Evicted(live, order, cap))
<1> DEFINE out == Evicted(live, order, cap)
           i == FirstHit(live, order)
           rest == SubSeq(order, i + 1, Len(order))
<1>1. Cardinality(live) \in Nat
  BY FS_CardinalityType
<1>2. CASE ~Overshoots(live, cap)
  <2>1. live \ out = live /\ QueueAfter(live, order, cap) = order
    BY <1>2 DEF Evicted, QueueAfter
  <2>2. Cardinality(live) <= cap
    BY <1>1, <1>2 DEF Overshoots
  <2>3. QED
    BY <2>1, <2>2, Zenon
<1>3. CASE Overshoots(live, cap)
  <2>1. live # {}
    BY <1>1, <1>3, FS_EmptySet DEF Overshoots
  <2>2. Hits(live, order) # {}
    BY <2>1 DEF Hits, Covers
  <2>3. /\ i \in 1..Len(order)
        /\ order[i] \in live
        /\ \A j \in Hits(live, order) : i <= j
    BY <2>2, FirstHitIsLeast
  <2>4. out = {order[i]} /\ QueueAfter(live, order, cap) = rest
    BY <1>3, <2>2 DEF Evicted, QueueAfter
  <2>5. /\ IsFiniteSet(live \ {order[i]})
        /\ Cardinality(live \ {order[i]}) = Cardinality(live) - 1
    BY <2>3, FS_RemoveElement
  <2>6. /\ Len(rest) = Len(order) - i
        /\ \A n \in 1..(Len(order) - i) : rest[n] = order[n + i]
        /\ rest \in Seq(E)
    <3>1. Len(order) \in Nat
      OBVIOUS
    <3>2. /\ rest \in Seq(E)
          /\ Len(rest) = IF i + 1 <= Len(order) THEN Len(order) - (i + 1) + 1 ELSE 0
          /\ \A n \in 1..(Len(order) - (i + 1) + 1) : rest[n] = order[(i + 1) + n - 1]
      BY <2>3, <3>1, SubSeqProperties
    <3>3. QED
      BY <2>3, <3>1, <3>2
  <2>7. ASSUME NEW x \in live \ {order[i]}
        PROVE  \E n \in DOMAIN rest : rest[n] = x
    <3>1. PICK j \in DOMAIN order : order[j] = x
      BY DEF Covers
    <3>2. j \in Hits(live, order) /\ j # i
      BY <3>1 DEF Hits
    <3>3. j - i \in 1..(Len(order) - i)
      BY <2>3, <3>2, <3>1
    <3>4. (j - i) + i = j
      BY <2>3, <3>1
    <3>5. rest[j - i] = x
      BY <2>6, <3>1, <3>3, <3>4
    <3>6. DOMAIN rest = 1..(Len(order) - i)
      BY <2>6
    <3>7. QED
      BY <3>3, <3>5, <3>6, Zenon
  <2>8. Covers(rest, live \ {order[i]})
    BY <2>7, Zenon DEF Covers
  <2>9. Cardinality(live \ {order[i]}) <= cap
    BY <1>1, <2>5
  <2>10. QED
    BY <2>4, <2>5, <2>8, <2>9, Zenon
<1>4. QED
  BY <1>2, <1>3

-----------------------------------------------------------------------------
(* Types.  A task that is past its first envelope knows its app, and one     *)
(* about to record knows the envelope's type; releasing a slot keeps the     *)
(* counter a natural because the counter counts the slots.                   *)

Acting == {"record", "announce", "forward", "unregister", "mark", "announceDown"}

TaskInv ==
  \A c \in Conn : /\ pc[c] \in Acting => bound[c] \in App
                  /\ pc[c] = "record" => cur[c] \in Kind

TypeInv == TypeOK /\ TaskInv /\ SlotsCounted

LEMMA SlotStays ==
  ASSUME TypeOK, NEW c \in Conn, NEW q, pc' = [pc EXCEPT ![c] = q],
         pc[c] \in Slotted <=> q \in Slotted
  PROVE  Slots' = Slots
BY DEF TypeOK, Slots

LEMMA SlotTaken ==
  ASSUME TypeOK, NEW c \in Conn, NEW q, pc' = [pc EXCEPT ![c] = q],
         pc[c] \notin Slotted, q \in Slotted
  PROVE  Cardinality(Slots') = Cardinality(Slots) + 1
<1>1. Slots' = Slots \cup {c} /\ c \notin Slots
  BY DEF TypeOK, Slots
<1>2. IsFiniteSet(Slots)
  BY ConnAssumption, FS_Subset DEF Slots
<1>3. QED
  BY <1>1, <1>2, FS_AddElement

LEMMA SlotFreed ==
  ASSUME TypeOK, NEW c \in Conn, NEW q, pc' = [pc EXCEPT ![c] = q],
         pc[c] \in Slotted, q \notin Slotted
  PROVE  Cardinality(Slots') = Cardinality(Slots) - 1 /\ Cardinality(Slots) \in Nat \ {0}
<1>1. Slots' = Slots \ {c} /\ c \in Slots
  BY DEF TypeOK, Slots
<1>2. IsFiniteSet(Slots)
  BY ConnAssumption, FS_Subset DEF Slots
<1>3. Cardinality(Slots) \in Nat /\ Cardinality(Slots) # 0
  BY <1>1, <1>2, FS_CardinalityType, FS_EmptySet
<1>4. QED
  BY <1>1, <1>2, <1>3, FS_RemoveElement

\* Registry::record leaves the registry well-typed.
LEMMA RecordTypes ==
  ASSUME TypeOK, NEW a \in App, NEW k \in Kind,
         IF k = Hello THEN RecordHello(a) ELSE RecordOther(a),
         CacheEnvelope(a, k)
  PROVE  /\ Known' \subseteq App
         /\ apps' \in [Known' -> AppRec]
         /\ appOrder' \in Seq(App)
         /\ cache' \subseteq Key
         /\ cacheOrder' \in Seq(Key)
<1>1. Fresh \in AppRec
  BY DEF Fresh, AppRec
<1>2. Inserted(a) \in [Known \cup {a} -> AppRec]
  BY <1>1 DEF Inserted, TypeOK
<1>3. \A S : Without(Inserted(a), S) \in [(Known \cup {a}) \ S -> AppRec]
  BY <1>2 DEF Without
<1>4. Append(appOrder, a) \in Seq(App)
  BY AppendProperties DEF TypeOK
<1>5. Known' \subseteq App /\ apps' \in [Known' -> AppRec] /\ appOrder' \in Seq(App)
  <2>1. CASE k = Hello /\ a \in Known
    <3>1. apps' = Inserted(a) /\ appOrder' = appOrder
      BY <2>1 DEF RecordHello
    <3>2. QED
      BY <3>1, <1>2 DEF TypeOK, Known
  <2>2. CASE k = Hello /\ a \notin Known
    <3>1. PICK S : apps' = Without(Inserted(a), S)
      BY <2>2 DEF RecordHello
    <3>2. appOrder' = QueueAfter(Known \cup {a}, Append(appOrder, a), MaxApps)
      BY <2>2 DEF RecordHello
    <3>3. appOrder' \in Seq(App)
      BY <3>2, <1>4, QueueType
    <3>4. apps' \in [(Known \cup {a}) \ S -> AppRec]
      BY <3>1, <1>3
    <3>5. Known' = (Known \cup {a}) \ S
      BY <3>4 DEF Known
    <3>6. QED
      BY <3>3, <3>4, <3>5 DEF TypeOK
  <2>3. CASE k # Hello
    <3>1. appOrder' = appOrder /\ apps' = IF a \in Known THEN [apps EXCEPT ![a] = Fresh] ELSE apps
      BY <2>3 DEF RecordOther
    <3>2. apps' \in [Known -> AppRec]
      BY <3>1, <1>1 DEF TypeOK
    <3>3. Known' = Known
      BY <3>2 DEF Known
    <3>4. QED
      BY <3>1, <3>2, <3>3 DEF TypeOK
  <2>4. QED
    BY <2>1, <2>2, <2>3
<1>6. <<a, k>> \in Key
  BY DEF Key
<1>7. Append(cacheOrder, <<a, k>>) \in Seq(Key)
  BY <1>6, AppendProperties DEF TypeOK
<1>8. Surviving(a, k) \subseteq Key
  BY DEF Surviving, TypeOK
<1>9. cache' \subseteq Key /\ cacheOrder' \in Seq(Key)
  <2>1. CASE <<a, k>> \in Surviving(a, k)
    <3>1. cache' = Surviving(a, k) /\ cacheOrder' = cacheOrder
      BY <2>1 DEF CacheEnvelope
    <3>2. QED
      BY <3>1, <1>8 DEF TypeOK
  <2>2. CASE <<a, k>> \notin Surviving(a, k)
    <3>1. cache' \subseteq Surviving(a, k) \cup {<<a, k>>}
      BY <2>2 DEF CacheEnvelope
    <3>2. cacheOrder' = QueueAfter(Surviving(a, k) \cup {<<a, k>>},
                                   Append(cacheOrder, <<a, k>>), MaxCache)
      BY <2>2 DEF CacheEnvelope
    <3>3. QED
      BY <3>1, <3>2, <1>6, <1>7, <1>8, QueueType
  <2>3. QED
    BY <2>1, <2>2
<1>10. QED
  BY <1>5, <1>9


LEMMA TypeInit == Init => TypeInv
<1> SUFFICES ASSUME Init PROVE TypeInv
  OBVIOUS
<1>1. TypeOK
  BY KindAssumption DEF Init, TypeOK, PC, Known, Key
<1>2. TaskInv
  BY DEF Init, TaskInv, Acting
<1>3. SlotsCounted
  <2>1. Slots = {}
    BY DEF Init, Slots, Slotted
  <2>2. QED
    BY <2>1, FS_EmptySet, CapAssumption DEF Init, SlotsCounted
<1>4. QED
  BY <1>1, <1>2, <1>3 DEF TypeInv

\* A task that moves between two places on the same side of the slot count.
LEMMA SameSlots ==
  ASSUME TypeInv, active' = active, Slots' = Slots
  PROVE  SlotsCounted'
BY DEF TypeInv, SlotsCounted

LEMMA TypeStep == TypeInv /\ [Next]_vars => TypeInv'
<1> SUFFICES ASSUME TypeInv, [Next]_vars PROVE TypeInv'
  OBVIOUS
<1> USE DEF TypeInv
<1>1. ASSUME NEW c \in Conn, Accept(c) PROVE TypeInv'
  <2>1. TypeOK'
    BY <1>1 DEF TypeOK, TaskInv, Acting, PC, Slotted, Registered, Known, Accept, vars, task, channel, registry, ui
  <2>2. TaskInv'
    BY <1>1 DEF TypeOK, TaskInv, Acting, PC, Slotted, Registered, Accept, vars, task, channel, registry, ui
  <2>3. SlotsCounted'
    <3>1. Cardinality(Slots') = Cardinality(Slots) + 1
      BY <1>1, SlotTaken DEF Accept, Slotted
    <3>2. QED
      BY <1>1, <3>1, CapAssumption DEF Accept, SlotsCounted, TypeOK
  <2>4. QED
    BY <2>1, <2>2, <2>3
<1>2. ASSUME NEW c \in Conn, Refuse(c) PROVE TypeInv'
  <2>1. TypeOK'
    BY <1>2 DEF TypeOK, TaskInv, Acting, PC, Slotted, Registered, Known, Refuse, vars, task, channel, registry, ui
  <2>2. TaskInv'
    BY <1>2 DEF TypeOK, TaskInv, Acting, PC, Slotted, Registered, Refuse, vars, task, channel, registry, ui
  <2>3. SlotsCounted'
    <3>1. Slots' = Slots
      BY <1>2, SlotStays DEF Refuse, Slotted
    <3>2. QED
      BY <1>2, <3>1, SameSlots DEF Refuse
  <2>4. QED
    BY <2>1, <2>2, <2>3
<1>3. ASSUME NEW c \in Conn, Handshake(c) PROVE TypeInv'
  <2>1. TypeOK'
    BY <1>3 DEF TypeOK, TaskInv, Acting, PC, Slotted, Registered, Known, Handshake, vars, task, channel, registry, ui
  <2>2. TaskInv'
    BY <1>3 DEF TypeOK, TaskInv, Acting, PC, Slotted, Registered, Handshake, vars, task, channel, registry, ui
  <2>3. SlotsCounted'
    <3>1. Slots' = Slots
      BY <1>3, SlotStays DEF Handshake, Slotted
    <3>2. QED
      BY <1>3, <3>1, SameSlots DEF Handshake
  <2>4. QED
    BY <2>1, <2>2, <2>3
<1>4. ASSUME NEW c \in Conn, HandshakeFails(c) PROVE TypeInv'
  <2>1. TypeOK'
    BY <1>4 DEF TypeOK, TaskInv, Acting, PC, Slotted, Registered, Known, HandshakeFails, vars, task, channel, registry, ui
  <2>2. TaskInv'
    BY <1>4 DEF TypeOK, TaskInv, Acting, PC, Slotted, Registered, HandshakeFails, vars, task, channel, registry, ui
  <2>3. SlotsCounted'
    <3>1. Slots' = Slots
      BY <1>4, SlotStays DEF HandshakeFails, Slotted
    <3>2. QED
      BY <1>4, <3>1, SameSlots DEF HandshakeFails
  <2>4. QED
    BY <2>1, <2>2, <2>3
<1>5. ASSUME NEW c \in Conn, Announce(c) PROVE TypeInv'
  <2>1. TypeOK'
    BY <1>5 DEF TypeOK, TaskInv, Acting, PC, Slotted, Registered, Known, Announce, vars, task, channel, registry, ui
  <2>2. TaskInv'
    BY <1>5 DEF TypeOK, TaskInv, Acting, PC, Slotted, Registered, Announce, vars, task, channel, registry, ui
  <2>3. SlotsCounted'
    <3>1. Slots' = Slots
      BY <1>5, SlotStays DEF Announce, Slotted
    <3>2. QED
      BY <1>5, <3>1, SameSlots DEF Announce
  <2>4. QED
    BY <2>1, <2>2, <2>3
<1>6. ASSUME NEW c \in Conn, Forward(c) PROVE TypeInv'
  <2>1. TypeOK'
    BY <1>6 DEF TypeOK, TaskInv, Acting, PC, Slotted, Registered, Known, Forward, vars, task, channel, registry, ui
  <2>2. TaskInv'
    BY <1>6 DEF TypeOK, TaskInv, Acting, PC, Slotted, Registered, Forward, vars, task, channel, registry, ui
  <2>3. SlotsCounted'
    <3>1. Slots' = Slots
      BY <1>6, SlotStays DEF Forward, Slotted
    <3>2. QED
      BY <1>6, <3>1, SameSlots DEF Forward
  <2>4. QED
    BY <2>1, <2>2, <2>3
<1>7. ASSUME NEW c \in Conn, EndOfStream(c) PROVE TypeInv'
  <2>1. TypeOK'
    BY <1>7 DEF TypeOK, TaskInv, Acting, PC, Slotted, Registered, Known, EndOfStream, vars, task, channel, registry, ui
  <2>2. TaskInv'
    BY <1>7 DEF TypeOK, TaskInv, Acting, PC, Slotted, Registered, EndOfStream, vars, task, channel, registry, ui
  <2>3. SlotsCounted'
    <3>1. Slots' = Slots
      BY <1>7, SlotStays DEF EndOfStream, Slotted
    <3>2. QED
      BY <1>7, <3>1, SameSlots DEF EndOfStream
  <2>4. QED
    BY <2>1, <2>2, <2>3
<1>8. ASSUME NEW c \in Conn, Unregister(c) PROVE TypeInv'
  <2>1. TypeOK'
    BY <1>8 DEF TypeOK, TaskInv, Acting, PC, Slotted, Registered, Known, Unregister, vars, task, channel, registry, ui
  <2>2. TaskInv'
    BY <1>8 DEF TypeOK, TaskInv, Acting, PC, Slotted, Registered, Unregister, vars, task, channel, registry, ui
  <2>3. SlotsCounted'
    <3>1. Slots' = Slots
      BY <1>8, SlotStays DEF Unregister, Slotted
    <3>2. QED
      BY <1>8, <3>1, SameSlots DEF Unregister
  <2>4. QED
    BY <2>1, <2>2, <2>3
<1>9. ASSUME NEW c \in Conn, AnnounceDown(c) PROVE TypeInv'
  <2>1. TypeOK'
    BY <1>9 DEF TypeOK, TaskInv, Acting, PC, Slotted, Registered, Known, AnnounceDown, vars, task, channel, registry, ui
  <2>2. TaskInv'
    BY <1>9 DEF TypeOK, TaskInv, Acting, PC, Slotted, Registered, AnnounceDown, vars, task, channel, registry, ui
  <2>3. SlotsCounted'
    <3>1. Slots' = Slots
      BY <1>9, SlotStays DEF AnnounceDown, Slotted
    <3>2. QED
      BY <1>9, <3>1, SameSlots DEF AnnounceDown
  <2>4. QED
    BY <2>1, <2>2, <2>3
<1>10. ASSUME NEW c \in Conn, Release(c) PROVE TypeInv'
  <2>1. Cardinality(Slots') = Cardinality(Slots) - 1 /\ Cardinality(Slots) \in Nat \ {0}
    BY <1>10, SlotFreed DEF Release, Slotted
  <2>2. SlotsCounted' /\ active' \in Nat
    BY <1>10, <2>1, CapAssumption DEF Release, SlotsCounted, TypeOK
  <2>3. TypeOK'
    BY <1>10, <2>2 DEF TypeOK, TaskInv, Acting, PC, Slotted, Registered, Known, Release, channel, registry, ui
  <2>4. TaskInv'
    BY <1>10 DEF TypeOK, TaskInv, Acting, PC, Slotted, Registered, Known, Release
  <2>5. QED
    BY <2>2, <2>3, <2>4
<1>11. ASSUME NEW c \in Conn, MarkDisconnected(c) PROVE TypeInv'
  <2>1. Known' = Known /\ apps' \in [Known -> AppRec]
    <3>1. CASE Connected(bound[c])
      <4>1. apps' = [apps EXCEPT ![bound[c]].connected = FALSE] /\ bound[c] \in Known
        BY <1>11, <3>1 DEF MarkDisconnected, Connected
      <4>2. apps' \in [Known -> AppRec]
        BY <4>1 DEF TypeOK, AppRec
      <4>3. QED
        BY <4>2 DEF Known
    <3>2. CASE ~Connected(bound[c])
      BY <1>11, <3>2 DEF MarkDisconnected, TypeOK, Known
    <3>3. QED
      BY <3>1, <3>2
  <2>2. PICK q \in {"announceDown", "release"} : pc' = [pc EXCEPT ![c] = q]
    BY <1>11 DEF MarkDisconnected
  <2>3. TypeOK'
    BY <1>11, <2>1, <2>2 DEF TypeOK, PC, Slotted, MarkDisconnected, channel, ui
  <2>4. TaskInv'
    BY <1>11, <2>2 DEF TypeOK, TaskInv, Acting, MarkDisconnected
  <2>5. SlotsCounted'
    <3>1. Slots' = Slots
      BY <1>11, <2>2, SlotStays DEF MarkDisconnected, Slotted
    <3>2. QED
      BY <1>11, <3>1, SameSlots DEF MarkDisconnected
  <2>6. QED
    BY <2>3, <2>4, <2>5
<1>12. ASSUME NEW c \in Conn, NEW a \in App, NEW k \in Kind, ReadFrame(c, a, k) PROVE TypeInv'
  <2>1. pc' = [pc EXCEPT ![c] = "record"] \/ pc' = pc
    BY <1>12 DEF ReadFrame, Bind, Continue, DropSpoof
  <2>2. TypeOK'
    <3>1. pc' \in [Conn -> PC]
      BY <2>1 DEF TypeOK, PC, Slotted
    <3>2. frames' \in [Conn -> Nat]
      BY <1>12 DEF TypeOK, ReadFrame
    <3>3. CASE Bind(c, a, k)
      BY <1>12, <3>1, <3>2, <3>3 DEF TypeOK, Known, ReadFrame, Bind, channel, registry, ui
    <3>4. CASE Continue(c, a, k)
      BY <1>12, <3>1, <3>2, <3>4 DEF TypeOK, Known, ReadFrame, Continue, channel, registry, ui
    <3>5. CASE DropSpoof(c, a)
      BY <1>12, <3>1, <3>2, <3>5 DEF TypeOK, Known, ReadFrame, DropSpoof, channel, registry, ui
    <3>6. QED
      BY <1>12, <3>3, <3>4, <3>5 DEF ReadFrame
  <2>3. TaskInv'
    BY <1>12 DEF TypeOK, TaskInv, Acting, PC, Slotted, Registered, Known, ReadFrame, Bind, Continue, DropSpoof
  <2>4. SlotsCounted'
    <3>1. pc[c] = "reading" /\ active' = active
      BY <1>12 DEF ReadFrame
    <3>2. Slots' = Slots
      <4>1. CASE pc' = [pc EXCEPT ![c] = "record"]
        BY <3>1, <4>1, SlotStays DEF Slotted
      <4>2. CASE pc' = pc
        BY <4>2 DEF Slots
      <4>3. QED
        BY <2>1, <4>1, <4>2
    <3>3. QED
      BY <3>1, <3>2, SameSlots
  <2>5. QED
    BY <2>2, <2>3, <2>4
<1>13. ASSUME NEW c \in Conn, Record(c) PROVE TypeInv'
  <2>1. bound[c] \in App /\ cur[c] \in Kind
    <3>1. pc[c] = "record"
      BY <1>13 DEF Record
    <3>2. QED
      BY <3>1 DEF TaskInv, Acting
  <2>2. /\ IF cur[c] = Hello THEN RecordHello(bound[c]) ELSE RecordOther(bound[c])
        /\ CacheEnvelope(bound[c], cur[c])
    BY <1>13 DEF Record
  <2>3. /\ Known' \subseteq App
        /\ apps' \in [Known' -> AppRec]
        /\ appOrder' \in Seq(App)
        /\ cache' \subseteq Key
        /\ cacheOrder' \in Seq(Key)
    BY <2>1, <2>2, RecordTypes
  <2>4. PICK q \in {"announce", "forward"} : pc' = [pc EXCEPT ![c] = q]
    BY <1>13 DEF Record
  <2>5. TypeOK'
    BY <1>13, <2>3, <2>4 DEF TypeOK, PC, Slotted, Record, channel, ui
  <2>6. TaskInv'
    BY <1>13, <2>1, <2>4 DEF TypeOK, TaskInv, Acting, Record
  <2>7. SlotsCounted'
    <3>1. Slots' = Slots
      BY <1>13, <2>4, SlotStays DEF Record, Slotted
    <3>2. QED
      BY <1>13, <3>1, SameSlots DEF Record
  <2>8. QED
    BY <2>5, <2>6, <2>7
<1>14. ASSUME NEW c \in Conn, PeerCloses(c) \/ PeerVanishes(c) PROVE TypeInv'
  <2>1. Slots' = Slots /\ active' = active
    BY <1>14 DEF PeerCloses, PeerVanishes, Slots
  <2>2. TypeOK'
    BY <1>14 DEF TypeOK, Known, PeerCloses, PeerVanishes, channel, registry, ui
  <2>3. TaskInv'
    BY <1>14 DEF TaskInv, PeerCloses, PeerVanishes
  <2>4. QED
    BY <2>1, <2>2, <2>3, SameSlots
<1>15. ASSUME NEW c \in Conn, Ping(c) \/ Writer(c) PROVE TypeInv'
  <2>1. UNCHANGED <<task, registry, senders, ui>>
    BY <1>15 DEF Ping, Writer, WriterSends, WriterFails, WriterDrained
  <2>2. writer' \in [Conn -> {"none", "up", "ended"}] /\ queued' \in [Conn -> Nat]
    <3>1. CASE Ping(c)
      BY <3>1 DEF TypeOK, Ping
    <3>2. CASE WriterSends(c)
      BY <3>2 DEF TypeOK, WriterSends
    <3>3. CASE WriterFails(c)
      BY <3>3 DEF TypeOK, WriterFails
    <3>4. CASE WriterDrained(c)
      BY <3>4 DEF TypeOK, WriterDrained
    <3>5. QED
      BY <1>15, <3>1, <3>2, <3>3, <3>4 DEF Writer
  <2>3. TypeOK' /\ TaskInv' /\ Slots' = Slots
    BY <2>1, <2>2 DEF TypeOK, TaskInv, Slots, Known, task, registry, ui
  <2>4. QED
    BY <2>1, <2>3, SameSlots DEF task
<1>16. ASSUME NEW a \in App, SendTo(a) PROVE TypeInv'
  <2>1. UNCHANGED <<task, writer, registry, senders, ui>>
    BY <1>16 DEF SendTo
  <2>2. queued' \in [Conn -> Nat]
    BY <1>16 DEF TypeOK, SendTo
  <2>3. TypeOK' /\ TaskInv' /\ Slots' = Slots
    BY <2>1, <2>2 DEF TypeOK, TaskInv, Slots, Known, task, registry, ui
  <2>4. QED
    BY <2>1, <2>3, SameSlots DEF task
<1>17. ASSUME UNCHANGED <<task, channel, senders>>,
              Known' \subseteq App, apps' \in [Known' -> AppRec],
              appOrder' = appOrder, cache' \subseteq cache, cacheOrder' = cacheOrder,
              sweeping' \subseteq App,
              announced' \in [App -> {"none", "connected", "disconnected"}]
       PROVE  TypeInv'
  <2>1. TypeOK' /\ TaskInv' /\ Slots' = Slots
    BY <1>17 DEF TypeOK, TaskInv, Slots, task, channel
  <2>2. QED
    BY <1>17, <2>1, SameSlots DEF task
<1>18. ASSUME NEW a \in App, FallsSilent(a) PROVE TypeInv'
  <2>1. apps' \in [Known -> AppRec]
    BY <1>18 DEF FallsSilent, TypeOK, AppRec
  <2>2. Known' = Known
    BY <2>1 DEF Known
  <2>3. QED
    BY <1>18, <1>17, <2>1, <2>2 DEF FallsSilent, TypeOK, ui
<1>19. ASSUME NEW a \in App, SweepReports(a) PROVE TypeInv'
  <2>1. announced' \in [App -> {"none", "connected", "disconnected"}] /\ sweeping' \subseteq App
    BY <1>19 DEF SweepReports, TypeOK
  <2>2. QED
    BY <1>19, <1>17, <2>1 DEF SweepReports, TypeOK, Known, registry
<1>20. ASSUME NEW a \in App, Forget(a) PROVE TypeInv'
  <2>1. apps' \in [Known \ {a} -> AppRec]
    BY <1>20 DEF Forget, Without, TypeOK, Known
  <2>2. Known' = Known \ {a}
    BY <2>1 DEF Known
  <2>3. cache' \subseteq cache
    BY <1>20 DEF Forget
  <2>4. QED
    BY <1>20, <1>17, <2>1, <2>2, <2>3 DEF Forget, TypeOK, ui
<1>21. ASSUME Sweep PROVE TypeInv'
  <2>1. apps' \in [Known -> AppRec]
    BY <1>21 DEF Sweep, TypeOK, AppRec
  <2>2. Known' = Known
    BY <2>1 DEF Known
  <2>3. sweeping' \subseteq App
    BY <1>21 DEF Sweep, Stale, TypeOK
  <2>4. QED
    BY <1>21, <1>17, <2>1, <2>2, <2>3 DEF Sweep, TypeOK
<1>22. ASSUME UNCHANGED vars PROVE TypeInv'
  BY <1>22, <1>17 DEF vars, registry, ui, TypeOK, Known
<1>23. QED
  BY <1>1, <1>2, <1>3, <1>4, <1>5, <1>6, <1>7, <1>8, <1>9, <1>10, <1>11, <1>12, <1>13,
     <1>14, <1>15, <1>16, <1>18, <1>19, <1>20, <1>21, <1>22 DEF Next, Task

\* Every reachable state is well-typed, a task past its first envelope knows its
\* app, and active_connections counts the tasks that hold a slot.
THEOREM TypeCorrect == Spec => []TypeInv
BY TypeInit, TypeStep, PTL DEF Spec

\* The type invariant and the slot count, as the runs check them.
THEOREM WellTyped == Spec => []TypeOK
BY TypeCorrect, PTL DEF TypeInv

THEOREM SlotCapHolds == Spec => []SlotsCounted
BY TypeCorrect, PTL DEF TypeInv

-----------------------------------------------------------------------------
(* Senders *)

\* A step that leaves senders and every registered task's place and app alone.
LEMMA SendersKept ==
  ASSUME TypeOK, SendersLive, senders' = senders,
         \A c \in Conn : pc[c] \in Registered => pc'[c] \in Registered /\ bound'[c] = bound[c]
  PROVE  SendersLive'
BY DEF TypeOK, SendersLive

LEMMA SendersStep == TypeInv /\ SendersLive /\ [Next]_vars => SendersLive'
<1> SUFFICES ASSUME TypeInv, SendersLive, [Next]_vars PROVE SendersLive'
  OBVIOUS
<1>1. TypeOK /\ TaskInv
  BY DEF TypeInv
<1>2. ASSUME UNCHANGED <<task, senders>> PROVE SendersLive'
  BY <1>1, <1>2, SendersKept DEF task
<1>3. ASSUME NEW c \in Conn,
             \/ Accept(c) \/ Refuse(c) \/ Handshake(c) \/ HandshakeFails(c)
             \/ Announce(c) \/ Forward(c) \/ EndOfStream(c)
             \/ MarkDisconnected(c) \/ AnnounceDown(c) \/ Release(c)
      PROVE  SendersLive'
  <2>1. senders' = senders
    BY <1>3 DEF Accept, Refuse, Handshake, HandshakeFails, Announce, Forward,
                EndOfStream, MarkDisconnected, AnnounceDown, Release
  <2>2. \A d \in Conn : d # c => pc'[d] = pc[d] /\ bound'[d] = bound[d]
    BY <1>1, <1>3 DEF TypeOK, Accept, Refuse, Handshake, HandshakeFails, Announce, Forward,
                      EndOfStream, MarkDisconnected, AnnounceDown, Release
  <2>3. \/ pc[c] \notin Registered
        \/ bound'[c] = bound[c] /\ pc'[c] \in Registered
        \/ pc[c] = "reading" /\ bound[c] = None
    BY <1>1, <1>3 DEF TypeOK, Registered, Accept, Refuse, Handshake, HandshakeFails, Announce,
                      Forward, EndOfStream, MarkDisconnected, AnnounceDown, Release
  <2>4. pc[c] = "reading" /\ bound[c] = None => \A a \in App : senders[a] # c
    BY AppAssumption, ConnAssumption DEF SendersLive
  <2>5. QED
    <3>1. \A d \in Conn : (\E a \in App : senders[a] = d) /\ pc[d] \in Registered
                             => pc'[d] \in Registered /\ bound'[d] = bound[d]
      BY <2>2, <2>3, <2>4
    <3>2. QED
      BY <1>1, <2>1, <3>1 DEF SendersLive, TypeOK
<1>4. ASSUME NEW c \in Conn, NEW a \in App, NEW k \in Kind, ReadFrame(c, a, k)
      PROVE  SendersLive'
  <2>1. pc[c] = "reading" /\ "record" \in Registered
    BY <1>4 DEF ReadFrame, Registered
  <2>2. CASE Bind(c, a, k)
    <3>1. /\ senders' = [senders EXCEPT ![a] = c]
          /\ bound' = [bound EXCEPT ![c] = a]
          /\ pc' = [pc EXCEPT ![c] = "record"]
          /\ bound[c] = None
      BY <2>2 DEF Bind
    <3>2. \A x \in App : senders[x] # c
      BY <3>1, AppAssumption, ConnAssumption DEF SendersLive
    <3>3. QED
      BY <1>1, <2>1, <3>1, <3>2 DEF SendersLive, TypeOK
  <2>3. CASE Continue(c, a, k) \/ DropSpoof(c, a)
    BY <1>1, <2>1, <2>3, SendersKept DEF Continue, DropSpoof, TypeOK
  <2>4. QED
    BY <1>4, <2>2, <2>3 DEF ReadFrame
<1>5. ASSUME NEW c \in Conn, Record(c) PROVE SendersLive'
  <2>1. senders' = senders /\ bound' = bound
    BY <1>5 DEF Record
  <2>2. PICK q \in {"announce", "forward"} : pc' = [pc EXCEPT ![c] = q]
    BY <1>5 DEF Record
  <2>3. QED
    BY <1>1, <2>1, <2>2, SendersKept DEF TypeOK, Registered
<1>6. ASSUME NEW c \in Conn, Unregister(c) PROVE SendersLive'
  <2>1. /\ pc' = [pc EXCEPT ![c] = "mark"] /\ bound' = bound /\ pc[c] = "unregister"
        /\ senders' = IF senders[bound[c]] = c
                      THEN [senders EXCEPT ![bound[c]] = None] ELSE senders
    BY <1>6 DEF Unregister
  <2>2. bound[c] \in App
    BY <1>1, <2>1 DEF TaskInv, Acting
  <2>3. \A a \in App : senders'[a] # c
    <3>1. \A a \in App : senders[a] = c => a = bound[c]
      BY ConnAssumption DEF SendersLive
    <3>2. QED
      BY <1>1, <2>1, <2>2, <3>1, ConnAssumption DEF TypeOK
  <2>4. \A a \in App : senders'[a] # None => senders'[a] = senders[a]
    BY <1>1, <2>1, <2>2 DEF TypeOK
  <2>5. QED
    BY <1>1, <2>1, <2>3, <2>4 DEF SendersLive, TypeOK
<1>7. ASSUME NEW c \in Conn, PeerCloses(c) \/ PeerVanishes(c) PROVE SendersLive'
  BY <1>1, <1>7, SendersKept DEF PeerCloses, PeerVanishes
<1>8. ASSUME NEW c \in Conn, Ping(c) \/ Writer(c) PROVE SendersLive'
  BY <1>2, <1>8 DEF Ping, Writer, WriterSends, WriterFails, WriterDrained
<1>9. ASSUME NEW a \in App, SendTo(a) \/ FallsSilent(a) \/ SweepReports(a) \/ Forget(a)
      PROVE  SendersLive'
  BY <1>2, <1>9 DEF SendTo, FallsSilent, SweepReports, Forget
<1>10. ASSUME Sweep \/ UNCHANGED vars PROVE SendersLive'
  BY <1>2, <1>10 DEF Sweep, vars
<1>11. QED
  BY <1>3, <1>4, <1>5, <1>6, <1>7, <1>8, <1>9, <1>10 DEF Next, Task

\* send_to never reaches a finished connection or another app's socket.
THEOREM SendersAreLive == Spec => []SendersLive
<1>1. Init => SendersLive
  BY DEF Init, SendersLive
<1>2. QED
  BY <1>1, SendersStep, TypeCorrect, PTL DEF Spec

\* A cleanup that runs late leaves the channel of a reconnect registered.
THEOREM SendersOutliveOthers == Spec => SenderOutlivesOthers
<1> DEFINE Own == \A a \in App : (senders[a] # None /\ senders'[a] = None)
                                   => pc[senders[a]] = "unregister" /\ pc'[senders[a]] = "mark"
<1>1. TypeInv /\ [Next]_vars => [Own]_vars
  <2> SUFFICES ASSUME TypeInv, Next PROVE Own
    BY DEF vars
  <2>1. ASSUME senders' = senders PROVE Own
    BY <2>1
  <2>2. ASSUME NEW c \in Conn, NEW a \in App, NEW k \in Kind, ReadFrame(c, a, k) PROVE Own
    BY <2>2, ConnAssumption DEF TypeInv, TypeOK, ReadFrame, Bind, Continue, DropSpoof
  <2>3. ASSUME NEW c \in Conn, Unregister(c) PROVE Own
    BY <2>3, ConnAssumption DEF TypeInv, TypeOK, Unregister
  <2>4. QED
    BY <2>1, <2>2, <2>3 DEF Next, Task, Accept, Refuse, Handshake, HandshakeFails, Ping, Record,
         Announce, Forward, EndOfStream, MarkDisconnected, AnnounceDown, Release, Writer,
         WriterSends, WriterFails, WriterDrained, PeerCloses, PeerVanishes, SendTo, FallsSilent,
         SweepReports, Forget, Sweep
<1>2. QED
  BY <1>1, TypeCorrect, PTL DEF Spec, SenderOutlivesOthers

-----------------------------------------------------------------------------
(* The caps.  The inductive invariant adds to each cap that its queue covers *)
(* the set: that is what lets every eviction find a victim.                  *)

Capped(live, order, cap) ==
  IsFiniteSet(live) /\ Cardinality(live) <= cap /\ Covers(order, live)

CapInv == Capped(Known, appOrder, MaxApps) /\ Capped(cache, cacheOrder, MaxCache)

LEMMA ShrinkKeepsCap ==
  ASSUME NEW live, NEW less, less \subseteq live, NEW order, NEW cap \in Nat,
         Capped(live, order, cap)
  PROVE  Capped(less, order, cap)
<1>1. IsFiniteSet(less) /\ Cardinality(less) <= Cardinality(live)
  BY FS_Subset DEF Capped
<1>2. Cardinality(less) \in Nat /\ Cardinality(live) \in Nat
  BY <1>1, FS_CardinalityType DEF Capped
<1>3. QED
  BY <1>1, <1>2 DEF Capped, Covers

\* Inserting a new element, queueing it and running the loop restores the cap.
LEMMA InsertKeepsCap ==
  ASSUME NEW E, NEW live, NEW order \in Seq(E), NEW cap \in Nat, Capped(live, order, cap),
         NEW x \in E, x \notin live,
         NEW more, more = live \cup {x}, NEW longer, longer = Append(order, x)
  PROVE  Capped(more \ Evicted(more, longer, cap), QueueAfter(more, longer, cap), cap)
<1>1. IsFiniteSet(more) /\ Cardinality(more) <= cap + 1
  <2>1. IsFiniteSet(more) /\ Cardinality(more) = Cardinality(live) + 1
    BY FS_AddElement DEF Capped
  <2>2. Cardinality(live) \in Nat
    BY FS_CardinalityType DEF Capped
  <2>3. QED
    BY <2>1, <2>2 DEF Capped
<1>2. /\ longer \in Seq(E)
      /\ Len(longer) = Len(order) + 1
      /\ \A i \in 1..Len(order) : longer[i] = order[i]
      /\ longer[Len(order) + 1] = x
  BY AppendProperties
<1>3. ASSUME NEW y \in more PROVE \E i \in DOMAIN longer : longer[i] = y
  <2>1. DOMAIN longer = 1..(Len(order) + 1) /\ DOMAIN order = 1..Len(order) /\ Len(order) \in Nat
    BY <1>2
  <2>2. CASE y = x
    <3>1. Len(order) + 1 \in DOMAIN longer
      BY <2>1
    <3>2. QED
      BY <3>1, <2>2, <1>2, Zenon
  <2>3. CASE y \in live
    <3>1. PICK i \in DOMAIN order : order[i] = y
      BY <2>3 DEF Capped, Covers
    <3>2. i \in DOMAIN longer /\ longer[i] = y
      BY <1>2, <2>1, <3>1
    <3>3. QED
      BY <3>2
  <2>4. QED
    BY <2>2, <2>3
<1>4. Covers(longer, more)
  BY <1>3 DEF Covers
<1>5. QED
  BY <1>1, <1>2, <1>4, EvictionRestoresCap DEF Capped

LEMMA RecordCaps ==
  ASSUME TypeOK, CapInv, NEW a \in App, NEW k \in Kind,
         IF k = Hello THEN RecordHello(a) ELSE RecordOther(a),
         CacheEnvelope(a, k)
  PROVE  CapInv'
<1>1. MaxApps \in Nat /\ MaxCache \in Nat
  BY CapAssumption
<1>2. Capped(Known', appOrder', MaxApps)
  <2>1. CASE k = Hello /\ a \notin Known
    <3> DEFINE out == Evicted(Known \cup {a}, Append(appOrder, a), MaxApps)
    <3>1. /\ apps' = Without(Inserted(a), out)
          /\ appOrder' = QueueAfter(Known \cup {a}, Append(appOrder, a), MaxApps)
      BY <2>1 DEF RecordHello
    <3>2. Known' = (Known \cup {a}) \ out
      BY <3>1 DEF Without, Inserted, Known
    <3>3. Capped(Known, appOrder, MaxApps) /\ appOrder \in Seq(App)
      BY DEF CapInv, TypeOK
    <3>4. QED
      BY <1>1, <2>1, <3>1, <3>2, <3>3, InsertKeepsCap
  <2>2. CASE ~(k = Hello /\ a \notin Known)
    <3>1. appOrder' = appOrder /\ Known' = Known
      BY <2>2 DEF RecordHello, RecordOther, Inserted, Known
    <3>2. QED
      BY <3>1 DEF CapInv
  <2>3. QED
    BY <2>1, <2>2
<1>3. Capped(cache', cacheOrder', MaxCache)
  <2>1. Surviving(a, k) \subseteq cache
    BY DEF Surviving
  <2>2. Capped(Surviving(a, k), cacheOrder, MaxCache)
    BY <1>1, <2>1, ShrinkKeepsCap DEF CapInv
  <2>3. CASE <<a, k>> \in Surviving(a, k)
    BY <2>2, <2>3 DEF CacheEnvelope
  <2>4. CASE <<a, k>> \notin Surviving(a, k)
    <3> DEFINE live == Surviving(a, k) \cup {<<a, k>>}
               order == Append(cacheOrder, <<a, k>>)
    <3>1. cache' = live \ Evicted(live, order, MaxCache) /\ cacheOrder' = QueueAfter(live, order, MaxCache)
      BY <2>4 DEF CacheEnvelope
    <3>2. <<a, k>> \in Key /\ cacheOrder \in Seq(Key)
      BY DEF Key, TypeOK
    <3>3. QED
      BY <1>1, <2>2, <2>4, <3>1, <3>2, InsertKeepsCap
  <2>5. QED
    BY <2>3, <2>4
<1>4. QED
  BY <1>2, <1>3 DEF CapInv

LEMMA CapStep == TypeInv /\ CapInv /\ [Next]_vars => CapInv'
<1> SUFFICES ASSUME TypeInv, CapInv, [Next]_vars PROVE CapInv'
  OBVIOUS
<1>1. TypeOK /\ TaskInv
  BY DEF TypeInv
<1>2. MaxApps \in Nat /\ MaxCache \in Nat
  BY CapAssumption
<1>3. ASSUME Known' \subseteq Known, cache' \subseteq cache,
             appOrder' = appOrder, cacheOrder' = cacheOrder
      PROVE  CapInv'
  BY <1>2, <1>3, ShrinkKeepsCap DEF CapInv
<1>4. ASSUME UNCHANGED registry PROVE CapInv'
  BY <1>3, <1>4 DEF registry, Known
<1>5. ASSUME NEW c \in Conn, Record(c) PROVE CapInv'
  <2>1. bound[c] \in App /\ cur[c] \in Kind
    <3>1. pc[c] = "record"
      BY <1>5 DEF Record
    <3>2. QED
      BY <1>1, <3>1 DEF TaskInv, Acting
  <2>2. /\ IF cur[c] = Hello THEN RecordHello(bound[c]) ELSE RecordOther(bound[c])
        /\ CacheEnvelope(bound[c], cur[c])
    BY <1>5 DEF Record
  <2>3. QED
    BY <1>1, <2>1, <2>2, RecordCaps
<1>6. ASSUME NEW c \in Conn, MarkDisconnected(c) PROVE CapInv'
  <2>1. Known' = Known
    BY <1>1, <1>6 DEF MarkDisconnected, Known
  <2>2. QED
    BY <1>3, <1>6, <2>1 DEF MarkDisconnected
<1>7. ASSUME NEW a \in App, FallsSilent(a) PROVE CapInv'
  BY <1>3, <1>7 DEF FallsSilent, Known
<1>8. ASSUME NEW a \in App, Forget(a) PROVE CapInv'
  BY <1>3, <1>8 DEF Forget, Without, Known
<1>9. ASSUME Sweep PROVE CapInv'
  BY <1>3, <1>9 DEF Sweep, Known
<1>10. CASE UNCHANGED vars
  BY <1>4, <1>10 DEF vars
<1>11. CASE Next
  BY <1>4, <1>5, <1>6, <1>7, <1>8, <1>9, <1>11 DEF Next, Task, Accept, Refuse, Handshake,
     HandshakeFails, Ping, ReadFrame, Announce, Forward, EndOfStream, Unregister,
     AnnounceDown, Release, Writer, WriterSends, WriterFails, WriterDrained,
     PeerCloses, PeerVanishes, SendTo, SweepReports
<1>12. QED
  BY <1>10, <1>11

THEOREM CapInvHolds == Spec => []CapInv
<1>1. Init => CapInv
  <2> SUFFICES ASSUME Init PROVE CapInv
    OBVIOUS
  <2>1. Known = {} /\ cache = {}
    BY DEF Init, Known
  <2>2. QED
    BY <2>1, FS_EmptySet, CapAssumption DEF CapInv, Capped, Covers
<1>2. QED
  BY <1>1, CapStep, TypeCorrect, PTL DEF Spec

\* MAX_APPS and MAX_CACHE_ENTRIES hold, and neither eviction loop ever finds
\* its queue exhausted while still over the cap.
THEOREM AppsStayCapped == Spec => []AppsCapped
<1>1. CapInv => AppsCapped
  BY DEF CapInv, Capped, Covers, AppsCapped
<1>2. QED
  BY <1>1, CapInvHolds, PTL

THEOREM CacheStaysCapped == Spec => []CacheCapped
<1>1. CapInv => CacheCapped
  BY DEF CapInv, Capped, Covers, CacheCapped
<1>2. QED
  BY <1>1, CapInvHolds, PTL

\* Both caps at once.
THEOREM CapsAreHeld == Spec => []CapsHeld
<1>1. QED
  BY AppsStayCapped, CacheStaysCapped, PTL DEF CapsHeld

-----------------------------------------------------------------------------
(* Reports *)

Dropped(a) == Connected(a) /\ a \in DOMAIN apps' /\ ~apps'[a].connected
NewReport(a) == \/ a \in sweeping' \ sweeping
                \/ \E c \in Conn : Reporting(c, a)' /\ ~Reporting(c, a)

\* Steps that neither drop a flag nor start a report.
LEMMA NothingDropped ==
  ASSUME TypeOK, sweeping' \subseteq sweeping,
         \A a \in Known : a \in DOMAIN apps' /\ apps[a].connected => apps'[a].connected,
         \A c \in Conn : pc'[c] = "announceDown" => pc[c] = "announceDown" /\ bound'[c] = bound[c]
  PROVE  \A a \in App : Dropped(a) <=> NewReport(a)
BY DEF Dropped, NewReport, Connected, Reporting

\* A flag is dropped exactly by the step that then reports it: the sweeper's
\* tick, or the cleanup that finds the flag still set.
THEOREM DropsAreReportedOnce == Spec => DropsReportedOnce
<1> DEFINE Body == \A a \in App : Dropped(a) <=> NewReport(a)
<1>1. TypeInv /\ [Next]_vars => [Body]_vars
  <2> SUFFICES ASSUME TypeInv, Next PROVE Body
    BY DEF vars
  <2>1. TypeOK /\ TaskInv
    BY DEF TypeInv
  <2>2. ASSUME apps' = apps, sweeping' \subseteq sweeping,
               \A c \in Conn : pc'[c] = "announceDown" => pc[c] = "announceDown" /\ bound'[c] = bound[c]
        PROVE  Body
    BY <2>1, <2>2, NothingDropped DEF Known
  <2>3. ASSUME NEW c \in Conn, Task(c), ~Record(c), ~MarkDisconnected(c) PROVE Body
    <3>1. apps' = apps /\ sweeping' = sweeping
      BY <2>3 DEF Task, Accept, Refuse, Handshake, HandshakeFails, Ping, ReadFrame, Announce,
         Forward, EndOfStream, Unregister, AnnounceDown, Release, registry, ui
    <3>2. \A d \in Conn : pc'[d] = "announceDown" => pc[d] = "announceDown" /\ bound'[d] = bound[d]
      <4>1. CASE \E a \in App, k \in Kind : ReadFrame(c, a, k)
        BY <4>1, <2>1 DEF TypeOK, ReadFrame, Bind, Continue, DropSpoof
      <4>2. CASE Accept(c) \/ Refuse(c) \/ Handshake(c) \/ HandshakeFails(c) \/ Ping(c)
        BY <4>2, <2>1 DEF TypeOK, Accept, Refuse, Handshake, HandshakeFails, Ping, task
      <4>3. CASE Announce(c) \/ Forward(c) \/ EndOfStream(c)
        BY <4>3, <2>1 DEF TypeOK, Announce, Forward, EndOfStream
      <4>4. CASE Unregister(c) \/ AnnounceDown(c) \/ Release(c)
        BY <4>4, <2>1 DEF TypeOK, Unregister, AnnounceDown, Release
      <4>5. QED
        BY <2>3, <4>1, <4>2, <4>3, <4>4 DEF Task
    <3>3. QED
      BY <2>2, <3>1, <3>2
  <2>4. ASSUME NEW c \in Conn, Record(c) PROVE Body
    <3>1. /\ sweeping' = sweeping /\ bound' = bound
          /\ IF cur[c] = Hello THEN RecordHello(bound[c]) ELSE RecordOther(bound[c])
      BY <2>4 DEF Record, ui
    <3>2. PICK q \in {"announce", "forward"} : pc' = [pc EXCEPT ![c] = q]
      BY <2>4 DEF Record
    <3>3. \A a \in Known : a \in DOMAIN apps' /\ apps[a].connected => apps'[a].connected
      <4>1. \A a \in Known : Inserted(bound[c])[a].connected \/ Inserted(bound[c])[a] = apps[a]
        BY DEF Inserted, Fresh
      <4>2. CASE cur[c] = Hello
        <5>1. apps' = Inserted(bound[c]) \/ \E S : apps' = Without(Inserted(bound[c]), S)
          BY <3>1, <4>2 DEF RecordHello
        <5>2. \A a \in DOMAIN apps' : apps'[a] = Inserted(bound[c])[a]
          BY <5>1 DEF Without
        <5>3. QED
          BY <4>1, <5>2
      <4>3. CASE cur[c] # Hello
        <5>1. apps' = IF bound[c] \in Known THEN [apps EXCEPT ![bound[c]] = Fresh] ELSE apps
          BY <3>1, <4>3 DEF RecordOther
        <5>2. Fresh.connected
          BY DEF Fresh
        <5>3. \A a \in Known : apps'[a] = apps[a] \/ apps'[a] = Fresh
          BY <2>1, <5>1 DEF TypeOK
        <5>4. QED
          BY <5>2, <5>3
      <4>4. QED
        BY <4>2, <4>3
    <3>4. QED
      BY <3>1, <3>2, <3>3, <2>1, NothingDropped DEF TypeOK
  <2>5. ASSUME NEW c \in Conn, MarkDisconnected(c) PROVE Body
    <3>1. /\ pc[c] = "mark" /\ sweeping' = sweeping /\ bound' = bound
          /\ IF Connected(bound[c])
             THEN /\ apps' = [apps EXCEPT ![bound[c]].connected = FALSE]
                  /\ pc' = [pc EXCEPT ![c] = "announceDown"]
             ELSE apps' = apps /\ pc' = [pc EXCEPT ![c] = "release"]
      BY <2>5 DEF MarkDisconnected, ui
    <3>2. bound[c] \in App
      BY <2>1, <3>1 DEF TaskInv, Acting
    <3>3. CASE ~Connected(bound[c])
      BY <2>1, <2>2, <3>1, <3>3 DEF TypeOK
    <3>4. CASE Connected(bound[c])
      <4>1. \A a \in App : Dropped(a) <=> a = bound[c]
        BY <2>1, <3>1, <3>2, <3>4 DEF Dropped, Connected, Known, TypeOK, AppRec
      <4>2. \A a \in App : NewReport(a) <=> a = bound[c]
        BY <2>1, <3>1, <3>2, <3>4 DEF NewReport, Reporting, TypeOK
      <4>3. QED
        BY <4>1, <4>2
    <3>5. QED
      BY <3>3, <3>4
  <2>6. ASSUME NEW a \in App, FallsSilent(a) PROVE Body
    <3>1. apps' = [apps EXCEPT ![a].stale = TRUE] /\ sweeping' = sweeping /\ pc' = pc /\ bound' = bound
      BY <2>6 DEF FallsSilent, task, ui
    <3>2. \A x \in Known : apps[x].connected => apps'[x].connected
      BY <2>1, <3>1 DEF TypeOK, AppRec
    <3>3. QED
      BY <2>1, <3>1, <3>2, NothingDropped
  <2>7. ASSUME NEW a \in App, Forget(a) PROVE Body
    <3>1. apps' = Without(apps, {a}) /\ sweeping' = sweeping /\ pc' = pc /\ bound' = bound
      BY <2>7 DEF Forget, task, ui
    <3>2. \A x \in Known : x \in DOMAIN apps' /\ apps[x].connected => apps'[x].connected
      BY <3>1 DEF Without, Known
    <3>3. QED
      BY <2>1, <3>1, <3>2, NothingDropped
  <2>8. ASSUME Sweep PROVE Body
    <3>1. /\ sweeping = {} /\ sweeping' = Stale /\ pc' = pc /\ bound' = bound
          /\ apps' = [a \in Known |-> IF a \in Stale THEN [apps[a] EXCEPT !.connected = FALSE]
                                                     ELSE apps[a]]
      BY <2>8 DEF Sweep, task
    <3>2. \A a \in App : Dropped(a) <=> a \in Stale
      <4>1. DOMAIN apps' = Known
        BY <3>1
      <4>2. ASSUME NEW a \in Known PROVE ~apps'[a].connected <=> (a \in Stale \/ ~apps[a].connected)
        <5>1. apps[a] \in AppRec
          BY <2>1 DEF TypeOK
        <5>2. CASE a \in Stale
          BY <3>1, <5>1, <5>2 DEF AppRec
        <5>3. CASE a \notin Stale
          BY <3>1, <5>3
        <5>4. QED
          BY <5>2, <5>3
      <4>3. \A a \in Stale : a \in Known /\ apps[a].connected
        BY DEF Stale
      <4>4. QED
        BY <4>1, <4>2, <4>3 DEF Dropped, Connected
    <3>3. \A a \in App : NewReport(a) <=> a \in Stale
      BY <3>1 DEF NewReport, Reporting
    <3>4. QED
      BY <3>2, <3>3
  <2>9. ASSUME NEW a \in App, SendTo(a) \/ SweepReports(a) PROVE Body
    BY <2>2, <2>9 DEF SendTo, SweepReports, task, registry, ui
  <2>10. ASSUME NEW c \in Conn, Writer(c) \/ PeerCloses(c) \/ PeerVanishes(c) PROVE Body
    BY <2>2, <2>10 DEF Writer, WriterSends, WriterFails, WriterDrained, PeerCloses,
                       PeerVanishes, task, registry, ui
  <2>11. QED
    BY <2>3, <2>4, <2>5, <2>6, <2>7, <2>8, <2>9, <2>10 DEF Next
<1>2. QED
  BY <1>1, TypeCorrect, PTL DEF Spec, DropsReportedOnce, Dropped, NewReport

=============================================================================
