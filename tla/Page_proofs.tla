----------------------------- MODULE Page_proofs -----------------------------
(***************************************************************************)
(* Proofs about the page of the desktop (UiMirror, with the history of     *)
(* PageHistory): the list of applications, the dot of each, and the fields *)
(* of the stores.  The last two follow what the app and its connection say *)
(* through the queues on the way to the page.                              *)
(***************************************************************************)
EXTENDS PageHistory, FiniteSetTheorems, SequenceTheorems, Recursion_proofs, TLAPS

-----------------------------------------------------------------------------
(* The list of applications *)

OnePillIn(ui) == (\E r : DOMAIN ui.pill \subseteq {r}) /\ DOMAIN ui.pill \subseteq DOMAIN ui.data

PillInv ==
  /\ IsFiniteSet(DOMAIN reg)
  /\ \E S : listed \in Seq(S)
  /\ OnePillIn([pill |-> pill, data |-> data])

LEMMA UpsertedOne ==
  ASSUME NEW ui, OnePillIn(ui), NEW app
  PROVE  OnePillIn(Upserted(ui, app))
<1> DEFINE others == DOMAIN ui.pill \ {app.run}
           stale == IF others = {} THEN {} ELSE {CHOOSE r \in others : TRUE}
           kept == Without(ui.data, stale)
<1>1. Upserted(ui, app) = [pill |-> With(Without(ui.pill, stale), app.run, app.connected),
                           data |-> IF app.run \in DOMAIN kept THEN kept ELSE With(kept, app.run, NoStores)]
  BY DEF Upserted
<1>2. DOMAIN ui.pill \ stale \subseteq {app.run}
  BY DEF OnePillIn
<1>3. DOMAIN Upserted(ui, app).pill = {app.run}
  BY <1>1, <1>2 DEF With, Without
<1>4. app.run \in DOMAIN Upserted(ui, app).data
  BY <1>1 DEF With, Without
<1>5. QED
  BY <1>3, <1>4 DEF OnePillIn

IsUpserting(f, ui, apps, n) == f = [i \in 0..n |-> IF i = 0 THEN ui ELSE Upserted(f[i - 1], apps[i])]

\* The function by which Upserts is defined does exist.
LEMMA UpsertsDefined ==
  ASSUME NEW ui, NEW apps, NEW m \in Nat
  PROVE  \E f : IsUpserting(f, ui, apps, m)
<1> DEFINE Is(n, f) == f = [i \in 0..n |-> IF i = 0 THEN ui ELSE Upserted(f[i - 1], apps[i])]
           P == {n \in Nat : \E f : Is(n, f)}
<1>1. 0 \in P
  <2> DEFINE f == [i \in 0..0 |-> ui]
  <2>1. Is(0, f)
    OBVIOUS
  <2>2. QED
    BY <2>1
<1>2. ASSUME NEW n \in Nat, n \in P
      PROVE  n + 1 \in P
  <2>1. PICK f : Is(n, f)
    BY <1>2
  <2> DEFINE g == [i \in 0..n + 1 |-> IF i = n + 1 THEN Upserted(f[n], apps[n + 1]) ELSE f[i]]
  <2>2. ASSUME NEW i \in 0..n + 1
        PROVE  g[i] = IF i = 0 THEN ui ELSE Upserted(g[i - 1], apps[i])
    <3>1. CASE i = 0
      BY <2>1, <3>1
    <3>2. CASE i # 0
      <4>1. i - 1 \in 0..n + 1 /\ i - 1 # n + 1 /\ g[i - 1] = f[i - 1]
        BY <3>2
      <4>2. CASE i = n + 1
        BY <3>2, <4>1, <4>2
      <4>3. CASE i # n + 1
        <5>1. i \in 0..n /\ g[i] = f[i]
          BY <4>3
        <5>2. f[i] = Upserted(f[i - 1], apps[i])
          BY <2>1, <3>2, <5>1
        <5>3. QED
          BY <3>2, <4>1, <5>1, <5>2
      <4>4. QED
        BY <4>2, <4>3
    <3>3. QED
      BY <3>1, <3>2
  <2>3. Is(n + 1, g)
    BY <2>2
  <2> HIDE DEF Is, g
  <2>4. QED
    BY <2>3
<1> HIDE DEF Is
<1>3. Nat \subseteq P
  BY <1>1, <1>2, SetInduction
<1>4. QED
  BY <1>3 DEF Is, IsUpserting

\* Upserts goes from one application to the next.
LEMMA UpsertsStepwise ==
  ASSUME NEW ui, NEW S, NEW apps \in Seq(S)
  PROVE  /\ Len(apps) \in Nat
         /\ \E after : /\ Upserts(ui, apps) = after[Len(apps)] /\ after[0] = ui
                       /\ \A i \in Nat : i + 1 <= Len(apps) => after[i + 1] = Upserted(after[i], apps[i + 1])
<1> DEFINE n == Len(apps)
           after == CHOOSE f : f = [i \in 0..n |-> IF i = 0 THEN ui ELSE Upserted(f[i - 1], apps[i])]
<1>1. n \in Nat
  BY LenProperties
<1>2. after = [i \in 0..n |-> IF i = 0 THEN ui ELSE Upserted(after[i - 1], apps[i])]
  <2>1. \E f : f = [i \in 0..n |-> IF i = 0 THEN ui ELSE Upserted(f[i - 1], apps[i])]
    <3> HIDE DEF n
    <3>1. PICK f : IsUpserting(f, ui, apps, n)
      BY <1>1, UpsertsDefined
    <3>2. QED
      BY <3>1 DEF IsUpserting
  <2>2. QED
    BY <2>1
<1>3. Upserts(ui, apps) = after[n]
  BY DEF Upserts
<1> HIDE DEF after
<1>4. after[0] = ui
  BY <1>1, <1>2
<1>5. ASSUME NEW i \in Nat, i + 1 <= n
      PROVE  after[i + 1] = Upserted(after[i], apps[i + 1])
  <2>1. i + 1 \in 0..n /\ i + 1 # 0 /\ (i + 1) - 1 = i
    BY <1>1, <1>5
  <2>2. QED
    BY <1>2, <2>1
<1>6. QED
  BY <1>1, <1>3, <1>4, <1>5

LEMMA UpsertsOne ==
  ASSUME NEW ui, OnePillIn(ui), NEW S, NEW apps \in Seq(S)
  PROVE  OnePillIn(Upserts(ui, apps))
<1> DEFINE n == Len(apps)
<1>1. /\ n \in Nat
      /\ \E after : /\ Upserts(ui, apps) = after[n] /\ after[0] = ui
                    /\ \A i \in Nat : i + 1 <= n => after[i + 1] = Upserted(after[i], apps[i + 1])
  BY UpsertsStepwise
<1> HIDE DEF n
<1>2. PICK after : /\ Upserts(ui, apps) = after[n] /\ after[0] = ui
                   /\ \A i \in Nat : i + 1 <= n => after[i + 1] = Upserted(after[i], apps[i + 1])
  BY <1>1
<1> DEFINE P == {i \in Nat : i <= n => OnePillIn(after[i])}
<1>3. 0 \in P
  BY <1>1, <1>2
<1>4. ASSUME NEW i \in Nat, i \in P
      PROVE  i + 1 \in P
  BY <1>1, <1>2, <1>4, UpsertedOne
<1>5. Nat \subseteq P
  <2> HIDE DEF P
  <2>1. QED
    BY <1>3, <1>4, SetInduction
<1>6. QED
  BY <1>1, <1>2, <1>5

LEMMA PillInvInit == Init => PillInv
<1> SUFFICES ASSUME Init
             PROVE  PillInv
  OBVIOUS
<1>1. DOMAIN reg = {} /\ DOMAIN pill = {} /\ listed = << >>
  BY DEF Init
<1>2. IsFiniteSet(DOMAIN reg)
  BY <1>1, FS_EmptySet
<1>3. listed \in Seq({})
  BY <1>1, EmptySeq
<1>4. QED
  BY <1>1, <1>2, <1>3 DEF PillInv, OnePillIn

\* The list is a sequence: the server knows finitely many runs.
LEMMA ListedFits ==
  ASSUME IsFiniteSet(DOMAIN reg), ServerLists
  PROVE  \E S : listed' \in Seq(S)
<1> DEFINE n == Cardinality(DOMAIN reg)
<1>1. PICK order \in SetToSeqs(DOMAIN reg) :
        listed' = [i \in DOMAIN order |-> [run |-> order[i], connected |-> reg[order[i]]]]
  BY DEF ServerLists
<1>2. n \in Nat
  BY FS_CardinalityType
<1>3. DOMAIN order = 1..n
  BY <1>1 DEF SetToSeqs
<1> DEFINE S == {listed'[i] : i \in 1..n}
<1>4. listed' = [i \in 1..n |-> listed'[i]]
  BY <1>1, <1>3
<1>5. listed' \in [1..n -> S]
  BY <1>4
<1>6. listed' \in Seq(S)
  BY <1>2, <1>5, SeqDef
<1>7. QED
  BY <1>6

LEMMA PillInvStep == PillInv /\ [Next]_vars => PillInv'
<1> SUFFICES ASSUME PillInv, [Next]_vars
             PROVE  PillInv'
  OBVIOUS
<1>0. /\ IsFiniteSet(DOMAIN reg)
      /\ \E S : listed \in Seq(S)
      /\ OnePillIn([pill |-> pill, data |-> data])
  BY DEF PillInv
<1>1. CASE UNCHANGED <<reg, listed, pill, data>>
  BY <1>1 DEF PillInv, OnePillIn
<1>2. ASSUME UNCHANGED <<listed, pill, data>>, \E r : DOMAIN reg' \subseteq DOMAIN reg \cup {r}
      PROVE  PillInv'
  <2>1. PICK r : DOMAIN reg' \subseteq DOMAIN reg \cup {r}
    BY <1>2
  <2>2. IsFiniteSet(DOMAIN reg \cup {r})
    BY <1>0, FS_AddElement
  <2>3. IsFiniteSet(DOMAIN reg')
    BY <2>1, <2>2, FS_Subset
  <2>4. QED
    BY <1>2, <2>3 DEF PillInv, OnePillIn
<1>3. ASSUME UNCHANGED <<reg, listed>>, OnePillIn([pill |-> pill', data |-> data'])
      PROVE  PillInv'
  BY <1>3 DEF PillInv, OnePillIn
<1>4. ASSUME NEW r, ServerReads(r)
      PROVE  PillInv'
  <2>1. UNCHANGED <<listed, pill, data>> /\ Recorded(r, Head(wire[r]))
    BY <1>4 DEF ServerReads, page
  <2>2. DOMAIN reg' \subseteq DOMAIN reg \cup {r}
    BY <2>1 DEF Recorded, With
  <2>3. QED
    BY <1>2, <2>1, <2>2
<1>5. ASSUME NEW r, ServerEnds(r) \/ OldConnectionEnds(r) \/ Sweeps(r) \/ ServerForgets(r)
      PROVE  PillInv'
  <2>1. UNCHANGED <<listed, pill, data>> /\ DOMAIN reg' \subseteq DOMAIN reg
    BY <1>5 DEF ServerEnds, OldConnectionEnds, Sweeps, MarkedDown, ServerForgets, Without, page
  <2>2. QED
    BY <1>2, <2>1
<1>6. CASE ServerLists
  <2>1. \E S : listed' \in Seq(S)
    BY <1>0, <1>6, ListedFits
  <2>2. UNCHANGED <<reg, pill, data>>
    BY <1>6 DEF ServerLists, server
  <2>3. QED
    BY <2>1, <2>2 DEF PillInv, OnePillIn
<1>7. CASE ListArrives
  <2> DEFINE ui == [pill |-> pill, data |-> data]
             next == Upserts(ui, listed)
  <2>1. reg' = reg /\ listed' = << >> /\ pill' = next.pill /\ data' = next.data
    BY <1>7 DEF ListArrives, server
  <2>2. OnePillIn(next)
    <3> HIDE DEF ui
    <3>1. OnePillIn(ui)
      BY <1>0 DEF ui
    <3>2. PICK S : listed \in Seq(S)
      BY <1>0
    <3>3. QED
      BY <3>1, <3>2, UpsertsOne
  <2> HIDE DEF next
  <2>3. listed' \in Seq({})
    BY <2>1, EmptySeq
  <2>4. QED
    BY <1>0, <2>1, <2>2, <2>3 DEF PillInv, OnePillIn
<1>8. ASSUME NEW i, FetchArrives(i)
      PROVE  PillInv'
  <2>1. UNCHANGED <<reg, listed, pill>> /\ data' = Hydrated(data, fetches[i].run, fetches[i].found)
    BY <1>8 DEF FetchArrives, server
  <2>2. \A d, r, frame : DOMAIN d \subseteq DOMAIN Applied(d, r, frame)
    BY DEF Applied, With
  <2>3. DOMAIN data \subseteq DOMAIN data'
    BY <2>1, <2>2 DEF Hydrated
  <2>4. QED
    BY <1>0, <1>3, <2>1, <2>3 DEF OnePillIn
<1>9. CASE EventArrives
  <2>1. PICK r, frame : AppConnected(r) \/ AppDisconnected(r) \/ EnvelopeArrives(r, frame)
    BY <1>9 DEF EventArrives
  <2>2. UNCHANGED <<reg, listed>>
    BY <1>9 DEF EventArrives, server
  <2>3. CASE AppConnected(r)
    <3> DEFINE ui == [pill |-> pill, data |-> data]
               app == [run |-> r, connected |-> TRUE]
               next == Upserted(ui, app)
    <3>1. pill' = next.pill /\ data' = next.data
      BY <2>3 DEF AppConnected
    <3>2. OnePillIn(next)
      <4> HIDE DEF ui, app
      <4>1. OnePillIn(ui)
        BY <1>0 DEF ui
      <4>2. QED
        BY <4>1, UpsertedOne
    <3> HIDE DEF next
    <3>3. QED
      BY <1>3, <2>2, <3>1, <3>2 DEF OnePillIn
  <2>4. CASE AppDisconnected(r)
    <3>1. DOMAIN pill' = DOMAIN pill /\ data' = data
      BY <2>4 DEF AppDisconnected, With
    <3>2. QED
      BY <1>0, <1>3, <2>2, <3>1 DEF OnePillIn
  <2>5. CASE EnvelopeArrives(r, frame)
    <3>1. pill' = pill /\ DOMAIN data \subseteq DOMAIN data'
      BY <2>5 DEF EnvelopeArrives, Applied, With
    <3>2. QED
      BY <1>0, <1>3, <2>2, <3>1 DEF OnePillIn
  <2>6. QED
    BY <2>1, <2>3, <2>4, <2>5
<1>10. CASE PageReloads
  <2>1. reg' = reg /\ listed' = << >> /\ DOMAIN pill' = {}
    BY <1>10 DEF PageReloads, server
  <2>2. listed' \in Seq({})
    BY <2>1, EmptySeq
  <2>3. QED
    BY <1>0, <2>1, <2>2 DEF PillInv, OnePillIn
<1>11. ASSUME NEW r, UserForgets(r)
       PROVE  PillInv'
  <2>1. /\ UNCHANGED <<reg, listed>>
        /\ DOMAIN pill' = DOMAIN pill \ {r} /\ DOMAIN data' = DOMAIN data \ {r}
    BY <1>11 DEF UserForgets, server, Without
  <2>2. QED
    BY <1>0, <1>3, <2>1 DEF OnePillIn
<1>12. ASSUME NEW r, NEW s, NEW f, NEW i, NEW k,
              \/ StoreAttached(s) \/ StoreWritten(s, f) \/ AppRestarts \/ HeartbeatSent
              \/ LinkOpens(r) \/ HelloSent(r) \/ LinkBreaks(r) \/ ServerEmits(r) \/ DropEmitted(r)
              \/ ServerFetches(i) \/ Listens(k)
       PROVE  PillInv'
  <2>1. UNCHANGED <<reg, listed, pill, data>>
    BY <1>12 DEF StoreAttached, StoreWritten, AppRestarts, HeartbeatSent, LinkOpens, HelloSent,
                 LinkBreaks, ServerEmits, DropEmitted, ServerFetches, Listens, server, page
  <2>2. QED
    BY <1>1, <2>1
<1>13. CASE UNCHANGED vars
  BY <1>1, <1>13 DEF vars, server, page
<1>14. QED
  BY <1>4, <1>5, <1>6, <1>7, <1>8, <1>9, <1>10, <1>11, <1>12, <1>13 DEF Next

\* connection.ts, upsertApp(), "the existing one coming back to life": however often the
\* application restarts, with reloads of the page, removals by the user, breaks of its
\* connections and late events of its older runs in between, the list shows one pill of it
\* at most, and one that has data to show.
THEOREM OnePillShown == Spec => []OnePill
<1>1. PillInv => OnePill
  <2> SUFFICES ASSUME PillInv
               PROVE  OnePill
    OBVIOUS
  <2>1. PICK r : DOMAIN pill \subseteq {r}
    BY DEF PillInv, OnePillIn
  <2>2. IsFiniteSet({r}) /\ Cardinality({r}) = 1
    BY FS_Singleton
  <2>3. Cardinality(DOMAIN pill) <= 1
    BY <2>1, <2>2, FS_Subset
  <2>4. DOMAIN pill \subseteq DOMAIN data
    BY DEF PillInv, OnePillIn
  <2>5. QED
    BY <2>3, <2>4 DEF OnePill
<1>2. QED
  BY <1>1, PillInvInit, PillInvStep, PTL DEF Spec

-----------------------------------------------------------------------------
(* Types, of the whole way from a store to the window                      *)

StateSet == [Store -> {None} \cup [Field -> Nat]]
InitFrames == [type : {"state/init"}, store : Store, state : [Field -> Nat]]
ActionFrames == [type : {"state/action"}, store : Store, field : Field, val : Nat]
FrameSet == {HelloFrame, PingFrame} \cup InitFrames \cup ActionFrames
CachedSet == [init : {None} \cup InitFrames, action : {None} \cup ActionFrames]
EventSet == [kind : {"connected", "disconnected"}, run : Run]
              \cup [kind : {"message"}, run : Run, frame : FrameSet]
FetchSet == [run : Run, origin : {"list", "event"}, answered : BOOLEAN, found : CachedSet]

ProgramTyped == now \in Run /\ value \in [Run -> StateSet]

NetworkTyped ==
  /\ link \in [Run -> {"none", "up", "cut"}] /\ unnoticed \in [Run -> Nat]
  /\ backlog \in [Run -> Seq(FrameSet)] /\ wire \in [Run -> Seq(FrameSet)]
  /\ greeting \subseteq Run /\ lost \subseteq Run

ServerTyped ==
  /\ DOMAIN reg \subseteq Run /\ reg \in [DOMAIN reg -> BOOLEAN]
  /\ cache \in [Run -> CachedSet] /\ dropping \in [Run -> Nat]
  /\ emitting \in [Run -> Seq(EventSet)]
  /\ \A r \in Run : Len(emitting[r]) <= 1 /\ \A n \in 1..Len(emitting[r]) : emitting[r][n].run = r

PageTyped ==
  /\ events \in Seq(EventSet)
  /\ listed \in Seq([run : Run, connected : BOOLEAN])
  /\ fetches \in Seq(FetchSet)
  /\ DOMAIN pill \subseteq Run
  /\ DOMAIN data \subseteq Run /\ data \in [DOMAIN data -> StateSet]
  /\ reloads \in Nat

MirrorTyped == ProgramTyped /\ NetworkTyped /\ ServerTyped /\ PageTyped


DataTyped(d) == DOMAIN d \subseteq Run /\ d \in [DOMAIN d -> StateSet]

LEMMA AppliedTyped ==
  ASSUME NEW d, DataTyped(d), NEW r \in Run, NEW frame \in FrameSet
  PROVE  DataTyped(Applied(d, r, frame))
<1>1. Shown(d, r) \in StateSet
  BY DEF DataTyped, Shown, NoStores, StateSet
<1>2. ASSUME NEW st \in StateSet
      PROVE  DataTyped(With(d, r, st))
  BY <1>2 DEF DataTyped, With
<1>3. CASE frame \in InitFrames
  <2>1. frame.type = "state/init" /\ frame.store \in Store /\ frame.state \in [Field -> Nat]
    BY <1>3 DEF InitFrames
  <2>2. [Shown(d, r) EXCEPT ![frame.store] = frame.state] \in StateSet
    BY <1>1, <2>1 DEF StateSet
  <2>3. Applied(d, r, frame) = With(d, r, [Shown(d, r) EXCEPT ![frame.store] = frame.state])
    BY <2>1 DEF Applied
  <2>4. QED
    BY <1>2, <2>2, <2>3
<1>4. CASE frame \in ActionFrames
  <2>1. frame.type = "state/action" /\ frame.store \in Store /\ frame.field \in Field /\ frame.val \in Nat
    BY <1>4 DEF ActionFrames
  <2>2. CASE Shown(d, r)[frame.store] # None
    <3>1. Shown(d, r)[frame.store] \in [Field -> Nat]
      BY <1>1, <2>1, <2>2 DEF StateSet
    <3>2. [Shown(d, r) EXCEPT ![frame.store][frame.field] = frame.val] \in StateSet
      <4> DEFINE new == [Shown(d, r)[frame.store] EXCEPT ![frame.field] = frame.val]
      <4>1. new \in [Field -> Nat]
        BY <2>1, <3>1
      <4>2. [Shown(d, r) EXCEPT ![frame.store][frame.field] = frame.val] = [Shown(d, r) EXCEPT ![frame.store] = new]
        OBVIOUS
      <4> HIDE DEF new
      <4>3. QED
        BY <1>1, <2>1, <4>1, <4>2 DEF StateSet
    <3>3. Applied(d, r, frame) = With(d, r, [Shown(d, r) EXCEPT ![frame.store][frame.field] = frame.val])
      BY <2>1, <2>2 DEF Applied
    <3>4. QED
      BY <1>2, <3>2, <3>3
  <2>3. CASE Shown(d, r)[frame.store] = None
    BY <2>1, <2>3 DEF Applied
  <2>4. QED
    BY <2>2, <2>3
<1>5. CASE frame \in {HelloFrame, PingFrame}
  BY <1>5 DEF Applied, HelloFrame, PingFrame
<1>6. QED
  BY <1>3, <1>4, <1>5 DEF FrameSet

LEMMA HydratedTyped ==
  ASSUME NEW d, DataTyped(d), NEW r \in Run, NEW found \in CachedSet
  PROVE  DataTyped(Hydrated(d, r, found))
<1> DEFINE snapshot == IF found.init = None THEN d ELSE Applied(d, r, found.init)
<1>1. /\ found.init = None \/ found.init \in FrameSet
      /\ found.action = None \/ found.action \in FrameSet
  BY DEF CachedSet, FrameSet
<1>2. DataTyped(snapshot)
  BY <1>1, AppliedTyped
<1> HIDE DEF snapshot
<1>3. Hydrated(d, r, found) = IF found.action = None THEN snapshot ELSE Applied(snapshot, r, found.action)
  BY DEF Hydrated, snapshot
<1>4. QED
  BY <1>1, <1>2, <1>3, AppliedTyped

UiTyped(ui) == DOMAIN ui.pill \subseteq Run /\ DataTyped(ui.data)

LEMMA UpsertedTyped ==
  ASSUME NEW ui, UiTyped(ui), NEW app, app.run \in Run
  PROVE  UiTyped(Upserted(ui, app))
<1> DEFINE others == DOMAIN ui.pill \ {app.run}
           stale == IF others = {} THEN {} ELSE {CHOOSE r \in others : TRUE}
           kept == Without(ui.data, stale)
<1>1. Upserted(ui, app) = [pill |-> With(Without(ui.pill, stale), app.run, app.connected),
                           data |-> IF app.run \in DOMAIN kept THEN kept ELSE With(kept, app.run, NoStores)]
  BY DEF Upserted
<1> HIDE DEF stale
<1>2. DataTyped(kept)
  BY DEF UiTyped, DataTyped, Without
<1> HIDE DEF kept
<1>3. NoStores \in StateSet
  BY DEF NoStores, StateSet
<1>4. DataTyped(IF app.run \in DOMAIN kept THEN kept ELSE With(kept, app.run, NoStores))
  BY <1>2, <1>3 DEF DataTyped, With
<1>5. DOMAIN With(Without(ui.pill, stale), app.run, app.connected) \subseteq Run
  BY DEF UiTyped, With, Without
<1>6. QED
  BY <1>1, <1>4, <1>5 DEF UiTyped

LEMMA UpsertsTyped ==
  ASSUME NEW ui, UiTyped(ui), NEW apps \in Seq([run : Run, connected : BOOLEAN])
  PROVE  UiTyped(Upserts(ui, apps))
<1> DEFINE n == Len(apps)
<1>1. /\ n \in Nat
      /\ \E after : /\ Upserts(ui, apps) = after[n] /\ after[0] = ui
                    /\ \A i \in Nat : i + 1 <= n => after[i + 1] = Upserted(after[i], apps[i + 1])
  BY UpsertsStepwise
<1>2. \A i \in Nat : i + 1 <= n => apps[i + 1].run \in Run
  <2> SUFFICES ASSUME NEW i \in Nat, i + 1 <= n
               PROVE  apps[i + 1].run \in Run
    OBVIOUS
  <2> DEFINE k == i + 1
             R == [run : Run, connected : BOOLEAN]
  <2>1. k \in 1..Len(apps) /\ apps \in Seq(R)
    BY <1>1
  <2> HIDE DEF k, R
  <2>2. apps[k] \in R
    BY <2>1, ElementOfSeq
  <2>3. QED
    BY <2>2 DEF R, k
<1> HIDE DEF n
<1>3. PICK after : /\ Upserts(ui, apps) = after[n] /\ after[0] = ui
                   /\ \A i \in Nat : i + 1 <= n => after[i + 1] = Upserted(after[i], apps[i + 1])
  BY <1>1
<1> DEFINE P == {i \in Nat : i <= n => UiTyped(after[i])}
<1>4. 0 \in P
  BY <1>1, <1>3
<1>5. ASSUME NEW i \in Nat, i \in P
      PROVE  i + 1 \in P
  BY <1>1, <1>2, <1>3, <1>5, UpsertedTyped
<1>6. Nat \subseteq P
  <2> HIDE DEF P
  <2>1. QED
    BY <1>4, <1>5, SetInduction
<1>7. QED
  BY <1>1, <1>3, <1>6

LEMMA RemoveAtTyped ==
  ASSUME NEW S, NEW q \in Seq(S), NEW i \in DOMAIN q
  PROVE  RemoveAt(q, i) \in Seq(S)
<1>1. Len(q) \in Nat /\ i \in 1..Len(q)
  BY LenProperties
<1>2. SubSeq(q, 1, i - 1) \in Seq(S) /\ SubSeq(q, i + 1, Len(q)) \in Seq(S)
  <2>1. \A k \in 1..i - 1 : q[k] \in S
    BY <1>1, ElementOfSeq
  <2>2. \A k \in i + 1..Len(q) : q[k] \in S
    BY <1>1, ElementOfSeq
  <2>3. QED
    BY <1>1, <2>1, <2>2, SubSeqProperties
<1>3. QED
  BY <1>2, ConcatProperties DEF RemoveAt

LEMMA SendsTyped ==
  ASSUME NetworkTyped, NEW r \in Run, NEW frame \in FrameSet, Sends(r, frame)
  PROVE  backlog' \in [Run -> Seq(FrameSet)] /\ wire' \in [Run -> Seq(FrameSet)]
<1>1. Append(wire[r], frame) \in Seq(FrameSet) /\ Append(backlog[r], frame) \in Seq(FrameSet)
  <2>1. wire[r] \in Seq(FrameSet) /\ backlog[r] \in Seq(FrameSet)
    BY DEF NetworkTyped
  <2>2. QED
    BY <2>1, AppendProperties
<1>2. QED
  BY <1>1 DEF Sends, NetworkTyped

\* Only a break of the link takes frames off the wire, and only from its end.
LEMMA CutTyped ==
  ASSUME NetworkTyped, NEW r \in Run, Cut(r)
  PROVE  /\ link' \in [Run -> {"none", "up", "cut"}] /\ wire' \in [Run -> Seq(FrameSet)]
         /\ lost \subseteq lost' /\ lost' \subseteq Run
         /\ \A u \in Run : u # r => link'[u] = link[u] /\ wire'[u] = wire[u]
         /\ link'[r] = IF link[r] = "up" THEN "cut" ELSE link[r]
         /\ Len(wire'[r]) <= Len(wire[r]) /\ \A n \in 1..Len(wire'[r]) : wire'[r][n] = wire[r][n]
         /\ r \notin lost' => wire'[r] = wire[r]
<1> DEFINE q == wire[r]
<1>1. q \in Seq(FrameSet) /\ Len(q) \in Nat
  BY LenProperties DEF NetworkTyped
<1>2. PICK n \in 0..Len(q) : /\ wire' = [wire EXCEPT ![r] = SubSeq(@, 1, n)]
                             /\ lost' = IF n < Len(q) THEN lost \cup {r} ELSE lost
  BY DEF Cut
<1> DEFINE p == SubSeq(q, 1, n)
<1>3. p \in Seq(FrameSet) /\ Len(p) = n /\ \A m \in 1..n : p[m] = q[m]
  <2>1. \A k \in 1..n : q[k] \in FrameSet
    BY <1>1, ElementOfSeq
  <2>2. QED
    BY <1>1, <2>1, SubSeqProperties
<1>4. n = Len(q) => p = q
  <2> SUFFICES ASSUME n = Len(q)
               PROVE  p = q
    OBVIOUS
  <2>1. Len(p) = Len(q) /\ \A m \in 1..Len(p) : p[m] = q[m]
    BY <1>3
  <2> HIDE DEF p, q
  <2>2. QED
    BY <1>1, <1>3, <2>1, SeqEqual
<1>5. wire'[r] = p /\ \A u \in Run : u # r => wire'[u] = wire[u]
  BY <1>2 DEF NetworkTyped
<1> HIDE DEF p, q
<1>6. wire' \in [Run -> Seq(FrameSet)]
  BY <1>2, <1>3, <1>5 DEF NetworkTyped, p, q
<1>7. link' = [link EXCEPT ![r] = IF @ = "up" THEN "cut" ELSE @]
  BY DEF Cut
<1>8. /\ link' \in [Run -> {"none", "up", "cut"}] /\ (\A u \in Run : u # r => link'[u] = link[u])
      /\ link'[r] = IF link[r] = "up" THEN "cut" ELSE link[r]
  BY <1>7 DEF NetworkTyped
<1>9. lost \subseteq lost' /\ lost' \subseteq Run /\ (r \notin lost' => n = Len(q))
  BY <1>1, <1>2 DEF NetworkTyped
<1>10. q = wire[r]
  BY DEF q
<1>11. Len(wire'[r]) <= Len(wire[r]) /\ \A m \in 1..Len(wire'[r]) : wire'[r][m] = wire[r][m]
  <2>1. n <= Len(q)
    BY <1>1
  <2>2. QED
    BY <1>3, <1>5, <1>10, <2>1
<1>12. r \notin lost' => wire'[r] = wire[r]
  BY <1>4, <1>5, <1>9, <1>10
<1>13. QED
  BY <1>5, <1>6, <1>8, <1>9, <1>11, <1>12

LEMMA MirrorTypedInit == Init => MirrorTyped
<1> SUFFICES ASSUME Init
             PROVE  MirrorTyped
  OBVIOUS
<1>1. 1 \in Run
  BY RunAssumption DEF Run
<1>2. NoStores \in StateSet
  BY DEF NoStores, StateSet
<1>3. \A S : << >> \in Seq(S)
  OBVIOUS
<1>4. ProgramTyped
  BY <1>1, <1>2 DEF Init, ProgramTyped
<1>5. NetworkTyped
  BY <1>3 DEF Init, NetworkTyped
<1>6. ServerTyped
  <2>1. EmptyCache \in CachedSet
    BY DEF EmptyCache, CachedSet
  <2>2. \A r \in Run : Len(emitting[r]) = 0
    BY DEF Init
  <2>3. QED
    BY <1>3, <2>1, <2>2 DEF Init, ServerTyped
<1>7. PageTyped
  BY <1>3 DEF Init, PageTyped
<1>8. QED
  BY <1>4, <1>5, <1>6, <1>7 DEF MirrorTyped

\* What an adapter sends when a store appears or changes: the whole state, or the one
\* field that differs, as the store has it then.
SendsOf(s, frame) ==
  /\ frame \in FrameSet /\ Sends(now, frame)
  /\ value' \in [Run -> StateSet] /\ \A r \in Run : r # now => value'[r] = value[r]
  /\ \A t \in Store : t # s => value'[now][t] = value[now][t]
  /\ \/ frame = InitFrame(s, value'[now][s])
     \/ \E f \in Field : /\ frame = ActionFrame(s, f, value'[now][s][f])
                         /\ \A g \in Field : g # f => value'[now][s][g] = value[now][s][g]

LEMMA AppSends ==
  ASSUME ProgramTyped, NEW s \in Store, StoreAttached(s) \/ \E f \in Field : StoreWritten(s, f)
  PROVE  \E frame : SendsOf(s, frame)
<1>1. now \in Run /\ value \in [Run -> StateSet] /\ value[now] \in StateSet
  BY DEF ProgramTyped
<1>2. CASE StoreAttached(s)
  <2>1. Zero \in [Field -> Nat]
    BY DEF Zero
  <2>2. InitFrame(s, Zero) \in FrameSet
    BY <2>1 DEF InitFrame, FrameSet, InitFrames
  <2> DEFINE st == [value[now] EXCEPT ![s] = Zero]
  <2>3. st \in StateSet /\ st[s] = Zero /\ \A t \in Store : t # s => st[t] = value[now][t]
    BY <1>1, <2>1 DEF StateSet
  <2>4. value' = [value EXCEPT ![now] = st] /\ Sends(now, InitFrame(s, Zero))
    BY <1>2 DEF StoreAttached
  <2> HIDE DEF st
  <2>5. /\ value' \in [Run -> StateSet] /\ value'[now] = st
        /\ \A r \in Run : r # now => value'[r] = value[r]
    BY <1>1, <2>3, <2>4
  <2>6. SendsOf(s, InitFrame(s, Zero))
    BY <2>2, <2>3, <2>4, <2>5 DEF SendsOf
  <2>7. QED
    BY <2>6
<1>3. ASSUME NEW f \in Field, StoreWritten(s, f)
      PROVE  \E frame : SendsOf(s, frame)
  <2> DEFINE st == [value[now][s] EXCEPT ![f] = @ + 1]
             all == [value[now] EXCEPT ![s] = st]
  <2>1. value[now][s] \in [Field -> Nat]
    BY <1>1, <1>3 DEF StoreWritten, StateSet
  <2>2. st \in [Field -> Nat] /\ \A g \in Field : g # f => st[g] = value[now][s][g]
    BY <2>1
  <2>3. value' = [value EXCEPT ![now] = all]
    BY <1>3 DEF StoreWritten
  <2>4. all \in StateSet
    <3> HIDE DEF st
    <3>1. QED
      BY <1>1, <2>2 DEF StateSet
  <2>5. all[s] = st /\ \A t \in Store : t # s => all[t] = value[now][t]
    BY <1>1 DEF StateSet
  <2> HIDE DEF st, all
  <2>6. /\ value' \in [Run -> StateSet] /\ value'[now] = all
        /\ \A r \in Run : r # now => value'[r] = value[r]
    BY <1>1, <2>3, <2>4
  <2> DEFINE w == value'[now][s][f]
  <2>7. w \in Nat
    BY <2>2, <2>5, <2>6
  <2>8. Sends(now, ActionFrame(s, f, w))
    BY <1>3 DEF StoreWritten
  <2> HIDE DEF w
  <2>9. ActionFrame(s, f, w) \in FrameSet
    BY <2>7 DEF ActionFrame, FrameSet, ActionFrames
  <2>10. SendsOf(s, ActionFrame(s, f, w))
    BY <2>2, <2>5, <2>6, <2>8, <2>9 DEF SendsOf, w
  <2>11. QED
    BY <2>10
<1>4. QED
  BY <1>2, <1>3

LEMMA AppTypes ==
  ASSUME MirrorTyped, NEW s \in Store, StoreAttached(s) \/ \E f \in Field : StoreWritten(s, f)
  PROVE  MirrorTyped'
<1>1. ProgramTyped /\ NetworkTyped /\ ServerTyped /\ PageTyped
  BY DEF MirrorTyped
<1>2. UNCHANGED <<now, link, unnoticed, greeting, lost, server, page>>
  BY DEF StoreAttached, StoreWritten
<1>3. now \in Run
  BY <1>1 DEF ProgramTyped
<1>4. \E frame \in FrameSet : value' \in [Run -> StateSet] /\ Sends(now, frame)
  BY <1>1, AppSends DEF SendsOf
<1>5. ProgramTyped'
  BY <1>2, <1>3, <1>4 DEF ProgramTyped
<1>6. NetworkTyped'
  <2>1. backlog' \in [Run -> Seq(FrameSet)] /\ wire' \in [Run -> Seq(FrameSet)]
    BY <1>1, <1>3, <1>4, SendsTyped
  <2>2. QED
    BY <1>1, <1>2, <2>1 DEF NetworkTyped
<1>7. ServerTyped' /\ PageTyped'
  BY <1>1, <1>2 DEF ServerTyped, PageTyped, server, page
<1>8. QED
  BY <1>5, <1>6, <1>7 DEF MirrorTyped

LEMMA LinkTypes ==
  ASSUME MirrorTyped, NEW r \in Run,
         LinkOpens(r) \/ HelloSent(r) \/ LinkBreaks(r) \/ AppRestarts \/ HeartbeatSent
  PROVE  MirrorTyped'
<1>1. ProgramTyped /\ NetworkTyped /\ ServerTyped /\ PageTyped
  BY DEF MirrorTyped
<1>2. UNCHANGED <<value, server, page>>
  BY DEF LinkOpens, HelloSent, LinkBreaks, AppRestarts, HeartbeatSent, program
<1>3. ServerTyped' /\ PageTyped'
  BY <1>1, <1>2 DEF ServerTyped, PageTyped, server, page
<1>4. \A S : << >> \in Seq(S)
  OBVIOUS
<1>5. CASE LinkOpens(r)
  <2> DEFINE count == unnoticed[r] + 1
  <2>1. count \in Nat /\ (unnoticed' = unnoticed \/ unnoticed' = [unnoticed EXCEPT ![r] = count])
    BY <1>1, <1>5 DEF LinkOpens, NetworkTyped
  <2>2. NetworkTyped'
    <3> HIDE DEF count
    <3>1. unnoticed' \in [Run -> Nat]
      BY <1>1, <2>1 DEF NetworkTyped
    <3>2. link' \in [Run -> {"none", "up", "cut"}]
      BY <1>1, <1>5 DEF LinkOpens, NetworkTyped
    <3>3. backlog' \in [Run -> Seq(FrameSet)] /\ wire' \in [Run -> Seq(FrameSet)]
      BY <1>1, <1>4, <1>5 DEF LinkOpens, NetworkTyped
    <3>4. QED
      BY <1>1, <1>5, <3>1, <3>2, <3>3 DEF LinkOpens, NetworkTyped
  <2>3. ProgramTyped'
    BY <1>1, <1>5 DEF LinkOpens, ProgramTyped, program
  <2>4. QED
    BY <1>3, <2>2, <2>3 DEF MirrorTyped
<1>6. CASE HelloSent(r)
  <2>1. Sends(r, HelloFrame) /\ HelloFrame \in FrameSet
    BY <1>6 DEF HelloSent, FrameSet
  <2>2. backlog' \in [Run -> Seq(FrameSet)] /\ wire' \in [Run -> Seq(FrameSet)]
    BY <1>1, <2>1, SendsTyped
  <2>3. NetworkTyped'
    BY <1>1, <1>6, <2>2 DEF HelloSent, NetworkTyped
  <2>4. ProgramTyped'
    BY <1>1, <1>6 DEF HelloSent, ProgramTyped, program
  <2>5. QED
    BY <1>3, <2>3, <2>4 DEF MirrorTyped
<1>7. CASE LinkBreaks(r)
  <2>1. /\ link' \in [Run -> {"none", "up", "cut"}] /\ wire' \in [Run -> Seq(FrameSet)] /\ lost' \subseteq Run
    BY <1>1, <1>7, CutTyped DEF LinkBreaks
  <2>2. NetworkTyped'
    BY <1>1, <1>7, <2>1 DEF LinkBreaks, NetworkTyped
  <2>3. ProgramTyped'
    BY <1>1, <1>7 DEF LinkBreaks, ProgramTyped, program
  <2>4. QED
    BY <1>3, <2>2, <2>3 DEF MirrorTyped
<1>8. CASE AppRestarts
  <2>1. now \in Run /\ now + 1 \in Run
    BY <1>1, <1>8, RunAssumption DEF ProgramTyped, AppRestarts, Run
  <2>2. Cut(now)
    BY <1>8 DEF AppRestarts
  <2>3. /\ link' \in [Run -> {"none", "up", "cut"}] /\ wire' \in [Run -> Seq(FrameSet)] /\ lost' \subseteq Run
    BY <1>1, <2>1, <2>2, CutTyped
  <2>4. NetworkTyped'
    BY <1>1, <1>4, <1>8, <2>3 DEF AppRestarts, NetworkTyped
  <2>5. ProgramTyped'
    BY <1>1, <1>2, <1>8, <2>1 DEF AppRestarts, ProgramTyped
  <2>6. QED
    BY <1>3, <2>4, <2>5 DEF MirrorTyped
<1>9. CASE HeartbeatSent
  <2>1. now \in Run /\ Sends(now, PingFrame) /\ PingFrame \in FrameSet
    BY <1>1, <1>9 DEF HeartbeatSent, FrameSet, ProgramTyped
  <2>2. backlog' \in [Run -> Seq(FrameSet)] /\ wire' \in [Run -> Seq(FrameSet)]
    BY <1>1, <2>1, SendsTyped
  <2>3. NetworkTyped'
    BY <1>1, <1>9, <2>2 DEF HeartbeatSent, NetworkTyped
  <2>4. ProgramTyped'
    BY <1>1, <1>9 DEF HeartbeatSent, ProgramTyped
  <2>5. QED
    BY <1>3, <2>3, <2>4 DEF MirrorTyped
<1>10. QED
  BY <1>5, <1>6, <1>7, <1>8, <1>9

\* What a step puts in emitting is one event, of the connection's run.
LEMMA EmitsOne ==
  ASSUME ServerTyped, NEW r \in Run, NEW e \in EventSet, e.run = r, emitting' = [emitting EXCEPT ![r] = <<e>>]
  PROVE  /\ emitting' \in [Run -> Seq(EventSet)] /\ emitting'[r] = <<e>>
         /\ \A u \in Run : u # r => emitting'[u] = emitting[u]
         /\ \A u \in Run : Len(emitting'[u]) <= 1 /\ \A n \in 1..Len(emitting'[u]) : emitting'[u][n].run = u
<1> DEFINE q == <<e>>
<1>1. q \in Seq(EventSet) /\ Len(q) = 1 /\ q[1] = e
  OBVIOUS
<1>2. emitting' = [emitting EXCEPT ![r] = q]
  OBVIOUS
<1>3. q = <<e>>
  OBVIOUS
<1> HIDE DEF q
<1>4. emitting' \in [Run -> Seq(EventSet)] /\ emitting'[r] = q /\ \A u \in Run : u # r => emitting'[u] = emitting[u]
  BY <1>1, <1>2 DEF ServerTyped
<1>5. ASSUME NEW u \in Run
      PROVE  Len(emitting'[u]) <= 1 /\ \A n \in 1..Len(emitting'[u]) : emitting'[u][n].run = u
  <2>1. CASE u = r
    BY <1>1, <1>4, <2>1
  <2>2. CASE u # r
    BY <1>4, <2>2 DEF ServerTyped
  <2>3. QED
    BY <2>1, <2>2
<1>6. QED
  BY <1>3, <1>4, <1>5

LEMMA ReadTypes ==
  ASSUME MirrorTyped, NEW r \in Run, ServerReads(r)
  PROVE  MirrorTyped'
<1> DEFINE frame == Head(wire[r])
           e == IF frame.type = "hello" THEN Connected(r) ELSE Message(r, frame)
<1>1. ProgramTyped /\ NetworkTyped /\ ServerTyped /\ PageTyped
  BY DEF MirrorTyped
<1>2. wire[r] \in Seq(FrameSet) /\ wire[r] # << >>
  BY <1>1 DEF NetworkTyped, ServerReads
<1>3. frame \in FrameSet /\ Tail(wire[r]) \in Seq(FrameSet)
  BY <1>2, HeadTailProperties
<1>4. /\ Recorded(r, frame) /\ emitting' = [emitting EXCEPT ![r] = <<e>>]
      /\ wire' = [wire EXCEPT ![r] = Tail(@)]
      /\ UNCHANGED <<program, link, unnoticed, backlog, greeting, lost, dropping, page>>
  BY DEF ServerReads
<1>5. e \in EventSet /\ e.run = r
  BY <1>3 DEF Connected, Message, EventSet
<1> HIDE DEF frame, e
<1>6. /\ emitting' \in [Run -> Seq(EventSet)]
      /\ \A u \in Run : Len(emitting'[u]) <= 1 /\ \A n \in 1..Len(emitting'[u]) : emitting'[u][n].run = u
  BY <1>1, <1>4, <1>5, EmitsOne
<1>7. DOMAIN reg' \subseteq Run /\ reg' \in [DOMAIN reg' -> BOOLEAN]
  BY <1>1, <1>4 DEF Recorded, With, ServerTyped
<1>8. cache' \in [Run -> CachedSet]
  <2>1. cache \in [Run -> CachedSet] /\ cache[r] \in CachedSet
    BY <1>1 DEF ServerTyped
  <2>2. CASE frame.type = "state/init"
    <3>1. frame \in InitFrames
      BY <1>3, <2>2 DEF FrameSet, HelloFrame, PingFrame, ActionFrames
    <3>2. [cache[r] EXCEPT !.init = frame] \in CachedSet
      BY <2>1, <3>1 DEF CachedSet
    <3> DEFINE c == [cache[r] EXCEPT !.init = frame]
    <3>3. cache' = [cache EXCEPT ![r] = c]
      BY <1>4, <2>2 DEF Recorded
    <3> HIDE DEF c
    <3>4. QED
      BY <2>1, <3>2, <3>3 DEF c
  <2>3. CASE frame.type = "state/action"
    <3>1. frame \in ActionFrames
      BY <1>3, <2>3 DEF FrameSet, HelloFrame, PingFrame, InitFrames
    <3>2. [cache[r] EXCEPT !.action = frame] \in CachedSet
      BY <2>1, <3>1 DEF CachedSet
    <3> DEFINE c == [cache[r] EXCEPT !.action = frame]
    <3>3. cache' = [cache EXCEPT ![r] = c]
      BY <1>4, <2>3 DEF Recorded
    <3> HIDE DEF c
    <3>4. QED
      BY <2>1, <3>2, <3>3 DEF c
  <2>4. CASE frame.type \notin {"state/init", "state/action"}
    BY <1>4, <2>1, <2>4 DEF Recorded
  <2>5. QED
    BY <2>2, <2>3, <2>4
<1>9. ServerTyped'
  BY <1>1, <1>4, <1>6, <1>7, <1>8 DEF ServerTyped
<1>10. NetworkTyped'
  BY <1>1, <1>3, <1>4 DEF NetworkTyped
<1>11. ProgramTyped' /\ PageTyped'
  BY <1>1, <1>4 DEF ProgramTyped, PageTyped, program, page
<1>12. QED
  BY <1>9, <1>10, <1>11 DEF MirrorTyped

\* What marks a run disconnected: one more report, of a run that the registry knows.
LEMMA MarkTyped ==
  ASSUME ServerTyped, NEW r \in Run, MarkedDown(r)
  PROVE  /\ DOMAIN reg' = DOMAIN reg /\ reg' \in [DOMAIN reg -> BOOLEAN] /\ dropping' \in [Run -> Nat]
         /\ \A u \in Run : u # r => dropping'[u] = dropping[u] /\ (u \in DOMAIN reg => reg'[u] = reg[u])
         /\ \/ UNCHANGED <<reg, dropping>> /\ ~(r \in DOMAIN reg /\ reg[r])
            \/ /\ r \in DOMAIN reg /\ reg[r] = TRUE /\ reg'[r] = FALSE
               /\ dropping'[r] = dropping[r] + 1
<1>1. /\ DOMAIN reg \subseteq Run /\ reg \in [DOMAIN reg -> BOOLEAN]
      /\ dropping \in [Run -> Nat] /\ dropping[r] + 1 \in Nat
  BY DEF ServerTyped
<1>2. CASE r \in DOMAIN reg /\ reg[r]
  <2>1. reg' = [reg EXCEPT ![r] = FALSE] /\ dropping' = [dropping EXCEPT ![r] = dropping[r] + 1]
    BY <1>2 DEF MarkedDown
  <2> HIDE DEF MarkedDown
  <2>2. DOMAIN reg' = DOMAIN reg /\ reg' \in [DOMAIN reg -> BOOLEAN] /\ reg'[r] = FALSE /\ reg[r] = TRUE
    BY <1>1, <1>2, <2>1
  <2>3. /\ dropping' \in [Run -> Nat] /\ dropping'[r] = dropping[r] + 1
        /\ \A u \in Run : u # r => dropping'[u] = dropping[u] /\ (u \in DOMAIN reg => reg'[u] = reg[u])
    BY <1>1, <2>1
  <2>4. QED
    BY <1>2, <2>2, <2>3
<1>3. CASE ~(r \in DOMAIN reg /\ reg[r])
  BY <1>1, <1>3 DEF MarkedDown
<1>4. QED
  BY <1>2, <1>3

LEMMA ServerTypes ==
  ASSUME MirrorTyped, NEW r \in Run,
         \/ ServerEnds(r) \/ OldConnectionEnds(r) \/ Sweeps(r)
         \/ ServerEmits(r) \/ DropEmitted(r) \/ ServerForgets(r)
  PROVE  MirrorTyped'
<1>1. ProgramTyped /\ NetworkTyped /\ ServerTyped /\ PageTyped
  BY DEF MirrorTyped
<1>2. ProgramTyped'
  BY <1>1 DEF ServerEnds, OldConnectionEnds, Sweeps, ServerEmits, DropEmitted, ServerForgets,
              program, ProgramTyped
<1>3. CASE ServerEnds(r) \/ OldConnectionEnds(r) \/ Sweeps(r)
  <2>1. NetworkTyped'
    <3>1. CASE ServerEnds(r)
      BY <1>1, <3>1 DEF ServerEnds, NetworkTyped
    <3>2. CASE OldConnectionEnds(r)
      <4>1. unnoticed' = [unnoticed EXCEPT ![r] = @ - 1] /\ unnoticed[r] > 0
        BY <3>2 DEF OldConnectionEnds
      <4>2. unnoticed' \in [Run -> Nat]
        BY <1>1, <4>1 DEF NetworkTyped
      <4>3. QED
        BY <1>1, <3>2, <4>2 DEF OldConnectionEnds, NetworkTyped
    <3>3. CASE Sweeps(r)
      BY <1>1, <3>3 DEF Sweeps, NetworkTyped, network
    <3>4. QED
      BY <1>3, <3>1, <3>2, <3>3
  <2>2. MarkedDown(r) /\ UNCHANGED <<cache, emitting, page>>
    BY <1>3 DEF ServerEnds, OldConnectionEnds, Sweeps
  <2>3. PageTyped'
    BY <1>1, <2>2 DEF PageTyped, page
  <2>4. DOMAIN reg' = DOMAIN reg /\ reg' \in [DOMAIN reg -> BOOLEAN] /\ dropping' \in [Run -> Nat]
    BY <1>1, <2>2, MarkTyped
  <2>5. ServerTyped'
    BY <1>1, <2>2, <2>4 DEF ServerTyped
  <2>6. QED
    BY <1>2, <2>1, <2>3, <2>5 DEF MirrorTyped
<1>4. CASE ServerEmits(r)
  <2> DEFINE q == emitting[r]
  <2>1. q \in Seq(EventSet) /\ q # << >> /\ Len(q) <= 1 /\ \A n \in 1..Len(q) : q[n].run = r
    BY <1>1, <1>4 DEF ServerEmits, ServerTyped
  <2>2. emitting' = [emitting EXCEPT ![r] = Tail(q)] /\ (events' = Append(events, Head(q)) \/ events' = events)
    BY <1>4 DEF ServerEmits
  <2> HIDE DEF q
  <2>3. Head(q) \in EventSet /\ Tail(q) \in Seq(EventSet) /\ Len(Tail(q)) = 0
    <3>1. Head(q) \in EventSet /\ Tail(q) \in Seq(EventSet) /\ Len(Tail(q)) = Len(q) - 1 /\ Len(q) \in Nat
      BY <2>1, HeadTailProperties, LenProperties
    <3>2. Len(Tail(q)) \in Nat
      BY <3>1, LenProperties
    <3>3. QED
      BY <2>1, <3>1, <3>2
  <2>4. events' \in Seq(EventSet)
    <3> DEFINE e == Head(q)
    <3>1. e \in EventSet /\ events \in Seq(EventSet) /\ (events' = Append(events, e) \/ events' = events)
      BY <1>1, <2>2, <2>3 DEF PageTyped
    <3> HIDE DEF e
    <3>2. QED
      BY <3>1, AppendProperties
  <2>5. PageTyped'
    BY <1>1, <1>4, <2>4 DEF ServerEmits, PageTyped
  <2>6. ServerTyped'
    <3>1. emitting' \in [Run -> Seq(EventSet)]
      BY <1>1, <2>2, <2>3 DEF ServerTyped
    <3>2. ASSUME NEW u \in Run
          PROVE  Len(emitting'[u]) <= 1 /\ \A n \in 1..Len(emitting'[u]) : emitting'[u][n].run = u
      <4>1. CASE u = r
        <5>1. emitting'[u] = Tail(q)
          BY <1>1, <2>2, <4>1 DEF ServerTyped
        <5>2. QED
          BY <2>3, <5>1
      <4>2. CASE u # r
        BY <1>1, <2>2, <4>2 DEF ServerTyped
      <4>3. QED
        BY <4>1, <4>2
    <3>3. UNCHANGED <<reg, cache, dropping>>
      BY <1>4 DEF ServerEmits
    <3>4. QED
      BY <1>1, <3>1, <3>2, <3>3 DEF ServerTyped
  <2>7. NetworkTyped'
    BY <1>1, <1>4 DEF ServerEmits, NetworkTyped, network
  <2>8. QED
    BY <1>2, <2>5, <2>6, <2>7 DEF MirrorTyped
<1>5. CASE ServerForgets(r)
  <2>1. NetworkTyped' /\ PageTyped'
    BY <1>1, <1>5 DEF ServerForgets, NetworkTyped, network, PageTyped, page
  <2>2. EmptyCache \in CachedSet
    BY DEF EmptyCache, CachedSet
  <2>3. /\ reg' = Without(reg, {r}) /\ cache' = [cache EXCEPT ![r] = EmptyCache]
        /\ emitting' = emitting /\ dropping' = dropping
    BY <1>5 DEF ServerForgets
  <2>4. DOMAIN reg' \subseteq Run /\ reg' \in [DOMAIN reg' -> BOOLEAN]
    BY <1>1, <2>3 DEF Without, ServerTyped
  <2>5. cache' \in [Run -> CachedSet]
    BY <1>1, <2>2, <2>3 DEF ServerTyped
  <2>6. ServerTyped'
    BY <1>1, <2>3, <2>4, <2>5 DEF ServerTyped
  <2>7. QED
    BY <1>2, <2>1, <2>6 DEF MirrorTyped
<1>6. CASE DropEmitted(r)
  <2>1. /\ dropping' = [dropping EXCEPT ![r] = @ - 1] /\ dropping[r] > 0
        /\ events' = Append(events, Disconnected(r)) \/ events' = events
        /\ UNCHANGED <<network, reg, cache, emitting, listed, fetches, pill, data, reloads>>
    BY <1>6 DEF DropEmitted
  <2>2. Disconnected(r) \in EventSet
    BY DEF Disconnected, EventSet
  <2>3. events' \in Seq(EventSet)
    BY <1>1, <2>1, <2>2, AppendProperties DEF PageTyped
  <2>4. PageTyped' /\ NetworkTyped'
    BY <1>1, <2>1, <2>3 DEF PageTyped, NetworkTyped, network
  <2>5. dropping' \in [Run -> Nat]
    BY <1>1, <2>1 DEF ServerTyped
  <2>6. ServerTyped'
    BY <1>1, <2>1, <2>5 DEF ServerTyped
  <2>7. QED
    BY <1>2, <2>4, <2>6 DEF MirrorTyped
<1>7. QED
  BY <1>3, <1>4, <1>5, <1>6

LEMMA ListTypes ==
  ASSUME MirrorTyped, ServerLists \/ ListArrives
  PROVE  MirrorTyped'
<1> DEFINE RunState == [run : Run, connected : BOOLEAN]
<1>1. ProgramTyped /\ NetworkTyped /\ ServerTyped /\ PageTyped
  BY DEF MirrorTyped
<1>2. ProgramTyped' /\ NetworkTyped' /\ ServerTyped'
  BY <1>1 DEF ServerLists, ListArrives, program, network, server, ProgramTyped, NetworkTyped, ServerTyped
<1>3. CASE ServerLists
  <2>1. PICK order \in SetToSeqs(DOMAIN reg) :
          listed' = [i \in DOMAIN order |-> [run |-> order[i], connected |-> reg[order[i]]]]
    BY <1>3 DEF ServerLists
  <2> DEFINE n == Cardinality(DOMAIN reg)
  <2>2. n \in Nat
    <3>1. IsFiniteSet(Run)
      BY RunAssumption, FS_Interval DEF Run
    <3>2. IsFiniteSet(DOMAIN reg)
      BY <1>1, <3>1, FS_Subset DEF ServerTyped
    <3>3. QED
      BY <3>2, FS_CardinalityType
  <2>3. DOMAIN order = 1..n /\ \A i \in 1..n : order[i] \in DOMAIN reg
    BY <2>1 DEF SetToSeqs
  <2> HIDE DEF n
  <2>4. \A i \in 1..n : [run |-> order[i], connected |-> reg[order[i]]] \in RunState
    BY <1>1, <2>3 DEF ServerTyped
  <2> HIDE DEF RunState
  <2>5. listed' \in [1..n -> RunState]
    BY <2>1, <2>3, <2>4
  <2>6. listed' \in Seq(RunState)
    BY <2>2, <2>5, SeqDef
  <2>7. PageTyped'
    BY <1>1, <1>3, <2>6 DEF ServerLists, PageTyped, RunState
  <2>8. QED
    BY <1>2, <2>7 DEF MirrorTyped
<1>4. CASE ListArrives
  <2> DEFINE ui == [pill |-> pill, data |-> data]
             next == Upserts(ui, listed)
             more == [i \in DOMAIN listed |-> Fetch(listed[i].run, "list")]
  <2>1. listed \in Seq(RunState) /\ fetches \in Seq(FetchSet) /\ UiTyped(ui)
    BY <1>1 DEF PageTyped, UiTyped, DataTyped
  <2>2. /\ pill' = next.pill /\ data' = next.data /\ fetches' = fetches \o more /\ listed' = << >>
        /\ UNCHANGED <<events, reloads>>
    BY <1>4 DEF ListArrives
  <2>3. more \in Seq(FetchSet)
    <3>1. EmptyCache \in CachedSet
      BY DEF EmptyCache, CachedSet
    <3>2. \A r \in Run : Fetch(r, "list") \in FetchSet
      BY <3>1 DEF Fetch, FetchSet
    <3> DEFINE n == Len(listed)
    <3>3. n \in Nat /\ DOMAIN listed = 1..n
      BY <2>1, LenProperties
    <3>4. \A i \in 1..n : listed[i] \in RunState
      BY <2>1, ElementOfSeq
    <3> HIDE DEF n
    <3>5. \A i \in 1..n : Fetch(listed[i].run, "list") \in FetchSet
      BY <3>2, <3>4
    <3>6. more \in [1..n -> FetchSet]
      BY <3>3, <3>5
    <3>7. QED
      BY <3>3, <3>6, SeqDef
  <2> HIDE DEF ui, more
  <2>4. UiTyped(next)
    BY <2>1, UpsertsTyped
  <2> HIDE DEF next
  <2>5. fetches' \in Seq(FetchSet)
    BY <2>1, <2>2, <2>3, ConcatProperties
  <2>6. DOMAIN pill' \subseteq Run /\ DOMAIN data' \subseteq Run /\ data' \in [DOMAIN data' -> StateSet]
    BY <2>2, <2>4 DEF UiTyped, DataTyped
  <2>7. listed' \in Seq(RunState)
    BY <2>2, EmptySeq
  <2>8. PageTyped'
    BY <1>1, <2>2, <2>5, <2>6, <2>7 DEF PageTyped
  <2>9. QED
    BY <1>2, <2>8 DEF MirrorTyped
<1>5. QED
  BY <1>3, <1>4

LEMMA FetchTypes ==
  ASSUME MirrorTyped, NEW i \in DOMAIN fetches, ServerFetches(i) \/ FetchArrives(i)
  PROVE  MirrorTyped'
<1>1. ProgramTyped /\ NetworkTyped /\ ServerTyped /\ PageTyped
  BY DEF MirrorTyped
<1>2. ProgramTyped' /\ NetworkTyped' /\ ServerTyped'
  BY <1>1 DEF ServerFetches, FetchArrives, program, network, server, ProgramTyped, NetworkTyped, ServerTyped
<1>3. fetches \in Seq(FetchSet) /\ fetches[i] \in FetchSet
  BY <1>1, ElementOfSeq, LenProperties DEF PageTyped
<1>4. CASE ServerFetches(i)
  <2> DEFINE new == [fetches[i] EXCEPT !.answered = TRUE, !.found = cache[fetches[i].run]]
  <2>1. fetches' = [fetches EXCEPT ![i] = new]
    BY <1>4 DEF ServerFetches
  <2>2. new \in FetchSet
    BY <1>1, <1>3 DEF FetchSet, ServerTyped
  <2> HIDE DEF new
  <2>3. fetches' \in Seq(FetchSet)
    BY <1>3, <2>1, <2>2
  <2>4. PageTyped'
    BY <1>1, <1>4, <2>3 DEF ServerFetches, PageTyped
  <2>5. QED
    BY <1>2, <2>4 DEF MirrorTyped
<1>5. CASE FetchArrives(i)
  <2>1. fetches' \in Seq(FetchSet)
    BY <1>3, <1>5, RemoveAtTyped DEF FetchArrives
  <2>2. fetches[i].run \in Run /\ fetches[i].found \in CachedSet
    BY <1>3 DEF FetchSet
  <2>3. DataTyped(data')
    BY <1>1, <1>5, <2>2, HydratedTyped DEF FetchArrives, PageTyped, DataTyped
  <2>4. PageTyped'
    BY <1>1, <1>5, <2>1, <2>3 DEF FetchArrives, PageTyped, DataTyped
  <2>5. QED
    BY <1>2, <2>4 DEF MirrorTyped
<1>6. QED
  BY <1>4, <1>5

LEMMA EventTypes ==
  ASSUME MirrorTyped, EventArrives
  PROVE  MirrorTyped'
<1> DEFINE e == Head(events)
<1>1. ProgramTyped /\ NetworkTyped /\ ServerTyped /\ PageTyped
  BY DEF MirrorTyped
<1>2. ProgramTyped' /\ NetworkTyped' /\ ServerTyped'
  BY <1>1 DEF EventArrives, program, network, server, ProgramTyped, NetworkTyped, ServerTyped
<1>3. events \in Seq(EventSet) /\ events # << >> /\ events' = Tail(events)
  BY <1>1 DEF EventArrives, PageTyped
<1>4. e \in EventSet /\ events' \in Seq(EventSet)
  BY <1>3, HeadTailProperties
<1>5. /\ \/ e.kind = "connected" /\ AppConnected(e.run)
         \/ e.kind = "disconnected" /\ AppDisconnected(e.run)
         \/ e.kind = "message" /\ EnvelopeArrives(e.run, e.frame)
      /\ listed' = listed /\ reloads' = reloads
  BY DEF EventArrives
<1> HIDE DEF e
<1>6. e.run \in Run /\ (e.kind = "message" => e.frame \in FrameSet)
  BY <1>4 DEF EventSet
<1>7. DataTyped(data) /\ fetches \in Seq(FetchSet) /\ DOMAIN pill \subseteq Run
  BY <1>1 DEF PageTyped, DataTyped
<1>8. fetches' \in Seq(FetchSet) /\ DOMAIN pill' \subseteq Run /\ DataTyped(data')
  <2>1. CASE AppConnected(e.run)
    <3> DEFINE ui == [pill |-> pill, data |-> data]
               app == [run |-> e.run, connected |-> TRUE]
               next == Upserted(ui, app)
               call == Fetch(e.run, "event")
    <3>1. pill' = next.pill /\ data' = next.data /\ fetches' = Append(fetches, call)
      BY <2>1 DEF AppConnected
    <3>2. UiTyped(ui) /\ app.run \in Run
      BY <1>6, <1>7 DEF UiTyped
    <3>3. call \in FetchSet
      BY <1>6 DEF Fetch, FetchSet, EmptyCache, CachedSet
    <3> HIDE DEF ui, app, call
    <3>4. UiTyped(next)
      BY <3>2, UpsertedTyped
    <3> HIDE DEF next
    <3>5. fetches' \in Seq(FetchSet)
      BY <1>7, <3>1, <3>3, AppendProperties
    <3>6. QED
      BY <3>1, <3>4, <3>5 DEF UiTyped
  <2>2. CASE AppDisconnected(e.run)
    BY <1>6, <1>7, <2>2 DEF AppDisconnected, With
  <2>3. CASE e.kind = "message" /\ EnvelopeArrives(e.run, e.frame)
    <3>1. DataTyped(data')
      BY <1>6, <1>7, <2>3, AppliedTyped DEF EnvelopeArrives
    <3>2. QED
      BY <1>7, <2>3, <3>1 DEF EnvelopeArrives
  <2>4. QED
    BY <1>5, <2>1, <2>2, <2>3
<1>9. PageTyped'
  BY <1>1, <1>4, <1>5, <1>8 DEF PageTyped, DataTyped
<1>10. QED
  BY <1>2, <1>9 DEF MirrorTyped

LEMMA PageTypes ==
  ASSUME MirrorTyped, NEW r \in Run, NEW k, Listens(k) \/ PageReloads \/ UserForgets(r)
  PROVE  MirrorTyped'
<1>1. ProgramTyped /\ NetworkTyped /\ ServerTyped /\ PageTyped
  BY DEF MirrorTyped
<1>2. ProgramTyped' /\ NetworkTyped' /\ ServerTyped'
  BY <1>1 DEF Listens, PageReloads, UserForgets, program, network, server, ProgramTyped, NetworkTyped, ServerTyped
<1>3. CASE Listens(k)
  BY <1>1, <1>2, <1>3 DEF Listens, PageTyped, MirrorTyped
<1>4. CASE PageReloads
  <2>1. (\A S : << >> \in Seq(S)) /\ reloads' \in Nat
    BY <1>1, <1>4 DEF PageReloads, PageTyped
  <2>2. PageTyped'
    BY <1>4, <2>1 DEF PageReloads, PageTyped
  <2>3. QED
    BY <1>2, <2>2 DEF MirrorTyped
<1>5. CASE UserForgets(r)
  <2>1. PageTyped'
    BY <1>1, <1>5 DEF UserForgets, PageTyped, Without
  <2>2. QED
    BY <1>2, <2>1 DEF MirrorTyped
<1>6. QED
  BY <1>3, <1>4, <1>5

LEMMA StutterTypes ==
  ASSUME MirrorTyped, UNCHANGED vars
  PROVE  MirrorTyped'
BY DEF vars, program, network, server, page, MirrorTyped, ProgramTyped, NetworkTyped, ServerTyped, PageTyped

LEMMA MirrorTypedStep == MirrorTyped /\ [Next]_vars => MirrorTyped'
<1> SUFFICES ASSUME MirrorTyped, [Next]_vars
             PROVE  MirrorTyped'
  OBVIOUS
<1>1. 1 \in Run
  BY RunAssumption DEF Run
<1>2. QED
  BY <1>1, AppTypes, LinkTypes, ReadTypes, ServerTypes, ListTypes, FetchTypes, EventTypes, PageTypes,
     StutterTypes DEF Next

\* The page, the server, the network and the application keep their types, for any number of
\* runs, stores and fields; a connection has at most one event of its own run to emit.
THEOREM WellTyped == Spec => []MirrorTyped
<1>1. MirrorTyped /\ [Next]_vars => MirrorTyped'
  BY MirrorTypedStep
<1>2. QED
  BY <1>1, MirrorTypedInit, PTL DEF Spec

-----------------------------------------------------------------------------
(* The connection: nothing is on a wire that has been closed, what waits in  *)
(* the queue waits for a connection, and a run that has not started has sent *)
(* nothing and is not known.                                                 *)

WireInv ==
  \A r \in Run :
    /\ link[r] = "none" => wire[r] = << >>
    /\ link[r] = "up" => backlog[r] = << >>
    /\ r > now => /\ link[r] = "none" /\ backlog[r] = << >> /\ emitting[r] = << >>
                  /\ r \notin greeting /\ value[r] = NoStores
                  /\ r \notin DOMAIN reg /\ dropping[r] = 0

LEMMA WireInvInit == Init => WireInv
BY RunAssumption DEF Init, WireInv, Run

LEMMA WireInvStep ==
  ASSUME MirrorTyped, WireInv, [Next]_vars
  PROVE  WireInv'
<1>1. /\ now \in Run /\ (\A r \in Run : r \in Nat)
      /\ backlog \in [Run -> Seq(FrameSet)] /\ wire \in [Run -> Seq(FrameSet)]
      /\ link \in [Run -> {"none", "up", "cut"}] /\ emitting \in [Run -> Seq(EventSet)]
      /\ value \in [Run -> StateSet] /\ NetworkTyped /\ ServerTyped /\ dropping \in [Run -> Nat]
  <2>1. \A r \in Run : r \in Nat
    BY DEF Run
  <2>2. QED
    BY <2>1 DEF MirrorTyped, ProgramTyped, NetworkTyped, ServerTyped
<1>2. CASE UNCHANGED <<now, value, link, backlog, greeting, wire, reg, emitting, dropping>>
  BY <1>2 DEF WireInv
<1>3. ASSUME NEW s, HeartbeatSent \/ (s \in Store /\ (StoreAttached(s) \/ \E f \in Field : StoreWritten(s, f)))
      PROVE  WireInv'
  <2>1. /\ UNCHANGED <<now, link, greeting, reg, emitting, dropping>>
        /\ \E frame : Sends(now, frame)
        /\ \A r \in Run : r # now => value'[r] = value[r]
    BY <1>1, <1>3 DEF StoreAttached, StoreWritten, HeartbeatSent, server
  <2>2. PICK frame : Sends(now, frame)
    BY <2>1
  <2>3. /\ \A r \in Run : r # now => wire'[r] = wire[r] /\ backlog'[r] = backlog[r]
        /\ link[now] = "up" => backlog' = backlog
        /\ link[now] # "up" => wire' = wire
    BY <1>1, <2>2 DEF Sends
  <2>4. QED
    BY <1>1, <2>1, <2>3 DEF WireInv
<1>4. ASSUME NEW r \in Run, LinkOpens(r)
      PROVE  WireInv'
  BY <1>1, <1>4 DEF LinkOpens, program, server, WireInv
<1>5. ASSUME NEW r \in Run, HelloSent(r)
      PROVE  WireInv'
  <2>1. /\ UNCHANGED <<now, value, link, reg, emitting, dropping>> /\ greeting' = greeting \ {r} /\ r \in greeting
        /\ \A u \in Run : u # r => wire'[u] = wire[u] /\ backlog'[u] = backlog[u]
        /\ link[r] = "up" => backlog' = backlog
        /\ link[r] # "up" => wire' = wire
    BY <1>1, <1>5 DEF HelloSent, Sends, program, server
  <2>2. QED
    BY <1>1, <2>1 DEF WireInv
<1>6. ASSUME NEW r \in Run, Cut(r), link[r] = "none" => wire[r] = << >>
      PROVE  /\ link' \in [Run -> {"none", "up", "cut"}]
             /\ \A u \in Run : u # r => link'[u] = link[u] /\ wire'[u] = wire[u]
             /\ link'[r] = IF link[r] = "up" THEN "cut" ELSE link[r]
             /\ link'[r] = "none" => wire'[r] = << >>
  <2>1. /\ link' \in [Run -> {"none", "up", "cut"}] /\ wire' \in [Run -> Seq(FrameSet)]
        /\ \A u \in Run : u # r => link'[u] = link[u] /\ wire'[u] = wire[u]
        /\ link'[r] = IF link[r] = "up" THEN "cut" ELSE link[r]
        /\ Len(wire'[r]) <= Len(wire[r])
    BY <1>1, <1>6, CutTyped
  <2>2. link[r] = "none" => Len(wire'[r]) = 0
    <3>1. Len(wire'[r]) \in Nat
      BY <2>1, LenProperties
    <3>2. QED
      BY <1>6, <2>1, <3>1
  <2>3. Len(wire'[r]) = 0 => wire'[r] = << >>
    BY <2>1, EmptySeq
  <2>4. QED
    BY <2>1, <2>2, <2>3
<1>7. ASSUME NEW r \in Run, LinkBreaks(r)
      PROVE  WireInv'
  <2>1. Cut(r) /\ link[r] = "up" /\ UNCHANGED <<now, value, backlog, greeting, reg, emitting, dropping>>
    BY <1>7 DEF LinkBreaks, program, server
  <2>2. QED
    BY <1>1, <1>6, <2>1 DEF WireInv
<1>8. CASE AppRestarts
  <2>1. /\ Cut(now) /\ now' = now + 1 /\ UNCHANGED <<value, reg, emitting, dropping>>
        /\ backlog' = [backlog EXCEPT ![now] = << >>] /\ greeting' = greeting \ {now}
    BY <1>8 DEF AppRestarts, server
  <2>2. QED
    BY <1>1, <1>6, <2>1 DEF WireInv
<1>9. ASSUME NEW r \in Run, ServerReads(r)
      PROVE  WireInv'
  <2>1. /\ UNCHANGED <<now, value, link, backlog, greeting, dropping>> /\ wire[r] # << >>
        /\ \A u \in Run : u # r => wire'[u] = wire[u] /\ emitting'[u] = emitting[u]
        /\ DOMAIN reg' \subseteq DOMAIN reg \cup {r}
    BY <1>1, <1>9 DEF ServerReads, Recorded, With, program
  <2>2. QED
    BY <1>1, <2>1 DEF WireInv
<1>10. ASSUME NEW r \in Run, ServerEnds(r)
       PROVE  WireInv'
  <2>1. /\ UNCHANGED <<now, value, backlog, greeting, wire>> /\ wire[r] = << >> /\ link[r] = "cut" /\ link'[r] = "none"
        /\ \A u \in Run : u # r => link'[u] = link[u] /\ emitting'[u] = emitting[u]
        /\ MarkedDown(r)
    BY <1>1, <1>10 DEF ServerEnds, program
  <2>2. /\ DOMAIN reg' = DOMAIN reg
        /\ \A u \in Run : u # r => dropping'[u] = dropping[u]
    BY <1>1, <2>1, MarkTyped
  <2>3. QED
    BY <1>1, <2>1, <2>2 DEF WireInv
<1>11. ASSUME NEW r \in Run, ServerEmits(r)
       PROVE  WireInv'
  <2>1. /\ UNCHANGED <<program, network, reg, dropping>> /\ emitting[r] # << >>
        /\ \A u \in Run : u # r => emitting'[u] = emitting[u]
    BY <1>1, <1>11 DEF ServerEmits
  <2>2. QED
    BY <1>1, <2>1 DEF WireInv, program, network
<1>12. ASSUME NEW r, NEW k, NEW i,
              \/ UserForgets(r) \/ ServerLists \/ ListArrives
              \/ ServerFetches(i) \/ FetchArrives(i) \/ Listens(k) \/ EventArrives \/ PageReloads
       PROVE  WireInv'
  <2>1. UNCHANGED <<now, value, link, backlog, greeting, wire, reg, emitting, dropping>>
    BY <1>12 DEF UserForgets, ServerLists, ListArrives, ServerFetches, FetchArrives,
                 Listens, EventArrives, PageReloads, program, network, server
  <2>2. QED
    BY <1>2, <2>1
<1>13. ASSUME NEW r \in Run, OldConnectionEnds(r) \/ Sweeps(r)
       PROVE  WireInv'
  <2>1. UNCHANGED <<now, value, link, backlog, greeting, wire, emitting>> /\ MarkedDown(r)
    BY <1>13 DEF OldConnectionEnds, Sweeps, program, network
  <2>2. /\ DOMAIN reg' = DOMAIN reg
        /\ \A u \in Run : dropping'[u] = dropping[u] \/ (u = r /\ r \in DOMAIN reg)
    BY <1>1, <2>1, MarkTyped
  <2>3. QED
    BY <1>1, <2>1, <2>2 DEF WireInv
<1>14. ASSUME NEW r \in Run, DropEmitted(r)
       PROVE  WireInv'
  <2>1. /\ UNCHANGED <<now, value, link, backlog, greeting, wire, reg, emitting>> /\ dropping[r] > 0
        /\ \A u \in Run : u # r => dropping'[u] = dropping[u]
    BY <1>1, <1>14 DEF DropEmitted, program, network
  <2>2. dropping[r] # 0
    BY <2>1
  <2>3. QED
    BY <1>1, <2>1, <2>2 DEF WireInv
<1>15. ASSUME NEW r \in Run, ServerForgets(r)
       PROVE  WireInv'
  <2>1. /\ UNCHANGED <<now, value, link, backlog, greeting, wire, emitting, dropping>>
        /\ DOMAIN reg' \subseteq DOMAIN reg
    BY <1>15 DEF ServerForgets, Without, program, network
  <2>2. QED
    BY <1>1, <2>1 DEF WireInv
<1>16. CASE UNCHANGED vars
  <2>1. UNCHANGED <<now, value, link, backlog, greeting, wire, reg, emitting, dropping>>
    BY <1>16 DEF vars, program, network, server
  <2>2. QED
    BY <1>2, <2>1
<1>17. QED
  BY <1>3, <1>4, <1>5, <1>7, <1>8, <1>9, <1>10, <1>11, <1>12, <1>13, <1>14, <1>15, <1>16 DEF Next

-----------------------------------------------------------------------------
(* Queues: whether one holds a member of a set, and which is the last one    *)

NoneIn(q, M) == \A k \in 1..Len(q) : q[k] \notin M

LastIn(q, M, e) ==
  e \in M /\ \E k \in 1..Len(q) : q[k] = e /\ \A m \in k + 1..Len(q) : q[m] \notin M

LEMMA QueueEmpty ==
  ASSUME NEW M
  PROVE  NoneIn(<< >>, M) /\ \A e : ~LastIn(<< >>, M, e)
BY DEF NoneIn, LastIn

LEMMA QueueOne ==
  ASSUME NEW M, NEW x
  PROVE  /\ NoneIn(<<x>>, M) <=> x \notin M
         /\ \A e : LastIn(<<x>>, M, e) <=> x \in M /\ e = x
BY DEF NoneIn, LastIn

LEMMA QueueLast ==
  ASSUME NEW q, NEW M, NEW e, LastIn(q, M, e)
  PROVE  ~NoneIn(q, M) /\ e \in M
BY DEF NoneIn, LastIn

LEMMA QueueAppend ==
  ASSUME NEW S, NEW q \in Seq(S), NEW x \in S, NEW M
  PROVE  /\ NoneIn(Append(q, x), M) <=> x \notin M /\ NoneIn(q, M)
         /\ \A e : LastIn(Append(q, x), M, e) <=> \/ x \in M /\ e = x
                                                  \/ x \notin M /\ LastIn(q, M, e)
<1> DEFINE p == Append(q, x)
           n == Len(q)
<1>1. /\ n \in Nat /\ Len(p) = n + 1 /\ p[n + 1] = x
      /\ \A i \in 1..n : p[i] = q[i]
  BY AppendProperties, LenProperties
<1> HIDE DEF p
<1>2. NoneIn(p, M) <=> x \notin M /\ NoneIn(q, M)
  <2> HIDE DEF n
  <2>1. 1..n + 1 = 1..n \cup {n + 1}
    BY <1>1
  <2>2. QED
    BY <1>1, <2>1 DEF NoneIn, n
<1>3. ASSUME NEW e, LastIn(p, M, e)
      PROVE  (x \in M /\ e = x) \/ (x \notin M /\ LastIn(q, M, e))
  <2>1. PICK k \in 1..n + 1 : e \in M /\ p[k] = e /\ \A m \in k + 1..n + 1 : p[m] \notin M
    BY <1>1, <1>3 DEF LastIn
  <2>2. CASE k = n + 1
    BY <1>1, <2>1, <2>2
  <2>3. CASE k # n + 1
    <3>1. k \in 1..n /\ n + 1 \in k + 1..n + 1 /\ \A m \in k + 1..n : m \in k + 1..n + 1 /\ m \in 1..n
      BY <1>1, <2>3
    <3>2. QED
      BY <1>1, <2>1, <3>1 DEF LastIn
  <2>4. QED
    BY <2>2, <2>3
<1>4. ASSUME x \in M
      PROVE  LastIn(p, M, x)
  <2>1. n + 1 \in 1..n + 1 /\ \A m \in (n + 1) + 1..n + 1 : FALSE
    BY <1>1
  <2>2. QED
    BY <1>1, <1>4, <2>1 DEF LastIn
<1>5. ASSUME NEW e, x \notin M, LastIn(q, M, e)
      PROVE  LastIn(p, M, e)
  <2>1. PICK k \in 1..n : e \in M /\ q[k] = e /\ \A m \in k + 1..n : q[m] \notin M
    BY <1>5 DEF LastIn
  <2>2. k \in 1..n + 1 /\ \A m \in k + 1..n + 1 : m = n + 1 \/ (m \in k + 1..n /\ m \in 1..n)
    BY <1>1
  <2>3. \A m \in k + 1..n + 1 : p[m] \notin M
    BY <1>1, <1>5, <2>1, <2>2
  <2>4. QED
    BY <1>1, <2>1, <2>2, <2>3 DEF LastIn
<1>6. QED
  BY <1>2, <1>3, <1>4, <1>5 DEF p

LEMMA QueueTail ==
  ASSUME NEW S, NEW q \in Seq(S), q # << >>, NEW M
  PROVE  /\ NoneIn(q, M) <=> Head(q) \notin M /\ NoneIn(Tail(q), M)
         /\ \A e : LastIn(q, M, e) <=> \/ LastIn(Tail(q), M, e)
                                       \/ NoneIn(Tail(q), M) /\ Head(q) \in M /\ e = Head(q)
<1> DEFINE t == Tail(q)
           h == Head(q)
           n == Len(t)
<1>1. /\ n \in Nat /\ Len(q) = n + 1 /\ q[1] = h
      /\ \A i \in 1..n : t[i] = q[i + 1]
  BY HeadTailProperties, LenProperties
<1> HIDE DEF t, h
<1>2. \A j \in 1..n + 1 : j = 1 \/ (j - 1 \in 1..n /\ q[j] = t[j - 1])
  BY <1>1
<1>3. \A i \in 1..n : i + 1 \in 1..n + 1
  BY <1>1
<1>4. NoneIn(q, M) <=> h \notin M /\ NoneIn(t, M)
  BY <1>1, <1>2, <1>3 DEF NoneIn
<1>5. ASSUME NEW e, LastIn(q, M, e)
      PROVE  LastIn(t, M, e) \/ (NoneIn(t, M) /\ h \in M /\ e = h)
  <2>1. PICK k \in 1..n + 1 : e \in M /\ q[k] = e /\ \A m \in k + 1..n + 1 : q[m] \notin M
    BY <1>1, <1>5 DEF LastIn
  <2>2. CASE k = 1
    <3>1. \A i \in 1..n : i + 1 \in k + 1..n + 1
      BY <1>1, <2>2
    <3>2. QED
      BY <1>1, <2>1, <2>2, <3>1 DEF NoneIn
  <2>3. CASE k # 1
    <3> DEFINE j == k - 1
    <3>1. j \in 1..n /\ k = j + 1 /\ \A m \in j + 1..n : m \in 1..n /\ m + 1 \in k + 1..n + 1
      BY <1>1, <2>3
    <3> HIDE DEF j
    <3>2. t[j] = e /\ \A m \in j + 1..n : t[m] \notin M
      BY <1>1, <2>1, <3>1
    <3>3. QED
      BY <2>1, <3>1, <3>2 DEF LastIn
  <2>4. QED
    BY <2>2, <2>3
<1>6. ASSUME NEW e, LastIn(t, M, e)
      PROVE  LastIn(q, M, e)
  <2>1. PICK j \in 1..n : e \in M /\ t[j] = e /\ \A m \in j + 1..n : t[m] \notin M
    BY <1>6 DEF LastIn
  <2> DEFINE k == j + 1
  <2>2. k \in 1..n + 1 /\ \A m \in k + 1..n + 1 : m - 1 \in j + 1..n /\ m \in 1..n + 1 /\ m # 1
    BY <1>1
  <2>3. q[k] = e
    BY <1>1, <2>1
  <2> HIDE DEF k
  <2>4. \A m \in k + 1..n + 1 : q[m] \notin M
    BY <1>2, <2>1, <2>2
  <2>5. QED
    BY <1>1, <2>1, <2>2, <2>3, <2>4 DEF LastIn
<1>7. ASSUME NoneIn(t, M), h \in M
      PROVE  LastIn(q, M, h)
  <2>1. 1 \in 1..n + 1 /\ \A m \in 1 + 1..n + 1 : m - 1 \in 1..n /\ m \in 1..n + 1 /\ m # 1
    BY <1>1
  <2>2. \A m \in 1 + 1..n + 1 : q[m] \notin M
    BY <1>2, <1>7, <2>1 DEF NoneIn
  <2>3. QED
    BY <1>1, <1>7, <2>1, <2>2 DEF LastIn
<1>8. QED
  BY <1>4, <1>5, <1>6, <1>7 DEF t, h

-----------------------------------------------------------------------------
(* The dot of a run that was announced                                       *)

News(r) == {Connected(r), Disconnected(r)}

\* A report that a run is connected, or no longer, is right; or it says "no longer" of a run
\* that a frame other than a hello marked connected again.
Fits(r, c) == IF c THEN reg[r] ELSE reg[r] => r \in muted

\* The server has yet to emit a report about the run.
Pending(r) == Rising(r) \/ dropping[r] > 0

\* The last report is right, wherever it is: yet to be emitted, among the events, or shown.
NewsOf(r) ==
  /\ Rising(r) => dropping[r] = 0
  /\ r \in DOMAIN reg =>
       /\ Rising(r) => Fits(r, TRUE)
       /\ dropping[r] > 0 => Fits(r, FALSE)
       /\ (r \notin missed /\ ~Pending(r)) =>
            \A e : LastIn(events, News(r), e) => Fits(r, e.kind = "connected")
       /\ (r \in met \ missed /\ r \in DOMAIN pill /\ ~Pending(r) /\ NoneIn(events, News(r))) =>
            Fits(r, pill[r])

NewsInv ==
  /\ \A r \in Run \ raced : NewsOf(r)
  /\ \A r \in Run : emitting[r] # << >> => Head(emitting[r]).kind # "disconnected"
  /\ listing # "done" => met = {}

LEMMA NewsInvInit == HiInit => NewsInv
BY DEF HiInit, Init, NewsInv, NewsOf, Rising

LEMMA NewsIs ==
  ASSUME NEW r, NEW e \in EventSet
  PROVE  /\ e \in News(r) <=> e.run = r /\ e.kind # "message"
         /\ e.kind = "connected" => e = Connected(e.run)
         /\ e.kind = "disconnected" => e = Disconnected(e.run)
BY DEF News, EventSet, Connected, Disconnected

\* What the history is after a step that is not a reload.
LEMMA HistoryMoves ==
  ASSUME Remembered, reloads \in Nat, reloads' = reloads
  PROVE  /\ missed' = missed \cup Unheard
         /\ met' \subseteq met \cup IF listing = "done" THEN Announced ELSE {}
         /\ Flagged
BY DEF Remembered, Reloaded

FlagsMove == Flagged \/ UNCHANGED <<muted, raced>>

\* A step that reports nothing new of a run leaves what is known of its reports.
LEMMA FlagsStay ==
  ASSUME FlagsMove, NEW r \in Run, Rising(r)' => Rising(r), ~(dropping'[r] > dropping[r])
  PROVE  (r \in muted => r \in muted') /\ (r \in raced => r \in raced')
<1>1. r \notin Raised /\ r \notin Lowered
  BY DEF Raised, Lowered
<1>2. QED
  BY <1>1 DEF FlagsMove, Flagged

\* A step that leaves what is said and shown of a run as it was, and what is right of it right.
LEMMA NewsCarried ==
  ASSUME NEW r \in Run, NewsOf(r),
         Rising(r)' <=> Rising(r), dropping'[r] = dropping[r],
         r \in DOMAIN reg' => r \in DOMAIN reg,
         r \in DOMAIN reg' => \A c : Fits(r, c) => Fits(r, c)',
         missed \subseteq missed',
         NoneIn(events', News(r)) => NoneIn(events, News(r)),
         \A e : LastIn(events', News(r), e) => LastIn(events, News(r), e),
         r \in met' /\ r \in DOMAIN pill' => r \in met /\ r \in DOMAIN pill /\ pill'[r] = pill[r]
  PROVE  NewsOf(r)'
<1>1. (Rising(r) => dropping[r] = 0)'
  BY DEF NewsOf
<1>2. Pending(r)' <=> Pending(r)
  BY DEF Pending
<1> SUFFICES ASSUME r \in DOMAIN reg'
             PROVE  NewsOf(r)'
  BY <1>1 DEF NewsOf
<1>3. /\ r \in DOMAIN reg
      /\ Rising(r) => Fits(r, TRUE)
      /\ dropping[r] > 0 => Fits(r, FALSE)
      /\ (r \notin missed /\ ~Pending(r)) =>
           \A e : LastIn(events, News(r), e) => Fits(r, e.kind = "connected")
      /\ (r \in met \ missed /\ r \in DOMAIN pill /\ ~Pending(r) /\ NoneIn(events, News(r))) =>
           Fits(r, pill[r])
  BY DEF NewsOf
<1>4. (Rising(r) => Fits(r, TRUE))' /\ (dropping[r] > 0 => Fits(r, FALSE))'
  BY <1>3
<1>5. (r \notin missed' /\ ~Pending(r)') =>
        \A e : LastIn(events', News(r), e) => Fits(r, e.kind = "connected")'
  BY <1>2, <1>3
<1>6. (r \in met' \ missed' /\ r \in DOMAIN pill' /\ ~Pending(r)' /\ NoneIn(events', News(r))) =>
        Fits(r, pill[r])'
  BY <1>2, <1>3
<1>7. QED
  BY <1>1, <1>4, <1>5, <1>6 DEF NewsOf

\* A step that concerns other runs.
LEMMA NewsStays ==
  ASSUME MirrorTyped, NewsInv, FlagsMove, NEW r \in Run, r \notin raced',
         emitting'[r] = emitting[r], dropping'[r] = dropping[r],
         r \in DOMAIN reg' => r \in DOMAIN reg /\ reg'[r] = reg[r],
         missed \subseteq missed',
         NoneIn(events', News(r)) => NoneIn(events, News(r)),
         \A e : LastIn(events', News(r), e) => LastIn(events, News(r), e),
         r \in met' /\ r \in DOMAIN pill' => r \in met /\ r \in DOMAIN pill /\ pill'[r] = pill[r]
  PROVE  NewsOf(r)'
<1>1. (Rising(r)' <=> Rising(r)) /\ ~(dropping'[r] > dropping[r])
  BY DEF Rising, MirrorTyped, ServerTyped
<1>2. (r \in muted => r \in muted') /\ (r \in raced => r \in raced')
  BY <1>1, FlagsStay
<1>3. NewsOf(r)
  BY <1>2 DEF NewsInv
<1>4. r \in DOMAIN reg' => \A c : Fits(r, c) => Fits(r, c)'
  BY <1>2 DEF Fits
<1>5. QED
  BY <1>1, <1>3, <1>4, NewsCarried

\* The steps of the app and its connection, and a page's steps that tell it nothing of a run.
LEMMA NewsOfRest ==
  ASSUME MirrorTyped, NewsInv, Remembered,
         UNCHANGED <<emitting, dropping, events, reloads>>,
         \A r \in DOMAIN reg' : r \in DOMAIN reg /\ reg'[r] = reg[r],
         listing' = listing \/ met = {},
         \/ met = {}
         \/ \A r \in DOMAIN pill' : r \in DOMAIN pill /\ pill'[r] = pill[r]
  PROVE  NewsInv'
<1>1. reloads \in Nat
  BY DEF MirrorTyped, PageTyped
<1>2. missed \subseteq missed' /\ met' \subseteq met /\ FlagsMove
  BY <1>1, HistoryMoves DEF Announced, Took, FlagsMove
<1>3. ASSUME NEW r \in Run \ raced'
      PROVE  NewsOf(r)'
  BY <1>2, NewsStays
<1>4. QED
  BY <1>2, <1>3 DEF NewsInv

LEMMA NewsOfRead ==
  ASSUME MirrorTyped, NewsInv, Remembered, NEW u \in Run, ServerReads(u)
  PROVE  NewsInv'
<1> DEFINE frame == Head(wire[u])
           said == IF frame.type = "hello" THEN Connected(u) ELSE Message(u, frame)
<1>1. /\ reloads \in Nat /\ emitting \in [Run -> Seq(EventSet)]
      /\ dropping \in [Run -> Nat]
  BY DEF MirrorTyped, ServerTyped, PageTyped
<1>2. /\ emitting[u] = << >> /\ emitting' = [emitting EXCEPT ![u] = <<said>>]
      /\ reg' = IF frame.type = "hello" \/ u \in DOMAIN reg THEN With(reg, u, TRUE) ELSE reg
      /\ UNCHANGED <<dropping, events, listing, pill, reloads>>
  BY DEF ServerReads, Recorded, page
<1>3. /\ emitting'[u] = <<said>> /\ emitting'[u] # << >> /\ Head(emitting'[u]) = said
      /\ \A r \in Run : r # u => emitting'[r] = emitting[r]
  BY <1>1, <1>2
<1>4. said.kind # "disconnected" /\ (said.kind = "connected" <=> frame.type = "hello")
  BY DEF Connected, Message
<1> HIDE DEF frame, said
<1>5. missed \subseteq missed' /\ met' \subseteq met /\ Flagged /\ FlagsMove
  BY <1>1, <1>2, HistoryMoves DEF Announced, Took, FlagsMove
<1>6. ~Rising(u) /\ (Rising(u)' <=> frame.type = "hello")
  BY <1>2, <1>3, <1>4 DEF Rising
<1>7. ASSUME NEW r \in Run \ raced'
      PROVE  NewsOf(r)'
  <2>1. CASE r # u
    <3>1. r \in DOMAIN reg' => r \in DOMAIN reg /\ reg'[r] = reg[r]
      BY <1>2, <2>1 DEF With
    <3>2. QED
      BY <1>2, <1>3, <1>5, <2>1, <3>1, NewsStays
  <2>2. CASE r = u /\ frame.type = "hello"
    <3>1. u \in Raised
      BY <1>6, <2>2 DEF Raised
    <3>2. dropping[u] = 0
      BY <1>1, <1>5, <2>2, <3>1 DEF Flagged
    <3>3. Fits(u, TRUE)'
      BY <1>2, <2>2 DEF Fits, With
    <3>4. Pending(u)' /\ dropping'[u] = 0 /\ ~(dropping'[u] > 0)
      BY <1>2, <1>6, <2>2, <3>2 DEF Pending
    <3>5. QED
      BY <2>2, <3>3, <3>4 DEF NewsOf
  <2>3. CASE r = u /\ frame.type # "hello"
    <3>1. u \notin Raised /\ ~(dropping'[u] > dropping[u]) /\ u \notin Lowered
      BY <1>1, <1>2, <1>6, <2>3 DEF Raised, Lowered
    <3>2. (u \in muted => u \in muted') /\ (u \in raced => u \in raced')
      BY <1>5, <1>6, <2>3, <3>1, FlagsStay
    <3>3. NewsOf(u)
      BY <2>3, <3>2 DEF NewsInv
    <3>4. u \in DOMAIN reg' => u \in DOMAIN reg /\ reg'[u] = TRUE
      BY <1>2, <2>3 DEF With
    <3>5. u \in DOMAIN reg' /\ ~reg[u] => u \in muted'
      BY <1>5, <3>1, <3>4 DEF Revived, Flagged
    <3>6. u \in DOMAIN reg' => \A c : Fits(u, c) => Fits(u, c)'
      BY <3>2, <3>4, <3>5 DEF Fits
    <3>7. QED
      BY <1>2, <1>5, <1>6, <2>3, <3>3, <3>4, <3>6, NewsCarried
  <2>4. QED
    BY <2>1, <2>2, <2>3
<1>8. \A r \in Run : emitting'[r] # << >> => Head(emitting'[r]).kind # "disconnected"
  BY <1>3, <1>4 DEF NewsInv
<1>9. QED
  BY <1>2, <1>5, <1>7, <1>8 DEF NewsInv

\* A run is marked disconnected: that is the last report of it, and it is right.
LEMMA NewsOfMark ==
  ASSUME MirrorTyped, NewsInv, Remembered, NEW u \in Run,
         MarkedDown(u), UNCHANGED <<emitting, page>>
  PROVE  NewsInv'
<1>1. ServerTyped /\ reloads \in Nat /\ dropping \in [Run -> Nat]
  BY DEF MirrorTyped, ServerTyped, PageTyped
<1>2. UNCHANGED <<emitting, events, listing, pill, reloads>>
  BY DEF page
<1>3. missed \subseteq missed' /\ met' \subseteq met /\ Flagged /\ FlagsMove
  BY <1>1, <1>2, HistoryMoves DEF Announced, Took, FlagsMove
<1>4. /\ DOMAIN reg' = DOMAIN reg
      /\ \A r \in Run : r # u => dropping'[r] = dropping[r] /\ (r \in DOMAIN reg => reg'[r] = reg[r])
      /\ \/ UNCHANGED <<reg, dropping>>
         \/ reg'[u] = FALSE /\ dropping'[u] = dropping[u] + 1
  BY <1>1, MarkTyped
<1>5. ASSUME NEW r \in Run \ raced'
      PROVE  NewsOf(r)'
  <2>1. CASE r # u \/ UNCHANGED <<reg, dropping>>
    <3>1. dropping'[r] = dropping[r] /\ (r \in DOMAIN reg' => r \in DOMAIN reg /\ reg'[r] = reg[r])
      BY <1>4, <2>1
    <3>2. QED
      BY <1>2, <1>3, <3>1, NewsStays
  <2>2. CASE r = u /\ reg'[u] = FALSE /\ dropping'[u] = dropping[u] + 1
    <3>1. dropping'[u] > dropping[u] /\ dropping'[u] > 0
      BY <1>1, <2>2
    <3>2. ~Rising(u)
      BY <1>3, <2>2, <3>1 DEF Lowered, Flagged
    <3>3. ~Rising(u)'
      BY <1>2, <3>2 DEF Rising
    <3>4. Fits(u, FALSE)' /\ Pending(u)'
      BY <2>2, <3>1 DEF Fits, Pending
    <3>5. QED
      BY <2>2, <3>3, <3>4 DEF NewsOf
  <2>3. QED
    BY <1>4, <2>1, <2>2
<1>6. QED
  BY <1>2, <1>3, <1>5 DEF NewsInv

\* What is emitted is of the connection's run, and is the last thing it had to emit.
LEMMA EmitIs ==
  ASSUME ServerTyped, NEW u \in Run, ServerEmits(u)
  PROVE  LET e == Head(emitting[u])
         IN /\ e \in EventSet /\ e.run = u /\ emitting[u] # << >>
            /\ Len(emitting'[u]) = 0 /\ Len(emitting[u]) = 1 /\ emitting[u][1] = e
            /\ \A r \in Run : r # u => emitting'[r] = emitting[r]
<1> DEFINE q == emitting[u]
<1>1. q \in Seq(EventSet) /\ q # << >> /\ Len(q) <= 1 /\ \A n \in 1..Len(q) : q[n].run = u
  BY DEF ServerTyped, ServerEmits
<1>2. emitting' = [emitting EXCEPT ![u] = Tail(q)] /\ emitting \in [Run -> Seq(EventSet)]
  BY DEF ServerTyped, ServerEmits
<1>3. emitting'[u] = Tail(q) /\ \A r \in Run : r # u => emitting'[r] = emitting[r]
  BY <1>2
<1>4. q = emitting[u]
  OBVIOUS
<1> HIDE DEF q
<1>5. Len(q) \in Nat /\ Len(Tail(q)) \in Nat /\ Len(Tail(q)) = Len(q) - 1 /\ Head(q) \in EventSet /\ Head(q) = q[1]
  BY <1>1, HeadTailProperties, LenProperties
<1>6. Len(q) = 1 /\ Len(Tail(q)) = 0
  BY <1>1, <1>5
<1>7. Head(q).run = u
  BY <1>1, <1>5, <1>6
<1>8. QED
  BY <1>1, <1>3, <1>4, <1>5, <1>6, <1>7

\* An event of run u goes out, to the page or to nobody.  What was yet to be emitted of u when it
\* is a report fits it.
LEMMA NewsOfEvents ==
  ASSUME MirrorTyped, NewsInv, FlagsMove, NEW u \in Run, NEW e \in EventSet, e.run = u,
         UNCHANGED <<reg, pill>>, met' \subseteq met, missed \subseteq missed',
         events' = Append(events, e) \/ (events' = events /\ u \in missed'),
         \A r \in Run : r # u => emitting'[r] = emitting[r] /\ dropping'[r] = dropping[r],
         Rising(u)' => Rising(u), ~(dropping'[u] > dropping[u]), dropping'[u] \in Nat,
         \/ e.kind = "message" /\ (Rising(u)' <=> Rising(u)) /\ dropping'[u] = dropping[u]
         \/ e.kind = "connected" /\ Rising(u)
         \/ e.kind = "disconnected" /\ dropping[u] > 0
  PROVE  \A r \in Run \ raced' : NewsOf(r)'
<1>1. events \in Seq(EventSet) /\ dropping \in [Run -> Nat] /\ reg \in [DOMAIN reg -> BOOLEAN]
  BY DEF MirrorTyped, ServerTyped, PageTyped
<1>2. ASSUME NEW M, events' = Append(events, e)
      PROVE  /\ NoneIn(events', M) <=> e \notin M /\ NoneIn(events, M)
             /\ \A d : LastIn(events', M, d) <=> (e \in M /\ d = e) \/ (e \notin M /\ LastIn(events, M, d))
  BY ONLY <1>1, <1>2, QueueAppend
<1>3. ASSUME NEW r \in Run, e \notin News(r)
      PROVE  /\ NoneIn(events', News(r)) => NoneIn(events, News(r))
             /\ \A d : LastIn(events', News(r), d) => LastIn(events, News(r), d)
  BY <1>2, <1>3
<1>4. ASSUME NEW r \in Run \ raced'
      PROVE  NewsOf(r)'
  <2>1. CASE r # u
    <3>1. e \notin News(r)
      BY <2>1, NewsIs
    <3>2. QED
      BY <1>3, <1>4, <2>1, <3>1, NewsStays
  <2> SUFFICES ASSUME r = u
               PROVE  NewsOf(u)'
    BY <2>1
  <2>2. (u \in muted => u \in muted') /\ u \notin raced
    BY <1>4, FlagsStay
  <2>3. NewsOf(u)
    BY <2>2 DEF NewsInv
  <2>4. \A c : Fits(u, c) => Fits(u, c)'
    BY <2>2 DEF Fits
  <2>5. CASE e.kind = "message"
    <3>1. e \notin News(u)
      BY <2>5, NewsIs
    <3>2. QED
      BY <1>3, <2>3, <2>4, <2>5, <3>1, NewsCarried
  <2>6. CASE e.kind # "message"
    <3>1. e \in News(u)
      BY <2>6, NewsIs
    <3>2. u \in DOMAIN reg => Fits(u, e.kind = "connected")
      BY <2>3, <2>6 DEF NewsOf
    <3>3. u \notin missed' => \A d : LastIn(events', News(u), d) => d = e
      BY <1>2, <3>1
    <3>4. u \notin missed' => ~NoneIn(events', News(u))
      BY <1>2, <3>1
    <3>5. (Rising(u) => dropping[u] = 0)'
      <4>1. Rising(u) => dropping[u] = 0
        BY <2>3 DEF NewsOf
      <4>2. QED
        BY <1>1, <4>1
    <3> SUFFICES ASSUME u \in DOMAIN reg
                 PROVE  NewsOf(u)'
      BY <3>5 DEF NewsOf
    <3>6. (Rising(u) => Fits(u, TRUE))' /\ (dropping[u] > 0 => Fits(u, FALSE))'
      <4>1. (Rising(u) => Fits(u, TRUE)) /\ (dropping[u] > 0 => Fits(u, FALSE))
        BY <2>3 DEF NewsOf
      <4>2. dropping'[u] > 0 => dropping[u] > 0
        BY <1>1
      <4>3. QED
        BY <2>4, <4>1, <4>2
    <3>7. u \notin missed' => \A d : LastIn(events', News(u), d) => Fits(u, d.kind = "connected")'
      BY <2>4, <3>2, <3>3
    <3>8. QED
      BY <3>4, <3>5, <3>6, <3>7 DEF NewsOf
  <2>7. QED
    BY <2>5, <2>6
<1>5. QED
  BY <1>4

LEMMA NewsOfEmit ==
  ASSUME MirrorTyped, NewsInv, Remembered, NEW u \in Run, ServerEmits(u)
  PROVE  NewsInv'
<1> DEFINE e == Head(emitting[u])
<1>1. /\ reloads \in Nat /\ events \in Seq(EventSet) /\ ServerTyped
      /\ Len(events) \in Nat /\ dropping \in [Run -> Nat]
  BY LenProperties DEF MirrorTyped, ServerTyped, PageTyped
<1>2. UNCHANGED <<reg, dropping, listing, pill, reloads>>
  BY DEF ServerEmits
<1>3. /\ e \in EventSet /\ e.run = u /\ Len(emitting'[u]) = 0 /\ Len(emitting[u]) = 1 /\ emitting[u] # << >>
      /\ \A r \in Run : r # u => emitting'[r] = emitting[r]
  BY <1>1, EmitIs
<1>4. events' = Append(events, e) \/ events' = events
  BY DEF ServerEmits
<1>5. e.kind # "disconnected" /\ (Rising(u) <=> e.kind = "connected")
  BY <1>3 DEF NewsInv, Rising
<1> HIDE DEF e
<1>6. events' = Append(events, e) => Len(events') = Len(events) + 1
  BY <1>1, <1>3, AppendProperties
<1>7. missed' = missed \cup Unheard /\ met' \subseteq met /\ FlagsMove
  BY <1>1, <1>2, <1>4, <1>6, HistoryMoves DEF Announced, Took, FlagsMove
<1>8. events' = events => u \in missed'
  BY <1>3, <1>7 DEF Unheard
<1>9. emitting'[u] = << >>
  <2>1. emitting'[u] \in Seq(EventSet)
    BY <1>1 DEF ServerEmits, ServerTyped
  <2>2. QED
    BY <1>3, <2>1, EmptySeq
<1>10. ~Rising(u)'
  BY <1>9 DEF Rising
<1>11. e.kind \in {"connected", "message"}
  BY <1>3, <1>5 DEF EventSet
<1>12. \A r \in Run \ raced' : NewsOf(r)'
  <2>1. /\ missed \subseteq missed'
        /\ \A r \in Run : r # u => emitting'[r] = emitting[r] /\ dropping'[r] = dropping[r]
        /\ ~(dropping'[u] > dropping[u]) /\ dropping'[u] \in Nat /\ dropping'[u] = dropping[u]
    BY <1>1, <1>2, <1>3, <1>7
  <2>2. QED
    BY <1>2, <1>3, <1>4, <1>5, <1>7, <1>8, <1>10, <1>11, <2>1, NewsOfEvents
<1>13. \A r \in Run : emitting'[r] # << >> => Head(emitting'[r]).kind # "disconnected"
  BY <1>3, <1>9 DEF NewsInv
<1>14. QED
  BY <1>2, <1>7, <1>12, <1>13 DEF NewsInv

LEMMA NewsOfDrop ==
  ASSUME MirrorTyped, NewsInv, Remembered, NEW u \in Run, DropEmitted(u)
  PROVE  NewsInv'
<1> DEFINE e == Disconnected(u)
<1>1. /\ reloads \in Nat /\ events \in Seq(EventSet) /\ Len(events) \in Nat /\ dropping \in [Run -> Nat]
  BY LenProperties DEF MirrorTyped, ServerTyped, PageTyped
<1>2. /\ UNCHANGED <<reg, emitting, listing, pill, reloads>>
      /\ dropping[u] > 0 /\ dropping' = [dropping EXCEPT ![u] = @ - 1]
      /\ events' = Append(events, e) \/ events' = events
  BY DEF DropEmitted
<1>3. e \in EventSet /\ e.run = u /\ e.kind = "disconnected"
  BY DEF Disconnected, EventSet
<1> HIDE DEF e
<1>4. /\ dropping'[u] \in Nat /\ dropping'[u] < dropping[u] /\ ~(dropping'[u] > dropping[u])
      /\ \A r \in Run : r # u => emitting'[r] = emitting[r] /\ dropping'[r] = dropping[r]
  BY <1>1, <1>2
<1>5. events' = Append(events, e) => Len(events') = Len(events) + 1
  BY <1>1, <1>3, AppendProperties
<1>6. missed' = missed \cup Unheard /\ met' \subseteq met /\ FlagsMove
  BY <1>1, <1>2, <1>5, HistoryMoves DEF Announced, Took, FlagsMove
<1>7. events' = events => u \in missed'
  BY <1>4, <1>6 DEF Unheard
<1>8. Rising(u)' => Rising(u)
  BY <1>2 DEF Rising
<1>9. missed \subseteq missed'
  BY <1>6
<1>10. \A r \in Run \ raced' : NewsOf(r)'
  BY <1>2, <1>3, <1>4, <1>6, <1>7, <1>8, <1>9, NewsOfEvents
<1>11. QED
  BY <1>2, <1>6, <1>10 DEF NewsInv

LEMMA UpsertedPill ==
  ASSUME NEW ui, NEW app
  PROVE  LET next == Upserted(ui, app)
         IN /\ app.run \in DOMAIN next.pill /\ next.pill[app.run] = app.connected
            /\ \A r \in DOMAIN next.pill : r # app.run => r \in DOMAIN ui.pill /\ next.pill[r] = ui.pill[r]
<1> DEFINE others == DOMAIN ui.pill \ {app.run}
           stale == IF others = {} THEN {} ELSE {CHOOSE r \in others : TRUE}
<1>1. Upserted(ui, app).pill = With(Without(ui.pill, stale), app.run, app.connected)
  BY DEF Upserted
<1> HIDE DEF stale
<1>2. QED
  BY <1>1 DEF With, Without

LEMMA NewsOfEvent ==
  ASSUME MirrorTyped, NewsInv, Remembered, EventArrives
  PROVE  NewsInv'
<1> DEFINE e == Head(events)
<1>1. /\ reloads \in Nat /\ events \in Seq(EventSet) /\ Len(events) \in Nat /\ dropping \in [Run -> Nat]
  BY LenProperties DEF MirrorTyped, ServerTyped, PageTyped
<1>2. /\ UNCHANGED <<reg, emitting, dropping, listing, reloads>>
      /\ events # << >> /\ events' = Tail(events)
      /\ \/ e.kind = "connected" /\ AppConnected(e.run)
         \/ e.kind = "disconnected" /\ AppDisconnected(e.run)
         \/ e.kind = "message" /\ EnvelopeArrives(e.run, e.frame)
  BY DEF EventArrives, server
<1>3. Announced = IF e.kind = "connected" THEN {e.run} ELSE {}
  <2>1. Len(Tail(events)) = Len(events) - 1
    BY <1>1, <1>2, HeadTailProperties
  <2>2. Took
    BY <1>1, <1>2, <2>1 DEF Took, Reloaded
  <2>3. QED
    BY <2>2 DEF Announced
<1>4. /\ missed \subseteq missed' /\ FlagsMove
      /\ met' \subseteq met \cup IF listing = "done" THEN Announced ELSE {}
  BY <1>1, <1>2, HistoryMoves DEF FlagsMove
<1>5. e \in EventSet
  BY <1>1, <1>2, HeadTailProperties
<1>6. \A M : /\ NoneIn(events, M) <=> e \notin M /\ NoneIn(events', M)
             /\ \A d : LastIn(events, M, d) <=> LastIn(events', M, d) \/ (NoneIn(events', M) /\ e \in M /\ d = e)
  <2> SUFFICES ASSUME NEW M
               PROVE  /\ NoneIn(events, M) <=> e \notin M /\ NoneIn(events', M)
                      /\ \A d : LastIn(events, M, d) <=>
                                  LastIn(events', M, d) \/ (NoneIn(events', M) /\ e \in M /\ d = e)
    OBVIOUS
  <2>1. events \in Seq(EventSet) /\ events # << >> /\ events' = Tail(events)
    BY <1>1, <1>2
  <2>2. QED
    BY ONLY <2>1, QueueTail
<1> HIDE DEF e
<1>7. \A r \in DOMAIN pill' :
        \/ r = e.run /\ e.kind # "message" /\ pill'[r] = (e.kind = "connected")
        \/ (r # e.run \/ e.kind = "message") /\ r \in DOMAIN pill /\ pill'[r] = pill[r]
  <2>1. CASE e.kind = "connected" /\ AppConnected(e.run)
    <3> DEFINE app == [run |-> e.run, connected |-> TRUE]
               next == Upserted([pill |-> pill, data |-> data], app)
    <3>1. pill' = next.pill
      BY <2>1 DEF AppConnected
    <3>2. app.run = e.run /\ app.connected = TRUE /\ [pill |-> pill, data |-> data].pill = pill
      OBVIOUS
    <3> HIDE DEF app
    <3>3. /\ app.run \in DOMAIN next.pill /\ next.pill[app.run] = app.connected
          /\ \A r \in DOMAIN next.pill : r # app.run => r \in DOMAIN pill /\ next.pill[r] = pill[r]
      BY <3>2, UpsertedPill
    <3> HIDE DEF next
    <3>4. QED
      BY <2>1, <3>1, <3>2, <3>3
  <2>2. CASE e.kind = "disconnected" /\ AppDisconnected(e.run)
    BY <2>2 DEF AppDisconnected, With
  <2>3. CASE e.kind = "message" /\ EnvelopeArrives(e.run, e.frame)
    BY <2>3 DEF EnvelopeArrives
  <2>4. QED
    BY <1>2, <2>1, <2>2, <2>3
<1>8. ASSUME NEW r \in Run \ raced'
      PROVE  NewsOf(r)'
  <2>1. e \in News(r) <=> e.run = r /\ e.kind # "message"
    BY <1>5, NewsIs
  <2>2. CASE e \notin News(r)
    <3>1. /\ NoneIn(events', News(r)) => NoneIn(events, News(r))
          /\ \A d : LastIn(events', News(r), d) => LastIn(events, News(r), d)
      BY <1>6, <2>2
    <3>2. r \notin Announced
      BY <1>3, <2>1, <2>2
    <3>3. r \in met' /\ r \in DOMAIN pill' => r \in met /\ r \in DOMAIN pill /\ pill'[r] = pill[r]
      BY <1>4, <1>7, <2>1, <2>2, <3>2
    <3>4. QED
      BY <1>2, <1>4, <1>8, <3>1, <3>3, NewsStays
  <2>3. CASE e \in News(r)
    <3>1. (Rising(r)' <=> Rising(r)) /\ dropping'[r] = dropping[r] /\ ~(dropping'[r] > dropping[r])
      BY <1>1, <1>2 DEF Rising
    <3>2. (r \in muted => r \in muted') /\ r \notin raced
      BY <1>4, <1>8, <3>1, FlagsStay
    <3>3. NewsOf(r)
      BY <3>2 DEF NewsInv
    <3>4. \A c : Fits(r, c) => Fits(r, c)'
      BY <1>2, <3>2 DEF Fits
    <3>5. Pending(r)' <=> Pending(r)
      BY <3>1 DEF Pending
    <3>6. (Rising(r) => dropping[r] = 0)'
      BY <3>1, <3>3 DEF NewsOf
    <3> SUFFICES ASSUME r \in DOMAIN reg
                 PROVE  NewsOf(r)'
      BY <1>2, <3>6 DEF NewsOf
    <3>7. (Rising(r) => Fits(r, TRUE))' /\ (dropping[r] > 0 => Fits(r, FALSE))'
      BY <3>1, <3>3, <3>4 DEF NewsOf
    <3>8. (r \notin missed' /\ ~Pending(r)') =>
            \A d : LastIn(events, News(r), d) => Fits(r, d.kind = "connected")'
      BY <1>4, <3>3, <3>4, <3>5 DEF NewsOf
    <3>9. (r \notin missed' /\ ~Pending(r)') =>
            \A d : LastIn(events', News(r), d) => Fits(r, d.kind = "connected")'
      BY <1>6, <3>8
    <3>10. (r \notin missed' /\ r \in DOMAIN pill' /\ ~Pending(r)' /\ NoneIn(events', News(r))) =>
             Fits(r, pill[r])'
      <4> SUFFICES ASSUME r \notin missed', r \in DOMAIN pill', ~Pending(r)', NoneIn(events', News(r))
                   PROVE  Fits(r, pill[r])'
        OBVIOUS
      <4>1. LastIn(events, News(r), e)
        BY <1>6, <2>3
      <4>2. Fits(r, e.kind = "connected")
        BY <1>4, <3>3, <3>5, <4>1 DEF NewsOf
      <4>3. pill'[r] = (e.kind = "connected")
        BY <1>7, <2>1, <2>3
      <4>4. QED
        BY <1>2, <3>2, <4>2, <4>3 DEF Fits
    <3>11. QED
      BY <3>6, <3>7, <3>9, <3>10 DEF NewsOf
  <2>4. QED
    BY <2>2, <2>3
<1>9. QED
  BY <1>2, <1>4, <1>8 DEF NewsInv

LEMMA NewsOfReload ==
  ASSUME MirrorTyped, NewsInv, Remembered, PageReloads
  PROVE  NewsInv'
<1>1. Reloaded
  BY DEF MirrorTyped, PageTyped, PageReloads, Reloaded
<1>2. met' = {} /\ events' = << >> /\ UNCHANGED <<reg, emitting, dropping, muted, raced>>
  BY <1>1 DEF Remembered, PageReloads, server
<1>3. ASSUME NEW r \in Run \ raced'
      PROVE  NewsOf(r)'
  <2>1. NewsOf(r)
    BY <1>2, <1>3 DEF NewsInv
  <2>2. \A c : Fits(r, c)' <=> Fits(r, c)
    BY <1>2 DEF Fits
  <2>3. \A e : ~LastIn(events', News(r), e)
    BY <1>2, QueueEmpty
  <2>4. Rising(r)' <=> Rising(r)
    BY <1>2 DEF Rising
  <2>5. QED
    BY <1>2, <2>1, <2>2, <2>3, <2>4 DEF NewsOf
<1>4. QED
  BY <1>2, <1>3 DEF NewsInv

LEMMA NewsInvStep ==
  ASSUME MirrorTyped, NewsInv, [HiNext]_hiVars
  PROVE  NewsInv'
<1>1. ASSUME Remembered,
             \/ \E s \in Store : StoreAttached(s) \/ \E f \in Field : StoreWritten(s, f)
             \/ AppRestarts \/ HeartbeatSent \/ \E u \in Run : LinkOpens(u) \/ HelloSent(u) \/ LinkBreaks(u)
      PROVE  NewsInv'
  <2>1. UNCHANGED <<server, page>>
    BY <1>1 DEF StoreAttached, StoreWritten, AppRestarts, HeartbeatSent, LinkOpens, HelloSent, LinkBreaks
  <2>2. UNCHANGED <<reg, emitting, dropping, events, listing, pill, reloads>>
    BY <2>1 DEF server, page
  <2>3. QED
    BY <1>1, <2>2, NewsOfRest
<1>2. ASSUME NEW u \in Run, Remembered, ServerEnds(u) \/ OldConnectionEnds(u) \/ Sweeps(u)
      PROVE  NewsInv'
  <2>1. MarkedDown(u) /\ UNCHANGED <<emitting, page>>
    BY <1>2 DEF ServerEnds, OldConnectionEnds, Sweeps
  <2>2. QED
    BY <1>2, <2>1, NewsOfMark
<1>3. ASSUME Remembered,
             \/ \E u \in Run : ServerForgets(u) \/ UserForgets(u)
             \/ ServerLists \/ ListArrives
             \/ \E i \in DOMAIN fetches : ServerFetches(i) \/ FetchArrives(i)
             \/ \E k \in Kinds : Listens(k)
      PROVE  NewsInv'
  <2>1. UNCHANGED <<emitting, dropping, events, reloads>>
    BY <1>3 DEF ServerForgets, UserForgets, ServerLists, ListArrives, ServerFetches, FetchArrives, Listens,
                server, page
  <2>2. \A r \in DOMAIN reg' : r \in DOMAIN reg /\ reg'[r] = reg[r]
    BY <1>3 DEF ServerForgets, UserForgets, ServerLists, ListArrives, ServerFetches, FetchArrives, Listens,
                server, Without
  <2>3. listing' = listing \/ met = {}
    BY <1>3 DEF NewsInv, ServerForgets, UserForgets, ServerLists, ListArrives, ServerFetches, FetchArrives,
                Listens, page
  <2>4. met = {} \/ \A r \in DOMAIN pill' : r \in DOMAIN pill /\ pill'[r] = pill[r]
    BY <1>3 DEF NewsInv, ServerForgets, UserForgets, ServerLists, ListArrives, ServerFetches, FetchArrives,
                Listens, page, Without
  <2>5. QED
    BY <1>3, <2>1, <2>2, <2>3, <2>4, NewsOfRest
<1>4. CASE HiNext
  BY <1>1, <1>2, <1>3, <1>4, NewsOfRead, NewsOfEmit, NewsOfDrop, NewsOfEvent, NewsOfReload DEF HiNext, Next
<1>5. CASE UNCHANGED hiVars
  <2>1. UNCHANGED <<reg, dropping, emitting, events, pill, listing, met, missed, muted, raced>>
    BY <1>5 DEF hiVars, vars, history, server, page
  <2>2. ASSUME NEW r \in Run \ raced'
        PROVE  NewsOf(r)'
    BY <2>1, <2>2, NewsStays DEF FlagsMove
  <2>3. QED
    BY <2>1, <2>2 DEF NewsInv
<1>6. QED
  BY <1>4, <1>5

\* A run that this page was told of after the list had arrived, and of which it heard every
\* event (onAppConnected, markDisconnected), is shown once nothing is on its way as the registry
\* has it, but for a flag that Registry::record set again without a word: through broken
\* connections, reconnects, late ends of older connections, sweeps, heartbeats, restarts,
\* removals and late events of the runs before it, for any number of each.
THEOREM DotsFollowTheRegistry == HiSpec => []PillFollows
<1> DEFINE Inv == MirrorTyped /\ NewsInv
<1>1. HiInit => Inv
  BY MirrorTypedInit, NewsInvInit DEF HiInit
<1>2. Inv /\ [HiNext]_hiVars => Inv'
  BY MirrorTypedStep, NewsInvStep DEF HiNext, hiVars
<1>3. Inv => PillFollows
  <2> SUFFICES ASSUME Inv, Settled, NEW r \in (met \ (missed \cup raced)) \cap DOMAIN pill \cap DOMAIN reg
               PROVE  IF pill[r] THEN reg[r] ELSE reg[r] => r \in muted
    BY DEF PillFollows
  <2>1. r \in Run \ raced /\ NewsOf(r)
    BY DEF MirrorTyped, ServerTyped, NewsInv
  <2>2. emitting[r] = << >> /\ dropping[r] = 0 /\ ~(dropping[r] > 0) /\ events = << >>
    BY <2>1 DEF Settled
  <2>3. ~Pending(r)
    BY <2>2 DEF Pending, Rising
  <2>4. NoneIn(events, News(r))
    BY <2>2, QueueEmpty
  <2>5. Fits(r, pill[r])
    BY <2>1, <2>3, <2>4 DEF NewsOf
  <2>6. QED
    BY <2>5 DEF Fits
<1>4. QED
  BY <1>1, <1>2, <1>3, PTL DEF HiSpec

-----------------------------------------------------------------------------
(* The fields of the stores: what an app reports of a field goes from its    *)
(* queue over the wire, through the server and the events to the page.  The  *)
(* last report on the way is what the app holds; where there is none on the  *)
(* way, what the page has of it is.                                          *)

\* The frames that say what field f of store s is, and what they say.
Reporting(s, f) ==
  {frame \in FrameSet : /\ frame.type \in {"state/init", "state/action"} /\ frame.store = s
                        /\ frame.type = "state/action" => frame.field = f}

Carried(frame, f) == IF frame.type = "state/init" THEN frame.state[f] ELSE frame.val

\* The events of run r with such a frame.
Telling(r, s, f) == {e \in EventSet : e.run = r /\ e.kind = "message" /\ e.frame \in Reporting(s, f)}

Agrees(frame, s, f) == Carried(frame, f) = value[now][s][f]

PageAgrees(s, f) == <<now, s, f>> \in fresh => data[now][s][f] = value[now][s][f]

Heard(s, f) ==
  now \notin missed =>
    /\ \A e : LastIn(events, Telling(now, s, f), e) => Agrees(e.frame, s, f)
    /\ NoneIn(events, Telling(now, s, f)) => PageAgrees(s, f)

Said(s, f) ==
  /\ \A e : LastIn(emitting[now], Telling(now, s, f), e) => Agrees(e.frame, s, f)
  /\ NoneIn(emitting[now], Telling(now, s, f)) => Heard(s, f)

Sent(s, f) ==
  /\ \A e : LastIn(wire[now], Reporting(s, f), e) => Agrees(e, s, f)
  /\ NoneIn(wire[now], Reporting(s, f)) => Said(s, f)

ReportOf(s, f) ==
  now \notin lost =>
    /\ \A e : LastIn(backlog[now], Reporting(s, f), e) => Agrees(e, s, f)
    /\ NoneIn(backlog[now], Reporting(s, f)) => Sent(s, f)

ReportInv == \A s \in Store, f \in Field : ReportOf(s, f)

\* Nothing has been told of a run that has not started.
FreshTyped ==
  /\ fresh \subseteq Run \X Store \X Field
  /\ \A x \in fresh : x[1] <= now
  /\ \A n \in 1..Len(events) : events[n].run <= now

LEMMA ReportInvInit == HiInit => ReportInv /\ FreshTyped
<1> SUFFICES ASSUME HiInit
             PROVE  ReportInv /\ FreshTyped
  OBVIOUS
<1>1. /\ now \in Run /\ backlog[now] = << >> /\ wire[now] = << >> /\ emitting[now] = << >> /\ events = << >>
      /\ fresh = {}
  BY RunAssumption DEF HiInit, Init, Run
<1>2. FreshTyped
  BY <1>1 DEF FreshTyped
<1>3. ASSUME NEW s \in Store, NEW f \in Field
      PROVE  ReportOf(s, f)
  <2>1. Heard(s, f)
    BY <1>1, QueueEmpty DEF Heard, PageAgrees
  <2>2. Said(s, f)
    BY <1>1, <2>1, QueueEmpty DEF Said
  <2>3. Sent(s, f)
    BY <1>1, <2>2, QueueEmpty DEF Sent
  <2>4. QED
    BY <1>1, <2>3, QueueEmpty DEF ReportOf
<1>4. QED
  BY <1>2, <1>3 DEF ReportInv

\* What does not touch the queues of the run leaves the chain as it was.
LEMMA ChainStays ==
  ASSUME NEW s, NEW f, now' = now, value'[now][s][f] = value[now][s][f], Heard(s, f) => Heard(s, f)',
         emitting'[now] = emitting[now]
  PROVE  /\ Said(s, f) => Said(s, f)'
         /\ wire'[now] = wire[now] => (Sent(s, f) => Sent(s, f)')
         /\ (wire'[now] = wire[now] /\ backlog'[now] = backlog[now] /\ (now \in lost => now \in lost')) =>
              (ReportOf(s, f) => ReportOf(s, f)')
<1>1. \A frame : Agrees(frame, s, f)' <=> Agrees(frame, s, f)
  BY DEF Agrees
<1>2. Said(s, f) => Said(s, f)'
  BY <1>1 DEF Said
<1>3. wire'[now] = wire[now] => (Sent(s, f) => Sent(s, f)')
  BY <1>1, <1>2 DEF Sent
<1>4. (wire'[now] = wire[now] /\ backlog'[now] = backlog[now] /\ (now \in lost => now \in lost')) =>
        (ReportOf(s, f) => ReportOf(s, f)')
  BY <1>1, <1>3 DEF ReportOf
<1>5. QED
  BY <1>2, <1>3, <1>4

LEMMA HeardStays ==
  ASSUME NEW s, NEW f, now' = now, value'[now][s][f] = value[now][s][f], Heard(s, f),
         missed \subseteq missed',
         NoneIn(events', Telling(now, s, f)) => NoneIn(events, Telling(now, s, f)),
         \A e : LastIn(events', Telling(now, s, f), e) => LastIn(events, Telling(now, s, f), e),
         <<now, s, f>> \in fresh' => <<now, s, f>> \in fresh /\ data'[now][s][f] = data[now][s][f]
  PROVE  Heard(s, f)'
<1>1. \A frame : Agrees(frame, s, f)' <=> Agrees(frame, s, f)
  BY DEF Agrees
<1>2. PageAgrees(s, f) => PageAgrees(s, f)'
  BY DEF PageAgrees
<1>3. QED
  BY <1>1, <1>2 DEF Heard

\* What is fresh after a step that is not a reload, and what else the page remembers.
LEMMA FreshMoves ==
  ASSUME Remembered, reloads \in Nat, reloads' = reloads
  PROVE  /\ missed' = missed \cup Unheard
         /\ \A x \in fresh' : x \in fresh \cup Reported /\ IsShown(data', x) /\ x[1] \notin Replayed
BY DEF Remembered, Reloaded

\* A step without an event, that leaves the field as the app and the page have it.
LEMMA HeardQuiet ==
  ASSUME MirrorTyped, Remembered, NEW s, NEW f, UNCHANGED <<now, events, reloads>>,
         value'[now][s][f] = value[now][s][f], Heard(s, f),
         (IsShown(data', <<now, s, f>>) /\ now \notin Replayed) => data'[now][s][f] = data[now][s][f]
  PROVE  Heard(s, f)'
<1>1. reloads \in Nat /\ ~Took
  BY DEF MirrorTyped, PageTyped, Took
<1>2. Reported = {}
  BY <1>1 DEF Reported
<1>3. missed \subseteq missed'
  BY <1>1, FreshMoves
<1>4. <<now, s, f>> \in fresh' => <<now, s, f>> \in fresh /\ data'[now][s][f] = data[now][s][f]
  <2> DEFINE x == <<now, s, f>>
  <2>1. x \in fresh' => x \in fresh /\ IsShown(data', x) /\ x[1] \notin Replayed
    BY <1>1, <1>2, FreshMoves
  <2>2. QED
    BY <2>1
<1>5. QED
  BY <1>3, <1>4, HeardStays

LEMMA ReportSent ==
  ASSUME NEW s \in Store, NEW frame, SendsOf(s, frame), NEW t \in Store, NEW f \in Field
  PROVE  \/ frame \in Reporting(t, f) /\ Carried(frame, f) = value'[now][t][f]
         \/ frame \notin Reporting(t, f) /\ value'[now][t][f] = value[now][t][f]
<1>1. CASE frame = InitFrame(s, value'[now][s])
  BY <1>1 DEF SendsOf, Reporting, Carried, InitFrame
<1>2. ASSUME NEW g \in Field, frame = ActionFrame(s, g, value'[now][s][g]),
             \A h \in Field : h # g => value'[now][s][h] = value[now][s][h]
      PROVE  \/ frame \in Reporting(t, f) /\ Carried(frame, f) = value'[now][t][f]
             \/ frame \notin Reporting(t, f) /\ value'[now][t][f] = value[now][t][f]
  BY <1>2 DEF SendsOf, Reporting, Carried, ActionFrame
<1>3. QED
  BY <1>1, <1>2 DEF SendsOf

\* A frame joins the end of the chain, and is the last report if it is one.
LEMMA ReportOfSent ==
  ASSUME MirrorTyped, WireInv, Remembered, NEW s \in Store, NEW f \in Field, ReportOf(s, f),
         NEW frame \in FrameSet, Sends(now, frame), UNCHANGED <<now, lost, server, page>>,
         \/ frame \in Reporting(s, f) /\ Carried(frame, f) = value'[now][s][f]
         \/ frame \notin Reporting(s, f) /\ value'[now][s][f] = value[now][s][f]
  PROVE  ReportOf(s, f)'
<1> DEFINE M == Reporting(s, f)
<1>1. /\ now \in Run /\ wire \in [Run -> Seq(FrameSet)] /\ backlog \in [Run -> Seq(FrameSet)]
      /\ UNCHANGED <<emitting, events, data, reloads>>
  BY DEF MirrorTyped, ProgramTyped, NetworkTyped, server, page
<1>2. wire[now] \in Seq(FrameSet) /\ backlog[now] \in Seq(FrameSet)
  BY <1>1
<1>3. \A q \in Seq(FrameSet) :
        /\ NoneIn(Append(q, frame), M) <=> frame \notin M /\ NoneIn(q, M)
        /\ \A e : LastIn(Append(q, frame), M, e) <=> (frame \in M /\ e = frame) \/ (frame \notin M /\ LastIn(q, M, e))
  BY QueueAppend
<1>4. \/ /\ link[now] = "up" /\ backlog[now] = << >> /\ wire'[now] = Append(wire[now], frame)
         /\ backlog'[now] = backlog[now]
      \/ backlog'[now] = Append(backlog[now], frame) /\ wire'[now] = wire[now]
  BY <1>1 DEF Sends, WireInv
<1>5. NoneIn(<< >>, M) /\ \A e : ~LastIn(<< >>, M, e)
  BY QueueEmpty
<1> HIDE DEF M
<1>6. CASE frame \in M /\ Carried(frame, f) = value'[now][s][f]
  <2>1. Agrees(frame, s, f)'
    BY <1>1, <1>6 DEF Agrees
  <2>2. CASE backlog'[now] = Append(backlog[now], frame)
    <3>1. ~NoneIn(backlog'[now], M) /\ \A e : LastIn(backlog'[now], M, e) => e = frame
      BY <1>2, <1>3, <1>6, <2>2
    <3>2. QED
      BY <2>1, <3>1 DEF ReportOf, M
  <2>3. CASE backlog'[now] = << >> /\ wire'[now] = Append(wire[now], frame)
    <3>1. /\ ~NoneIn(wire'[now], M) /\ \A e : LastIn(wire'[now], M, e) => e = frame
          /\ \A e : ~LastIn(backlog'[now], M, e)
      BY <1>2, <1>3, <1>5, <1>6, <2>3
    <3>2. Sent(s, f)'
      BY <1>1, <2>1, <3>1 DEF Sent, M
    <3>3. QED
      BY <1>1, <3>1, <3>2 DEF ReportOf, M
  <2>4. QED
    BY <1>4, <2>2, <2>3
<1>7. CASE frame \notin M /\ value'[now][s][f] = value[now][s][f]
  <2>1. Heard(s, f) => Heard(s, f)'
    BY <1>1, <1>7, HeardQuiet
  <2>2. /\ Said(s, f) => Said(s, f)'
        /\ wire'[now] = wire[now] => (Sent(s, f) => Sent(s, f)')
    BY <1>1, <1>7, <2>1, ChainStays
  <2>3. \A e : Agrees(e, s, f)' <=> Agrees(e, s, f)
    BY <1>7 DEF Agrees
  <2>4. CASE backlog'[now] = Append(backlog[now], frame) /\ wire'[now] = wire[now]
    <3>1. /\ NoneIn(backlog'[now], M) <=> NoneIn(backlog[now], M)
          /\ \A e : LastIn(backlog'[now], M, e) <=> LastIn(backlog[now], M, e)
      BY <1>2, <1>3, <1>7, <2>4
    <3>2. QED
      BY <2>2, <2>3, <2>4, <3>1 DEF ReportOf, M
  <2>5. CASE /\ backlog[now] = << >> /\ wire'[now] = Append(wire[now], frame)
             /\ backlog'[now] = backlog[now]
    <3>1. /\ NoneIn(wire'[now], M) <=> NoneIn(wire[now], M)
          /\ \A e : LastIn(wire'[now], M, e) <=> LastIn(wire[now], M, e)
      BY <1>2, <1>3, <1>7, <2>5
    <3>2. Sent(s, f) => Sent(s, f)'
      BY <2>2, <2>3, <3>1 DEF Sent, M
    <3>3. QED
      BY <2>3, <2>5, <3>2 DEF ReportOf, M
  <2>6. QED
    BY <1>4, <2>4, <2>5
<1>8. QED
  BY <1>6, <1>7 DEF M

LEMMA HelloReportsNothing ==
  ASSUME NEW s, NEW f
  PROVE  /\ HelloFrame \in FrameSet /\ HelloFrame \notin Reporting(s, f)
         /\ PingFrame \in FrameSet /\ PingFrame \notin Reporting(s, f)
BY DEF Reporting, HelloFrame, PingFrame, FrameSet

LEMMA ReportOfBeat ==
  ASSUME MirrorTyped, WireInv, Remembered, HeartbeatSent,
         NEW s \in Store, NEW f \in Field, ReportOf(s, f)
  PROVE  ReportOf(s, f)'
<1>1. UNCHANGED <<now, value, lost, server, page>> /\ Sends(now, PingFrame)
  BY DEF HeartbeatSent
<1>2. PingFrame \in FrameSet /\ PingFrame \notin Reporting(s, f)
  BY HelloReportsNothing
<1>3. QED
  BY <1>1, <1>2, ReportOfSent

LEMMA ReportOfWrite ==
  ASSUME MirrorTyped, WireInv, Remembered, NEW t \in Store, StoreAttached(t) \/ \E g \in Field : StoreWritten(t, g),
         NEW s \in Store, NEW f \in Field, ReportOf(s, f)
  PROVE  ReportOf(s, f)'
<1>1. ProgramTyped
  BY DEF MirrorTyped
<1>2. PICK frame : SendsOf(t, frame)
  BY <1>1, AppSends
<1>3. frame \in FrameSet /\ Sends(now, frame)
  BY <1>2 DEF SendsOf
<1>4. UNCHANGED <<now, lost, server, page>>
  BY DEF StoreAttached, StoreWritten
<1>5. \/ frame \in Reporting(s, f) /\ Carried(frame, f) = value'[now][s][f]
      \/ frame \notin Reporting(s, f) /\ value'[now][s][f] = value[now][s][f]
  BY <1>2, ReportSent
<1>6. QED
  BY <1>3, <1>4, <1>5, ReportOfSent

LEMMA ReportOfHello ==
  ASSUME MirrorTyped, WireInv, Remembered, NEW u \in Run, HelloSent(u),
         NEW s \in Store, NEW f \in Field, ReportOf(s, f)
  PROVE  ReportOf(s, f)'
<1>1. UNCHANGED <<now, value, lost, server, page>> /\ Sends(u, HelloFrame)
  BY DEF HelloSent, program
<1>2. HelloFrame \in FrameSet /\ HelloFrame \notin Reporting(s, f)
  BY HelloReportsNothing
<1>3. CASE u = now
  BY <1>1, <1>2, <1>3, ReportOfSent
<1>4. CASE u # now
  <2>1. now \in Run /\ UNCHANGED <<emitting, events, data, reloads>>
    BY <1>1 DEF MirrorTyped, ProgramTyped, server, page
  <2>2. wire'[now] = wire[now] /\ backlog'[now] = backlog[now]
    BY <1>1, <1>4, <2>1 DEF Sends, MirrorTyped, NetworkTyped
  <2>3. Heard(s, f) => Heard(s, f)'
    BY <1>1, <2>1, HeardQuiet
  <2>4. QED
    BY <1>1, <2>1, <2>2, <2>3, ChainStays
<1>5. QED
  BY <1>3, <1>4

LEMMA ReportOfOpen ==
  ASSUME MirrorTyped, WireInv, Remembered, NEW u \in Run, LinkOpens(u),
         NEW s \in Store, NEW f \in Field, ReportOf(s, f)
  PROVE  ReportOf(s, f)'
<1> DEFINE M == Reporting(s, f)
<1>1. /\ UNCHANGED <<now, value, lost, server, page>> /\ u = now /\ now \in Run
      /\ link[now] = "none" \/ wire[now] = << >>
      /\ wire' = [wire EXCEPT ![now] = backlog[now]] /\ backlog' = [backlog EXCEPT ![now] = << >>]
  BY DEF LinkOpens, program, MirrorTyped, ProgramTyped
<1>2. UNCHANGED <<emitting, events, data, reloads>>
  BY <1>1 DEF server, page
<1>3. wire[now] = << >> /\ wire'[now] = backlog[now] /\ backlog'[now] = << >>
  BY <1>1 DEF WireInv, MirrorTyped, NetworkTyped
<1>4. Heard(s, f) => Heard(s, f)'
  BY <1>1, <1>2, HeardQuiet
<1>5. Said(s, f) => Said(s, f)'
  BY <1>1, <1>2, <1>4, ChainStays
<1>6. NoneIn(<< >>, M) /\ \A e : ~LastIn(<< >>, M, e)
  BY QueueEmpty
<1>7. \A e : Agrees(e, s, f)' <=> Agrees(e, s, f)
  BY <1>1 DEF Agrees
<1> HIDE DEF M
<1>8. now \notin lost => Sent(s, f)'
  BY <1>1, <1>3, <1>5, <1>6, <1>7 DEF ReportOf, Sent, M
<1>9. QED
  BY <1>1, <1>3, <1>6, <1>8 DEF ReportOf, M

LEMMA ReportOfBreak ==
  ASSUME MirrorTyped, WireInv, Remembered, NEW u \in Run, LinkBreaks(u),
         NEW s \in Store, NEW f \in Field, ReportOf(s, f)
  PROVE  ReportOf(s, f)'
<1>1. /\ UNCHANGED <<now, value, backlog, emitting, events, data, reloads>> /\ Cut(u)
      /\ NetworkTyped /\ now \in Run
  BY DEF LinkBreaks, program, server, page, MirrorTyped, ProgramTyped
<1>2. /\ lost \subseteq lost' /\ (u \notin lost' => wire'[u] = wire[u])
      /\ \A r \in Run : r # u => wire'[r] = wire[r]
  BY <1>1, CutTyped
<1>3. Heard(s, f) => Heard(s, f)'
  BY <1>1, HeardQuiet
<1>4. CASE wire'[now] = wire[now]
  BY <1>1, <1>2, <1>3, <1>4, ChainStays
<1>5. CASE now \in lost'
  BY <1>1, <1>5 DEF ReportOf
<1>6. QED
  BY <1>1, <1>2, <1>4, <1>5

\* The run that starts has sent nothing, and nothing was told of it.
LEMMA ReportOfRestart ==
  ASSUME MirrorTyped, WireInv, FreshTyped, Remembered, AppRestarts, NEW s \in Store, NEW f \in Field
  PROVE  ReportOf(s, f)'
<1>1. /\ now \in Run /\ now' = now + 1 /\ now' \in Run /\ UNCHANGED <<value, emitting, events, data, reloads>>
      /\ Cut(now) /\ backlog' = [backlog EXCEPT ![now] = << >>] /\ NetworkTyped /\ reloads \in Nat
  <2>1. now \in Run /\ NetworkTyped /\ reloads \in Nat
    BY DEF MirrorTyped, ProgramTyped, PageTyped
  <2>2. /\ now' = now + 1 /\ now < MaxRuns /\ UNCHANGED <<value, emitting, events, data, reloads>>
        /\ Cut(now) /\ backlog' = [backlog EXCEPT ![now] = << >>]
    BY DEF AppRestarts, server, page
  <2>3. QED
    BY <2>1, <2>2, RunAssumption DEF Run
<1>2. now' > now /\ now' # now
  BY <1>1 DEF Run
<1>3. backlog[now'] = << >> /\ wire[now'] = << >> /\ emitting[now'] = << >>
  BY <1>1, <1>2 DEF WireInv
<1>4. wire'[now'] = << >> /\ backlog'[now'] = << >> /\ emitting'[now'] = << >>
  <2>1. wire'[now'] = wire[now']
    BY <1>1, <1>2, CutTyped
  <2>2. backlog'[now'] = backlog[now']
    BY <1>1, <1>2 DEF NetworkTyped
  <2>3. QED
    BY <1>1, <1>3, <2>1, <2>2
<1>5. \A e : ~LastIn(events', Telling(now', s, f), e)
  <2>1. \A n \in 1..Len(events) : events[n].run # now'
    <3>1. SUFFICES ASSUME NEW n \in 1..Len(events)
                   PROVE  events[n].run # now'
      OBVIOUS
    <3>2. events[n].run <= now
      BY DEF FreshTyped
    <3>3. QED
      BY <1>1, <3>2 DEF Run
  <2>2. QED
    BY <1>1, <2>1 DEF LastIn, Telling
<1>6. <<now', s, f>> \notin fresh'
  <2> DEFINE x == <<now', s, f>>
  <2>1. Reported = {}
    BY <1>1 DEF Reported, Took
  <2>2. x \in fresh' => x \in fresh
    BY <1>1, <2>1, FreshMoves
  <2>3. x[1] = now'
    OBVIOUS
  <2> HIDE DEF x
  <2>4. x \in fresh => x[1] <= now
    BY DEF FreshTyped
  <2>5. x \notin fresh'
    BY <1>1, <2>2, <2>3, <2>4 DEF Run
  <2>6. QED
    BY <2>5 DEF x
<1>7. Heard(s, f)'
  BY <1>5, <1>6 DEF Heard, PageAgrees
<1>8. Said(s, f)'
  BY <1>4, <1>7, QueueEmpty DEF Said
<1>9. Sent(s, f)'
  BY <1>4, <1>8, QueueEmpty DEF Sent
<1>10. QED
  BY <1>4, <1>9, QueueEmpty DEF ReportOf

LEMMA ReportOfRead ==
  ASSUME MirrorTyped, Remembered, NEW u \in Run, ServerReads(u),
         NEW s \in Store, NEW f \in Field, ReportOf(s, f)
  PROVE  ReportOf(s, f)'
<1> DEFINE M == Reporting(s, f)
           T == Telling(now, s, f)
           frame == Head(wire[u])
           said == IF frame.type = "hello" THEN Connected(u) ELSE Message(u, frame)
<1>1. /\ now \in Run /\ wire \in [Run -> Seq(FrameSet)] /\ emitting \in [Run -> Seq(EventSet)]
      /\ UNCHANGED <<now, value, backlog, lost, events, data, reloads>>
      /\ wire[u] # << >> /\ emitting[u] = << >>
      /\ wire' = [wire EXCEPT ![u] = Tail(@)] /\ emitting' = [emitting EXCEPT ![u] = <<said>>]
  BY DEF ServerReads, program, page, MirrorTyped, ProgramTyped, NetworkTyped, ServerTyped
<1>2. Heard(s, f) => Heard(s, f)'
  BY <1>1, HeardQuiet
<1>3. CASE u # now
  <2>1. wire'[now] = wire[now] /\ emitting'[now] = emitting[now]
    BY <1>1, <1>3
  <2>2. QED
    BY <1>1, <1>2, <2>1, ChainStays
<1>4. CASE u = now
  <2>1. wire[now] \in Seq(FrameSet) /\ wire[now] # << >> /\ frame = Head(wire[now]) /\ frame \in FrameSet
    BY <1>1, <1>4, HeadTailProperties
  <2>2. /\ NoneIn(wire[now], M) <=> frame \notin M /\ NoneIn(Tail(wire[now]), M)
        /\ \A e : LastIn(wire[now], M, e) <=>
                    LastIn(Tail(wire[now]), M, e) \/ (NoneIn(Tail(wire[now]), M) /\ frame \in M /\ e = frame)
    <3> DEFINE q == wire[now]
    <3>1. q \in Seq(FrameSet) /\ q # << >> /\ frame = Head(q)
      BY <2>1
    <3> HIDE DEF q, frame, M
    <3>2. /\ NoneIn(q, M) <=> frame \notin M /\ NoneIn(Tail(q), M)
          /\ \A e : LastIn(q, M, e) <=> LastIn(Tail(q), M, e) \/ (NoneIn(Tail(q), M) /\ frame \in M /\ e = frame)
      BY ONLY <3>1, QueueTail
    <3>3. QED
      BY <3>2 DEF q
  <2>3. wire'[now] = Tail(wire[now]) /\ emitting'[now] = <<said>> /\ emitting[now] = << >>
    BY <1>1, <1>4
  <2>4. (said \in T <=> frame \in M) /\ (said \in T => said.frame = frame)
    BY <1>4, <2>1 DEF Telling, Reporting, Connected, Message, EventSet, FrameSet, HelloFrame, PingFrame
  <2> HIDE DEF said, frame
  <2>5. /\ NoneIn(emitting'[now], T) <=> said \notin T
        /\ \A e : LastIn(emitting'[now], T, e) <=> said \in T /\ e = said
    BY <2>3, QueueOne
  <2>6. NoneIn(emitting[now], T)
    BY <2>3, QueueEmpty
  <2>7. \A e : Agrees(e, s, f)' <=> Agrees(e, s, f)
    BY <1>1 DEF Agrees
  <2> HIDE DEF M, T
  <2>8. ASSUME Sent(s, f), NoneIn(wire'[now], M)
        PROVE  Said(s, f)'
    <3>1. CASE frame \in M
      <4>1. Agrees(frame, s, f)
        BY <2>2, <2>3, <2>8, <3>1 DEF Sent, M
      <4>2. QED
        BY <1>1, <2>4, <2>5, <2>7, <3>1, <4>1 DEF Said, T
    <3>2. CASE frame \notin M
      <4>1. Said(s, f)
        BY <2>2, <2>3, <2>8, <3>2 DEF Sent, M
      <4>2. Heard(s, f)'
        BY <1>2, <2>6, <4>1 DEF Said, T
      <4>3. QED
        BY <1>1, <2>4, <2>5, <3>2, <4>2 DEF Said, T
    <3>3. QED
      BY <3>1, <3>2
  <2>9. Sent(s, f) => Sent(s, f)'
    BY <1>1, <2>2, <2>3, <2>7, <2>8 DEF Sent, M
  <2>10. QED
    BY <1>1, <2>7, <2>9 DEF ReportOf
<1>5. QED
  BY <1>3, <1>4

LEMMA ReportOfEnd ==
  ASSUME MirrorTyped, Remembered, NEW u \in Run, ServerEnds(u) \/ OldConnectionEnds(u) \/ Sweeps(u),
         NEW s \in Store, NEW f \in Field, ReportOf(s, f)
  PROVE  ReportOf(s, f)'
<1>1. UNCHANGED <<now, value, wire, backlog, lost, emitting, events, data, reloads>>
  BY DEF ServerEnds, OldConnectionEnds, Sweeps, program, network, page
<1>2. Heard(s, f) => Heard(s, f)'
  BY <1>1, HeardQuiet
<1>3. QED
  BY <1>1, <1>2, ChainStays

LEMMA ReportOfDrop ==
  ASSUME MirrorTyped, Remembered, NEW u \in Run, DropEmitted(u),
         NEW s \in Store, NEW f \in Field, ReportOf(s, f)
  PROVE  ReportOf(s, f)'
<1> DEFINE T == Telling(now, s, f)
           e == Disconnected(u)
<1>1. /\ reloads \in Nat /\ events \in Seq(EventSet) /\ Len(events) \in Nat
      /\ UNCHANGED <<now, value, wire, backlog, lost, emitting, data, reloads>>
      /\ events' = Append(events, e) \/ events' = events
  BY LenProperties DEF DropEmitted, program, network, MirrorTyped, PageTyped
<1>2. e \in EventSet /\ e \notin T
  BY DEF Disconnected, EventSet, Telling
<1> HIDE DEF e
<1>3. events' = Append(events, e) => Len(events') = Len(events) + 1
  BY <1>1, <1>2, AppendProperties
<1>4. Reported = {}
  BY <1>1, <1>3 DEF Reported, Took
<1>5. missed \subseteq missed' /\ (<<now, s, f>> \in fresh' => <<now, s, f>> \in fresh)
  BY <1>1, <1>4, FreshMoves
<1> HIDE DEF T
<1>6. /\ NoneIn(events', T) => NoneIn(events, T)
      /\ \A d : LastIn(events', T, d) => LastIn(events, T, d)
  <2>1. CASE events' = events
    BY <2>1
  <2>2. CASE events' = Append(events, e)
    BY ONLY <1>1, <1>2, <2>2, QueueAppend
  <2>3. QED
    BY <1>1, <2>1, <2>2
<1>7. Heard(s, f) => Heard(s, f)'
  BY <1>1, <1>5, <1>6, HeardStays DEF T
<1>8. QED
  BY <1>1, <1>7, ChainStays

LEMMA ReportOfEmit ==
  ASSUME MirrorTyped, Remembered, NEW u \in Run, ServerEmits(u),
         NEW s \in Store, NEW f \in Field, ReportOf(s, f)
  PROVE  ReportOf(s, f)'
<1> DEFINE T == Telling(now, s, f)
           e == Head(emitting[u])
<1>1. /\ now \in Run /\ reloads \in Nat /\ events \in Seq(EventSet) /\ Len(events) \in Nat /\ ServerTyped
      /\ UNCHANGED <<now, value, wire, backlog, lost, data, reloads>>
  BY LenProperties DEF ServerEmits, program, network, MirrorTyped, ProgramTyped, PageTyped
<1>2. /\ e \in EventSet /\ e.run = u /\ Len(emitting'[u]) = 0 /\ Len(emitting[u]) = 1 /\ emitting[u][1] = e
      /\ \A r \in Run : r # u => emitting'[r] = emitting[r]
  BY <1>1, EmitIs
<1>3. events' = Append(events, e) \/ events' = events
  BY DEF ServerEmits
<1> HIDE DEF e
<1>4. events' = Append(events, e) => Len(events') = Len(events) + 1
  BY <1>1, <1>2, AppendProperties
<1>5. Reported = {}
  BY <1>1, <1>3, <1>4 DEF Reported, Took
<1>6. missed \subseteq missed' /\ (events' = events => u \in missed')
  BY <1>1, <1>2, FreshMoves DEF Unheard
<1>7. <<now, s, f>> \in fresh' => <<now, s, f>> \in fresh
  BY <1>1, <1>5, FreshMoves
<1>8. ASSUME NEW M, events' = Append(events, e)
      PROVE  /\ NoneIn(events', M) <=> e \notin M /\ NoneIn(events, M)
             /\ \A d : LastIn(events', M, d) <=> (e \in M /\ d = e) \/ (e \notin M /\ LastIn(events, M, d))
  <2>1. events \in Seq(EventSet) /\ e \in EventSet
    BY <1>1, <1>2
  <2>2. QED
    BY ONLY <1>8, <2>1, QueueAppend
<1>9. \A M : /\ NoneIn(emitting'[u], M) /\ \A d : ~LastIn(emitting'[u], M, d)
             /\ NoneIn(emitting[u], M) <=> e \notin M
             /\ e \in M => LastIn(emitting[u], M, e)
  BY <1>2 DEF NoneIn, LastIn
<1>10. \A d : Agrees(d, s, f)' <=> Agrees(d, s, f)
  BY <1>1 DEF Agrees
<1>11. PageAgrees(s, f) => PageAgrees(s, f)'
  BY <1>1, <1>7 DEF PageAgrees
<1>12. e \in T => u = now
  BY <1>2 DEF Telling
<1> HIDE DEF T
<1>13. CASE u # now
  <2>1. Heard(s, f) => Heard(s, f)'
    BY <1>1, <1>3, <1>6, <1>8, <1>10, <1>11, <1>12, <1>13 DEF Heard, T
  <2>2. QED
    BY <1>1, <1>2, <1>13, <2>1, ChainStays
<1>14. CASE u = now
  <2>1. ASSUME Said(s, f), now \notin missed'
        PROVE  Heard(s, f)'
    <3>1. events' = Append(events, e) /\ now \notin missed
      BY <1>3, <1>6, <1>14, <2>1
    <3>2. CASE e \in T
      <4>1. Agrees(e.frame, s, f)
        BY <1>9, <1>14, <2>1, <3>2 DEF Said, T
      <4>2. QED
        BY <1>1, <1>8, <1>10, <3>1, <3>2, <4>1 DEF Heard, T
    <3>3. CASE e \notin T
      <4>1. Heard(s, f)
        BY <1>9, <1>14, <2>1, <3>3 DEF Said, T
      <4>2. QED
        BY <1>1, <1>8, <1>10, <1>11, <3>1, <3>3, <4>1 DEF Heard, T
    <3>4. QED
      BY <3>2, <3>3
  <2>2. Said(s, f) => Said(s, f)'
    BY <1>1, <1>9, <1>14, <2>1 DEF Said, Heard, T
  <2>3. Sent(s, f) => Sent(s, f)'
    BY <1>1, <1>10, <2>2 DEF Sent
  <2>4. QED
    BY <1>1, <1>10, <2>3 DEF ReportOf
<1>15. QED
  BY <1>13, <1>14

\* A report that is applied to a store that is shown is what is shown.
LEMMA AppliedReports ==
  ASSUME NEW d, DataTyped(d), NEW r \in Run, NEW s \in Store, NEW f \in Field,
         NEW frame \in Reporting(s, f), IsShown(Applied(d, r, frame), <<r, s, f>>)
  PROVE  Applied(d, r, frame)[r][s][f] = Carried(frame, f)
<1> DEFINE shown == Shown(d, r)
<1>1. shown \in StateSet
  <2>1. NoStores \in StateSet
    BY DEF NoStores, StateSet
  <2>2. QED
    BY <2>1 DEF Shown, DataTyped
<1>2. Applied(d, r, frame)[r][s] # None
  BY DEF IsShown
<1>3. CASE frame.type = "state/init"
  <2>1. Applied(d, r, frame) = With(d, r, [shown EXCEPT ![s] = frame.state])
    BY <1>3 DEF Applied, Reporting
  <2>2. Applied(d, r, frame)[r] = [shown EXCEPT ![s] = frame.state]
    BY <2>1 DEF With
  <2>3. Applied(d, r, frame)[r][s] = frame.state
    BY <1>1, <2>2 DEF StateSet
  <2>4. QED
    BY <1>3, <2>3 DEF Carried
<1>4. CASE frame.type = "state/action" /\ shown[s] # None
  <2> DEFINE st == [shown[s] EXCEPT ![f] = frame.val]
  <2>1. Applied(d, r, frame) = With(d, r, [shown EXCEPT ![s][f] = frame.val])
    BY <1>4 DEF Applied, Reporting
  <2>2. Applied(d, r, frame)[r] = [shown EXCEPT ![s] = st]
    BY <2>1 DEF With
  <2>3. shown[s] \in [Field -> Nat]
    BY <1>1, <1>4 DEF StateSet
  <2>4. st[f] = frame.val
    BY <2>3
  <2> HIDE DEF st
  <2>5. Applied(d, r, frame)[r][s] = st
    BY <1>1, <2>2 DEF StateSet
  <2>6. QED
    BY <1>4, <2>4, <2>5 DEF Carried
<1>5. CASE frame.type = "state/action" /\ shown[s] = None
  <2>1. Applied(d, r, frame) = d
    BY <1>5 DEF Applied, Reporting
  <2>2. r \in DOMAIN d
    BY <2>1 DEF IsShown
  <2>3. QED
    BY <1>2, <1>5, <2>1, <2>2 DEF Shown
<1>6. QED
  BY <1>3, <1>4, <1>5 DEF Reporting

\* What a frame does not report stays as it was, where it is shown.
LEMMA AppliedOther ==
  ASSUME NEW d, DataTyped(d), NEW r \in Run, NEW w \in Run, NEW s \in Store, NEW f \in Field,
         NEW frame \in FrameSet, w = r => frame \notin Reporting(s, f),
         IsShown(Applied(d, r, frame), <<w, s, f>>)
  PROVE  Applied(d, r, frame)[w][s][f] = d[w][s][f]
<1> DEFINE shown == Shown(d, r)
           next == Applied(d, r, frame)
<1>1. shown \in StateSet
  <2>1. NoStores \in StateSet
    BY DEF NoStores, StateSet
  <2>2. QED
    BY <2>1 DEF Shown, DataTyped
<1>2. w \in DOMAIN next /\ next[w][s] # None
  BY DEF IsShown
<1>3. CASE next = d
  BY <1>3
<1>4. CASE frame.type = "state/init"
  <2>1. next = With(d, r, [shown EXCEPT ![frame.store] = frame.state]) /\ frame.store \in Store
    BY <1>4 DEF Applied, FrameSet, HelloFrame, PingFrame, InitFrames, ActionFrames
  <2>2. CASE w # r
    BY <1>2, <2>1, <2>2 DEF With
  <2>3. CASE w = r
    <3>1. frame.store # s
      BY <1>4, <2>3 DEF Reporting
    <3>2. next[r] = [shown EXCEPT ![frame.store] = frame.state]
      BY <2>1 DEF With
    <3>3. next[r][s] = shown[s]
      BY <1>1, <3>1, <3>2 DEF StateSet
    <3>4. r \in DOMAIN d
      BY <1>2, <2>3, <3>3 DEF Shown, NoStores
    <3>5. QED
      BY <2>3, <3>3, <3>4 DEF Shown
  <2>4. QED
    BY <2>2, <2>3
<1>5. CASE frame.type = "state/action" /\ shown[frame.store] # None
  <2> DEFINE t == frame.store
             g == frame.field
             st == [shown[t] EXCEPT ![g] = frame.val]
  <2>1. next = With(d, r, [shown EXCEPT ![t][g] = frame.val]) /\ t \in Store /\ g \in Field
    BY <1>5 DEF Applied, FrameSet, HelloFrame, PingFrame, InitFrames, ActionFrames
  <2>2. CASE w # r
    BY <1>2, <2>1, <2>2 DEF With
  <2>3. CASE w = r
    <3>1. t # s \/ g # f
      BY <1>5, <2>3 DEF Reporting
    <3>2. next[r] = [shown EXCEPT ![t] = st]
      BY <2>1 DEF With
    <3>3. shown[t] \in [Field -> Nat]
      BY <1>1, <1>5, <2>1 DEF StateSet
    <3>4. g # f => st[f] = shown[t][f]
      BY <3>3
    <3> HIDE DEF st
    <3>5. next[r][s] = IF s = t THEN st ELSE shown[s]
      BY <1>1, <2>1, <3>2 DEF StateSet
    <3>6. shown[s] # None
      BY <1>2, <1>5, <2>3, <3>5
    <3>7. r \in DOMAIN d
      BY <3>6 DEF Shown, NoStores
    <3>8. next[r][s][f] = shown[s][f]
      BY <3>1, <3>4, <3>5
    <3>9. QED
      BY <2>3, <3>7, <3>8 DEF Shown
  <2>4. QED
    BY <2>2, <2>3
<1>6. QED
  BY <1>3, <1>4, <1>5 DEF Applied

LEMMA HydratedOther ==
  ASSUME NEW d, NEW r, NEW found, NEW w, w # r, w \in DOMAIN Hydrated(d, r, found)
  PROVE  Hydrated(d, r, found)[w] = d[w]
<1>1. ASSUME NEW c, NEW frame, w \in DOMAIN Applied(c, r, frame)
      PROVE  w \in DOMAIN c /\ Applied(c, r, frame)[w] = c[w]
  BY <1>1 DEF Applied, With
<1>2. QED
  BY <1>1 DEF Hydrated

\* Upserting leaves the data of an app alone, unless the app is new or is taken off.
FromData(d, c) == \A w \in DOMAIN d : d[w] = NoStores \/ (w \in DOMAIN c /\ d[w] = c[w])

LEMMA UpsertedData ==
  ASSUME NEW ui, NEW app
  PROVE  FromData(Upserted(ui, app).data, ui.data)
<1> DEFINE others == DOMAIN ui.pill \ {app.run}
           stale == IF others = {} THEN {} ELSE {CHOOSE r \in others : TRUE}
           kept == Without(ui.data, stale)
<1>1. Upserted(ui, app).data = IF app.run \in DOMAIN kept THEN kept ELSE With(kept, app.run, NoStores)
  BY DEF Upserted
<1> HIDE DEF stale
<1>2. QED
  BY <1>1 DEF With, Without, FromData

LEMMA UpsertsData ==
  ASSUME NEW ui, NEW S, NEW apps \in Seq(S)
  PROVE  FromData(Upserts(ui, apps).data, ui.data)
<1> DEFINE n == Len(apps)
<1>1. /\ n \in Nat
      /\ \E after : /\ Upserts(ui, apps) = after[n] /\ after[0] = ui
                    /\ \A i \in Nat : i + 1 <= n => after[i + 1] = Upserted(after[i], apps[i + 1])
  BY UpsertsStepwise
<1> HIDE DEF n
<1>2. PICK after : /\ Upserts(ui, apps) = after[n] /\ after[0] = ui
                   /\ \A i \in Nat : i + 1 <= n => after[i + 1] = Upserted(after[i], apps[i + 1])
  BY <1>1
<1> DEFINE P == {i \in Nat : i <= n => FromData(after[i].data, ui.data)}
<1>3. 0 \in P
  BY <1>2 DEF FromData
<1>4. ASSUME NEW i \in Nat, i \in P
      PROVE  i + 1 \in P
  <2> SUFFICES ASSUME i + 1 <= n
               PROVE  FromData(after[i + 1].data, ui.data)
    OBVIOUS
  <2>1. FromData(after[i].data, ui.data) /\ after[i + 1] = Upserted(after[i], apps[i + 1])
    BY <1>1, <1>2, <1>4
  <2>2. FromData(Upserted(after[i], apps[i + 1]).data, after[i].data)
    BY UpsertedData
  <2>3. QED
    BY <2>1, <2>2 DEF FromData
<1>5. Nat \subseteq P
  <2> HIDE DEF P
  <2>1. QED
    BY <1>3, <1>4, SetInduction
<1>6. QED
  BY <1>1, <1>2, <1>5

LEMMA ReportOfEvent ==
  ASSUME MirrorTyped, Remembered, EventArrives, NEW s \in Store, NEW f \in Field, ReportOf(s, f)
  PROVE  ReportOf(s, f)'
<1> DEFINE T == Telling(now, s, f)
           e == Head(events)
           x == <<now, s, f>>
<1>1. /\ now \in Run /\ reloads \in Nat /\ events \in Seq(EventSet) /\ Len(events) \in Nat /\ DataTyped(data)
      /\ UNCHANGED <<now, value, wire, backlog, lost, emitting, reloads>>
      /\ events # << >> /\ events' = Tail(events)
      /\ \/ e.kind = "connected" /\ AppConnected(e.run)
         \/ e.kind = "disconnected" /\ AppDisconnected(e.run)
         \/ e.kind = "message" /\ EnvelopeArrives(e.run, e.frame)
  BY LenProperties DEF EventArrives, program, network, server, MirrorTyped, ProgramTyped, PageTyped, DataTyped
<1>2. missed \subseteq missed' /\ (x \in fresh' => x \in fresh \cup Reported /\ IsShown(data', x))
  BY <1>1, FreshMoves
<1>3. e \in EventSet /\ e.run \in Run /\ (e.kind = "message" => e.frame \in FrameSet)
  <2>1. e \in EventSet
    BY <1>1, HeadTailProperties
  <2> HIDE DEF e
  <2>2. QED
    BY <2>1 DEF EventSet
<1>4. x \in Reported => e \in T
  <2>1. x \in Reported => e.kind = "message" /\ x \in LET r == e.run
                                                         frame == e.frame
                                                     IN CASE frame.type = "state/init"   -> {r} \X {frame.store} \X Field
                                                          [] frame.type = "state/action" -> {<<r, frame.store, frame.field>>}
                                                          [] OTHER -> {}
    BY DEF Reported
  <2> HIDE DEF e
  <2>2. QED
    BY <1>3, <2>1 DEF Telling, Reporting
<1>5. /\ \A d : LastIn(events', T, d) => LastIn(events, T, d)
      /\ NoneIn(events', T) /\ e \in T => LastIn(events, T, e)
      /\ NoneIn(events', T) /\ e \notin T => NoneIn(events, T)
  <2> DEFINE q == events
  <2>1. q \in Seq(EventSet) /\ q # << >> /\ e = Head(q) /\ events' = Tail(q)
    BY <1>1
  <2> HIDE DEF q, e, T
  <2>2. /\ NoneIn(q, T) <=> e \notin T /\ NoneIn(Tail(q), T)
        /\ \A d : LastIn(q, T, d) <=> LastIn(Tail(q), T, d) \/ (NoneIn(Tail(q), T) /\ e \in T /\ d = e)
    BY ONLY <2>1, QueueTail
  <2>3. QED
    BY <2>1, <2>2 DEF q
<1>6. ASSUME e \in T, IsShown(data', x)
      PROVE  data'[now][s][f] = Carried(e.frame, f)
  <2>1. e.run = now /\ e.kind = "message" /\ e.frame \in Reporting(s, f)
    BY <1>6 DEF Telling
  <2>2. data' = Applied(data, now, e.frame)
    BY <1>1, <2>1 DEF EnvelopeArrives
  <2> HIDE DEF e, x
  <2>3. IsShown(Applied(data, now, e.frame), <<now, s, f>>)
    BY <1>6, <2>2 DEF x
  <2>4. QED
    BY <1>1, <2>1, <2>2, <2>3, AppliedReports
<1>7. ASSUME e \notin T, IsShown(data', x)
      PROVE  data'[now][s][f] = data[now][s][f]
  <2>1. CASE e.kind = "connected" /\ AppConnected(e.run)
    <3> DEFINE ui == [pill |-> pill, data |-> data]
               app == [run |-> e.run, connected |-> TRUE]
               next == Upserted(ui, app)
    <3>1. data' = next.data /\ ui.data = data
      BY <2>1 DEF AppConnected
    <3> HIDE DEF ui, app
    <3>2. FromData(next.data, ui.data)
      BY UpsertedData
    <3> HIDE DEF next
    <3>3. FromData(data', data)
      BY <3>1, <3>2
    <3>4. QED
      BY <1>7, <3>3 DEF FromData, IsShown, NoStores
  <2>2. CASE e.kind = "disconnected" /\ AppDisconnected(e.run)
    BY <2>2 DEF AppDisconnected
  <2>3. CASE e.kind = "message" /\ EnvelopeArrives(e.run, e.frame)
    <3>1. data' = Applied(data, e.run, e.frame)
      BY <2>3 DEF EnvelopeArrives
    <3>2. now = e.run => e.frame \notin Reporting(s, f)
      BY <1>3, <1>7, <2>3 DEF Telling
    <3> HIDE DEF e, x, T
    <3>3. IsShown(Applied(data, e.run, e.frame), <<now, s, f>>)
      BY <1>7, <3>1 DEF x
    <3>4. QED
      BY <1>1, <1>3, <2>3, <3>1, <3>2, <3>3, AppliedOther
  <2>4. QED
    BY <1>1, <2>1, <2>2, <2>3
<1> HIDE DEF T, e, x
<1>8. \A d : Agrees(d, s, f)' <=> Agrees(d, s, f)
  BY <1>1 DEF Agrees
<1>9. ASSUME Heard(s, f), now \notin missed', NoneIn(events', T), x \in fresh'
      PROVE  data'[now][s][f] = value[now][s][f]
  <2>1. now \notin missed /\ IsShown(data', x) /\ x \in fresh \cup Reported
    BY <1>2, <1>9
  <2>2. CASE e \in T
    <3>1. Agrees(e.frame, s, f)
      BY <1>5, <1>9, <2>1, <2>2 DEF Heard, T
    <3>2. QED
      BY <1>6, <2>1, <2>2, <3>1 DEF Agrees
  <2>3. CASE e \notin T
    <3>1. PageAgrees(s, f) /\ x \in fresh
      BY <1>4, <1>5, <1>9, <2>1, <2>3 DEF Heard, T
    <3>2. data[now][s][f] = value[now][s][f]
      BY <3>1 DEF PageAgrees, x
    <3>3. QED
      BY <1>7, <2>1, <2>3, <3>2
  <2>4. QED
    BY <2>2, <2>3
<1>10. Heard(s, f) => Heard(s, f)'
  <2> SUFFICES ASSUME Heard(s, f), now \notin missed'
               PROVE  /\ \A d : LastIn(events', T, d) => Agrees(d.frame, s, f)'
                      /\ NoneIn(events', T) => PageAgrees(s, f)'
    BY <1>1 DEF Heard, T
  <2>1. \A d : LastIn(events', T, d) => Agrees(d.frame, s, f)'
    BY <1>2, <1>5, <1>8 DEF Heard, T
  <2>2. NoneIn(events', T) => PageAgrees(s, f)'
    BY <1>1, <1>9 DEF PageAgrees, x
  <2>3. QED
    BY <2>1, <2>2
<1>11. QED
  BY <1>1, <1>10, ChainStays

LEMMA ReportOfReload ==
  ASSUME MirrorTyped, Remembered, PageReloads, NEW s \in Store, NEW f \in Field, ReportOf(s, f)
  PROVE  ReportOf(s, f)'
<1>1. /\ events' = << >> /\ UNCHANGED <<now, value, wire, backlog, lost, emitting>>
  BY DEF PageReloads, program, network, server
<1>2. fresh' = {}
  BY DEF MirrorTyped, PageTyped, PageReloads, Reloaded, Remembered
<1>3. Heard(s, f)'
  BY <1>1, <1>2, QueueEmpty DEF Heard, PageAgrees
<1>4. QED
  BY <1>1, <1>3, ChainStays

\* The steps that change what the page has without an event: the cache is replayed, the list
\* arrives, the user removes an app.
LEMMA ReportOfRest ==
  ASSUME MirrorTyped, Remembered,
         \/ \E u \in Run : ServerForgets(u) \/ UserForgets(u)
         \/ ServerLists \/ ListArrives
         \/ \E i \in DOMAIN fetches : ServerFetches(i) \/ FetchArrives(i)
         \/ \E k \in Kinds : Listens(k)
         \/ UNCHANGED vars,
         NEW s \in Store, NEW f \in Field, ReportOf(s, f)
  PROVE  ReportOf(s, f)'
<1>1. UNCHANGED <<now, value, wire, backlog, lost, emitting, events, reloads>>
  BY DEF ServerForgets, UserForgets, ServerLists, ListArrives, ServerFetches, FetchArrives, Listens, vars,
         program, network, server, page
<1>2. (IsShown(data', <<now, s, f>>) /\ now \notin Replayed) => data'[now][s][f] = data[now][s][f]
  <2> SUFFICES ASSUME IsShown(data', <<now, s, f>>), now \notin Replayed
               PROVE  data'[now][s][f] = data[now][s][f]
    OBVIOUS
  <2>1. CASE data' = data
    BY <2>1
  <2>2. ASSUME NEW u \in Run, UserForgets(u)
        PROVE  data'[now][s][f] = data[now][s][f]
    BY <2>2 DEF UserForgets, Without, IsShown
  <2>3. CASE ListArrives
    <3> DEFINE ui == [pill |-> pill, data |-> data]
    <3>1. data' = Upserts(ui, listed).data /\ ui.data = data
      BY <2>3 DEF ListArrives
    <3> HIDE DEF ui
    <3>2. FromData(Upserts(ui, listed).data, ui.data)
      BY UpsertsData DEF MirrorTyped, PageTyped
    <3>3. FromData(data', data)
      BY <3>1, <3>2
    <3>4. QED
      BY <3>3 DEF FromData, IsShown, NoStores
  <2>4. ASSUME NEW i \in DOMAIN fetches, FetchArrives(i)
        PROVE  data'[now][s][f] = data[now][s][f]
    <3>1. fetches' = RemoveAt(fetches, i) /\ data' = Hydrated(data, fetches[i].run, fetches[i].found)
      BY <2>4 DEF FetchArrives
    <3>2. now # fetches[i].run
      BY <3>1 DEF Replayed
    <3>3. now \in DOMAIN data'
      BY DEF IsShown
    <3>4. data'[now] = data[now]
      BY <3>1, <3>2, <3>3, HydratedOther
    <3>5. QED
      BY <3>4
  <2>5. QED
    BY <2>1, <2>2, <2>3, <2>4 DEF ServerForgets, ServerLists, ServerFetches, Listens, vars, page
<1>3. Heard(s, f) => Heard(s, f)'
  BY <1>1, <1>2, HeardQuiet
<1>4. QED
  BY <1>1, <1>3, ChainStays

LEMMA ReportInvStep ==
  ASSUME MirrorTyped, WireInv, FreshTyped, ReportInv, [HiNext]_hiVars
  PROVE  ReportInv'
<1> SUFFICES ASSUME NEW s \in Store, NEW f \in Field
             PROVE  ReportOf(s, f)'
  BY DEF ReportInv
<1>1. ReportOf(s, f)
  BY DEF ReportInv
<1>2. CASE HiNext
  BY <1>1, <1>2, ReportOfWrite, ReportOfBeat, ReportOfHello, ReportOfOpen, ReportOfBreak, ReportOfRestart,
     ReportOfRead, ReportOfEnd, ReportOfDrop, ReportOfEmit, ReportOfEvent, ReportOfReload, ReportOfRest DEF HiNext, Next
<1>3. CASE UNCHANGED hiVars
  <2>1. UNCHANGED <<now, value, wire, backlog, lost, emitting, events, data, fresh, missed>>
    BY <1>3 DEF hiVars, vars, history, program, network, server, page
  <2>2. Heard(s, f) => Heard(s, f)'
    BY <2>1, HeardStays
  <2>3. QED
    BY <1>1, <2>1, <2>2, ChainStays
<1>4. QED
  BY <1>2, <1>3

\* What is heard, and what of it is fresh, is of the runs that have started.
LEMMA FreshTypedStep ==
  ASSUME MirrorTyped, WireInv, FreshTyped, [HiNext]_hiVars
  PROVE  FreshTyped'
<1>1. /\ now \in Run /\ events \in Seq(EventSet) /\ Len(events) \in Nat /\ reloads \in Nat /\ ServerTyped
  BY LenProperties DEF MirrorTyped, ProgramTyped, PageTyped
<1>2. now' \in Run /\ now <= now'
  <2>1. now' \in Run
    BY MirrorTypedStep DEF MirrorTyped, ProgramTyped, HiNext, hiVars
  <2>2. now' = now \/ now' = now + 1
    BY DEF HiNext, hiVars, Next, StoreAttached, StoreWritten, AppRestarts, HeartbeatSent, LinkOpens, HelloSent,
           LinkBreaks, ServerReads, ServerEnds, OldConnectionEnds, Sweeps, DropEmitted, ServerEmits, ServerForgets,
           UserForgets, ServerLists, ListArrives, ServerFetches, FetchArrives, Listens, EventArrives, PageReloads, vars, program
  <2>3. QED
    BY <1>1, <2>1, <2>2 DEF Run
<1>3. ASSUME NEW w, w \in Run, w <= now
      PROVE  w <= now'
  BY <1>1, <1>2, <1>3 DEF Run
<1>4. \A n \in 1..Len(events) : events[n] \in EventSet /\ events[n].run \in Run /\ events[n].run <= now
  <2> SUFFICES ASSUME NEW n \in 1..Len(events)
               PROVE  events[n] \in EventSet /\ events[n].run \in Run /\ events[n].run <= now
    OBVIOUS
  <2>1. events[n] \in EventSet
    BY <1>1, ElementOfSeq
  <2>2. QED
    BY <2>1 DEF FreshTyped, EventSet
<1>5. \A n \in 1..Len(events') : events'[n].run <= now'
  <2>1. CASE events' = events
    BY <1>3, <1>4, <2>1
  <2>2. ASSUME NEW u \in Run, ServerEmits(u), events' = Append(events, Head(emitting[u]))
        PROVE  \A n \in 1..Len(events') : events'[n].run <= now'
    <3> DEFINE e == Head(emitting[u])
    <3>1. e \in EventSet /\ e.run = u /\ emitting[u] # << >>
      BY <1>1, <2>2, EmitIs
    <3>2. u <= now
      BY <1>1, <3>1 DEF WireInv, Run
    <3>3. /\ Len(events') = Len(events) + 1 /\ events'[Len(events) + 1] = e
          /\ \A n \in 1..Len(events) : events'[n] = events[n]
      <4> HIDE DEF e
      <4>1. events' = Append(events, e)
        BY <2>2 DEF e
      <4>2. QED
        BY <1>1, <3>1, <4>1, AppendProperties
    <3> HIDE DEF e
    <3>4. \A n \in 1..Len(events') : n \in 1..Len(events) \/ n = Len(events) + 1
      BY <1>1, <3>3
    <3>5. QED
      BY <1>3, <1>4, <3>1, <3>2, <3>3, <3>4
  <2>3. ASSUME NEW u \in Run, DropEmitted(u), events' = Append(events, Disconnected(u))
        PROVE  \A n \in 1..Len(events') : events'[n].run <= now'
    <3> DEFINE e == Disconnected(u)
    <3>1. e \in EventSet /\ e.run = u
      BY DEF Disconnected, EventSet
    <3>2. u <= now
      <4>1. dropping[u] # 0
        BY <2>3 DEF DropEmitted
      <4>2. QED
        BY <1>1, <4>1 DEF WireInv, Run
    <3>3. /\ Len(events') = Len(events) + 1 /\ events'[Len(events) + 1] = e
          /\ \A n \in 1..Len(events) : events'[n] = events[n]
      <4> HIDE DEF e
      <4>1. events' = Append(events, e)
        BY <2>3 DEF e
      <4>2. QED
        BY <1>1, <3>1, <4>1, AppendProperties
    <3> HIDE DEF e
    <3>4. \A n \in 1..Len(events') : n \in 1..Len(events) \/ n = Len(events) + 1
      BY <1>1, <3>3
    <3>5. QED
      BY <1>3, <1>4, <3>1, <3>2, <3>3, <3>4
  <2>4. CASE events # << >> /\ events' = Tail(events)
    <3>1. Len(events') = Len(events) - 1 /\ \A n \in 1..Len(events') : events'[n] = events[n + 1]
      BY <1>1, <2>4, HeadTailProperties
    <3>2. \A n \in 1..Len(events') : n + 1 \in 1..Len(events)
      BY <1>1, <3>1
    <3>3. QED
      BY <1>3, <1>4, <3>1, <3>2
  <2>5. CASE events' = << >>
    BY <2>5
  <2>6. \/ events' = events
        \/ \E u \in Run : ServerEmits(u) /\ events' = Append(events, Head(emitting[u]))
        \/ \E u \in Run : DropEmitted(u) /\ events' = Append(events, Disconnected(u))
        \/ events # << >> /\ events' = Tail(events)
        \/ events' = << >>
    BY DEF HiNext, hiVars, Next, StoreAttached, StoreWritten, AppRestarts, HeartbeatSent, LinkOpens, HelloSent,
           LinkBreaks, ServerReads, ServerEnds, OldConnectionEnds, Sweeps, DropEmitted, ServerEmits, ServerForgets,
           UserForgets, ServerLists, ListArrives, ServerFetches, FetchArrives, Listens, EventArrives, PageReloads, vars, page
  <2>7. QED
    BY <2>1, <2>2, <2>3, <2>4, <2>5, <2>6
<1>6. \A x \in fresh' : x \in fresh \cup Reported \/ fresh' = {} \/ fresh' = fresh
  BY DEF HiNext, Remembered, hiVars, history
<1>7. \A x \in Reported : x \in Run \X Store \X Field /\ x[1] <= now
  <2> SUFFICES ASSUME NEW x \in Reported
               PROVE  x \in Run \X Store \X Field /\ x[1] <= now
    OBVIOUS
  <2> DEFINE e == Head(events)
  <2>1. Took /\ e.kind = "message"
    BY DEF Reported
  <2>2. events # << >>
    <3>1. Len(events') \in Nat
      BY MirrorTypedStep, LenProperties DEF MirrorTyped, PageTyped, HiNext, hiVars
    <3>2. Len(events') < Len(events)
      BY <2>1 DEF Took
    <3>3. Len(<< >>) = 0
      OBVIOUS
    <3>4. QED
      BY <1>1, <3>1, <3>2, <3>3
  <2>3. e \in EventSet /\ 1 \in 1..Len(events) /\ e = events[1]
    BY <1>1, <2>2, HeadTailProperties, EmptySeq
  <2>4. e.run \in Run /\ e.run <= now
    BY <1>4, <2>3
  <2>5. x \in LET r == e.run
                  frame == e.frame
              IN CASE frame.type = "state/init"   -> {r} \X {frame.store} \X Field
                   [] frame.type = "state/action" -> {<<r, frame.store, frame.field>>}
                   [] OTHER -> {}
    BY <2>1 DEF Reported
  <2> HIDE DEF e
  <2>6. e.frame \in FrameSet
    BY <2>1, <2>3 DEF EventSet
  <2>7. CASE e.frame.type = "state/init" /\ x \in {e.run} \X {e.frame.store} \X Field
    <3>1. e.frame.store \in Store
      BY <2>6, <2>7 DEF FrameSet, HelloFrame, PingFrame, InitFrames, ActionFrames
    <3>2. QED
      BY <2>4, <2>7, <3>1
  <2>8. CASE e.frame.type = "state/action" /\ x = <<e.run, e.frame.store, e.frame.field>>
    <3>1. e.frame.store \in Store /\ e.frame.field \in Field
      BY <2>6, <2>8 DEF FrameSet, HelloFrame, PingFrame, InitFrames, ActionFrames
    <3>2. QED
      BY <2>4, <2>8, <3>1
  <2>9. QED
    BY <2>5, <2>7, <2>8
<1>8. \A x \in fresh : x \in Run \X Store \X Field /\ x[1] <= now
  BY DEF FreshTyped
<1>9. \A x \in fresh' : x \in Run \X Store \X Field /\ x[1] <= now'
  <2> SUFFICES ASSUME NEW x \in fresh'
               PROVE  x \in Run \X Store \X Field /\ x[1] <= now'
    OBVIOUS
  <2>1. x \in Run \X Store \X Field /\ x[1] <= now
    BY <1>6, <1>7, <1>8
  <2>2. x[1] \in Run
    BY <2>1
  <2>3. QED
    BY <1>3, <2>1, <2>2
<1>10. QED
  BY <1>5, <1>9 DEF FreshTyped

\* A field that an app reported while the page was listening (state/init or state/action,
\* after the last replay of the cache) shows what the app holds, once nothing is on its way:
\* whatever broke, was reloaded, removed or restarted before, unless a frame was lost with
\* its socket or an event fell into the bootstrap before its listener.  For any number of
\* runs, stores, fields and writes.
THEOREM LiveFieldsAreRight == HiSpec => []FreshFieldsAgree
<1> DEFINE Inv == MirrorTyped /\ WireInv /\ FreshTyped /\ ReportInv
<1>1. HiInit => Inv
  BY MirrorTypedInit, WireInvInit, ReportInvInit DEF HiInit
<1>2. Inv /\ [HiNext]_hiVars => Inv'
  BY MirrorTypedStep, WireInvStep, FreshTypedStep, ReportInvStep DEF HiNext, hiVars
<1>3. Inv => FreshFieldsAgree
  <2> SUFFICES ASSUME Inv, Settled, now \notin missed \cup lost, backlog[now] = << >>,
                      NEW x \in fresh, x[1] = now
               PROVE  data[now][x[2]][x[3]] = value[now][x[2]][x[3]]
    BY DEF FreshFieldsAgree
  <2>1. x \in Run \X Store \X Field /\ now \in Run
    BY DEF FreshTyped, MirrorTyped, ProgramTyped
  <2>2. PICK s \in Store, f \in Field : x = <<now, s, f>>
    BY <2>1
  <2>3. wire[now] = << >> /\ emitting[now] = << >> /\ events = << >>
    BY <2>1 DEF Settled
  <2>4. \A M : NoneIn(<< >>, M)
    BY QueueEmpty
  <2>5. ReportOf(s, f)
    BY DEF ReportInv
  <2>6. Said(s, f)
    BY <2>3, <2>4, <2>5 DEF ReportOf, Sent
  <2>7. PageAgrees(s, f)
    BY <2>3, <2>4, <2>6 DEF Said, Heard
  <2>8. QED
    BY <2>2, <2>7 DEF PageAgrees
<1>4. QED
  BY <1>1, <1>2, <1>3, PTL DEF HiSpec

=============================================================================
