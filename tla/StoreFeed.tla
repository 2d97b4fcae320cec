------------------------------ MODULE StoreFeed ------------------------------
(***************************************************************************)
(* State managers: what an adapter reports of one store, the copy the      *)
(* desktop keeps, and the edits it sends back to a Zustand store.          *)
(*                                                                         *)
(* An adapter sends the whole state once and then, after a change, the     *)
(* difference from what it serialised last.  Frames can be lost before     *)
(* they leave (see Transport: the queue drops its oldest).  A state is one *)
(* level deep here (see Values for diffValues and applyPatch on trees); a  *)
(* field holds a value or, in a Zustand store, one of its actions.  For    *)
(* Jotai and Recoil a field is a watched atom.                             *)
(***************************************************************************)
EXTENDS Naturals, Sequences, SequencesExt

CONSTANTS
  StKind,   \* the state managers, of StKinds
  StField, StValue,
  StAction, \* a function among the values of a field
  StMarker, \* the TruncatedValue that stands for it on the wire
  StRoot,   \* the path of a whole value
  StNone,
  StMaxChanges, StMaxEdits, StMaxAttach \* bounds of the model

StKinds == {"redux", "mobx", "zustand", "jotai", "recoil"}
StSlices == {"jotai", "recoil"}
StLazy == {"redux", "recoil"} \* first heard of when something changes
StStates == [StField -> StValue \cup {StMarker}]
ASSUME StAssumption ==
  /\ StKind \subseteq StKinds /\ StValue # {} /\ StRoot \notin StField
  /\ StAction \notin StValue /\ StMarker \notin StValue /\ StAction # StMarker
  /\ StNone \notin StStates /\ \A s \in StStates : StNone # [label |-> StNone, state |-> s]

VARIABLES
  stKind,
  stApp,    \* the app's store
  stPrev,   \* prevState: what the adapter serialised last
  stSilent, \* fields set by the store's own setState since
  stWire,   \* frames on their way to the desktop
  stLost,   \* a frame has been lost after the last state/init
  stView,   \* AppData.stores[storeId]
  stWrites, \* state/write commands on their way to the app
  stChanges, stEdits, stAttached \* model bounds

stVars == <<stKind, stApp, stPrev, stSilent, stWire, stLost, stView, stWrites,
            stChanges, stEdits, stAttached>>

StFresh == CHOOSE v \in StValue : TRUE

\* safeSerialize on a field: a function becomes a marker.
StSerialize(app) == [f \in StField |-> IF app[f] = StAction THEN StMarker ELSE app[f]]

StInitFrame(label, state) == [type |-> "init", label |-> label, state |-> state]
StActionFrame(patch) == [type |-> "action", patch |-> patch]

\* state/init: of the store, or one of each atom under the same storeId.
StInits(state) ==
  IF stKind \in StSlices THEN LET atoms == SetToSeq(StField)
                              IN [i \in DOMAIN atoms |-> StInitFrame(atoms[i], state[atoms[i]])]
  ELSE <<StInitFrame(StNone, state)>>

StChanged(prev, next) == {f \in StField : prev[f] # next[f]}

\* What the adapter sends when the store is now next and was prev when it last looked.
StFrames(prev, next) ==
  LET changed == StChanged(prev, next)
      atoms == SetToSeq(changed)
  IN CASE prev = StNone -> StInits(next)
       [] prev # StNone /\ changed = {} -> << >>
       [] prev # StNone /\ changed # {} /\ stKind \in StSlices ->
            [i \in DOMAIN atoms |-> StActionFrame([r \in {StRoot} |-> next[atoms[i]]])]
       [] OTHER -> <<StActionFrame([f \in changed |-> next[f]])>>

\* Everything of an app that has just created its store.
StCreate(app, wire, lost) ==
  LET eager == stKind \notin StLazy
  IN /\ stApp' = app /\ stSilent' = {}
     /\ stPrev' = IF eager THEN StSerialize(app) ELSE StNone
     /\ stWire' = wire \o IF eager THEN StInits(StSerialize(app)) ELSE << >>
     /\ stLost' = (lost /\ ~eager)

StInit ==
  /\ stKind \in StKind
  /\ \E actions \in SUBSET StField :
       /\ actions # {} => stKind = "zustand"
       /\ LET app == [f \in StField |-> IF f \in actions THEN StAction ELSE StFresh]
              eager == stKind \notin StLazy
          IN /\ stApp = app
             /\ stPrev = IF eager THEN StSerialize(app) ELSE StNone
             /\ stWire = IF eager THEN StInits(StSerialize(app)) ELSE << >>
  /\ stSilent = {} /\ stLost = FALSE /\ stView = StNone /\ stWrites = << >>
  /\ stChanges = 0 /\ stEdits = 0 /\ stAttached = 1

\* The app's code runs again without the process ending: a new store under the same id.
StAttachAgain ==
  /\ stAttached < StMaxAttach /\ stAttached' = stAttached + 1
  /\ StCreate([f \in StField |-> IF stApp[f] = StAction THEN StAction ELSE StFresh], stWire, stLost)
  /\ UNCHANGED <<stKind, stView, stWrites, stChanges, stEdits>>

\* A change the adapter hears of; the next serialised state is compared with the last.
StReport(app) ==
  LET next == StSerialize(app)
  IN /\ stApp' = app /\ stPrev' = next /\ stSilent' = {}
     /\ stWire' = stWire \o StFrames(stPrev, next)
     /\ stLost' = (stLost /\ stPrev # StNone)

StChange(f, v) ==
  /\ stApp[f] # StAction
  /\ stChanges < StMaxChanges /\ stChanges' = stChanges + 1
  /\ StReport([stApp EXCEPT ![f] = v])
  /\ UNCHANGED <<stKind, stView, stWrites, stEdits, stAttached>>

\* withSpyglass wraps the set() of the creator; api.setState is not that one.
StSetState(f, v) ==
  /\ stKind = "zustand" /\ stApp[f] # StAction /\ v # stApp[f]
  /\ stChanges < StMaxChanges /\ stChanges' = stChanges + 1
  /\ stApp' = [stApp EXCEPT ![f] = v] /\ stSilent' = stSilent \cup {f}
  /\ UNCHANGED <<stKind, stPrev, stWire, stLost, stView, stWrites, stEdits, stAttached>>

StPatched(state, patch) ==
  [f \in DOMAIN patch \cup DOMAIN state |-> IF f \in DOMAIN patch THEN patch[f] ELSE state[f]]

\* state/init and state/action; applyPatch on one level.
StApply(view, frame) ==
  IF frame.type = "init" THEN [label |-> frame.label, state |-> frame.state]
  ELSE IF view = StNone THEN StNone
  ELSE [view EXCEPT !.state = IF StRoot \in DOMAIN frame.patch THEN frame.patch[StRoot]
                              ELSE StPatched(@, frame.patch)]

StArrives ==
  /\ stWire # << >>
  /\ stWire' = Tail(stWire) /\ stView' = StApply(stView, Head(stWire))
  /\ UNCHANGED <<stKind, stApp, stPrev, stSilent, stLost, stWrites, stChanges, stEdits, stAttached>>

\* The transport's queue is full and drops the oldest frame.
StDrop ==
  /\ stWire # << >>
  /\ stWire' = Tail(stWire)
  /\ stLost' = \A i \in DOMAIN Tail(stWire) : Tail(stWire)[i].type # "init"
  /\ UNCHANGED <<stKind, stApp, stPrev, stSilent, stView, stWrites, stChanges, stEdits, stAttached>>

\* containsTruncatedValue
StTruncated(state) == \E f \in DOMAIN state : state[f] = StMarker

\* A field is edited: the whole state is rebuilt around it and sent, or refused.
StEdit(f, v) ==
  /\ stKind = "zustand" /\ stView # StNone /\ stView.state[f] # StMarker
  /\ stEdits < StMaxEdits /\ stEdits' = stEdits + 1
  /\ LET state == [stView.state EXCEPT ![f] = v]
     IN stWrites' = IF StTruncated(state) THEN stWrites ELSE Append(stWrites, state)
  /\ UNCHANGED <<stKind, stApp, stPrev, stSilent, stWire, stLost, stView, stChanges, stAttached>>

\* Mutant: the handler of a state/write calls the set() that is not wrapped.
MutStWriteArrives ==
  /\ stWrites # << >>
  /\ stWrites' = Tail(stWrites)
  /\ stApp' = StPatched(stApp, Head(stWrites))
  /\ UNCHANGED <<stKind, stPrev, stSilent, stWire, stLost, stView, stChanges, stEdits, stAttached>>

\* The write handler: wrappedSet merges what arrived into the store.
StWriteArrives ==
  /\ stWrites # << >>
  /\ stWrites' = Tail(stWrites)
  /\ StReport(StPatched(stApp, Head(stWrites)))
  /\ UNCHANGED <<stKind, stView, stChanges, stEdits, stAttached>>

StNext ==
  \/ StAttachAgain \/ StArrives \/ StDrop \/ StWriteArrives
  \/ \E f \in StField, v \in StValue : StChange(f, v) \/ StSetState(f, v) \/ StEdit(f, v)

StSpec == StInit /\ [][StNext]_stVars
-----------------------------------------------------------------------------

\* The desktop's copy once everything on its way has arrived.
StShown ==
  LET after[i \in 0..Len(stWire)] == IF i = 0 THEN stView ELSE StApply(after[i - 1], stWire[i])
  IN after[Len(stWire)]

\* applyPatch, "This is how the desktop UI reconstructs each store's live state from the
\* `state/init` snapshot plus the stream of `state/action` diffs": however the app's changes,
\* the edits sent to it, a second attach and losses interleave, the copy is the store again
\* once the frames after the last state/init have all come through, except for what the
\* adapter was not told of; and an edit never costs the store an action.
StMirrorFollows ==
  /\ stPrev # StNone => \A f \in StField \ stSilent : stPrev[f] = StSerialize(stApp)[f]
  /\ stKind \notin StSlices /\ stPrev # StNone /\ ~stLost =>
       StShown # StNone /\ StShown.state = stPrev
  /\ \A f \in StField : stApp[f] # StMarker

=============================================================================
