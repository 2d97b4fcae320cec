---------------------------- MODULE SdkLifecycle ----------------------------
(***************************************************************************)
(* init() and close() of the SDK, and the adapters init() attaches by      *)
(* itself.  The core is a module global of which the last init() owns the  *)
(* only copy.  Console, network and web storage are patched inside init(); *)
(* AsyncStorage and zustand only once a dynamic import has resolved, when  *)
(* the handle may be closed and another one open (React's StrictMode runs  *)
(* init, close, init in one turn).  Every patch keeps the method it found  *)
(* and puts that one back when it is detached.                             *)
(***************************************************************************)
EXTENDS Naturals, Sequences, SequencesExt

CONSTANTS
  LcOption,                   \* InitOptions of the app: a function from LcKey
  LcManual,                   \* adapters the app attaches itself as well
  LcMaxHandles, LcMaxPatches  \* bounds of the model

LcMarks == {"console", "network"} \* these ask markAttached; so does performance, a loop without a patch
LcSync == LcMarks \cup {"webStorage"}
LcAsync == {"asyncStorage", "zustand"}
LcTarget == LcSync \cup LcAsync
LcKey == LcTarget \cup {"allowRemoteWrites"}
ASSUME LcAssumption == /\ LcOption \subseteq [LcKey -> {"on", "off", "unset"}]
                       /\ LcManual \subseteq LcTarget \ {"zustand"}

VARIABLES
  lcOption, lcDev, \* of the app, and isDevEnvironment()
  lcReady,         \* what there is to patch: the browser's storage, the optional packages
  lcOpen,          \* handle -> its `closed` is false
  lcInbound,       \* handles whose inbound commands are on
  lcMarked,        \* handle -> attachedAdapters of its core
  lcCore,          \* core.ts: a handle, or 0
  lcPatches,       \* every patch: target, handle (0: the app's), core it reports to, inner;
                   \* held: its detach is in the handle's list
  lcMethod,        \* target -> the outermost patch, or 0
  lcQueue,         \* async target -> imports and continuations, in order
  lcCrossed        \* history: targets restored from under another patch

lcVars == <<lcOption, lcDev, lcReady, lcOpen, lcInbound, lcMarked, lcCore, lcPatches,
            lcMethod, lcQueue, lcCrossed>>

LcInit ==
  /\ lcOption \in LcOption /\ lcDev \in BOOLEAN /\ lcReady \in SUBSET (LcAsync \cup {"webStorage"})
  /\ lcOpen = << >> /\ lcInbound = {} /\ lcMarked = << >> /\ lcCore = 0
  /\ lcPatches = << >> /\ lcMethod = [t \in LcTarget |-> 0]
  /\ lcQueue = [t \in LcAsync |-> << >>] /\ lcCrossed = {}

\* A blanket autoAttach is the constant function; what is not mentioned follows isDevEnvironment().
LcResolve(key) == lcOption[key] = "on" \/ (lcOption[key] = "unset" /\ lcDev)

\* allowRemoteWrites cannot force the commands on outside of dev.
LcRemoteWrites == lcOption["allowRemoteWrites"] # "off" /\ lcDev

\* The patches of `targets`, on top of what is there.
LcPatch(targets, handle, core, held) ==
  LET order == SetToSeq(targets)
      patch(t) == [target |-> t, handle |-> handle, core |-> core, held |-> held, inner |-> lcMethod[t]]
  IN /\ lcPatches' = lcPatches \o [n \in DOMAIN order |-> patch(order[n])]
     /\ lcMethod' = [t \in LcTarget |-> IF t \in targets
                       THEN Len(lcPatches) + CHOOSE n \in DOMAIN order : order[n] = t ELSE lcMethod[t]]

\* init(): the new core replaces the older one, whether that is closed or not.
LcInitCall ==
  LET h == Len(lcOpen) + 1
      sync == {t \in LcMarks \cup (lcReady \cap LcSync) : LcResolve(t)}
  IN /\ h <= LcMaxHandles
     /\ Len(lcPatches) < LcMaxPatches
     /\ lcOpen' = Append(lcOpen, TRUE) /\ lcCore' = h
     /\ lcMarked' = Append(lcMarked, sync \cap LcMarks)
     /\ LcPatch(sync, h, h, TRUE)
     /\ lcQueue' = [t \in LcAsync |-> IF LcResolve(t)
                      THEN Append(lcQueue[t], [job |-> "import", handle |-> h, patch |-> 0])
                      ELSE lcQueue[t]]
     /\ lcInbound' = IF LcRemoteWrites THEN lcInbound \cup {h} ELSE lcInbound
     /\ UNCHANGED <<lcOption, lcDev, lcReady, lcCrossed>>

\* Putting back what `patches` found; crossed if another patch has come between.
LcDetach(patches) ==
  /\ lcMethod' = [t \in LcTarget |->
       IF \E p \in patches : lcPatches[p].target = t
       THEN lcPatches[CHOOSE p \in patches : lcPatches[p].target = t].inner ELSE lcMethod[t]]
  /\ lcCrossed' = lcCrossed \cup
       {lcPatches[p].target : p \in {q \in patches :
          lcMethod[lcPatches[q].target] \notin {q, lcPatches[q].inner}}}

\* close(): nothing stops a second call; the core goes even if it is another handle's.
LcClose(h) ==
  /\ lcOpen' = [lcOpen EXCEPT ![h] = FALSE]
  /\ LcDetach({p \in DOMAIN lcPatches : lcPatches[p].handle = h /\ lcPatches[p].held})
  /\ lcInbound' = lcInbound \ {h}
  /\ lcCore' = 0
  /\ UNCHANGED <<lcOption, lcDev, lcReady, lcMarked, lcPatches, lcQueue>>

\* Mutant: no markAttached.
MutLcAttach(t) ==
  /\ lcCore # 0 /\ Len(lcPatches) < LcMaxPatches
  /\ LcPatch({t}, 0, lcCore, TRUE)
  /\ UNCHANGED <<lcOption, lcDev, lcReady, lcOpen, lcInbound, lcMarked, lcCore, lcQueue, lcCrossed>>

\* The app calls attachConsole() and the like itself, and does not detach again.
LcAttach(t) ==
  /\ lcCore # 0 /\ Len(lcPatches) < LcMaxPatches
  /\ IF t \in LcMarks /\ t \in lcMarked[lcCore] THEN UNCHANGED <<lcMarked, lcPatches, lcMethod>>
     ELSE /\ LcPatch({t}, 0, lcCore, TRUE)
          /\ lcMarked' = [lcMarked EXCEPT ![lcCore] = @ \cup ({t} \cap LcMarks)]
  /\ UNCHANGED <<lcOption, lcDev, lcReady, lcOpen, lcInbound, lcCore, lcQueue, lcCrossed>>

\* Mutant: the import does not look at `closed`.
MutLcStorageImport(h) ==
  IF "asyncStorage" \notin lcReady \/ lcCore = 0 THEN UNCHANGED <<lcPatches, lcMethod>>
  ELSE LcPatch({"asyncStorage"}, h, lcCore, TRUE)

\* The AsyncStorage import has resolved: attachAsyncStorage throws without a core, and the throw
\* is swallowed; with one it attaches to the core of the last init().
LcStorageImport(h) ==
  IF "asyncStorage" \notin lcReady \/ ~lcOpen[h] \/ lcCore = 0 THEN UNCHANGED <<lcPatches, lcMethod>>
  ELSE LcPatch({"asyncStorage"}, h, lcCore, TRUE)

\* tryAutoAttachZustand patches create whether or not the handle is still open (its wrapper asks
\* for the core whenever a store is created); init() goes on a microtask later.
LcZustandImport(h) ==
  IF "zustand" \notin lcReady THEN UNCHANGED <<lcPatches, lcMethod>>
  ELSE LcPatch({"zustand"}, h, 0, FALSE)

\* init() after that: it keeps the detach function, or calls it when the handle is closed by now.
LcZustandResume(h, p) ==
  IF lcOpen[h] THEN /\ lcPatches' = [lcPatches EXCEPT ![p].held = TRUE]
                    /\ UNCHANGED <<lcMethod, lcCrossed>>
  ELSE LcDetach({p}) /\ UNCHANGED lcPatches

\* A turn of the JS thread on what waits for the import of `t`.
LcTurn(t) ==
  /\ lcQueue[t] # << >> /\ Len(lcPatches) < LcMaxPatches
  /\ LET j == Head(lcQueue[t])
     IN \/ /\ j.job = "resume" /\ LcZustandResume(j.handle, j.patch)
           /\ lcQueue' = [lcQueue EXCEPT ![t] = Tail(@)]
        \/ /\ j.job = "import" /\ t = "zustand" /\ LcZustandImport(j.handle)
           /\ lcQueue' = [lcQueue EXCEPT ![t] = IF t \notin lcReady THEN Tail(@)
                            ELSE Append(Tail(@), [j EXCEPT !.job = "resume", !.patch = Len(lcPatches')])]
           /\ UNCHANGED lcCrossed
        \/ /\ j.job = "import" /\ t = "asyncStorage" /\ LcStorageImport(j.handle)
           /\ lcQueue' = [lcQueue EXCEPT ![t] = Tail(@)]
           /\ UNCHANGED lcCrossed
  /\ UNCHANGED <<lcOption, lcDev, lcReady, lcOpen, lcInbound, lcMarked, lcCore>>

LcNext ==
  \/ LcInitCall
  \/ \E h \in DOMAIN lcOpen : LcClose(h)
  \/ \E t \in LcManual : LcAttach(t)
  \/ \E t \in LcAsync : LcTurn(t)

LcSpec == LcInit /\ [][LcNext]_lcVars
-----------------------------------------------------------------------------

\* The patches a call goes through, from the outermost inwards.
LcChain(t) ==
  LET from[p \in 0..Len(lcPatches)] == IF p = 0 THEN {} ELSE {p} \cup from[lcPatches[p].inner]
  IN from[lcMethod[t]]

\* index.ts, `closed`: an import that resolves after close() leaves nothing attached, and
\* neither does close(): a patch init() made is in use only while its handle is open or its
\* detach is on the way.  Excepted are the methods restored from under another patch.
LcClosedDetached ==
  \A t \in LcTarget \ lcCrossed : \A p \in LcChain(t) :
    LET patch == lcPatches[p]
    IN \/ patch.handle = 0
       \/ lcOpen[patch.handle]
       \/ ~patch.held /\ \E n \in DOMAIN lcQueue[t] : lcQueue[t][n].patch = p

\* index.ts, autoAttach: "Calling the adapter's own attachX() yourself afterwards is a safe
\* no-op": no call is reported twice to one core.  So for the adapters that ask markAttached.
LcReportedOnce ==
  \A t \in LcMarks : \A p, q \in LcChain(t) :
    lcPatches[p].core = lcPatches[q].core => p = q

\* What a handle attaches is attached once, and only as long as the handle is open.
LcHandlesHonest == LcClosedDetached /\ LcReportedOnce

=============================================================================
