------------------------------ MODULE KvAdapter ------------------------------
(***************************************************************************)
(* The key-value storage adapters of the SDK (AsyncStorage, MMKV and the   *)
(* browser's storage) together with what the desktop makes of their        *)
(* storage/snapshot and storage/change frames.                             *)
(*                                                                         *)
(* AsyncStorage works on a native queue: a call is applied there and its   *)
(* promise continues later, so a snapshot (getAllKeys, then multiGet) is   *)
(* interleaved with writes.  MMKV and the browser's storage are            *)
(* synchronous.  Adapters can be attached again without detaching the      *)
(* older one (a hot reload); AsyncStorage and the browser's storage are    *)
(* patched on top of the older patch, MMKV adds a listener.                *)
(*                                                                         *)
(* A value is the set of the fragments written to it: setItem leaves one,  *)
(* mergeItem adds one, null is {}.  The transport keeps the frames' order  *)
(* (Transport!InOrderOnce): a frame acts on the desktop when it is sent.   *)
(***************************************************************************)
EXTENDS Naturals, Sequences

CONSTANTS
  KvEngine,    \* engines of the instance, of KvEngines
  KvKey,
  KvOp,        \* the app's calls, of KvOps
  KvNoView,    \* the desktop has no entries of the engine
  KvMaxAttach, KvMaxCalls \* bounds of the model

KvEngines == {"asyncStorage", "mmkv", "localStorage"}
KvOps == {"set", "merge", "remove", "clear", "otherTab"}
ASSUME KvAssumption ==
  /\ KvEngine \subseteq KvEngines /\ KvOp \subseteq KvOps
  /\ KvNoView \notin KvKey /\ \A D \in SUBSET KvKey : KvNoView \notin [D -> SUBSET Nat]

VARIABLES
  kvEngine,
  kvDisk,     \* key -> value, of the keys that exist
  kvNative,   \* calls on the native queue
  kvDone,     \* promises and events that have yet to run on the JS thread
  kvAttached, \* adapters that are attached
  kvInner,    \* `original` of every adapter: the patch below it, 0 for none
  kvMethod,   \* the outermost patch
  kvHandler,  \* storageWriteHandlers and storageClearHandlers: an adapter, or 0
  kvView,     \* the desktop's storage[engine].entries
  kvOff,      \* history: keys whose last report is known to be wrong
  kvBroken,   \* history: an adapter was detached from under a newer one
  kvCalls     \* model bound

kvAdapters == <<kvAttached, kvInner, kvMethod, kvHandler, kvBroken>>
kvDesktop == <<kvView, kvOff>>
kvVars == <<kvEngine, kvDisk, kvNative, kvDone, kvAdapters, kvDesktop, kvCalls>>

KvInit ==
  /\ kvEngine \in KvEngine
  /\ kvDisk = << >> /\ kvNative = << >> /\ kvDone = << >>
  /\ kvAttached = {} /\ kvInner = << >> /\ kvMethod = 0 /\ kvHandler = 0
  /\ kvView = KvNoView /\ kvOff = {} /\ kvBroken = FALSE /\ kvCalls = 0

KvPut(f, k, v) == [x \in DOMAIN f \cup {k} |-> IF x = k THEN v ELSE f[x]]
KvDrop(f, k) == [x \in DOMAIN f \ {k} |-> f[x]]

\* Whether an adapter sees a call made now.  When several do, every one echoes it and the
\* echoes say the same.
KvSeen == IF kvEngine = "mmkv" THEN kvAttached # {} ELSE kvMethod # 0

\* What the call leaves on disk.
KvApplied(call, disk) ==
  CASE call.op \in {"set", "otherTab"} -> KvPut(disk, call.key, {call.val})
    [] call.op = "merge"  -> KvPut(disk, call.key,
                               {call.val} \cup IF call.key \in DOMAIN disk THEN disk[call.key] ELSE {})
    [] call.op = "remove" -> KvDrop(disk, call.key)
    [] call.op = "clear"  -> << >>
    [] OTHER -> disk

\* getAllKeys and multiGet of a snapshot, the event of a write in another tab, and a call
\* of the native queue with its result and the disk it was applied to.
KvKeys == [op |-> "keys", key |-> KvNoView, val |-> {}, seen |-> FALSE]
KvGet(keys) == [op |-> "get", key |-> KvNoView, val |-> keys, seen |-> FALSE]
KvStorage == [op |-> "storage"]
KvResult(call, v, disk) == [op |-> call.op, key |-> call.key, val |-> v, seen |-> call.seen, disk |-> disk]

\* storage/snapshot: the entries of `keys`; multiGet answers null for a key that is gone.
KvSnapshot(keys, disk) ==
  /\ kvView' = [k \in keys |-> IF k \in DOMAIN disk THEN disk[k] ELSE {}]
  /\ kvOff' = (keys \ DOMAIN disk) \cup (DOMAIN disk \ keys)

\* Mutant: the desktop keeps the entry of a key that was removed.
MutKvReport(call, disk) ==
  /\ kvView' = IF kvView = KvNoView \/ call.op = "remove" THEN kvView
               ELSE KvPut(kvView, call.key, {call.val})
  /\ kvOff' = IF call.op = "merge" /\ disk[call.key] # {call.val}
              THEN kvOff \cup {call.key} ELSE kvOff \ {call.key}

\* storage/change: mergeItem reports its argument, not the merged value.
KvReport(call, disk) ==
  /\ kvView' = IF kvView = KvNoView THEN kvView
               ELSE IF call.op = "remove" THEN KvDrop(kvView, call.key)
               ELSE KvPut(kvView, call.key, {call.val})
  /\ kvOff' = IF call.op = "merge" /\ disk[call.key] # {call.val}
              THEN kvOff \cup {call.key} ELSE kvOff \ {call.key}

\* A synchronous call, with the echo of the adapters that see it.
KvSyncCall(call) ==
  /\ kvDisk' = KvApplied(call, kvDisk)
  /\ UNCHANGED kvNative
  /\ IF call.op = "otherTab"
     THEN kvDone' = Append(kvDone, KvStorage) /\ UNCHANGED kvDesktop
     ELSE /\ UNCHANGED kvDone
          /\ IF ~call.seen THEN UNCHANGED kvDesktop
             ELSE IF call.op = "clear" THEN KvSnapshot({}, kvDisk')
             ELSE KvReport(call, kvDisk')

\* The calls each engine has; MMKV's clearAll is only observed from the clear handler.
KvHas(op) ==
  CASE op = "merge"    -> kvEngine = "asyncStorage"
    [] op = "otherTab" -> kvEngine = "localStorage"
    [] op = "clear"    -> kvEngine = "mmkv" => kvHandler # 0
    [] OTHER -> TRUE

\* A call of the app, or of the registered handler for a write from the desktop: both go
\* through the patched methods.
KvCall(op, k) ==
  LET call == [op |-> op, key |-> k, val |-> kvCalls + 1, seen |-> KvSeen]
  IN /\ KvHas(op) /\ kvCalls < KvMaxCalls /\ kvCalls' = kvCalls + 1
     /\ IF kvEngine = "asyncStorage"
        THEN kvNative' = Append(kvNative, call) /\ UNCHANGED <<kvDisk, kvDone, kvDesktop>>
        ELSE KvSyncCall(call)
     /\ UNCHANGED <<kvEngine, kvAdapters>>

KvApply ==
  /\ kvNative # << >>
  /\ LET call == Head(kvNative)
     IN /\ kvDisk' = KvApplied(call, kvDisk)
        /\ kvDone' = Append(kvDone, KvResult(call, IF call.op = "keys" THEN DOMAIN kvDisk ELSE call.val,
                                             KvApplied(call, kvDisk)))
  /\ kvNative' = Tail(kvNative)
  /\ UNCHANGED <<kvEngine, kvAdapters, kvDesktop, kvCalls>>

\* The JS thread goes on with a promise, or with a storage event of another tab.
KvContinue(call) ==
  CASE call.op = "keys" -> kvNative' = Append(kvNative, KvGet(call.val)) /\ UNCHANGED kvDesktop
    [] call.op = "get" -> KvSnapshot(call.val, call.disk) /\ UNCHANGED kvNative
    [] call.op = "storage" -> /\ IF kvAttached = {} THEN UNCHANGED kvDesktop
                                 ELSE KvSnapshot(DOMAIN kvDisk, kvDisk)
                              /\ UNCHANGED kvNative
    [] call.op = "clear" -> /\ kvNative' = IF call.seen THEN Append(kvNative, KvKeys) ELSE kvNative
                            /\ UNCHANGED kvDesktop
    [] OTHER -> /\ IF call.seen THEN KvReport(call, call.disk) ELSE UNCHANGED kvDesktop
                /\ UNCHANGED kvNative

KvJsRuns ==
  /\ kvDone # << >>
  /\ kvDone' = Tail(kvDone)
  /\ KvContinue(Head(kvDone))
  /\ UNCHANGED <<kvEngine, kvDisk, kvAdapters, kvCalls>>

\* attach: a snapshot, the patch or the listener, the handlers.
KvAttach ==
  LET n == Len(kvInner) + 1
  IN /\ n <= KvMaxAttach
     /\ kvAttached' = kvAttached \cup {n} /\ kvInner' = Append(kvInner, kvMethod)
     /\ kvMethod' = n /\ kvHandler' = n
     /\ IF kvEngine = "asyncStorage" THEN kvNative' = Append(kvNative, KvKeys) /\ UNCHANGED kvDesktop
        ELSE KvSnapshot(DOMAIN kvDisk, kvDisk) /\ UNCHANGED kvNative
     /\ UNCHANGED <<kvEngine, kvDisk, kvDone, kvBroken, kvCalls>>

\* detach: the methods go back to what they were at attach time, whoever has patched since.
KvDetach(n) ==
  /\ n \in kvAttached
  /\ kvAttached' = kvAttached \ {n}
  /\ kvMethod' = kvInner[n]
  /\ kvHandler' = IF kvHandler = n THEN 0 ELSE kvHandler
  /\ kvBroken' = (kvBroken \/ (kvEngine # "mmkv" /\ kvMethod # n))
  /\ UNCHANGED <<kvEngine, kvDisk, kvNative, kvDone, kvInner, kvDesktop, kvCalls>>

KvNext ==
  \/ \E op \in KvOp, k \in KvKey : KvCall(op, k)
  \/ KvApply \/ KvJsRuns \/ KvAttach
  \/ \E n \in 1..KvMaxAttach : KvDetach(n)

KvSpec == KvInit /\ [][KvNext]_kvVars

-----------------------------------------------------------------------------

KvSettled == kvNative = << >> /\ kvDone = << >> /\ kvAttached # {}

\* asyncStorage.ts: "every write in the app ... is observed": once nothing is in flight,
\* the desktop's entries are what the engine holds.  The exceptions are the keys that came
\* or went between getAllKeys and multiGet, what mergeItem merged, and everything once an
\* adapter has been detached from under a newer one.
KvViewFollows ==
  (KvSettled /\ ~kvBroken) =>
    /\ kvView # KvNoView
    /\ \A k \in KvKey \ kvOff :
         /\ k \in DOMAIN kvView <=> k \in DOMAIN kvDisk
         /\ k \in DOMAIN kvDisk => kvView[k] = kvDisk[k]

=============================================================================
