---------------------------- MODULE WriteChannel ----------------------------
(***************************************************************************)
(* A write typed into the desktop and what becomes of it: the pending      *)
(* entries of connection.ts, the send_to_app command, the SDK's inbound    *)
(* commands (commands.ts), and the reports the app sends back.             *)
(*                                                                         *)
(* All requests aim at one resource of one app.  Kind says how its reports *)
(* are reconciled: "storage" (storage/write against storage/change),       *)
(* "query" (query/write against query/change), or "ack" (state/write,      *)
(* storage/clear, memory/clear-cache and query/command, which only their   *)
(* own result resolves).                                                   *)
(*                                                                         *)
(* An action is one JavaScript callback of the desktop or of the app, or   *)
(* one step of the server between them.                                    *)
(***************************************************************************)
EXTENDS Naturals, Sequences

CONSTANTS
  Request,     \* requestIds
  Value,       \* what the resource can hold
  Removed,     \* the resource is absent (also: a removal)
  Wants,       \* the value each request writes; Removed for op "remove"
  Echo,        \* a value as the app reports it (serializeForKv, parseMaybeJson, safeSerialize)
  Kind,        \* "storage", "query" or "ack"
  MaxChanges,  \* bound of the model: writes by the app itself
  MaxDowns     \* bound of the model: broken connections, reports of one, removals

ASSUME ValueAssumption == /\ Removed \notin Value
                          /\ Wants \in [Request -> Value \cup {Removed}]
                          /\ Echo \in [Value \cup {Removed} -> Value \cup {Removed}]
ASSUME KindAssumption == Kind \in {"storage", "query", "ack"}

VARIABLES
  status,   \* PendingX.status of each request; "none" before, "cleared"/"gone" after
  call,     \* how far sendToApp() and its no-response timer are
  sweeps,   \* armed timers that will clear an applied entry
  toApp,    \* frames on their way to the app: requests
  sdk,      \* the app's handling of each request
  effected, \* requests whose handler ran to completion
  store,    \* what the resource holds in the app
  held,     \* every value it has held
  up,       \* frames on their way to the desktop
  seen,     \* the resource as the desktop last heard of it
  linked,   \* the app has a connection
  lossy,    \* some frame of the app has been lost
  changes, downs  \* model bounds

desk == <<status, call, sweeps, seen>>
app == <<sdk, effected, store, held>>
vars == <<desk, app, toApp, up, linked, lossy, changes, downs>>

Contents == Value \cup {Removed}
Change(v) == [type |-> "change", value |-> Echo[v]]
Result(r, ok) == [type |-> "result", request |-> r, ok |-> ok]
Frame == [type : {"change"}, value : Contents] \cup
         [type : {"result"}, request : Request, ok : BOOLEAN]

Init ==
  /\ status = [r \in Request |-> "none"]
  /\ call = [r \in Request |-> "none"]
  /\ sweeps = [r \in Request |-> 0]
  /\ toApp = << >>
  /\ sdk = [r \in Request |-> "none"]
  /\ effected = {}
  /\ store = Removed /\ held = {Removed} /\ seen = Echo[Removed]
  /\ up = << >>
  /\ linked = TRUE
  /\ lossy = FALSE
  /\ changes = 0 /\ downs = 0

-----------------------------------------------------------------------------
(* Sending: sendStorageWrite() and its siblings *)

SendWrite(r) ==
  /\ status[r] = "none"
  /\ status' = [status EXCEPT ![r] = "pending"]
  /\ call' = [call EXCEPT ![r] = "invoked"]
  /\ UNCHANGED <<sweeps, seen, app, toApp, up, linked, lossy, changes, downs>>

\* A truncated or undefined value gets its entry and fails it at once.
SendUnsendable(r) ==
  /\ status[r] = "none"
  /\ status' = [status EXCEPT ![r] = "failed"]
  /\ UNCHANGED <<call, sweeps, seen, app, toApp, up, linked, lossy, changes, downs>>

\* fail(): a request that is no longer pending keeps its result.
Failed(r) == [status EXCEPT ![r] = IF @ = "pending" THEN "failed" ELSE @]

\* send_to_app finds a sender.  The frame is under way before the promise settles;
\* if the app is gone and the server has not noticed, it goes nowhere.
ServerEnqueues(r) ==
  /\ call[r] = "invoked"
  /\ call' = [call EXCEPT ![r] = "accepted"]
  /\ toApp' = IF linked THEN Append(toApp, r) ELSE toApp
  /\ UNCHANGED <<status, sweeps, seen, app, up, linked, lossy, changes, downs>>

ServerRejects(r) ==
  /\ call[r] = "invoked"
  /\ ~linked
  /\ call' = [call EXCEPT ![r] = "rejected"]
  /\ UNCHANGED <<status, sweeps, seen, app, toApp, up, linked, lossy, changes, downs>>

\* Mutant: no timer is armed for a request that was sent.
MutPromiseResolvesUnarmed(r) ==
  /\ call[r] = "accepted"
  /\ call' = [call EXCEPT ![r] = "over"]
  /\ UNCHANGED <<status, sweeps, seen, app, toApp, up, linked, lossy, changes, downs>>

\* .then: arm the no-response timer.
PromiseResolves(r) ==
  /\ call[r] = "accepted"
  /\ call' = [call EXCEPT ![r] = "armed"]
  /\ UNCHANGED <<status, sweeps, seen, app, toApp, up, linked, lossy, changes, downs>>

\* .catch
PromiseRejects(r) ==
  /\ call[r] = "rejected"
  /\ call' = [call EXCEPT ![r] = "over"]
  /\ status' = Failed(r)
  /\ UNCHANGED <<sweeps, seen, app, toApp, up, linked, lossy, changes, downs>>

\* Mutant: the timer does not look at the status.
MutTimesOutBlindly(r) ==
  /\ call[r] = "armed"
  /\ call' = [call EXCEPT ![r] = "over"]
  /\ status' = [status EXCEPT ![r] = "failed"]
  /\ UNCHANGED <<sweeps, seen, app, toApp, up, linked, lossy, changes, downs>>

\* STORAGE_WRITE_TIMEOUT_MS after the promise resolved.
TimesOut(r) ==
  /\ call[r] = "armed"
  /\ call' = [call EXCEPT ![r] = "over"]
  /\ status' = Failed(r)
  /\ UNCHANGED <<sweeps, seen, app, toApp, up, linked, lossy, changes, downs>>

-----------------------------------------------------------------------------
(* The app: enableInboundCommands() *)

\* No handler, an op it does not support, or no data: answered at once.
SdkRefuses ==
  /\ linked /\ toApp # << >>
  /\ sdk' = [sdk EXCEPT ![Head(toApp)] = "answered"]
  /\ up' = Append(up, Result(Head(toApp), FALSE))
  /\ toApp' = Tail(toApp)
  /\ UNCHANGED <<desk, effected, store, held, linked, lossy, changes, downs>>

SdkAccepts ==
  /\ linked /\ toApp # << >>
  /\ sdk' = [sdk EXCEPT ![Head(toApp)] = "running"]
  /\ toApp' = Tail(toApp)
  /\ UNCHANGED <<desk, effected, store, held, up, linked, lossy, changes, downs>>

\* The handler goes through the patched method or the query instance, so the write
\* is reported like one of the app's own.
HandlerCompletes(r) ==
  /\ sdk[r] = "running"
  /\ sdk' = [sdk EXCEPT ![r] = "resolved"]
  /\ effected' = effected \cup {r}
  /\ store' = Wants[r] /\ held' = held \cup {Wants[r]}
  /\ up' = IF Kind = "ack" THEN up ELSE Append(up, Change(Wants[r]))
  /\ UNCHANGED <<desk, toApp, linked, lossy, changes, downs>>

\* It throws, or its promise rejects: nothing was written.
HandlerFails(r) ==
  /\ sdk[r] = "running"
  /\ sdk' = [sdk EXCEPT ![r] = "rejected"]
  /\ UNCHANGED <<desk, effected, store, held, toApp, up, linked, lossy, changes, downs>>

\* The next microtask after the handler settled.
Replies(r) ==
  /\ sdk[r] \in {"resolved", "rejected"}
  /\ sdk' = [sdk EXCEPT ![r] = "answered"]
  /\ up' = Append(up, Result(r, sdk[r] = "resolved"))
  /\ UNCHANGED <<desk, effected, store, held, toApp, linked, lossy, changes, downs>>

\* The app writes the resource itself: its own code, or a refetch.
AppWrites(v) ==
  /\ Kind # "ack"
  /\ changes < MaxChanges
  /\ changes' = changes + 1
  /\ store' = v /\ held' = held \cup {v}
  /\ up' = Append(up, Change(v))
  /\ UNCHANGED <<desk, sdk, effected, toApp, linked, lossy, downs>>

-----------------------------------------------------------------------------
(* The connection.  What the app sends while it has none waits in its      *)
(* transport's queue; what was on the socket when it broke is lost.        *)

LinkDrops ==
  /\ linked
  /\ downs < MaxDowns
  /\ downs' = downs + 1
  /\ linked' = FALSE
  /\ toApp' = << >> /\ up' = << >>
  /\ lossy' = (lossy \/ up # << >>)
  /\ UNCHANGED <<desk, app, changes>>

LinkReturns ==
  /\ ~linked
  /\ linked' = TRUE
  /\ UNCHANGED <<desk, app, toApp, up, lossy, changes, downs>>

-----------------------------------------------------------------------------
(* The desktop's reducer *)

Reconciled == CASE Kind = "storage" -> {"pending"}
                [] Kind = "query"   -> {"pending", "applied"}
                [] OTHER            -> {}

\* A removal reported by the query cache matches no write.
Matches(r, v) == Wants[r] = v /\ (Kind = "query" => v # Removed)

\* Mutant: any report of the resource confirms the write.
MutOnChangeAny(v) ==
  [r \in Request |-> IF status[r] \in Reconciled THEN "applied" ELSE status[r]]

\* storage/change and query/change against every entry for that resource.
OnChange(v) ==
  [r \in Request |-> IF status[r] \notin Reconciled THEN status[r]
                     ELSE IF Matches(r, v) THEN "applied" ELSE "superseded"]

\* Mutant: only a pending entry takes its result.
MutOnResultPending(r, ok) ==
  IF status[r] # "pending" THEN status
  ELSE [status EXCEPT ![r] = IF ok THEN "applied" ELSE "failed"]

\* Mutant: a result makes an entry for a request that has none any more.
MutOnResultUnknown(r, ok) ==
  [status EXCEPT ![r] = IF ok THEN "applied" ELSE "failed"]

\* The result of a known request, whatever its status is.
OnResult(r, ok) ==
  IF status[r] \in {"none", "cleared", "gone"} THEN status
  ELSE [status EXCEPT ![r] = IF ok THEN "applied" ELSE "failed"]

Reduced(f) == IF f.type = "change" THEN OnChange(f.value) ELSE OnResult(f.request, f.ok)

\* newlyApplied(): one clearing timer per transition into "applied".
Armed(before, after) ==
  [r \in Request |-> IF before[r] # "applied" /\ after[r] = "applied"
                     THEN sweeps[r] + 1 ELSE sweeps[r]]

\* Mutant: only a result arms the clearing timer.
MutHandleEnvelope ==
  /\ linked /\ up # << >>
  /\ up' = Tail(up)
  /\ status' = Reduced(Head(up))
  /\ sweeps' = IF Head(up).type = "result" THEN Armed(status, status') ELSE sweeps
  /\ seen' = IF Head(up).type = "change" THEN Head(up).value ELSE seen
  /\ UNCHANGED <<call, app, toApp, linked, lossy, changes, downs>>

HandleEnvelope ==
  /\ linked /\ up # << >>
  /\ up' = Tail(up)
  /\ status' = Reduced(Head(up))
  /\ sweeps' = Armed(status, status')
  /\ seen' = IF Head(up).type = "change" THEN Head(up).value ELSE seen
  /\ UNCHANGED <<call, app, toApp, linked, lossy, changes, downs>>

\* 1200 ms, or QUERY_WRITE_WATCH_MS, after a transition into "applied".
SweepFires(r) ==
  /\ sweeps[r] > 0
  /\ sweeps' = [sweeps EXCEPT ![r] = @ - 1]
  /\ status' = [status EXCEPT ![r] = IF @ = "applied" THEN "cleared" ELSE @]
  /\ UNCHANGED <<call, seen, app, toApp, up, linked, lossy, changes, downs>>

\* The server reports the app disconnected: a cleanup, an old connection's, or the
\* heartbeat sweeper's, so it may come while the app is connected.
AppDisconnected ==
  /\ downs < MaxDowns
  /\ downs' = downs + 1
  /\ status' = [r \in Request |-> IF status[r] = "pending" THEN "failed" ELSE status[r]]
  /\ UNCHANGED <<call, sweeps, seen, app, toApp, up, linked, lossy, changes>>

\* The user removes the app from the list, or upsertApp() replaces it.
RemoveApp ==
  /\ downs < MaxDowns
  /\ downs' = downs + 1
  /\ status' = [r \in Request |-> IF status[r] = "none" THEN "none" ELSE "gone"]
  /\ seen' = Removed
  /\ UNCHANGED <<call, sweeps, app, toApp, up, linked, lossy, changes>>

-----------------------------------------------------------------------------
Settling(r) == PromiseResolves(r) \/ PromiseRejects(r) \/ TimesOut(r)

Next ==
  \/ \E r \in Request :
       \/ SendWrite(r) \/ SendUnsendable(r)
       \/ ServerEnqueues(r) \/ ServerRejects(r) \/ Settling(r)
       \/ HandlerCompletes(r) \/ HandlerFails(r) \/ Replies(r)
       \/ SweepFires(r)
  \/ SdkRefuses \/ SdkAccepts
  \/ \E v \in Contents : AppWrites(v)
  \/ LinkDrops \/ LinkReturns
  \/ HandleEnvelope \/ AppDisconnected \/ RemoveApp

Spec == Init /\ [][Next]_vars

\* The server answers a command, promises settle and timers fire.  Nothing is asked
\* of the network or of the app.
Fairness ==
  \A r \in Request : /\ WF_vars(ServerEnqueues(r) \/ ServerRejects(r))
                     /\ WF_vars(Settling(r))
                     /\ WF_vars(SweepFires(r))

FairSpec == Spec /\ Fairness

-----------------------------------------------------------------------------
(* What the channel promises *)

TypeOK ==
  /\ status \in [Request -> {"none", "pending", "applied", "failed", "superseded", "cleared", "gone"}]
  /\ call \in [Request -> {"none", "invoked", "accepted", "rejected", "armed", "over"}]
  /\ sweeps \in [Request -> Nat]
  /\ toApp \in Seq(Request)
  /\ sdk \in [Request -> {"none", "running", "resolved", "rejected", "answered"}]
  /\ effected \subseteq Request
  /\ store \in Contents /\ held \subseteq Contents /\ seen \in Contents
  /\ up \in Seq(Frame)
  /\ linked \in BOOLEAN /\ lossy \in BOOLEAN

\* "Applied" is never shown for a write the app cannot have had: its handler ran to
\* completion, or the app has reported holding that very value.
AppliedHeld ==
  \A r \in Request : status[r] = "applied" =>
    r \in effected \/ \E v \in held : Matches(r, Echo[v])

\* What the app has had: its handler ran to completion, or it has reported a value
\* that matches.
Had == {r \in Request : r \in effected \/ \E v \in held : Matches(r, Echo[v])}

Contract == INSTANCE WriteContract WITH told <- status, had <- Had

\* The pending entries keep the contract: whichever answers, reports, timeouts and
\* disconnects come, no entry goes back to "pending", none is called applied without
\* the app having had it, and an entry that was swept or removed is not made again by
\* a late answer.
ContractKept == Contract!Spec

\* A resolved write turns "failed" only on the app's own negative answer: no late
\* timeout, rejected promise or disconnect report clobbers a real result.
ResultKept ==
  [][\A r \in Request :
       (status[r] \in {"applied", "superseded"} /\ status'[r] = "failed")
          => up # << >> /\ Head(up) = Result(r, FALSE)]_vars

\* Once the app's answer has been read and nothing was lost, the desktop's verdict
\* agrees with what happened, whichever of the answer, the reports, the timeout and
\* the disconnect came first.
VerdictAgrees ==
  (up = << >> /\ ~lossy) => \A r \in Request : sdk[r] = "answered" =>
    IF r \in effected THEN status[r] \notin {"pending", "failed"}
                      ELSE status[r] \notin {"pending", "applied", "superseded"}

\* Every write is resolved in the end, with the app gone or the frame lost too.
Resolves == \A r \in Request : status[r] = "pending" ~> status[r] # "pending"

\* "Applied" is a passing state: one of the two ways to reach it never leaves an
\* entry without a timer to clear it.
AppliedPasses == \A r \in Request : status[r] = "applied" ~> status[r] # "applied"

\* connection.ts says of a query write that it is watched even after its ack, since
\* "it landed and was clobbered a second later" is what the desktop has to say: an
\* entry that is still watched does not show "applied" over a different value.
ClobberTold ==
  (up = << >> /\ ~lossy) =>
    \A r \in Request : (status[r] = "applied" /\ sdk[r] = "answered") => Matches(r, seen)

=============================================================================
