------------------------------- MODULE Alerts --------------------------------
(***************************************************************************)
(* Alerts in the desktop window: which envelopes raise one, the badges and *)
(* when they count as seen, the notification limiter, and the permission   *)
(* the first notification has to ask for (lib/alert*.ts, the alert fields  *)
(* of state/connection.ts and state/alertSettings.ts, SettingsPanel.tsx).  *)
(*                                                                         *)
(* An application keeps its appId here (UiMirror has the restarts).  The   *)
(* sound has a limiter of the same class and no other state: it is left    *)
(* out, as are titles, texts and the language.                             *)
(***************************************************************************)
EXTENDS Naturals, Sequences, Functions

CONSTANTS
  AlApp,      \* appIds
  AlSettings, \* switches the user touches: any of AlSwitch, and apps to mute
  AlNone,     \* no app selected, no notification yet
  AlInterval, \* NOTIFICATION_MIN_INTERVAL_MS, in ticks
  AlMaxAlerts, AlMaxTime, AlMaxRemovals \* bounds of the model

VARIABLES
  alApps,      \* the pills, in the order their appIds were inserted
  alBadges,    \* data: appId -> alerts
  alSelected, alTab,
  alOn,        \* settings: the switches that are on, and the muted apps
  alRemembered, \* notificationPermission
  alPending,   \* alertNotification.ts: `pending`
  alPrompts,   \* permission requests that have not been answered
  alWaiting,   \* notifications waiting for the permission
  alLimiter,   \* notifyLimiter
  alNow,
  alUnasked,   \* history: the selection was made by no click since the badge rose
  alCount, alRemovals \* model bounds

alWindow == <<alApps, alBadges, alSelected, alTab, alUnasked, alRemovals>>
alNotices == <<alRemembered, alPending, alPrompts, alWaiting, alLimiter>>
alVars == <<alWindow, alNotices, alOn, alNow, alCount>>

AlSwitch == {"muted", "error", "warn", "network", "nativeNotification"}
ASSUME AlSettingsAssumption == AlSettings \subseteq AlSwitch \cup AlApp

AlTabs == {"logs", "network", "graph"}
AlNoBadges == [kind \in {"log", "network"} |-> 0]

AlInit ==
  /\ alApps = << >> /\ alBadges = << >> /\ alSelected = AlNone /\ alTab = "graph"
  /\ alOn = {"error", "network", "nativeNotification"}
  /\ alRemembered = "unknown" /\ alPending = FALSE /\ alPrompts = 0 /\ alWaiting = 0
  /\ alLimiter = [last |-> AlNone, held |-> 0]
  /\ alNow = 0 /\ alUnasked = FALSE /\ alCount = 0 /\ alRemovals = 0

\* The badge an envelope of this kind can raise; a response that succeeded, and a log
\* below "warn", raise none.
AlKind(e) == IF e = "network" THEN "network" ELSE "log"
AlKindForTab(tab) == IF tab = "logs" THEN {"log"} ELSE {tab} \cap {"network"}
\* An app without a pill has no name to be muted by.
AlShould(app, e) ==
  "muted" \notin alOn /\ e \in alOn /\ ~(app \in alOn /\ app \in Range(alApps))

AlData(app) ==
  [a \in DOMAIN alBadges \cup {app} |-> IF a \in DOMAIN alBadges THEN alBadges[a] ELSE AlNoBadges]
AlWithout(f, app) == [a \in DOMAIN f \ {app} |-> f[a]]

\* Mutant: selecting an app leaves the badge of the tab it opens on.
MutAlCleared(badges, app, tab) == badges

\* clearAlertCount for the tab that is shown.
AlCleared(badges, app, tab) ==
  IF app \notin DOMAIN badges THEN badges
  ELSE [badges EXCEPT ![app] = [k \in DOMAIN @ |-> IF k \in AlKindForTab(tab) THEN 0 ELSE @[k]]]

AlUpsert(app) ==
  /\ alApps' = IF app \in Range(alApps) THEN alApps ELSE Append(alApps, app)
  /\ alBadges' = AlData(app)
  /\ alSelected' = IF alSelected = AlNone THEN app ELSE alSelected
  /\ alUnasked' = (alUnasked \/ alSelected = AlNone)
  /\ UNCHANGED <<alTab, alNotices, alOn, alNow, alCount, alRemovals>>

AlRemove(app) ==
  /\ app \in Range(alApps) /\ alRemovals < AlMaxRemovals
  /\ alApps' = SelectSeq(alApps, LAMBDA a : a # app)
  /\ alBadges' = AlWithout(alBadges, app)
  /\ alSelected' = IF alSelected # app THEN alSelected
                   ELSE IF alApps' = << >> THEN AlNone ELSE Head(alApps')
  /\ alUnasked' = (alUnasked \/ alSelected = app)
  /\ alRemovals' = alRemovals + 1
  /\ UNCHANGED <<alTab, alNotices, alOn, alNow, alCount>>

AlSelect(app) ==
  /\ app \in Range(alApps)
  /\ alSelected' = app /\ alUnasked' = FALSE
  /\ alBadges' = AlCleared(alBadges, app, alTab)
  /\ UNCHANGED <<alApps, alTab, alNotices, alOn, alNow, alCount, alRemovals>>

\* setActiveTab; highlightAndNavigate and JsonGraph's cross links call it too.
AlOpenTab(tab) ==
  /\ alSelected # AlNone
  /\ alTab' = tab /\ alUnasked' = FALSE
  /\ alBadges' = AlCleared(alBadges, alSelected, tab)
  /\ UNCHANGED <<alApps, alSelected, alNotices, alOn, alNow, alCount, alRemovals>>

AlFlip(setting) ==
  /\ alOn' = IF setting \in alOn THEN alOn \ {setting} ELSE alOn \cup {setting}
  /\ UNCHANGED <<alWindow, alNotices, alNow, alCount>>

\* recordAlert: an alert the user is looking at is not counted.
AlRecorded(badges, app, kind) ==
  IF alSelected = app /\ kind \in AlKindForTab(alTab) THEN badges
  ELSE [badges EXCEPT ![app][kind] = @ + 1]

AlAllows == alLimiter.last = AlNone \/ alNow - alLimiter.last >= AlInterval

AlTryTake ==
  alLimiter' = IF AlAllows THEN [last |-> alNow, held |-> 0]
               ELSE [alLimiter EXCEPT !.held = @ + 1]

\* Mutant: every notification asks for the permission itself.
MutAlNotify ==
  /\ alPrompts' = alPrompts + (IF alRemembered = "unknown" THEN 1 ELSE 0)
  /\ alPending' = (alRemembered = "unknown")
  /\ alWaiting' = alWaiting + (IF alRemembered = "unknown" THEN 1 ELSE 0)
  /\ UNCHANGED alRemembered

\* sendAlertNotification: a remembered answer is used, a pending request is shared.
AlNotify ==
  /\ UNCHANGED alRemembered
  /\ IF alRemembered # "unknown" THEN UNCHANGED <<alPending, alPrompts, alWaiting>>
     ELSE /\ alPending' = TRUE
          /\ alPrompts' = IF alPending THEN alPrompts ELSE alPrompts + 1
          /\ alWaiting' = alWaiting + 1

\* handleEnvelope makes sure the app has data, then handleEnvelopeForAlerts runs.
AlEnvelope(app, e) ==
  /\ alCount < AlMaxAlerts /\ alCount' = alCount + 1
  /\ UNCHANGED <<alApps, alSelected, alTab, alUnasked, alOn, alNow, alRemovals>>
  /\ IF ~AlShould(app, e)
     THEN alBadges' = AlData(app) /\ UNCHANGED alNotices
     ELSE /\ alBadges' = AlRecorded(AlData(app), app, AlKind(e))
          /\ IF "nativeNotification" \notin alOn THEN UNCHANGED alNotices
             ELSE /\ AlTryTake
                  /\ IF AlAllows THEN AlNotify
                     ELSE UNCHANGED <<alRemembered, alPending, alPrompts, alWaiting>>

\* The request settles: what waited for it is posted or dropped; an error is not remembered.
AlAnswered(answer) ==
  /\ alPrompts > 0
  /\ alPrompts' = alPrompts - 1 /\ alPending' = FALSE /\ alWaiting' = 0
  /\ alRemembered' = IF answer = "error" THEN alRemembered ELSE answer
  /\ UNCHANGED <<alWindow, alLimiter, alOn, alNow, alCount>>

\* "Try again" in the settings, offered while the permission is denied.
AlReset ==
  /\ alRemembered = "denied" /\ alRemembered' = "unknown"
  /\ UNCHANGED <<alWindow, alPending, alPrompts, alWaiting, alLimiter, alOn, alNow, alCount>>

AlTick ==
  /\ alNow < AlMaxTime /\ alNow' = alNow + 1
  /\ UNCHANGED <<alWindow, alNotices, alOn, alCount>>

AlNext ==
  \/ \E app \in AlApp : AlUpsert(app) \/ AlRemove(app) \/ AlSelect(app)
                        \/ \E e \in {"error", "warn", "network", "info"} : AlEnvelope(app, e)
  \/ \E tab \in AlTabs : AlOpenTab(tab)
  \/ \E setting \in AlSettings : AlFlip(setting)
  \/ \E answer \in {"granted", "denied", "error"} : AlAnswered(answer)
  \/ AlReset \/ AlTick

AlSpec == AlInit /\ [][AlNext]_alVars

-----------------------------------------------------------------------------

\* connection.ts: what the user is looking at "counts as seen": the tab that is open for
\* the selected app has no badge, whatever the order of alerts, clicks and removals.  The
\* exception is a selection that no click made: after removeApp picks the next app, or the
\* first app arrives with alerts of its own, the badge stays until the next click.
AlVisibleIsSeen ==
  (alSelected \in DOMAIN alBadges /\ ~alUnasked) =>
    \A kind \in AlKindForTab(alTab) : alBadges[alSelected][kind] = 0

\* alertNotification.ts: `pending` guards "against a burst of errors firing N concurrent
\* permission prompts", and an answer is "never re-asked automatically": one request at a
\* time, none while an answer is remembered, and whatever waits has a request to wait for.
AlOnePrompt ==
  /\ alPrompts <= 1 /\ (alPrompts = 1 <=> alPending)
  /\ alPrompts = 1 => alRemembered = "unknown"
  /\ alWaiting > 0 => alPending

\* The two things an alert asks of the user's attention, both while apps come and go.
AlAttention == AlVisibleIsSeen /\ AlOnePrompt

=============================================================================
