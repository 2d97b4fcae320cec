------------------------------- MODULE Updater -------------------------------
(***************************************************************************)
(* The desktop's self-update: the store of state/updater.ts, the one       *)
(* `pendingUpdate` handle of lib/updater.ts and the banner's buttons.      *)
(*                                                                         *)
(* Checks, downloads and installs are promises: any number may be in       *)
(* flight, and the guards look at the status when the call starts, never   *)
(* again when it ends.  The timers of App.tsx start a check at any moment. *)
(* Versions are numbers; an Update handle is the number of the check that  *)
(* created it and the version it found.                                    *)
(***************************************************************************)
EXTENDS Naturals

CONSTANTS
  UpNone,       \* no version, no handle
  UpMaxVersion, \* bound of the model: the newest version ever published
  UpMaxCalls    \* bound of the model: calls of the store's async methods

VARIABLES
  upStatus, upVersion, upDismissed, \* UpdaterState; dismissedVersion is persisted
  upPending,   \* lib/updater.ts: pendingUpdate
  upFetched,   \* handles whose download() has resolved
  upOps,       \* promises that have not settled
  upLatest,    \* the version the update endpoint serves
  upInstalled, \* the version that is running
  upCrossed,   \* history: a restart failed while a check or a download was in flight
  upCalls      \* model bound

upVars == <<upStatus, upVersion, upDismissed, upPending, upFetched, upOps,
            upLatest, upInstalled, upCrossed, upCalls>>
upWorld == <<upLatest, upInstalled>>

UpBusy == {"checking", "downloading"}

UpInit ==
  /\ upStatus = "idle" /\ upVersion = UpNone /\ upDismissed = UpNone
  /\ upPending = UpNone /\ upFetched = {} /\ upOps = {}
  /\ upLatest = 1 /\ upInstalled = 0
  /\ upCrossed = FALSE /\ upCalls = 0

\* What the banner lets the user do.
UpButtons ==
  CASE upStatus = "available" /\ upVersion # upDismissed -> {"update", "later"}
    [] upStatus = "ready" -> {"restart"}
    [] upStatus = "error" -> {"tryAgain", "dismiss"}
    [] OTHER -> {}

UpCall(kind) ==
  /\ upCalls < UpMaxCalls
  /\ upCalls' = upCalls + 1
  /\ upOps' = upOps \cup {[kind |-> kind, update |-> upPending, no |-> upCalls + 1]}

UpCrossing == \E op \in upOps : op.kind \in {"check", "download"}

\* Mutant: runCheck without its guard.
MutUpRunCheck ==
  /\ UpCall("check")
  /\ upStatus' = "checking"
  /\ UNCHANGED <<upVersion, upDismissed, upPending, upFetched, upCrossed, upWorld>>

\* runCheck(): a timer, or "Try again".
UpRunCheck ==
  /\ upStatus \notin UpBusy
  /\ UpCall("check")
  /\ upStatus' = "checking"
  /\ UNCHANGED <<upVersion, upDismissed, upPending, upFetched, upCrossed, upWorld>>

\* Mutant: a check that fails leaves its promise unsettled.
MutUpCheckFindsNothing(op) == FALSE

\* Up to date and a failed check look the same.
UpCheckFindsNothing(op) ==
  /\ op.kind = "check"
  /\ upStatus' = "idle" /\ upVersion' = UpNone
  /\ UNCHANGED <<upDismissed, upPending, upFetched, upCrossed>>

UpCheckFinds(op) ==
  /\ op.kind = "check" /\ upLatest > upInstalled
  /\ upPending' = [no |-> op.no, version |-> upLatest]
  /\ upStatus' = "available" /\ upVersion' = upLatest
  /\ UNCHANGED <<upDismissed, upFetched, upCrossed>>

UpDownload ==
  /\ "update" \in UpButtons
  /\ UpCall("download")
  /\ upStatus' = "downloading"
  /\ UNCHANGED <<upVersion, upDismissed, upPending, upFetched, upCrossed, upWorld>>

UpDownloaded(op) ==
  /\ op.kind = "download"
  /\ upStatus' = "ready" /\ upFetched' = upFetched \cup {op.update}
  /\ UNCHANGED <<upVersion, upDismissed, upPending, upCrossed>>

UpRestart ==
  /\ "restart" \in UpButtons
  /\ UpCall("install")
  /\ UNCHANGED <<upStatus, upVersion, upDismissed, upPending, upFetched, upCrossed, upWorld>>

UpFails(op) ==
  /\ op.kind \in {"download", "install"}
  /\ upStatus' = "error"
  /\ upCrossed' = (upCrossed \/ (op.kind = "install" /\ UpCrossing))
  /\ UNCHANGED <<upVersion, upDismissed, upPending, upFetched>>

UpSettles(op) ==
  /\ upOps' = upOps \ {op}
  /\ \/ UpCheckFindsNothing(op)
     \/ UpCheckFinds(op)
     \/ UpDownloaded(op)
     \/ UpFails(op)
  /\ UNCHANGED <<upWorld, upCalls>>

\* A new page, of this version or of the one just installed, keeps `partialize`d state.
UpStarts ==
  /\ upStatus' = "idle" /\ upVersion' = UpNone
  /\ upPending' = UpNone /\ upFetched' = {} /\ upOps' = {}
  /\ UNCHANGED <<upDismissed, upLatest, upCrossed, upCalls>>

UpReload == UpStarts /\ UNCHANGED upInstalled

\* The plugin refuses to install what was not downloaded.
UpInstalls(op) ==
  /\ op.kind = "install" /\ op.update \in upFetched
  /\ upInstalled' = op.update.version
  /\ UpStarts

UpDismiss ==
  /\ UpButtons \cap {"later", "dismiss"} # {}
  /\ upStatus' = "idle" /\ upDismissed' = upVersion
  /\ UNCHANGED <<upVersion, upPending, upFetched, upOps, upCrossed, upWorld, upCalls>>

UpPublishes ==
  /\ upLatest < UpMaxVersion
  /\ upLatest' = upLatest + 1
  /\ UNCHANGED <<upStatus, upVersion, upDismissed, upPending, upFetched, upOps,
                 upInstalled, upCrossed, upCalls>>

UpEnds == \E op \in upOps : UpSettles(op) \/ UpInstalls(op)

UpNext ==
  \/ UpRunCheck \/ UpDownload \/ UpRestart \/ UpDismiss
  \/ UpEnds \/ UpReload \/ UpPublishes

\* A promise settles: every network call of the plugin ends, with a result or an error.
UpFairness == WF_upVars(UpEnds)

UpSpec == UpInit /\ [][UpNext]_upVars /\ UpFairness

-----------------------------------------------------------------------------

\* lib/updater.ts: "Installs the already-downloaded update": while the banner offers the
\* restart, the one handle the restart would install is one whose download has resolved,
\* however checks, downloads and dismissals overlapped.  The exception is a
\* restart that fails after a periodic check has begun: its "error" reopens runCheck's
\* guard in the middle of that check or of the download after it.
UpReadyInstalls == (upStatus = "ready" /\ ~upCrossed) => upPending \in upFetched

\* runCheck refuses to start while the status is busy, so a busy status that nothing
\* ends would switch the updater off until the next start.
UpUnsticks == upStatus \in UpBusy ~> upStatus \notin UpBusy

=============================================================================
