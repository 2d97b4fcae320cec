--------------------------- MODULE Desktop_proofs ---------------------------
(***************************************************************************)
(* Proofs about the parts of the desktop application that keep a state of  *)
(* their own: the self-update (Updater), the transfer of database files    *)
(* (DbTransfer), the alerts (Alerts), the editing panels (EditPanels), the *)
(* links of a request (Correlation), the relational view (Relational) and  *)
(* the graph a JSON value is shown as (JsonGraph).                         *)
(***************************************************************************)
EXTENDS Updater, DbTransfer, Alerts, EditPanels, Correlation, Relational, JsonGraph,
        FiniteSetTheorems, SequenceTheorems, Recursion_proofs, TLAPS

-----------------------------------------------------------------------------
(* The update the restart installs *)

\* The calls that runCheck's guard is there to keep from overlapping.
UpCrossers == {op \in upOps : op.kind \in {"check", "download"}}

\* Until a restart has failed in the middle of one: at most one check or download is in
\* flight, the status is busy as long as it is, and a download is of the one handle.
UpOneAtATime ==
  /\ \A op, po \in UpCrossers : op = po
  /\ \A op \in UpCrossers : /\ upStatus \in UpBusy
                            /\ op.kind = "download" => op.update = upPending

UpInv == upCrossed \/ (UpOneAtATime /\ UpReadyInstalls)

LEMMA UpInvInit == UpInit => UpInv
  BY DEF UpInit, UpInv, UpOneAtATime, UpCrossers, UpReadyInstalls

LEMMA UpInvStep == UpInv /\ [UpNext]_upVars => UpInv'
<1> USE DEF UpInv, UpOneAtATime, UpCrossers, UpReadyInstalls
<1> SUFFICES ASSUME UpInv, [UpNext]_upVars, ~upCrossed'
             PROVE  (UpOneAtATime /\ UpReadyInstalls)'
  OBVIOUS
<1>1. CASE UpRunCheck
  BY <1>1 DEF UpRunCheck, UpCall, UpBusy
<1>2. CASE UpDownload
  BY <1>2 DEF UpDownload, UpCall, UpBusy, UpButtons
<1>3. CASE UpRestart
  BY <1>3 DEF UpRestart, UpCall, UpBusy, UpButtons
<1>4. CASE UpDismiss
  BY <1>4 DEF UpDismiss, UpButtons, UpBusy
<1>5. CASE UpReload
  BY <1>5 DEF UpReload, UpStarts
<1>6. CASE UpPublishes
  BY <1>6 DEF UpPublishes
<1>7. ASSUME NEW op \in upOps, UpInstalls(op)
      PROVE  (UpOneAtATime /\ UpReadyInstalls)'
  BY <1>7 DEF UpInstalls, UpStarts
<1>8. ASSUME NEW op \in upOps, UpSettles(op)
      PROVE  (UpOneAtATime /\ UpReadyInstalls)'
  <2>1. CASE UpCheckFindsNothing(op)
    BY <1>8, <2>1 DEF UpSettles, UpCheckFindsNothing
  <2>2. CASE UpCheckFinds(op)
    BY <1>8, <2>2 DEF UpSettles, UpCheckFinds
  <2>3. CASE UpDownloaded(op)
    BY <1>8, <2>3 DEF UpSettles, UpDownloaded
  <2>4. CASE UpFails(op)
    BY <1>8, <2>4 DEF UpSettles, UpFails, UpCrossing
  <2>5. QED
    BY <1>8, <2>1, <2>2, <2>3, <2>4 DEF UpSettles
<1>9. CASE UNCHANGED upVars
  BY <1>9 DEF upVars
<1>10. QED
  BY <1>1, <1>2, <1>3, <1>4, <1>5, <1>6, <1>7, <1>8, <1>9 DEF UpNext, UpEnds

\* lib/updater.ts: while the banner offers the restart, and until one has failed under a
\* check or a download, the one pending handle is a handle whose download has resolved, for
\* any number of calls and versions.
THEOREM RestartInstallsDownloaded == UpSpec => []UpReadyInstalls
<1>1. UpInv => UpReadyInstalls
  BY DEF UpInv, UpReadyInstalls
<1>2. QED
  BY <1>1, UpInvInit, UpInvStep, PTL DEF UpSpec

-----------------------------------------------------------------------------
(* What the panel says of a transfer *)

DbTransferring == [kind : {"export", "import"}, file : {"main", "wal"}, exact : BOOLEAN]

DbTyped ==
  /\ dbJob \in [0..1 -> {DbNone} \cup DbTransferring]
  /\ dbPanel \in [id : 0..1, busy : BOOLEAN, pending : BOOLEAN]
  /\ dbApp = [main |-> dbApp.main, wal |-> dbApp.wal]
  /\ dbDisk = [main |-> dbDisk.main, wal |-> dbDisk.wal]

\* A transfer that is exact has been alone since it began.
DbAlone == \A i \in 0..1 : dbJob[i] # DbNone /\ dbJob[i].exact => dbJob[1 - i] = DbNone

\* Between its two files an exact transfer has made the main files agree.
DbHalfway ==
  \A i \in 0..1 :
    dbJob[i] # DbNone /\ dbJob[i].exact /\ dbJob[i].file = "wal" =>
      /\ dbJob[i].kind = "export" => dbDisk.main = dbApp.main
      /\ dbJob[i].kind = "import" /\ dbDisk.main # DbNone => dbApp.main = dbDisk.main

\* Nothing has started since the message, and nothing was running beside it.
DbQuiet == dbTold # DbNone /\ dbTold.exact => \A i \in 0..1 : dbJob[i] = DbNone

DbInv == DbTyped /\ DbAlone /\ DbHalfway /\ DbQuiet /\ DbToldTrue

LEMMA DbInvInit == DbInit => DbInv
  BY DEF DbInit, DbInv, DbTyped, DbAlone, DbHalfway, DbQuiet, DbToldTrue, DbPanel, DbTransferring

\* A transfer that something else has disturbed goes on, and is not exact any more.
LEMMA DbDisturbs ==
  ASSUME DbTyped
  PROVE  /\ DbDisturbed \in [0..1 -> {DbNone} \cup DbTransferring]
         /\ \A i \in 0..1 : DbDisturbed[i] = DbNone \/ ~DbDisturbed[i].exact
         /\ \A i \in 0..1 : dbJob[i] = DbNone => DbDisturbed[i] = DbNone
  BY DEF DbTyped, DbDisturbed, DbTransferring

DbJobs == [0..1 -> {DbNone} \cup DbTransferring]

\* The end of a transfer frees its place; the message says "exact" only when the other place
\* is free as well.
LEMMA DbEnds ==
  ASSUME DbTyped, DbAlone, NEW i \in 0..1, dbJob[i] # DbNone, NEW ok, DbEnd(i, ok)
  PROVE  /\ dbJob' \in DbJobs /\ dbPanel' \in [id : 0..1, busy : BOOLEAN, pending : BOOLEAN]
         /\ \A j \in 0..1 : dbJob'[j] = DbNone \/ (dbJob'[j] = dbJob[j] /\ j # i)
         /\ dbTold'.kind = dbJob[i].kind /\ dbTold'.ok = ok /\ dbTold'.exact = dbJob[i].exact
         /\ DbAlone' /\ DbQuiet'
<1>1. dbJob' \in DbJobs
  BY DEF DbTyped, DbEnd, DbJobs
<1>2. dbPanel' \in [id : 0..1, busy : BOOLEAN, pending : BOOLEAN]
  <2>1. CASE dbPanel.id = i
    BY <2>1 DEF DbTyped, DbEnd
  <2>2. CASE dbPanel.id # i
    BY <2>2 DEF DbTyped, DbEnd
  <2>3. QED
    BY <2>1, <2>2
<1>3. dbJob'[i] = DbNone /\ \A j \in 0..1 : j # i => dbJob'[j] = dbJob[j]
  BY DEF DbTyped, DbEnd
<1>4. dbTold'.kind = dbJob[i].kind /\ dbTold'.ok = ok /\ dbTold'.exact = dbJob[i].exact
  BY DEF DbEnd
<1>5. \A j \in 0..1 : j = i \/ j = 1 - i
  OBVIOUS
<1>6. DbAlone'
  BY <1>3, <1>5 DEF DbAlone
<1>7. DbQuiet'
  BY <1>3, <1>4, <1>5 DEF DbAlone, DbQuiet
<1>8. QED
  BY <1>1, <1>2, <1>3, <1>4, <1>6, <1>7

\* The first of the two files is copied: the transfer goes on, exact only if it was.
LEMMA DbGoesOn ==
  ASSUME DbTyped, DbAlone, NEW i \in 0..1, dbJob[i] # DbNone,
         dbJob' = [(IF dbJob[1 - i] = DbNone THEN dbJob ELSE DbDisturbed) EXCEPT ![i].file = "wal"]
  PROVE  /\ dbJob' \in DbJobs /\ DbAlone'
         /\ dbJob'[i].kind = dbJob[i].kind
         /\ dbJob[1 - i] = DbNone => dbJob'[1 - i] = DbNone
         /\ dbJob[1 - i] # DbNone => \A j \in 0..1 : dbJob'[j] = DbNone \/ ~dbJob'[j].exact
<1>0. 1 - i \in 0..1 /\ 1 - i # i /\ \A j \in 0..1 : j = i \/ j = 1 - i
  OBVIOUS
<1>1. CASE dbJob[1 - i] = DbNone
  BY <1>0, <1>1 DEF DbTyped, DbJobs, DbTransferring, DbAlone
<1>2. CASE dbJob[1 - i] # DbNone
  <2> DEFINE job == [dbJob[i] EXCEPT !.exact = FALSE]
  <2>1. dbJob' = [DbDisturbed EXCEPT ![i].file = "wal"] /\ DbDisturbed[i] = job
    BY <1>2 DEF DbDisturbed
  <2>2. job \in DbTransferring /\ job.exact = FALSE /\ job.kind = dbJob[i].kind
    <3>1. dbJob[i] \in DbTransferring
      BY DEF DbTyped
    <3>2. QED
      BY <3>1 DEF DbTransferring
  <2>3. dbJob' \in DbJobs /\ dbJob'[i].exact = FALSE /\ dbJob'[i].kind = dbJob[i].kind
        /\ dbJob'[1 - i] = DbDisturbed[1 - i]
    <3> HIDE DEF job
    <3>1. DbDisturbed \in DbJobs
      BY DbDisturbs DEF DbJobs
    <3>2. dbJob'[i] = [job EXCEPT !.file = "wal"] /\ dbJob'[1 - i] = DbDisturbed[1 - i]
      BY <1>0, <2>1, <3>1 DEF DbJobs
    <3>3. [job EXCEPT !.file = "wal"] \in DbTransferring /\ dbJob'[i].exact = job.exact
          /\ dbJob'[i].kind = job.kind
      BY <2>2, <3>2 DEF DbTransferring
    <3>4. dbJob' \in DbJobs
      BY <2>1, <3>1, <3>3 DEF DbJobs
    <3>5. QED
      BY <2>2, <3>2, <3>3, <3>4
  <2>4. \A j \in 0..1 : dbJob'[j] = DbNone \/ ~dbJob'[j].exact
    BY <1>0, <2>3, DbDisturbs
  <2>5. QED
    BY <1>2, <2>3, <2>4 DEF DbAlone
<1>3. QED
  BY <1>1, <1>2

LEMMA DbInvStep == DbInv /\ [DbNext]_dbVars => DbInv'
<1> SUFFICES ASSUME DbInv, [DbNext]_dbVars
             PROVE  DbInv'
  OBVIOUS
<1> USE DEF DbInv, DbTyped, DbAlone, DbHalfway, DbQuiet, DbToldTrue, DbTransferring
<1>0. \A i \in 0..1 : 1 - i \in 0..1 /\ 1 - i # i /\ 1 - (1 - i) = i
  OBVIOUS
<1>1. CASE DbCommit
  BY <1>1, DbDisturbs DEF DbCommit
<1>2. CASE DbCheckpoint
  BY <1>2, DbDisturbs DEF DbCheckpoint
<1>3. CASE DbEmptied
  BY <1>3, DbDisturbs DEF DbEmptied
<1>4. CASE DbExport
  BY <1>0, <1>4, DbDisturbs, ZenonT(40) DEF DbExport, DbStart
<1>5. CASE DbPickImport
  BY <1>5 DEF DbPickImport
<1>6. CASE DbCancelImport
  BY <1>6 DEF DbCancelImport
<1>7. CASE DbConfirmImport
  BY <1>0, <1>7, DbDisturbs, ZenonT(40) DEF DbConfirmImport, DbStart
<1>8. CASE DbRemount
  BY <1>0, <1>8 DEF DbRemount, DbPanel
<1>9. ASSUME NEW i \in 0..1, DbFails(i)
      PROVE  DbInv'
  <2>1. dbJob[i] # DbNone /\ DbEnd(i, FALSE) /\ dbApp' = dbApp /\ dbDisk' = dbDisk
    BY <1>9 DEF DbFails
  <2>2. DbAlone' /\ DbQuiet' /\ dbTold'.ok = FALSE /\ dbJob' \in DbJobs
        /\ dbPanel' \in [id : 0..1, busy : BOOLEAN, pending : BOOLEAN]
        /\ \A j \in 0..1 : dbJob'[j] = DbNone \/ (dbJob'[j] = dbJob[j] /\ j # i)
    BY <2>1, DbEnds
  <2>3. QED
    BY <2>1, <2>2 DEF DbJobs
<1>10. ASSUME NEW i \in 0..1, DbExportMain(i)
       PROVE  DbInv'
  BY <1>0, <1>10, DbGoesOn DEF DbExportMain, DbOn, DbJobs
<1>11. ASSUME NEW i \in 0..1, DbExportWal(i)
       PROVE  DbInv'
  <2>1. dbJob[i] # DbNone /\ DbEnd(i, TRUE) /\ dbApp' = dbApp
    BY <1>11 DEF DbExportWal, DbOn
  <2>2. DbAlone' /\ DbQuiet' /\ dbTold'.kind = dbJob[i].kind /\ dbTold'.exact = dbJob[i].exact
        /\ dbJob' \in DbJobs /\ dbPanel' \in [id : 0..1, busy : BOOLEAN, pending : BOOLEAN]
        /\ \A j \in 0..1 : dbJob'[j] = DbNone \/ (dbJob'[j] = dbJob[j] /\ j # i)
    BY <2>1, DbEnds
  <2>3. /\ dbJob[i].file = "wal" /\ dbJob[i].kind = "export"
        /\ dbDisk' = [main |-> dbDisk.main, wal |-> dbDisk'.wal]
        /\ dbApp.wal = DbNone \/ dbDisk'.wal = dbApp.wal
    BY <1>11 DEF DbExportWal, DbOn
  <2>4. DbHalfway'
    BY <2>1, <2>2, <2>3
  <2>5. DbToldTrue'
    <3>1. dbTold'.kind = "export" /\ dbApp'.wal \in {DbNone, dbDisk'.wal}
      BY <2>1, <2>2, <2>3
    <3>2. dbTold'.exact => dbDisk'.main = dbApp'.main
      <4>1. dbJob[i].exact => dbDisk.main = dbApp.main
        BY <2>1, <2>3
      <4>2. dbDisk'.main = dbDisk.main
        BY <2>3
      <4>3. QED
        BY ONLY <2>1, <2>2, <4>1, <4>2
    <3>3. QED
      BY ONLY <3>1, <3>2 DEF DbToldTrue
  <2>6. QED
    BY <2>1, <2>2, <2>3, <2>4, <2>5 DEF DbJobs
<1>12. ASSUME NEW i \in 0..1, DbExportSkips(i)
       PROVE  DbInv'
  BY <1>0, <1>12 DEF DbExportSkips, DbOn
<1>13. ASSUME NEW i \in 0..1, DbImportMain(i)
       PROVE  DbInv'
  BY <1>0, <1>13, DbGoesOn DEF DbImportMain, DbOn, DbJobs
<1>14. ASSUME NEW i \in 0..1, DbImportWal(i)
       PROVE  DbInv'
  <2>1. dbJob[i] # DbNone /\ DbEnd(i, TRUE) /\ dbDisk' = dbDisk
    BY <1>14 DEF DbImportWal, DbOn
  <2>2. DbAlone' /\ DbQuiet' /\ dbTold'.kind = dbJob[i].kind /\ dbTold'.exact = dbJob[i].exact
        /\ dbJob' \in DbJobs /\ dbPanel' \in [id : 0..1, busy : BOOLEAN, pending : BOOLEAN]
        /\ \A j \in 0..1 : dbJob'[j] = DbNone \/ (dbJob'[j] = dbJob[j] /\ j # i)
    BY <2>1, DbEnds
  <2>3. /\ dbJob[i].file = "wal" /\ dbJob[i].kind = "import"
        /\ dbApp' = [main |-> dbApp.main, wal |-> dbDisk.wal]
    BY <1>14 DEF DbImportWal, DbOn, DbPlacedWal
  <2>4. DbHalfway'
    BY <2>1, <2>2, <2>3
  <2>5. ASSUME dbTold'.exact, dbDisk'.main # DbNone
        PROVE  dbApp' = dbDisk'
    <3>1. dbApp.main = dbDisk.main
      BY <2>1, <2>2, <2>3, <2>5
    <3>2. dbDisk = [main |-> dbDisk.main, wal |-> dbDisk.wal]
      OBVIOUS
    <3>3. QED
      BY <2>1, <2>3, <3>1, <3>2
  <2>6. DbToldTrue'
    <3>1. dbTold'.kind = "import"
      BY <2>2, <2>3
    <3>2. dbTold'.exact => (dbDisk'.main # DbNone => dbApp' = dbDisk')
      BY <2>5
    <3>3. QED
      BY ONLY <3>1, <3>2 DEF DbToldTrue
  <2>7. QED
    BY <2>1, <2>2, <2>3, <2>4, <2>6 DEF DbJobs
<1>15. ASSUME NEW i \in 0..1, DbImportLeaves(i)
       PROVE  DbInv'
  BY <1>0, <1>15 DEF DbImportLeaves, DbOn
<1>16. CASE UNCHANGED dbVars
  BY <1>16 DEF dbVars
<1>17. QED
  BY <1>1, <1>2, <1>3, <1>4, <1>5, <1>6, <1>7, <1>8, <1>9, <1>10, <1>11, <1>12, <1>13, <1>14,
     <1>15, <1>16 DEF DbNext

\* db_file.rs: whatever failed half way or ran at the same time before, a transfer that
\* reports success while nothing else touches the files has copied what there is.
THEOREM TransfersTellTheTruth == DbSpec => []DbToldTrue
<1>1. DbInv => DbToldTrue
  BY DEF DbInv
<1>2. QED
  BY <1>1, DbInvInit, DbInvStep, PTL DEF DbSpec

-----------------------------------------------------------------------------
(* What the alerts ask of the user's attention *)

AlCounts == [{"log", "network"} -> Nat]

AlTyped ==
  /\ \A app \in DOMAIN alBadges : alBadges[app] \in AlCounts
  /\ alPrompts \in Nat /\ alWaiting \in Nat /\ alPending \in BOOLEAN

AlInv == AlTyped /\ AlVisibleIsSeen /\ AlOnePrompt

\* An app that had no data gets some, with nothing on its badges; the others keep theirs.
LEMMA AlDataKeeps ==
  ASSUME AlTyped, NEW app
  PROVE  /\ DOMAIN AlData(app) = DOMAIN alBadges \cup {app}
         /\ \A a \in DOMAIN alBadges : AlData(app)[a] = alBadges[a]
         /\ \A a \in DOMAIN AlData(app) : AlData(app)[a] \in AlCounts
         /\ app \notin DOMAIN alBadges => AlData(app)[app] = [kind \in {"log", "network"} |-> 0]
<1>1. /\ DOMAIN AlData(app) = DOMAIN alBadges \cup {app}
      /\ \A a \in DOMAIN alBadges : AlData(app)[a] = alBadges[a]
      /\ app \notin DOMAIN alBadges => AlData(app)[app] = AlNoBadges
  BY DEF AlData
<1>2. AlNoBadges \in AlCounts
  BY DEF AlNoBadges, AlCounts
<1>3. QED
  BY <1>1, <1>2 DEF AlTyped, AlNoBadges

\* Clearing the badge of a tab leaves the other badges as they were.
LEMMA AlClearedKeeps ==
  ASSUME AlTyped, NEW app, NEW tab
  PROVE  /\ DOMAIN AlCleared(alBadges, app, tab) = DOMAIN alBadges
         /\ \A a \in DOMAIN alBadges : AlCleared(alBadges, app, tab)[a] \in AlCounts
         /\ app \in DOMAIN alBadges =>
              \A kind \in AlKindForTab(tab) : AlCleared(alBadges, app, tab)[app][kind] = 0
<1>1. CASE app \notin DOMAIN alBadges
  BY <1>1 DEF AlTyped, AlCleared
<1>2. CASE app \in DOMAIN alBadges
  <2> DEFINE cleared == [k \in DOMAIN alBadges[app] |->
                           IF k \in AlKindForTab(tab) THEN 0 ELSE alBadges[app][k]]
  <2>1. AlCleared(alBadges, app, tab) = [alBadges EXCEPT ![app] = cleared]
    BY <1>2 DEF AlCleared
  <2>2. cleared \in AlCounts
    BY <1>2 DEF AlTyped, AlCounts
  <2>3. \A kind \in AlKindForTab(tab) : cleared[kind] = 0
    BY <1>2 DEF AlTyped, AlCounts, AlKindForTab
  <2> HIDE DEF cleared
  <2>4. QED
    BY <1>2, <2>1, <2>2, <2>3 DEF AlTyped
<1>3. QED
  BY <1>1, <1>2

LEMMA AlInvInit == AlInit => AlInv
<1> SUFFICES ASSUME AlInit PROVE AlInv
  OBVIOUS
<1>1. DOMAIN alBadges = {}
  BY DEF AlInit
<1>2. alPrompts = 0 /\ alWaiting = 0 /\ alPending = FALSE
  BY DEF AlInit
<1>3. AlTyped
  BY <1>1, <1>2 DEF AlTyped
<1>4. AlVisibleIsSeen
  BY <1>1 DEF AlVisibleIsSeen
<1>5. AlOnePrompt
  BY <1>2 DEF AlOnePrompt
<1>6. QED
  BY <1>3, <1>4, <1>5 DEF AlInv

\* An alert: it is not counted where the user looks.
LEMMA AlRecordedUnseen ==
  ASSUME AlTyped, AlVisibleIsSeen, NEW app, NEW e,
         alSelected' = alSelected, alTab' = alTab, alUnasked' = alUnasked,
         alBadges' \in {AlData(app), AlRecorded(AlData(app), app, AlKind(e))}
  PROVE  /\ \A a \in DOMAIN alBadges' : alBadges'[a] \in AlCounts
         /\ AlVisibleIsSeen'
<1> DEFINE data == AlData(app)
           kind == AlKind(e)
<1>1. kind \in {"log", "network"}
  BY DEF AlKind
<1>2. /\ DOMAIN data = DOMAIN alBadges \cup {app}
      /\ \A a \in DOMAIN alBadges : data[a] = alBadges[a]
      /\ \A a \in DOMAIN data : data[a] \in AlCounts
      /\ app \notin DOMAIN alBadges => data[app] = [k \in {"log", "network"} |-> 0]
  BY AlDataKeeps
<1>3. (alSelected \in DOMAIN data /\ ~alUnasked) =>
        \A k \in AlKindForTab(alTab) : data[alSelected][k] = 0
  BY <1>2 DEF AlVisibleIsSeen, AlKindForTab
<1>4. CASE alBadges' = data
  BY <1>2, <1>3, <1>4 DEF AlVisibleIsSeen
<1>5. CASE alBadges' # data
  <2> HIDE DEF data, kind
  <2>1. /\ alBadges' = [data EXCEPT ![app][kind] = @ + 1]
        /\ ~(alSelected = app /\ kind \in AlKindForTab(alTab))
    BY <1>5 DEF AlRecorded, data, kind
  <2>2. /\ DOMAIN alBadges' = DOMAIN data
        /\ alBadges'[app] = [data[app] EXCEPT ![kind] = @ + 1]
        /\ \A a \in DOMAIN data : a # app => alBadges'[a] = data[a]
    BY <1>2, <2>1
  <2>3. /\ alBadges'[app] \in AlCounts
        /\ \A k \in {"log", "network"} : k # kind => alBadges'[app][k] = data[app][k]
    BY <1>1, <1>2, <2>2 DEF AlCounts
  <2>4. QED
    BY <1>2, <1>3, <2>1, <2>2, <2>3 DEF AlVisibleIsSeen, AlKindForTab
<1>6. QED
  BY <1>4, <1>5

LEMMA AlInvStep == AlInv /\ [AlNext]_alVars => AlInv'
<1> SUFFICES ASSUME AlInv, [AlNext]_alVars
             PROVE  AlInv'
  OBVIOUS
<1> USE DEF AlInv
<1>1. ASSUME NEW app \in AlApp, AlUpsert(app)
      PROVE  AlInv'
  <2>1. /\ alBadges' = AlData(app) /\ alTab' = alTab
        /\ alUnasked' \/ (alSelected' = alSelected /\ ~alUnasked)
        /\ UNCHANGED <<alPrompts, alWaiting, alPending, alRemembered>>
    BY <1>1 DEF AlUpsert, alNotices
  <2>2. AlTyped' /\ AlOnePrompt'
    BY <2>1, AlDataKeeps DEF AlTyped, AlOnePrompt
  <2>3. AlVisibleIsSeen'
    <3> SUFFICES ASSUME alSelected' \in DOMAIN alBadges', ~alUnasked',
                        NEW kind \in AlKindForTab(alTab')
                 PROVE  alBadges'[alSelected'][kind] = 0
      BY DEF AlVisibleIsSeen
    <3>1. alSelected' = alSelected /\ ~alUnasked /\ kind \in AlKindForTab(alTab)
      BY <2>1
    <3>2. kind \in {"log", "network"}
      BY DEF AlKindForTab
    <3>3. /\ DOMAIN alBadges' = DOMAIN alBadges \cup {app}
          /\ \A a \in DOMAIN alBadges : alBadges'[a] = alBadges[a]
          /\ app \notin DOMAIN alBadges => alBadges'[app] = [k \in {"log", "network"} |-> 0]
      BY <2>1, AlDataKeeps
    <3>4. CASE alSelected \in DOMAIN alBadges
      BY <3>1, <3>3, <3>4 DEF AlVisibleIsSeen
    <3>5. CASE alSelected \notin DOMAIN alBadges
      <4>1. alSelected' = app /\ app \notin DOMAIN alBadges
        BY <3>1, <3>3, <3>5
      <4>2. QED
        BY <3>2, <3>3, <4>1
    <3>6. QED
      BY <3>4, <3>5
  <2>4. QED
    BY <2>2, <2>3
<1>2. ASSUME NEW app \in AlApp, AlRemove(app)
      PROVE  AlInv'
  <2>1. /\ DOMAIN alBadges' = DOMAIN alBadges \ {app}
        /\ \A a \in DOMAIN alBadges' : alBadges'[a] = alBadges[a]
        /\ alUnasked' \/ (alSelected' = alSelected /\ ~alUnasked)
        /\ UNCHANGED <<alTab, alPrompts, alWaiting, alPending, alRemembered>>
    BY <1>2 DEF AlRemove, AlWithout, alNotices
  <2>2. QED
    BY <2>1 DEF AlTyped, AlOnePrompt, AlVisibleIsSeen
<1>3. ASSUME NEW app \in AlApp, AlSelect(app)
      PROVE  AlInv'
  BY <1>3, AlClearedKeeps DEF AlSelect, alNotices, AlTyped, AlOnePrompt, AlVisibleIsSeen
<1>4. ASSUME NEW tab \in AlTabs, AlOpenTab(tab)
      PROVE  AlInv'
  BY <1>4, AlClearedKeeps DEF AlOpenTab, alNotices, AlTyped, AlOnePrompt, AlVisibleIsSeen
<1>5. ASSUME NEW app \in AlApp, NEW e, AlEnvelope(app, e)
      PROVE  AlInv'
  <2>1. alBadges' \in {AlData(app), AlRecorded(AlData(app), app, AlKind(e))}
        /\ UNCHANGED <<alSelected, alTab, alUnasked>>
    BY <1>5 DEF AlEnvelope
  <2>2. AlNotify \/ UNCHANGED <<alRemembered, alPending, alPrompts, alWaiting>>
    BY <1>5 DEF AlEnvelope, alNotices
  <2>3. alPrompts' \in Nat /\ alWaiting' \in Nat /\ alPending' \in BOOLEAN /\ AlOnePrompt'
    <3>1. CASE UNCHANGED <<alRemembered, alPending, alPrompts, alWaiting>>
      BY <3>1 DEF AlTyped, AlOnePrompt
    <3>2. CASE AlNotify /\ alPending = TRUE /\ alRemembered = "unknown"
      BY <3>2 DEF AlNotify, AlTyped, AlOnePrompt
    <3>3. CASE AlNotify /\ alPending = FALSE /\ alRemembered = "unknown"
      <4>1. alPrompts = 0
        BY <3>3 DEF AlTyped, AlOnePrompt
      <4>2. QED
        BY <3>3, <4>1 DEF AlNotify, AlTyped, AlOnePrompt
    <3>4. QED
      BY <2>2, <3>1, <3>2, <3>3 DEF AlNotify, AlTyped
  <2>4. (\A a \in DOMAIN alBadges' : alBadges'[a] \in AlCounts) /\ AlVisibleIsSeen'
    BY <2>1, AlRecordedUnseen
  <2>5. QED
    BY <2>3, <2>4 DEF AlTyped
<1>6. ASSUME NEW answer, AlAnswered(answer)
      PROVE  AlInv'
  <2>1. alPrompts = 1 /\ alPrompts' = 0 /\ alPending' = FALSE /\ alWaiting' = 0
    BY <1>6 DEF AlAnswered, AlTyped, AlOnePrompt
  <2>2. UNCHANGED <<alBadges, alSelected, alTab, alUnasked>>
    BY <1>6 DEF AlAnswered, alWindow
  <2>3. AlTyped' /\ AlVisibleIsSeen'
    BY <2>1, <2>2 DEF AlTyped, AlVisibleIsSeen
  <2>4. AlOnePrompt'
    BY <2>1 DEF AlOnePrompt
  <2>5. QED
    BY <2>3, <2>4
<1>7. CASE AlReset
  BY <1>7 DEF AlReset, alWindow, AlTyped, AlOnePrompt, AlVisibleIsSeen
<1>8. CASE AlTick \/ (\E setting \in AlSettings : AlFlip(setting)) \/ UNCHANGED alVars
  BY <1>8 DEF AlTick, AlFlip, alWindow, alNotices, alVars, AlTyped, AlOnePrompt, AlVisibleIsSeen
<1>9. QED
  BY <1>1, <1>2, <1>3, <1>4, <1>5, <1>6, <1>7, <1>8 DEF AlNext

\* connection.ts and alertNotification.ts: the tab that is open for the selected app has no
\* badge unless no click has chosen it, and there is at most one request for the permission,
\* none while an answer is remembered, and whatever waits has one to wait for.
THEOREM AttentionAskedOnce == AlSpec => []AlAttention
<1>1. AlInv => AlAttention
  BY DEF AlInv, AlAttention
<1>2. QED
  BY <1>1, AlInvInit, AlInvStep, PTL DEF AlSpec

-----------------------------------------------------------------------------
(* Where a draft is saved *)

EdParts == {"app", "tab", "jump", "visit", "pick", "open", "highlight", "local", "field", "draft"}

\* A raw draft belongs to a row of the storage table and was opened on a key of that name.
EdRawFits(local, tab) ==
  \A k \in DOMAIN local :
    /\ DOMAIN local[k] = {"raw", "edited"}
    /\ local[k].raw # EdNone =>
         /\ tab = "storage" /\ "opened" \in DOMAIN local[k].raw
         /\ local[k].raw.opened.tab = "storage" /\ local[k].raw.opened.key = k

\* A field's draft was opened on an entry that the page cannot tell from the one it shows.
EdDraftFits(draft, shown) ==
  draft # EdNone =>
    /\ shown # EdNone /\ "opened" \in DOMAIN draft
    /\ draft.opened.tab = shown.tab /\ EdIdentity(draft.opened) = EdIdentity(shown)

EdPageFits ==
  /\ DOMAIN edPage = EdParts /\ edPage.visit \in Nat
  /\ EdRawFits(edPage.local, edPage.tab)
  /\ EdDraftFits(edPage.draft, EdNow)
  /\ EdNow # EdNone => EdIdentity(EdNow) \in DOMAIN edPage.local

EdSeqs(s) == {s[i] : i \in DOMAIN s}

EdWritesFit ==
  /\ edWrites \in Seq(EdSeqs(edWrites))
  /\ \A i \in DOMAIN edWrites : {"to", "opened"} \subseteq DOMAIN edWrites[i]

EdInv == EdPageFits /\ EdWritesFit /\ EdDraftHome

\* The entry whose graph is on the page is one of the page's tab.
LEMMA EdShownHere ==
  ASSUME NEW page, NEW data, NEW arrived, NEW updated,
         EdShown(page, EdListed(page, data, arrived, updated)) # EdNone
  PROVE  LET shown == EdShown(page, EdListed(page, data, arrived, updated))
         IN /\ shown \in EdListed(page, data, arrived, updated)
            /\ shown.tab = page.tab
<1> DEFINE listed == EdListed(page, data, arrived, updated)
<1>1. \A e \in listed : e.tab = page.tab
  BY DEF EdListed, EdHere
<1>2. EdShown(page, listed) \in listed
  <2> HIDE DEF listed
  <2>1. EdShown(page, listed) # EdNone
    BY DEF listed
  <2>2. QED
    BY <2>1 DEF EdShown
<1>3. QED
  BY <1>1, <1>2

\* What is listed depends on the page's app, tab and pick, what is shown on its open row too.
LEMMA EdShownSame ==
  ASSUME NEW p, NEW q, NEW data, NEW arrived, NEW updated,
         p.app = q.app, p.tab = q.tab, p.pick = q.pick, p.open = q.open
  PROVE  /\ EdListed(p, data, arrived, updated) = EdListed(q, data, arrived, updated)
         /\ EdShown(p, EdListed(p, data, arrived, updated)) =
            EdShown(q, EdListed(q, data, arrived, updated))
<1>1. EdHere(p, data) = EdHere(q, data)
  BY DEF EdHere
<1>2. EdListed(p, data, arrived, updated) = EdListed(q, data, arrived, updated)
  BY <1>1 DEF EdListed
<1>3. ASSUME NEW listed
      PROVE  EdShown(p, listed) = EdShown(q, listed)
  BY DEF EdShown
<1>4. QED
  BY <1>2, <1>3

LEMMA EdJumpKeeps ==
  ASSUME NEW page, NEW data, DOMAIN page = EdParts
  PROVE  /\ DOMAIN EdJumped(page, data) = EdParts
         /\ EdJumped(page, data).app = page.app /\ EdJumped(page, data).tab = page.tab
         /\ EdJumped(page, data).visit = page.visit /\ EdJumped(page, data).local = page.local
         /\ EdJumped(page, data).draft = page.draft
  BY DEF EdJumped, EdParts

\* Rendering keeps every draft that fits with the entry it fits.
LEMMA EdRenderFits ==
  ASSUME EdPageFits, NEW changed,
         DOMAIN changed = EdParts, changed.visit \in Nat, EdRawFits(changed.local, changed.tab),
         changed.visit = edPage.visit =>
           changed.tab = edPage.tab /\ EdDraftFits(changed.draft, EdNow),
         EdRender(changed, edData', edArrived', edUpdated')
  PROVE  EdPageFits'
<1> DEFINE page == EdJumped(changed, edData')
           listed == EdListed(page, edData', edArrived', edUpdated')
           now == EdShown(page, listed)
           same == /\ EdNow # EdNone /\ now # EdNone /\ page.visit = edPage.visit
                   /\ EdIdentity(EdNow) = EdIdentity(now)
           field == IF same THEN page.field ELSE EdNone
           local == [k \in EdMounted(listed) |->
                       IF k \in DOMAIN page.local THEN page.local[k] ELSE EdLocal]
           draft == IF field = EdNone THEN EdNone
                    ELSE IF field = edPage.field /\ same THEN page.draft
                    ELSE [text |-> edData'[now][field], opened |-> now]
<1>1. edPage' = [page EXCEPT !.local = local, !.field = field, !.draft = draft]
  BY DEF EdRender
<1>2. /\ DOMAIN page = EdParts /\ page.tab = changed.tab /\ page.visit = changed.visit
      /\ page.local = changed.local /\ page.draft = changed.draft
  BY EdJumpKeeps
<1>3. now # EdNone => now \in listed /\ now.tab = page.tab
  BY EdShownHere
<1>4. EdNow # EdNone => EdNow.tab = edPage.tab
  BY EdShownHere DEF EdNow
<1>5. EdRawFits(local, page.tab)
  <2> SUFFICES ASSUME NEW k \in DOMAIN local
               PROVE  /\ DOMAIN local[k] = {"raw", "edited"}
                      /\ local[k].raw # EdNone =>
                           /\ page.tab = "storage" /\ "opened" \in DOMAIN local[k].raw
                           /\ local[k].raw.opened.tab = "storage" /\ local[k].raw.opened.key = k
    BY DEF EdRawFits
  <2>1. CASE k \in DOMAIN page.local
    <3>1. local[k] = changed.local[k] /\ k \in DOMAIN changed.local
      BY <1>2, <2>1
    <3>2. QED
      BY <1>2, <3>1 DEF EdRawFits
  <2>2. CASE k \notin DOMAIN page.local
    <3>1. local[k] = EdLocal
      BY <2>2
    <3>2. QED
      BY <3>1 DEF EdLocal
  <2>3. QED
    BY <2>1, <2>2
<1>6. EdDraftFits(draft, now)
  <2>1. CASE same /\ draft = page.draft
    <3>1. EdDraftFits(page.draft, EdNow) /\ EdNow.tab = now.tab
      BY <1>2, <1>3, <1>4, <2>1
    <3>2. QED
      BY <2>1, <3>1 DEF EdDraftFits
  <2>2. CASE same /\ draft = [text |-> edData'[now][field], opened |-> now]
    BY <2>2 DEF EdDraftFits
  <2>3. CASE draft = EdNone
    BY <2>3 DEF EdDraftFits
  <2>4. QED
    BY <2>1, <2>2, <2>3
<1>7. now # EdNone => EdIdentity(now) \in DOMAIN local
  BY <1>3 DEF EdMounted
<1> HIDE DEF page, local, field, draft
<1>8. /\ DOMAIN edPage' = EdParts /\ edPage'.local = local /\ edPage'.draft = draft
      /\ edPage'.app = page.app /\ edPage'.tab = page.tab /\ edPage'.pick = page.pick
      /\ edPage'.open = page.open /\ edPage'.visit = page.visit
  BY <1>1, <1>2 DEF EdParts
<1>9. EdNow' = now
  BY <1>8, EdShownSame DEF EdNow
<1>10. QED
  BY <1>2, <1>5, <1>6, <1>7, <1>8, <1>9 DEF EdPageFits

\* A write that is sent joins the others.
LEMMA EdWriteJoins ==
  ASSUME NEW s, s \in Seq(EdSeqs(s)), NEW w
  PROVE  /\ Append(s, w) \in Seq(EdSeqs(Append(s, w)))
         /\ \A i \in DOMAIN Append(s, w) :
              \/ i \in DOMAIN s /\ Append(s, w)[i] = s[i]
              \/ Append(s, w)[i] = w
<1> DEFINE S == EdSeqs(s) \cup {w}
           t == Append(s, w)
<1>1. s \in Seq(S) /\ w \in S
  OBVIOUS
<1>2. /\ t \in Seq(S) /\ Len(t) = Len(s) + 1
      /\ \A i \in 1..Len(s) : t[i] = s[i]
      /\ t[Len(s) + 1] = w
  BY <1>1, AppendProperties
<1>3. DOMAIN s = 1..Len(s) /\ DOMAIN t = 1..Len(t) /\ Len(s) \in Nat
  BY <1>1, <1>2
<1> HIDE DEF t
<1>4. t \in Seq(EdSeqs(t))
  BY <1>2, <1>3 DEF EdSeqs
<1>5. \A i \in DOMAIN t : (i \in DOMAIN s /\ t[i] = s[i]) \/ t[i] = w
  BY <1>2, <1>3
<1>6. QED
  BY <1>4, <1>5 DEF t

\* The entries a user can tell apart by what the tab keys its editors with.
EdSameHome(opened, to) ==
  /\ opened.tab = to.tab
  /\ to.tab = "stores" => opened.place = to.place
  /\ to.tab = "storage" => opened.key = to.key

\* What is sent goes to the entry that is shown.
LEMMA EdSendFits ==
  ASSUME EdInv, NEW value, NEW path, NEW opened, EdSend(value, path, opened),
         EdSameHome(opened, EdNow)
  PROVE  EdInv'
<1> DEFINE w == [to |-> EdNow, value |-> value, opened |-> opened, status |-> "pending"]
           sent == [raw |-> EdNone, edited |-> path]
           changed == [edPage EXCEPT !.local[EdIdentity(EdNow)] = sent]
<1>1. /\ edWrites' = Append(edWrites, w)
      /\ EdRender(changed, edData', edArrived', edUpdated')
  BY DEF EdSend
<1>2. EdPageFits'
  <2>1. /\ DOMAIN changed = EdParts /\ changed.visit = edPage.visit /\ changed.tab = edPage.tab
        /\ changed.draft = edPage.draft
        /\ changed.local = [edPage.local EXCEPT ![EdIdentity(EdNow)] = sent]
    BY DEF EdInv, EdPageFits, EdParts
  <2>2. EdRawFits(changed.local, changed.tab)
    BY <2>1 DEF EdInv, EdPageFits, EdRawFits
  <2> HIDE DEF changed
  <2>3. QED
    BY <1>1, <2>1, <2>2, EdRenderFits DEF EdInv, EdPageFits
<1>3. {"to", "opened"} \subseteq DOMAIN w /\ w.to = EdNow /\ w.opened = opened
  OBVIOUS
<1> HIDE DEF w
<1>4. EdWritesFit' /\ EdDraftHome'
  <2>1. /\ edWrites' \in Seq(EdSeqs(edWrites'))
        /\ \A i \in DOMAIN edWrites' : \/ i \in DOMAIN edWrites /\ edWrites'[i] = edWrites[i]
                                       \/ edWrites'[i] = w
    BY <1>1, EdWriteJoins DEF EdInv, EdWritesFit
  <2>2. QED
    BY <1>3, <2>1 DEF EdInv, EdWritesFit, EdDraftHome, EdSameHome
<1>5. QED
  BY <1>2, <1>4 DEF EdInv

\* A change of the page that keeps its drafts, or leaves none.
LEMMA EdUiFits ==
  ASSUME EdInv, NEW page, EdUi(page),
         DOMAIN page = EdParts, page.visit \in Nat, EdRawFits(page.local, page.tab),
         page.visit = edPage.visit => page.tab = edPage.tab /\ EdDraftFits(page.draft, EdNow)
  PROVE  EdInv'
<1>1. /\ EdRender(page, edData', edArrived', edUpdated') /\ edWrites' = edWrites
  BY DEF EdUi
<1>2. EdPageFits'
  BY <1>1, EdRenderFits DEF EdInv
<1>3. QED
  BY <1>1, <1>2 DEF EdInv, EdWritesFit, EdDraftHome

LEMMA EdFreshFits ==
  ASSUME EdInv, NEW app, NEW tab, NEW jump, EdUi(EdFresh(app, tab, jump, edPage.visit + 1))
  PROVE  EdInv'
<1> DEFINE page == EdFresh(app, tab, jump, edPage.visit + 1)
<1>1. /\ DOMAIN page = EdParts /\ page.visit = edPage.visit + 1 /\ page.local = << >>
  BY DEF EdFresh, EdParts
<1>2. edPage.visit \in Nat
  BY DEF EdInv, EdPageFits
<1>3. EdRawFits(page.local, page.tab)
  BY <1>1 DEF EdRawFits
<1> HIDE DEF page
<1>4. QED
  BY <1>1, <1>2, <1>3, EdUiFits DEF page

\* The raw editor of the open row is changed.
LEMMA EdRawFitsStep ==
  ASSUME EdInv, NEW raw,
         edPage.tab = "storage", EdNow # EdNone,
         raw # EdNone => /\ "opened" \in DOMAIN raw
                         /\ raw.opened.tab = "storage" /\ raw.opened.key = EdNow.key
  PROVE  EdRawFits([edPage.local EXCEPT ![EdNow.key] = [@ EXCEPT !.raw = raw]], "storage")
  BY DEF EdInv, EdPageFits, EdRawFits

LEMMA EdInvInit == EdInit => EdInv
<1> SUFFICES ASSUME EdInit
             PROVE  EdInv
  OBVIOUS
<1> DEFINE app == (CHOOSE e \in EdEntry : TRUE).app
<1>1. /\ DOMAIN edPage = EdParts /\ edPage.visit = 0 /\ edPage.local = << >>
      /\ edPage.tab = "storage" /\ edPage.draft = EdNone
  <2>1. edPage = EdFresh(app, "storage", EdNone, 0)
    BY DEF EdInit
  <2> HIDE DEF app
  <2>2. QED
    BY <2>1 DEF EdFresh, EdParts
<1>2. EdNow = EdNone
  <2>1. \A e \in EdEntry : edData[e] = EdNone
    BY DEF EdInit
  <2>2. EdListed(edPage, edData, edArrived, edUpdated) = {}
    BY <2>1 DEF EdListed, EdHere
  <2>3. QED
    BY <2>2 DEF EdNow, EdShown
<1>3. EdPageFits
  BY <1>1, <1>2 DEF EdPageFits, EdRawFits, EdDraftFits
<1>4. edWrites = << >> /\ DOMAIN edWrites = {} /\ edWrites \in Seq(EdSeqs(edWrites))
  BY DEF EdInit
<1>5. QED
  BY <1>3, <1>4 DEF EdInv, EdWritesFit, EdDraftHome

\* The raw editor of the row that is shown is opened, typed in or left.
LEMMA EdRawUi ==
  ASSUME EdInv, NEW raw, NEW field,
         edPage.tab = "storage", EdNow # EdNone,
         raw # EdNone => /\ "opened" \in DOMAIN raw
                         /\ raw.opened.tab = "storage" /\ raw.opened.key = EdNow.key,
         EdUi([edPage EXCEPT !.local[EdNow.key].raw = raw, !.field = field])
  PROVE  EdInv'
<1> DEFINE page == [edPage EXCEPT !.local[EdNow.key].raw = raw, !.field = field]
<1>1. /\ DOMAIN page = EdParts /\ page.visit = edPage.visit /\ page.tab = edPage.tab
      /\ page.draft = edPage.draft
      /\ page.local = [edPage.local EXCEPT ![EdNow.key] = [@ EXCEPT !.raw = raw]]
  BY DEF EdInv, EdPageFits, EdParts
<1>2. EdRawFits(page.local, page.tab)
  BY <1>1, EdRawFitsStep
<1> HIDE DEF page
<1>3. QED
  BY <1>1, <1>2, EdUiFits DEF EdInv, EdPageFits, page

\* The row that is shown in the storage table is mounted under its key.
LEMMA EdRowShown ==
  ASSUME EdInv, edPage.tab = "storage", EdNow # EdNone
  PROVE  EdNow.tab = "storage" /\ EdNow.key \in DOMAIN edPage.local
<1>1. EdNow.tab = "storage"
  BY EdShownHere DEF EdNow
<1>2. QED
  BY <1>1 DEF EdInv, EdPageFits, EdIdentity

LEMMA EdInvStep == EdInv /\ [EdNext]_edVars => EdInv'
<1> SUFFICES ASSUME EdInv, [EdNext]_edVars
             PROVE  EdInv'
  OBVIOUS
<1>0. /\ DOMAIN edPage = EdParts /\ edPage.visit \in Nat
      /\ EdRawFits(edPage.local, edPage.tab) /\ EdDraftFits(edPage.draft, EdNow)
  BY DEF EdInv, EdPageFits
<1>1. ASSUME NEW e \in EdEntry, NEW v, EdReport(e, v)
      PROVE  EdInv'
  <2>1. EdRender(edPage, edData', edArrived', edUpdated') /\ edWrites' = edWrites
    BY <1>1 DEF EdReport
  <2>2. EdPageFits'
    BY <1>0, <2>1, EdRenderFits DEF EdInv
  <2>3. QED
    BY <2>1, <2>2 DEF EdInv, EdWritesFit, EdDraftHome
<1>2. ASSUME NEW e \in EdEntry, EdJump(e)
      PROVE  EdInv'
  BY <1>2, EdFreshFits DEF EdJump
<1>3. ASSUME NEW tab, EdSelectTab(tab)
      PROVE  EdInv'
  BY <1>3, EdFreshFits DEF EdSelectTab
<1>4. ASSUME NEW a, EdSelectApp(a)
      PROVE  EdInv'
  <2> DEFINE page == [edPage EXCEPT !.app = a]
  <2>1. /\ DOMAIN page = EdParts /\ page.visit = edPage.visit /\ page.tab = edPage.tab
        /\ page.local = edPage.local /\ page.draft = edPage.draft
    BY <1>0 DEF EdParts
  <2>2. EdUi(page)
    BY <1>4 DEF EdSelectApp
  <2> HIDE DEF page
  <2>3. QED
    BY <1>0, <2>1, <2>2, EdUiFits
<1>5. ASSUME NEW e \in EdEntry, EdPick(e)
      PROVE  EdInv'
  <2> DEFINE page == [edPage EXCEPT !.pick = e.place]
  <2>1. /\ DOMAIN page = EdParts /\ page.visit = edPage.visit /\ page.tab = edPage.tab
        /\ page.local = edPage.local /\ page.draft = edPage.draft
    BY <1>0 DEF EdParts
  <2>2. EdUi(page)
    BY <1>5 DEF EdPick
  <2> HIDE DEF page
  <2>3. QED
    BY <1>0, <2>1, <2>2, EdUiFits
<1>6. ASSUME NEW key, EdToggleRow(key)
      PROVE  EdInv'
  <2> DEFINE page == [edPage EXCEPT !.open = IF @ = key THEN EdNone ELSE key]
  <2>1. /\ DOMAIN page = EdParts /\ page.visit = edPage.visit /\ page.tab = edPage.tab
        /\ page.local = edPage.local /\ page.draft = edPage.draft
    BY <1>0 DEF EdParts
  <2>2. EdUi(page)
    BY <1>6 DEF EdToggleRow
  <2> HIDE DEF page
  <2>3. QED
    BY <1>0, <2>1, <2>2, EdUiFits
<1>7. ASSUME NEW path, EdOpenField(path)
      PROVE  EdInv'
  <2> DEFINE page == [edPage EXCEPT !.field = path]
  <2>1. /\ DOMAIN page = EdParts /\ page.visit = edPage.visit /\ page.tab = edPage.tab
        /\ page.local = edPage.local /\ page.draft = edPage.draft
    BY <1>0 DEF EdParts
  <2>2. EdUi(page)
    BY <1>7 DEF EdOpenField
  <2> HIDE DEF page
  <2>3. QED
    BY <1>0, <2>1, <2>2, EdUiFits
<1>8. ASSUME NEW v, EdType(v)
      PROVE  EdInv'
  <2> DEFINE page == [edPage EXCEPT !.draft.text = v]
  <2>1. /\ DOMAIN page = EdParts /\ page.visit = edPage.visit /\ page.tab = edPage.tab
        /\ page.local = edPage.local /\ page.draft = [edPage.draft EXCEPT !.text = v]
    BY <1>0 DEF EdParts
  <2>2. EdUi(page) /\ edPage.draft # EdNone
    BY <1>8 DEF EdType
  <2> HIDE DEF page
  <2>3. EdDraftFits(page.draft, EdNow)
    BY <1>0, <2>1, <2>2 DEF EdDraftFits
  <2>4. QED
    BY <1>0, <2>1, <2>2, <2>3, EdUiFits
<1>9. CASE EdSave
  <2>1. edPage.draft # EdNone
        /\ EdSend([edData[EdNow] EXCEPT ![edPage.field] = edPage.draft.text],
                  edPage.field, edPage.draft.opened)
    BY <1>9 DEF EdSave
  <2>2. EdSameHome(edPage.draft.opened, EdNow)
    BY <1>0, <2>1 DEF EdDraftFits, EdSameHome, EdIdentity
  <2>3. QED
    BY <2>1, <2>2, EdSendFits
<1>10. CASE EdRawOpen
  <2> DEFINE raw == [text |-> edData[EdNow], opened |-> EdNow]
  <2>1. /\ edPage.tab = "storage" /\ EdNow # EdNone
        /\ EdUi([edPage EXCEPT !.local[EdNow.key].raw = raw, !.field = EdNone])
    BY <1>10 DEF EdRawOpen
  <2>2. "opened" \in DOMAIN raw /\ raw.opened = EdNow /\ EdNow.tab = "storage"
    BY <2>1, EdRowShown
  <2> HIDE DEF raw
  <2>3. QED
    BY <2>1, <2>2, EdRawUi
<1>11. ASSUME NEW v, EdRawType(v)
       PROVE  EdInv'
  <2> DEFINE raw == [edPage.local[EdNow.key].raw EXCEPT !.text = v]
  <2>1. /\ edPage.tab = "storage" /\ EdNow # EdNone /\ edPage.local[EdNow.key].raw # EdNone
        /\ EdUi([edPage EXCEPT !.local[EdNow.key].raw.text = v])
    BY <1>11 DEF EdRawType
  <2>2. EdNow.key \in DOMAIN edPage.local
    BY <2>1, EdRowShown
  <2>3. /\ "opened" \in DOMAIN raw
        /\ raw.opened.tab = "storage" /\ raw.opened.key = EdNow.key
    BY <1>0, <2>1, <2>2 DEF EdRawFits
  <2>4. [edPage EXCEPT !.local[EdNow.key].raw.text = v] =
        [edPage EXCEPT !.local[EdNow.key].raw = raw, !.field = edPage.field]
    BY <1>0, <2>2 DEF EdRawFits, EdParts
  <2> HIDE DEF raw
  <2>5. QED
    BY <2>1, <2>3, <2>4, EdRawUi
<1>12. CASE EdRawCancel
  <2>1. /\ edPage.tab = "storage" /\ EdNow # EdNone
        /\ EdUi([edPage EXCEPT !.local[EdNow.key].raw = EdNone])
    BY <1>12 DEF EdRawCancel
  <2>2. [edPage EXCEPT !.local[EdNow.key].raw = EdNone] =
        [edPage EXCEPT !.local[EdNow.key].raw = EdNone, !.field = edPage.field]
    BY <1>0 DEF EdParts
  <2>3. QED
    BY <2>1, <2>2, EdRawUi
<1>13. CASE EdRawSave
  <2> DEFINE raw == edPage.local[EdNow.key].raw
  <2>1. /\ edPage.tab = "storage" /\ EdNow # EdNone /\ raw # EdNone
        /\ EdSend(raw.text, EdNone, raw.opened)
    BY <1>13 DEF EdRawSave
  <2>2. EdNow.tab = "storage" /\ EdNow.key \in DOMAIN edPage.local
    BY <2>1, EdRowShown
  <2>3. raw.opened.tab = "storage" /\ raw.opened.key = EdNow.key
    BY <1>0, <2>1, <2>2 DEF EdRawFits
  <2>4. EdSameHome(raw.opened, EdNow)
    BY <2>2, <2>3 DEF EdSameHome
  <2>5. QED
    BY <2>1, <2>4, EdSendFits
<1>14. ASSUME NEW i \in DOMAIN edWrites, NEW status, EdVerdict(i, status)
       PROVE  EdInv'
  <2>1. /\ edWrites' = [edWrites EXCEPT ![i] = [edWrites[i] EXCEPT !.status = status]]
        /\ UNCHANGED <<edData, edArrived, edUpdated, edPage>>
    BY <1>14 DEF EdVerdict
  <2>2. EdPageFits'
    BY <2>1 DEF EdInv, EdPageFits, EdNow
  <2>3. /\ DOMAIN edWrites' = DOMAIN edWrites
        /\ \A j \in DOMAIN edWrites : /\ DOMAIN edWrites'[j] = DOMAIN edWrites[j]
                                      /\ edWrites'[j].to = edWrites[j].to
                                      /\ edWrites'[j].opened = edWrites[j].opened
    BY <2>1 DEF EdInv, EdWritesFit
  <2>4. edWrites' \in Seq(EdSeqs(edWrites'))
    <3>1. edWrites \in Seq(EdSeqs(edWrites))
      BY DEF EdInv, EdWritesFit
    <3>2. DOMAIN edWrites = 1..Len(edWrites) /\ Len(edWrites) \in Nat
      BY <3>1
    <3>3. edWrites' = [j \in 1..Len(edWrites) |-> edWrites'[j]]
      BY <2>1, <3>2
    <3>4. edWrites' \in [1..Len(edWrites) -> EdSeqs(edWrites')]
      BY <2>3, <3>2, <3>3 DEF EdSeqs
    <3>5. QED
      BY <3>2, <3>4, SeqDef
  <2>5. QED
    BY <2>2, <2>3, <2>4 DEF EdInv, EdWritesFit, EdDraftHome
<1>15. CASE UNCHANGED edVars
  BY <1>15 DEF edVars, EdInv, EdPageFits, EdNow, EdWritesFit, EdDraftHome
<1>16. QED
  BY <1>1, <1>2, <1>3, <1>4, <1>5, <1>6, <1>7, <1>8, <1>9, <1>10, <1>11, <1>12, <1>13, <1>14,
     <1>15 DEF EdNext

\* StoresView.tsx keys its panel by the store and StorageView.tsx its rows by the key: whatever
\* is picked, opened, reported or left meanwhile, a draft is saved to the key or the store of
\* the name it was opened on.
THEOREM DraftsFindTheirHome == EdSpec => []EdDraftHome
<1>1. EdInv => EdDraftHome
  BY DEF EdInv
<1>2. QED
  BY <1>1, EdInvInit, EdInvStep, PTL DEF EdSpec

-----------------------------------------------------------------------------
(* The links of a request *)

CoRequests == [url : CoUrl \cup {CoOrphan}, startedAt : Nat, duration : Nat \cup {CoNone}]

CoInv ==
  /\ coNow \in Nat
  /\ coEntry # CoNone => coEntry \in CoRequests /\ coEntry.startedAt <= coNow

LEMMA CoInvInductive == CoInv /\ [CoNext]_coVars => CoInv'
<1> SUFFICES ASSUME CoInv, [CoNext]_coVars
             PROVE  CoInv'
  OBVIOUS
<1>1. CASE CoPass
  BY <1>1 DEF CoPass, CoInv, CoRequests
<1>2. CASE CoResponse
  <2>1. CASE coEntry = CoNone
    <3>1. coEntry' = [url |-> CoOrphan, startedAt |-> coNow, duration |-> 0] /\ coNow' = coNow
      BY <1>2, <2>1 DEF CoResponse
    <3>2. QED
      BY <3>1 DEF CoInv, CoRequests
  <2>2. CASE coEntry # CoNone
    <3>1. coEntry' = [coEntry EXCEPT !.duration = coNow - coEntry.startedAt] /\ coNow' = coNow
      BY <1>2, <2>2 DEF CoResponse
    <3>2. coNow - coEntry.startedAt \in Nat /\ coEntry \in CoRequests
      BY <2>2 DEF CoInv, CoRequests
    <3>3. coEntry' \in CoRequests /\ coEntry'.startedAt = coEntry.startedAt
      BY <3>1, <3>2 DEF CoRequests
    <3>4. QED
      BY <2>2, <3>1, <3>3 DEF CoInv
  <2>3. QED
    BY <2>1, <2>2
<1>3. ASSUME NEW u \in CoUrl, CoRequest(u)
      PROVE  CoInv'
  BY <1>3 DEF CoRequest, CoInv, CoRequests
<1>4. ASSUME UNCHANGED <<coNow, coEntry>>
      PROVE  CoInv'
  BY <1>4 DEF CoInv, CoRequests
<1>5. QED
  BY <1>1, <1>2, <1>3, <1>4 DEF CoNext, CoSnapshot, CoChange, CoRemove, coVars

\* A finite set of one element is the set of that element.
LEMMA OnlyElement ==
  ASSUME NEW S, IsFiniteSet(S), Cardinality(S) = 1
  PROVE  \E x : S = {x}
<1>1. S # {}
  BY FS_EmptySet
<1>2. PICK x \in S : TRUE
  BY <1>1
<1>3. IsFiniteSet(S \ {x}) /\ Cardinality(S \ {x}) = 0
  BY FS_RemoveElement
<1>4. S \ {x} = {}
  BY <1>3, FS_EmptySet
<1>5. QED
  BY <1>2, <1>4

\* What pickBest takes of any candidates is the one that beats every other.
LEMMA CoPickBestBest ==
  ASSUME NEW all, IsFiniteSet(all), \A c \in all : CoOverlap(c) \in Nat
  PROVE  LET better(c, d) == IF CoTimed(c) = CoTimed(d) THEN CoOverlap(c) > CoOverlap(d) ELSE CoTimed(c)
         IN CoPickBest(all) = {c \in all : \A d \in all \ {c} : better(c, d)}
<1> DEFINE better(c, d) == IF CoTimed(c) = CoTimed(d) THEN CoOverlap(c) > CoOverlap(d) ELSE CoTimed(c)
           best == {c \in all : \A d \in all \ {c} : better(c, d)}
           timed == {c \in all : CoTimed(c)}
           pool == IF timed # {} THEN timed ELSE all
           top == {c \in pool : \A d \in pool : CoOverlap(d) <= CoOverlap(c)}
<1>1. CoPickBest(all) = IF Cardinality(top) = 1 THEN top ELSE {}
  BY DEF CoPickBest
<1>2. /\ pool \subseteq all
      /\ \A c, d \in pool : CoTimed(c) = CoTimed(d)
      /\ \A c \in pool, d \in all \ pool : CoTimed(c) /\ ~CoTimed(d)
  BY DEF CoTimed
<1>3. \A c, d : better(c, d) <=> IF CoTimed(c) = CoTimed(d) THEN CoOverlap(c) > CoOverlap(d) ELSE CoTimed(c)
  OBVIOUS
<1>4. all # {} => pool # {}
  OBVIOUS
<1> HIDE DEF pool, better, timed
<1>5. ASSUME NEW c \in best
      PROVE  top = {c}
  <2>1. c \in all /\ \A d \in all \ {c} : better(c, d)
    OBVIOUS
  <2>2. c \in pool
    <3> SUFFICES ASSUME c \notin pool
                 PROVE  FALSE
      OBVIOUS
    <3>1. PICK d \in pool : d # c
      BY <1>4, <2>1
    <3>2. better(c, d)
      BY <1>2, <2>1, <3>1
    <3>3. CoTimed(d) /\ ~CoTimed(c)
      BY <1>2, <2>1
    <3>4. QED
      BY <1>3, <3>2, <3>3
  <2>3. \A d \in pool \ {c} : CoOverlap(c) > CoOverlap(d)
    BY <1>2, <1>3, <2>1, <2>2
  <2>4. c \in top
    BY <1>2, <2>2, <2>3
  <2>5. \A d \in top : d = c
    BY <1>2, <2>2, <2>3
  <2>6. QED
    BY <2>4, <2>5
<1>6. ASSUME NEW c, top = {c}
      PROVE  c \in best
  <2>1. c \in pool /\ c \in all /\ \A d \in pool : CoOverlap(d) <= CoOverlap(c)
    BY <1>2, <1>6
  <2>2. ASSUME NEW d \in all \ {c}
        PROVE  better(c, d)
    <3>1. CASE d \in pool
      <4>1. PICK e \in pool : ~(CoOverlap(e) <= CoOverlap(d))
        BY <1>6, <3>1
      <4>2. CoOverlap(c) > CoOverlap(d)
        BY <1>2, <2>1, <4>1
      <4>3. QED
        BY <1>2, <1>3, <2>1, <3>1, <4>2
    <3>2. CASE d \notin pool
      BY <1>2, <1>3, <2>1, <3>2
    <3>3. QED
      BY <3>1, <3>2
  <2>3. QED
    BY <2>1, <2>2
<1>7. IsFiniteSet(top)
  BY <1>2, FS_Subset
<1>8. Cardinality(top) = 1 => \E c : top = {c}
  BY <1>7, OnlyElement
<1>9. \A c : Cardinality({c}) = 1
  BY FS_Singleton
<1> HIDE DEF top, best
<1>10. CoPickBest(all) = best
  <2>1. CASE Cardinality(top) = 1
    <3>1. PICK c : top = {c}
      BY <1>8, <2>1
    <3>2. c \in best
      BY <1>6, <3>1
    <3>3. \A d \in best : d = c
      BY <1>5, <3>1
    <3>4. QED
      BY <1>1, <2>1, <3>1, <3>2, <3>3
  <2>2. CASE Cardinality(top) # 1
    BY <1>1, <1>5, <1>9, <2>2
  <2>3. QED
    BY <2>1, <2>2
<1>11. QED
  BY <1>10 DEF best, better

LEMMA CoOverlapIsNat == CoInv => \A domain : \A c \in CoCandidates(domain) : CoOverlap(c) \in Nat
<1> SUFFICES ASSUME CoInv, NEW domain, NEW c \in CoCandidates(domain)
             PROVE  CoOverlap(c) \in Nat
  OBVIOUS
<1>1. coEntry # CoNone /\ coEntry.url # CoOrphan
  BY DEF CoCandidates
<1>2. coEntry.url \in CoUrl
  BY <1>1 DEF CoInv, CoRequests
<1>3. IsFiniteSet(CoTokens[coEntry.url])
  BY <1>2, CoAssumption
<1>4. IsFiniteSet(CoTokens[coEntry.url] \cap CoTokens[c])
  BY <1>3, FS_Subset
<1>5. QED
  BY <1>4, FS_CardinalityType DEF CoOverlap

CoBest(domain) ==
  LET better(c, d) == IF CoTimed(c) = CoTimed(d) THEN CoOverlap(c) > CoOverlap(d) ELSE CoTimed(c)
  IN {c \in CoCandidates(domain) : \A d \in CoCandidates(domain) \ {c} : better(c, d)}

CoLinksAreBest == \A domain \in {CoQuery, CoKey} : CoLink(domain) = CoBest(domain)

\* The link is the one candidate better than every other one the desktop has, if there is one.
LEMMA CoLinkIsBest == CoInv => CoLinksAreBest
<1> SUFFICES ASSUME CoInv, NEW domain \in {CoQuery, CoKey}
             PROVE  CoLink(domain) = CoBest(domain)
  BY DEF CoLinksAreBest
<1> DEFINE all == CoCandidates(domain)
<1>1. all \subseteq domain /\ IsFiniteSet(domain)
  BY CoAssumption DEF CoCandidates
<1>2. IsFiniteSet(all)
  BY <1>1, FS_Subset
<1>3. \A c \in all : CoOverlap(c) \in Nat
  BY CoOverlapIsNat
<1> HIDE DEF all
<1>4. QED
  BY <1>2, <1>3, CoPickBestBest DEF all, CoLink, CoBest

\* What a step is not about is a candidate as before, as strong as before.
LEMMA CoUntouched ==
  ASSUME coEntry' = coEntry, NEW domain, NEW c \in domain \ CoTouched(domain)
  PROVE  /\ c \in CoCandidates(domain) <=> c \in CoCandidates(domain)'
         /\ CoTimed(c) = CoTimed(c)'
         /\ CoOverlap(c)' = CoOverlap(c)
BY DEF CoTouched, CoCandidates, CoTimed, CoOverlap, CoRespondedAt

LEMMA CoLinkStep == CoInv /\ CoInv' /\ coEntry' = coEntry =>
  \A domain \in {CoQuery, CoKey} : \A c \in domain \ CoTouched(domain) :
    CoLink(domain) = {c} =>
      /\ CoLink(domain)' \subseteq {c} \cup (CoTouched(domain) \cap coHere')
      /\ CoTouched(domain) \cap coHere' = {} => CoLink(domain)' = {c}
<1> SUFFICES ASSUME CoInv, CoInv', coEntry' = coEntry, NEW domain \in {CoQuery, CoKey},
                    NEW c \in domain \ CoTouched(domain), CoLink(domain) = {c}
             PROVE  /\ CoLink(domain)' \subseteq {c} \cup (CoTouched(domain) \cap coHere')
                    /\ CoTouched(domain) \cap coHere' = {} => CoLink(domain)' = {c}
  OBVIOUS
<1> DEFINE old == CoCandidates(domain)
           new == CoCandidates(domain)'
           beats(x, y) == IF CoTimed(x) = CoTimed(y) THEN CoOverlap(x) > CoOverlap(y) ELSE CoTimed(x)
           beat(x, y) == IF CoTimed(x)' = CoTimed(y)' THEN CoOverlap(x)' > CoOverlap(y)' ELSE CoTimed(x)'
<1>1. CoLinksAreBest'
  BY CoLinkIsBest, PTL
<1>2. CoLink(domain) = {x \in old : \A y \in old \ {x} : beats(x, y)}
  BY CoLinkIsBest DEF CoBest, CoLinksAreBest
<1>3. CoLink(domain)' = {x \in new : \A y \in new \ {x} : beat(x, y)}
  BY <1>1 DEF CoBest, CoLinksAreBest
<1>4. \A x \in domain \ CoTouched(domain) :
        x \in old <=> x \in new
  BY CoUntouched
<1>5. \A x, y \in domain \ CoTouched(domain) : beats(x, y) <=> beat(x, y)
  <2>1. \A x \in domain \ CoTouched(domain) : CoTimed(x) = CoTimed(x)' /\ CoOverlap(x) = CoOverlap(x)'
    BY CoUntouched
  <2>2. QED
    BY <2>1
<1>6. old \subseteq domain /\ new \subseteq domain \cap coHere'
  BY DEF CoCandidates
<1>7. \A x, y \in old : x # y => ~(beats(x, y) /\ beats(y, x))
  <2> SUFFICES ASSUME NEW x \in old, NEW y \in old, beats(x, y), beats(y, x)
               PROVE  FALSE
    OBVIOUS
  <2>1. CoTimed(x) = CoTimed(y) /\ CoOverlap(x) > CoOverlap(y) /\ CoOverlap(y) > CoOverlap(x)
    BY DEF CoTimed
  <2>2. CoOverlap(x) \in Nat /\ CoOverlap(y) \in Nat
    BY CoOverlapIsNat
  <2>3. QED
    BY <2>1, <2>2
<1> HIDE DEF old, new, beats, beat
<1>8. c \in old /\ c \in new /\ \A y \in old \ {c} : beats(c, y)
  BY <1>2, <1>4
<1>9. ASSUME NEW e \in CoLink(domain)', e # c
      PROVE  e \in CoTouched(domain)
  BY <1>3, <1>4, <1>5, <1>6, <1>7, <1>8, <1>9
<1>10. CoLink(domain)' \subseteq new
  BY <1>3
<1>11. ASSUME CoTouched(domain) \cap coHere' = {}
       PROVE  c \in CoLink(domain)'
  BY <1>3, <1>4, <1>5, <1>6, <1>8, <1>11
<1>12. QED
  BY <1>6, <1>9, <1>10, <1>11

\* Whatever the app reports and in whatever order, a report about other queries or keys does
\* not move the link of a request from one candidate to a third.
THEOREM LinksHold == CoSpec => CoLinkHolds
<1>1. CoInit => CoInv
  BY DEF CoInit, CoInv
<1>2. CoSpec => []CoInv
  BY <1>1, CoInvInductive, PTL DEF CoSpec
<1>3. QED
  BY <1>2, CoLinkStep, PTL DEF CoSpec, CoLinkHolds

-----------------------------------------------------------------------------
(* The table that is meant *)

RlIsPanel(p) ==
  p = [selected |-> p.selected, highlight |-> p.highlight, expanded |-> p.expanded,
       asking |-> p.asking, input |-> p.input]

RlIsClear(c) == /\ c = [engine |-> c.engine, table |-> c.table, typed |-> c.typed,
                        asked |-> c.asked, status |-> c.status]
                /\ c.table = c.typed /\ c.engine = c.asked.engine

RlTyped ==
  /\ rlStorage \in [RlEngine -> RlSnapshots \cup {RlNone}]
  /\ rlEngine # RlNone => rlEngine \in RlEngine /\ rlStorage[rlEngine] # RlNone
  /\ RlIsPanel(rlPanel)
  /\ \E S : rlClears \in Seq(S)

\* The dialog belongs to the engine that is shown.
RlInv ==
  /\ RlTyped
  /\ rlPanel.asking # RlNone => rlEngine # RlNone /\ rlPanel.asking.engine = rlEngine
  /\ \A i \in DOMAIN rlClears : RlIsClear(rlClears[i])

LEMMA RlInvInit == RlInit => RlInv
<1> SUFFICES ASSUME RlInit
             PROVE  RlInv
  OBVIOUS
<1>1. rlClears \in Seq({}) /\ DOMAIN rlClears = {}
  BY DEF RlInit
<1>2. QED
  BY <1>1 DEF RlInit, RlInv, RlTyped, RlIsPanel, RlFresh

LEMMA RlInvStep == RlInv /\ [RlNext]_rlVars => RlInv'
<1> SUFFICES ASSUME RlInv, [RlNext]_rlVars
             PROVE  RlInv'
  OBVIOUS
<1>1. /\ rlStorage \in [RlEngine -> RlSnapshots \cup {RlNone}]
      /\ rlEngine # RlNone => rlEngine \in RlEngine /\ rlStorage[rlEngine] # RlNone
      /\ RlIsPanel(rlPanel)
      /\ \E S : rlClears \in Seq(S)
      /\ rlPanel.asking # RlNone => rlEngine # RlNone /\ rlPanel.asking.engine = rlEngine
      /\ \A i \in DOMAIN rlClears : RlIsClear(rlClears[i])
  BY DEF RlInv, RlTyped
<1>2. ASSUME NEW e \in RlEngine, RlChip(e)
      PROVE  RlInv'
  <2>1. /\ rlPanel.asking = RlNone /\ rlStorage[e] # RlNone /\ rlEngine' = e
        /\ UNCHANGED <<rlStorage, rlPanel, rlClears>>
    BY <1>2 DEF RlChip, RlDoes
  <2>2. QED
    BY <1>1, <2>1 DEF RlInv, RlTyped
<1>3. ASSUME NEW e \in RlEngine, NEW s \in RlSnapshots, RlReport(e, s)
      PROVE  RlInv'
  <2>1. /\ rlStorage' = [rlStorage EXCEPT ![e] = s]
        /\ rlEngine' = IF rlEngine = RlNone THEN e ELSE rlEngine
        /\ UNCHANGED <<rlPanel, rlClears>>
    BY <1>3 DEF RlReport
  <2>2. /\ rlStorage' \in [RlEngine -> RlSnapshots \cup {RlNone}] /\ rlStorage'[e] = s /\ s # RlNone
        /\ \A d \in RlEngine \ {e} : rlStorage'[d] = rlStorage[d]
    BY <1>1, <2>1, RlAssumption
  <2>3. rlEngine' \in RlEngine /\ rlStorage'[rlEngine'] # RlNone
    BY <1>1, <2>1, <2>2
  <2>4. QED
    BY <1>1, <2>1, <2>2, <2>3, RlAssumption DEF RlInv, RlTyped
<1>4. ASSUME RlIsPanel(rlPanel'), rlPanel'.asking = rlPanel.asking,
             UNCHANGED <<rlStorage, rlEngine, rlClears>>
      PROVE  RlInv'
  BY <1>1, <1>4 DEF RlInv, RlTyped
<1>5. ASSUME NEW n \in RlKnown, RlSelect(n)
      PROVE  RlInv'
  <2> DEFINE row == IF n # RlShown(RlTables, rlPanel) THEN rlPanel.highlight ELSE RlNone
  <2>1. /\ rlPanel' = [rlPanel EXCEPT !.selected = n, !.expanded = row]
        /\ UNCHANGED <<rlStorage, rlEngine, rlClears>>
    BY <1>5 DEF RlSelect
  <2> HIDE DEF row
  <2>2. RlIsPanel(rlPanel') /\ rlPanel'.asking = rlPanel.asking
    BY <1>1, <2>1 DEF RlIsPanel
  <2>3. QED
    BY <1>4, <2>1, <2>2
<1>6. ASSUME NEW n \in RlKnown, RlType(n)
      PROVE  RlInv'
  <2>1. /\ rlPanel' = [rlPanel EXCEPT !.input = n]
        /\ UNCHANGED <<rlStorage, rlEngine, rlClears>>
    BY <1>6 DEF RlType
  <2>2. RlIsPanel(rlPanel') /\ rlPanel'.asking = rlPanel.asking
    BY <1>1, <2>1 DEF RlIsPanel
  <2>3. QED
    BY <1>4, <2>1, <2>2
<1>7. ASSUME NEW id \in RlIds, RlToggle(id)
      PROVE  RlInv'
  <2>1. /\ rlPanel' = [rlPanel EXCEPT !.expanded = IF @ = id THEN RlNone ELSE id]
        /\ UNCHANGED <<rlStorage, rlEngine, rlClears>>
    BY <1>7 DEF RlToggle
  <2>2. RlIsPanel(rlPanel') /\ rlPanel'.asking = rlPanel.asking
    BY <1>1, <2>1 DEF RlIsPanel
  <2>3. QED
    BY <1>4, <2>1, <2>2
<1>8. ASSUME NEW id \in RlIds, NEW stem \in RlStems, RlFollow(stem, id)
      PROVE  RlInv'
  <2> DEFINE target == RlForeignKey(RlTables, stem, RlShown(RlTables, rlPanel))
  <2>1. /\ rlPanel' = [rlPanel EXCEPT !.selected = target, !.highlight = id, !.expanded = id]
        /\ UNCHANGED <<rlStorage, rlEngine, rlClears>>
    BY <1>8 DEF RlFollow
  <2> HIDE DEF target
  <2>2. RlIsPanel(rlPanel') /\ rlPanel'.asking = rlPanel.asking
    BY <1>1, <2>1 DEF RlIsPanel
  <2>3. QED
    BY <1>4, <2>1, <2>2
<1>9. CASE RlHighlightEnds
  <2>1. /\ rlPanel' = [rlPanel EXCEPT !.highlight = RlNone]
        /\ UNCHANGED <<rlStorage, rlEngine, rlClears>>
    BY <1>9 DEF RlHighlightEnds
  <2>2. RlIsPanel(rlPanel') /\ rlPanel'.asking = rlPanel.asking
    BY <1>1, <2>1 DEF RlIsPanel
  <2>3. QED
    BY <1>4, <2>1, <2>2
<1>10. CASE RlAsk
  <2> DEFINE asked == [engine |-> rlEngine, table |-> RlShown(RlTables, rlPanel)]
  <2>1. /\ rlPanel' = [rlPanel EXCEPT !.asking = asked, !.input = RlNone] /\ rlEngine # RlNone
        /\ UNCHANGED <<rlStorage, rlEngine, rlClears>>
    BY <1>10 DEF RlAsk, RlDoes, RlUser
  <2>2. asked.engine = rlEngine
    OBVIOUS
  <2> HIDE DEF asked
  <2>3. RlIsPanel(rlPanel') /\ rlPanel'.asking = asked
    BY <1>1, <2>1 DEF RlIsPanel
  <2>4. QED
    BY <1>1, <2>1, <2>2, <2>3 DEF RlInv, RlTyped
<1>11. CASE RlCancel
  <2>1. /\ rlPanel' = [rlPanel EXCEPT !.asking = RlNone, !.input = RlNone]
        /\ UNCHANGED <<rlStorage, rlEngine, rlClears>>
    BY <1>11 DEF RlCancel
  <2>2. RlIsPanel(rlPanel') /\ rlPanel'.asking = RlNone
    BY <1>1, <2>1 DEF RlIsPanel
  <2>3. QED
    BY <1>1, <2>1, <2>2 DEF RlInv, RlTyped
<1>12. CASE RlConfirm
  <2> DEFINE shown == RlShown(RlTables, rlPanel)
             c == [engine |-> rlEngine, table |-> shown, typed |-> rlPanel.input,
                   asked |-> rlPanel.asking, status |-> "pending"]
  <2>1. /\ rlPanel.asking # RlNone /\ rlPanel.input = shown
        /\ rlClears' = Append(rlClears, c)
        /\ rlPanel' = [rlPanel EXCEPT !.asking = RlNone, !.input = RlNone]
        /\ UNCHANGED <<rlStorage, rlEngine>>
    BY <1>12 DEF RlConfirm, RlCanConfirm
  <2> HIDE DEF shown
  <2>2. RlIsClear(c)
    BY <1>1, <2>1 DEF RlIsClear
  <2> HIDE DEF c
  <2>3. RlIsPanel(rlPanel') /\ rlPanel'.asking = RlNone
    BY <1>1, <2>1 DEF RlIsPanel
  <2>4. PICK S : rlClears \in Seq(S)
    BY <1>1
  <2> DEFINE W == S \cup {c}
  <2>5. rlClears \in Seq(W) /\ c \in W
    BY <2>4, SeqMonotonic
  <2> HIDE DEF W
  <2>6. /\ rlClears' \in Seq(W) /\ Len(rlClears) \in Nat /\ Len(rlClears') = Len(rlClears) + 1
        /\ \A i \in 1..Len(rlClears) : rlClears'[i] = rlClears[i]
        /\ rlClears'[Len(rlClears) + 1] = c
        /\ DOMAIN rlClears = 1..Len(rlClears) /\ DOMAIN rlClears' = 1..Len(rlClears) + 1
    BY <2>1, <2>5, AppendProperties, LenProperties
  <2>7. ASSUME NEW i \in DOMAIN rlClears'
        PROVE  RlIsClear(rlClears'[i])
    <3>1. i \in 1..Len(rlClears) \/ i = Len(rlClears) + 1
      BY <2>6
    <3>2. CASE i \in 1..Len(rlClears)
      BY <1>1, <2>6, <3>2
    <3>3. CASE i = Len(rlClears) + 1
      BY <2>2, <2>6, <3>3
    <3>4. QED
      BY <3>1, <3>2, <3>3
  <2>8. RlTyped'
    BY <1>1, <2>1, <2>3, <2>6 DEF RlTyped
  <2>9. QED
    BY <1>1, <2>1, <2>3, <2>7, <2>8 DEF RlInv
<1>13. ASSUME NEW i \in DOMAIN rlClears, NEW status \in {"applied", "failed"}, RlCleared(i, status)
       PROVE  RlInv'
  <2> DEFINE c == [rlClears[i] EXCEPT !.status = status]
  <2>1. /\ rlClears' = [rlClears EXCEPT ![i] = c]
        /\ UNCHANGED <<rlStorage, rlEngine, rlPanel>>
    BY <1>13 DEF RlCleared
  <2>2. RlIsClear(c)
    BY <1>1 DEF RlIsClear
  <2> HIDE DEF c
  <2>3. PICK S : rlClears \in Seq(S)
    BY <1>1
  <2> DEFINE W == S \cup {c}
  <2>4. rlClears \in Seq(W) /\ c \in W
    BY <2>3, SeqMonotonic
  <2> HIDE DEF W
  <2>5. rlClears' \in Seq(W) /\ DOMAIN rlClears' = DOMAIN rlClears
    BY <2>1, <2>4
  <2>6. \A j \in DOMAIN rlClears' : RlIsClear(rlClears'[j])
    BY <1>1, <2>1, <2>2, <2>5
  <2>7. RlTyped'
    BY <1>1, <2>1, <2>5 DEF RlTyped
  <2>8. QED
    BY <1>1, <2>1, <2>6, <2>7 DEF RlInv
<1>14. CASE UNCHANGED rlVars
  BY <1>1, <1>14 DEF rlVars, RlInv, RlTyped
<1>15. QED
  BY <1>2, <1>3, <1>5, <1>6, <1>7, <1>8, <1>9, <1>10, <1>11, <1>12, <1>13, <1>14 DEF RlNext

\* The values of a function on a finite set.
LEMMA ImageFinite ==
  ASSUME NEW f, NEW S, IsFiniteSet(S), DOMAIN f = S
  PROVE  IsFiniteSet({f[x] : x \in S})
<1> DEFINE T == {f[x] : x \in S}
           g == [x \in S |-> f[x]]
<1>1. g \in Surjection(S, T)
  BY DEF Surjection
<1> HIDE DEF g, T
<1>2. IsFiniteSet(T)
  BY <1>1, FS_Surjection
<1>3. QED
  BY <1>2 DEF T

\* A foreign key names a table exactly, or is the only one that ends in its name.
LEMMA RlForeignKeySound ==
  ASSUME NEW tables, NEW stem, NEW current, IsFiniteSet(ToSet(tables)),
         RlForeignKey(tables, stem, current) # RlNone
  PROVE  LET target == RlForeignKey(tables, stem, current)
         IN /\ target # current
            /\ target \in ToSet(RlForms(stem)) \/ RlSuffixMatches(tables, stem, current) = {target}
<1> DEFINE forms == RlForms(stem)
           exact == {i \in DOMAIN forms : forms[i] \in RlNames(RlTargets(tables))}
           first == CHOOSE i \in exact : \A j \in exact : i <= j
           matches == RlSuffixMatches(tables, stem, current)
           target == RlForeignKey(tables, stem, current)
<1>1. target = IF exact # {} /\ forms[first] # current THEN forms[first]
               ELSE IF Cardinality(matches) = 1 /\ matches # {current} THEN CHOOSE n \in matches : TRUE
               ELSE RlNone
  BY DEF RlForeignKey
<1>2. exact \subseteq 1..3 /\ DOMAIN forms = 1..3
  BY DEF RlForms
<1>3. IsFiniteSet(matches)
  <2>1. matches \subseteq {t.name : t \in ToSet(tables)}
    BY DEF RlSuffixMatches, RlNames, RlTargets
  <2>2. IsFiniteSet({t.name : t \in ToSet(tables)})
    <3> DEFINE T == {t.name : t \in ToSet(tables)}
               f == [t \in ToSet(tables) |-> t.name]
    <3>1. DOMAIN f = ToSet(tables) /\ T = {f[t] : t \in ToSet(tables)}
      OBVIOUS
    <3> HIDE DEF f, T
    <3>2. IsFiniteSet(T)
      BY <3>1, ImageFinite
    <3>3. QED
      BY <3>2 DEF T
  <2>3. QED
    BY <2>1, <2>2, FS_Subset
<1>4. CASE exact # {} /\ forms[first] # current
  <2>1. \E i \in exact : \A j \in exact : i <= j
    BY <1>2, <1>4
  <2>2. first \in exact
    BY <2>1
  <2> HIDE DEF first, exact
  <2>3. forms[first] \in ToSet(forms)
    BY <1>2, <2>2 DEF ToSet, exact
  <2>4. QED
    BY <1>1, <1>4, <2>3
<1>5. CASE ~(exact # {} /\ forms[first] # current)
  <2> HIDE DEF first, exact, matches
  <2>1. Cardinality(matches) = 1 /\ matches # {current} /\ target = CHOOSE n \in matches : TRUE
    BY <1>1, <1>5
  <2>2. PICK n : matches = {n}
    BY <1>3, <2>1, OnlyElement
  <2>3. target = n
    BY <2>1, <2>2
  <2>4. QED
    BY <2>1, <2>2, <2>3 DEF matches
<1>6. QED
  BY <1>4, <1>5

\* Whatever snapshots come in meanwhile, a table is cleared only when its own name was typed,
\* in the engine the dialog was opened for; and a column is linked to no table by a guess.
THEOREM TheTableMeant == RlSpec => []RlTableMeant
<1>1. RlInv => RlClearTyped
  BY DEF RlInv, RlClearTyped, RlIsClear
<1>2. RlInv => RlLinksHonest
  <2> SUFFICES ASSUME RlInv
               PROVE  RlLinksHonest
    OBVIOUS
  <2>1. ASSUME rlEngine # RlNone, NEW t \in ToSet(RlTables), NEW stem \in RlStems
        PROVE  LET target == RlForeignKey(RlTables, stem, t.name)
                   alike(u) == \E f \in ToSet(RlForms(stem)) : RlEndsIn(u.name, f)
               IN stem \in t.refs /\ target # RlNone =>
                    /\ target # t.name
                    /\ target \in ToSet(RlForms(stem)) \/ \A u \in RlTargets(RlTables) : alike(u) => u.name = target
    <3> DEFINE target == RlForeignKey(RlTables, stem, t.name)
               alike(u) == \E f \in ToSet(RlForms(stem)) : RlEndsIn(u.name, f)
    <3>1. SUFFICES ASSUME target # RlNone
                   PROVE  /\ target # t.name
                          /\ target \in ToSet(RlForms(stem)) \/ \A u \in RlTargets(RlTables) : alike(u) => u.name = target
      OBVIOUS
    <3>2. RlTables \in RlSnapshots
      BY <2>1 DEF RlInv, RlTyped, RlTables
    <3>3. RlTables \in Seq(ToSet(RlTables))
      BY <3>2, RlAssumption
    <3>4. IsFiniteSet(ToSet(RlTables))
      <4>1. DOMAIN RlTables = 1..Len(RlTables) /\ Len(RlTables) \in Nat
        BY <3>3, LenProperties
      <4>2. IsFiniteSet(DOMAIN RlTables)
        BY <4>1, FS_Interval
      <4>3. ToSet(RlTables) = {RlTables[i] : i \in DOMAIN RlTables}
        BY DEF ToSet
      <4>4. QED
        BY <4>2, <4>3, ImageFinite
    <3>5. target # t.name
          /\ (target \in ToSet(RlForms(stem)) \/ RlSuffixMatches(RlTables, stem, t.name) = {target})
      BY <3>1, <3>4, RlForeignKeySound
    <3>6. \A u \in RlTargets(RlTables) : alike(u) => u.name \in RlSuffixMatches(RlTables, stem, t.name)
      BY DEF RlSuffixMatches, RlNames
    <3> HIDE DEF target, alike
    <3>7. QED
      BY <3>5, <3>6
  <2>2. QED
    BY <2>1 DEF RlLinksHonest
<1>3. QED
  BY <1>1, <1>2, RlInvInit, RlInvStep, PTL DEF RlSpec, RlTableMeant

-----------------------------------------------------------------------------
(* The graph of a JSON value *)

GrSequence(q) == \E S : q \in Seq(S)

\* A sequence with one more element at its end.
LEMMA GrAppended ==
  ASSUME NEW q, GrSequence(q), NEW x
  PROVE  /\ GrSequence(Append(q, x)) /\ Len(q) \in Nat /\ Len(Append(q, x)) = Len(q) + 1
         /\ \A i \in 1..Len(q) : Append(q, x)[i] = q[i]
         /\ Append(q, x)[Len(q) + 1] = x
         /\ DOMAIN q = 1..Len(q) /\ DOMAIN Append(q, x) = 1..Len(q) + 1
<1>1. PICK S : q \in Seq(S)
  BY DEF GrSequence
<1> DEFINE W == S \cup {x}
<1>2. q \in Seq(W) /\ x \in W
  BY <1>1
<1> HIDE DEF W
<1>3. Append(q, x) \in Seq(W)
  BY <1>2
<1>4. QED
  BY <1>2, <1>3 DEF GrSequence

LEMMA GrShortened ==
  ASSUME NEW q, GrSequence(q), q # << >>
  PROVE  /\ GrSequence(Tail(q)) /\ Len(q) \in Nat \ {0} /\ Len(Tail(q)) = Len(q) - 1
         /\ Head(q) = q[1]
         /\ \A i \in 1..Len(q) - 1 : Tail(q)[i] = q[i + 1]
         /\ DOMAIN q = 1..Len(q) /\ DOMAIN Tail(q) = 1..Len(q) - 1
<1>1. PICK S : q \in Seq(S)
  BY DEF GrSequence
<1>2. Tail(q) \in Seq(S) /\ Len(q) # 0 /\ Len(q) \in Nat
  BY <1>1
<1>3. QED
  BY <1>1, <1>2 DEF GrSequence

GrIds(q) == {x.id : x \in ToSet(q)}

LEMMA GrToSetAppended ==
  ASSUME NEW q, GrSequence(q), NEW x
  PROVE  ToSet(Append(q, x)) = ToSet(q) \cup {x}
<1>1. /\ Len(q) \in Nat /\ DOMAIN q = 1..Len(q) /\ DOMAIN Append(q, x) = 1..Len(q) + 1
      /\ \A i \in 1..Len(q) : Append(q, x)[i] = q[i]
      /\ Append(q, x)[Len(q) + 1] = x
  BY GrAppended
<1> DEFINE a == Append(q, x)
<1> HIDE DEF a
<1>2. ASSUME NEW i \in DOMAIN a
      PROVE  a[i] \in ToSet(q) \cup {x}
  BY <1>1 DEF ToSet, a
<1>3. ASSUME NEW i \in DOMAIN q
      PROVE  q[i] \in ToSet(a)
  BY <1>1 DEF ToSet, a
<1>4. x \in ToSet(a)
  BY <1>1 DEF ToSet, a
<1>5. QED
  BY <1>2, <1>3, <1>4 DEF ToSet, a

LEMMA GrToSetShortened ==
  ASSUME NEW q, GrSequence(q), q # << >>
  PROVE  ToSet(q) = ToSet(Tail(q)) \cup {Head(q)}
<1>1. /\ Len(q) \in Nat \ {0} /\ Head(q) = q[1]
      /\ \A i \in 1..Len(q) - 1 : Tail(q)[i] = q[i + 1]
      /\ DOMAIN q = 1..Len(q) /\ DOMAIN Tail(q) = 1..Len(q) - 1
  BY GrShortened
<1> DEFINE t == Tail(q)
<1> HIDE DEF t
<1>2. ASSUME NEW i \in DOMAIN t
      PROVE  t[i] \in ToSet(q)
  BY <1>1 DEF ToSet, t
<1>3. ASSUME NEW i \in DOMAIN q, i # 1
      PROVE  q[i] \in ToSet(t)
  <2>1. i - 1 \in 1..Len(q) - 1 /\ (i - 1) + 1 = i
    BY <1>1, <1>3
  <2>2. t[i - 1] = q[i] /\ i - 1 \in DOMAIN t
    BY <1>1, <2>1 DEF t
  <2>3. QED
    BY <2>2 DEF ToSet
<1>4. Head(q) \in ToSet(q)
  BY <1>1 DEF ToSet
<1>5. QED
  BY <1>1, <1>2, <1>3, <1>4 DEF ToSet, t

LEMMA GrEmpty == GrSequence(<< >>) /\ Len(<< >>) = 0 /\ ToSet(<< >>) = {}
<1>1. << >> \in Seq({})
  OBVIOUS
<1>2. QED
  BY <1>1 DEF GrSequence, ToSet

LEMMA GrSingle ==
  ASSUME NEW x
  PROVE  GrSequence(<<x>>) /\ Len(<<x>>) = 1 /\ ToSet(<<x>>) = {x}
<1>1. <<x>> \in Seq({x}) /\ Len(<<x>>) = 1 /\ DOMAIN <<x>> = 1..1 /\ <<x>>[1] = x
  OBVIOUS
<1>2. GrSequence(<<x>>) /\ Len(<<x>>) = 1
  BY <1>1 DEF GrSequence
<1>3. 1..1 = {1}
  OBVIOUS
<1> DEFINE q == <<x>>
<1> HIDE DEF q
<1>4. ToSet(q) = {x}
  BY <1>1, <1>3 DEF ToSet, q
<1>5. QED
  BY <1>2, <1>4 DEF q

-----------------------------------------------------------------------------
GrTargets(s) == {e.target : e \in ToSet(s.edges)} \cup {<< >>}

\* What a row may say, as far as the graph has got.
GrRowSound(r, s) ==
  /\ r.kind = "child-ref" => r.id \in GrTargets(s)
  /\ r.kind = "collapsed" /\ ~s.truncated => r.id \notin grExpanded /\ Len(r.path) > GrDepth

GrIsBuild(s) ==
  /\ s = [queue |-> s.queue, nodes |-> s.nodes, edges |-> s.edges, rows |-> s.rows, truncated |-> s.truncated]
  /\ GrSequence(s.queue) /\ GrSequence(s.nodes) /\ GrSequence(s.edges) /\ GrSequence(s.rows)
  /\ s.truncated \in BOOLEAN
  /\ \A item \in ToSet(s.queue) : item.value \in DOMAIN grData.objects

\* Between two containers.
GrSound(s) ==
  /\ GrIsBuild(s)
  /\ Len(s.nodes) + Len(s.queue) <= GrMaxNodes
  /\ GrIds(s.nodes) \cup GrIds(s.queue) = GrTargets(s)
  /\ \A i, j \in 1..Len(s.nodes) : s.nodes[i].id = s.nodes[j].id => i = j
  /\ \A n \in ToSet(s.nodes) : \A r \in ToSet(n.rows) : GrRowSound(r, s)

\* Between two fields of a container, which is in the queue no longer and not yet a node.
GrFilling(s, id, nodes) ==
  /\ GrIsBuild(s) /\ s.nodes = nodes
  /\ Len(s.nodes) + 1 + Len(s.queue) <= GrMaxNodes
  /\ GrIds(s.nodes) \cup GrIds(s.queue) \cup {id} = GrTargets(s)
  /\ \A n \in ToSet(s.nodes) : \A r \in ToSet(n.rows) : GrRowSound(r, s)
  /\ \A r \in ToSet(s.rows) : GrRowSound(r, s)

GrFieldFits(field) == field.child \in DOMAIN grData.objects \cup {GrLeaf}

LEMMA GrFieldSound ==
  ASSUME GrAssumption, NEW s, NEW item, NEW nodes, NEW field,
         GrFilling(s, item.id, nodes), GrFieldFits(field)
  PROVE  GrFilling(GrField(s, item, field), item.id, nodes)
<1> DEFINE path == Append(item.path, field.key)
           row(kind) == [path |-> path, kind |-> kind, id |-> IF kind \in {"collapsed", "child-ref"} THEN GrId(path) ELSE GrNone]
           add(kind) == [s EXCEPT !.rows = Append(@, row(kind))]
           child == [id |-> GrId(path), path |-> path, value |-> field.child,
                     ancestors |-> item.ancestors \cup {item.value}]
           edge == [source |-> item.id, target |-> GrId(path)]
           folded == [add("collapsed") EXCEPT !.truncated = @ \/ GrOverBudget(s)]
           shown == [add("child-ref") EXCEPT !.edges = Append(@, edge), !.queue = Append(@, child)]
           t == GrField(s, item, field)
<1>1. \/ \E kind \in {"primitive", "circular", "inline-array"} : t = add(kind)
      \/ /\ (Len(path) > GrDepth /\ GrId(path) \notin grExpanded) \/ GrOverBudget(s)
         /\ t = folded
      \/ /\ ~GrOverBudget(s) /\ field.child # GrLeaf
         /\ t = shown
  BY DEF GrField
<1>2. GrIsBuild(s) /\ s.nodes = nodes /\ GrMaxNodes \in Nat
  BY DEF GrFilling, GrAssumption
<1>4. ASSUME NEW kind \in {"primitive", "circular", "inline-array"}, t = add(kind)
      PROVE  GrFilling(t, item.id, nodes)
  <2> DEFINE q == Append(s.rows, row(kind))
  <2>1. GrSequence(q) /\ ToSet(q) = ToSet(s.rows) \cup {row(kind)}
    BY <1>2, GrAppended, GrToSetAppended DEF GrIsBuild
  <2>2. row(kind).kind = kind
    OBVIOUS
  <2> HIDE DEF row
  <2>3. t = [queue |-> s.queue, nodes |-> s.nodes, edges |-> s.edges, rows |-> q, truncated |-> s.truncated]
    BY <1>2, <1>4 DEF GrIsBuild
  <2> HIDE DEF q, t
  <2>4. GrIsBuild(t)
    BY <1>2, <2>1, <2>3 DEF GrIsBuild
  <2>5. \A r : GrRowSound(r, s) => GrRowSound(r, t)
    BY <2>3 DEF GrRowSound, GrTargets
  <2>6. GrRowSound(row(kind), t)
    BY <2>2 DEF GrRowSound
  <2>7. \A r \in ToSet(t.rows) : GrRowSound(r, t)
    BY <2>1, <2>3, <2>5, <2>6 DEF GrFilling
  <2>8. QED
    BY <2>3, <2>4, <2>5, <2>7 DEF GrFilling, GrTargets
<1>5. ASSUME (Len(path) > GrDepth /\ GrId(path) \notin grExpanded) \/ GrOverBudget(s), t = folded
      PROVE  GrFilling(t, item.id, nodes)
  <2> DEFINE q == Append(s.rows, row("collapsed"))
             cut == s.truncated \/ GrOverBudget(s)
  <2>1. GrSequence(q) /\ ToSet(q) = ToSet(s.rows) \cup {row("collapsed")}
    BY <1>2, GrAppended, GrToSetAppended DEF GrIsBuild
  <2>2. row("collapsed").kind = "collapsed" /\ row("collapsed").id = GrId(path) /\ row("collapsed").path = path
    OBVIOUS
  <2> HIDE DEF row
  <2>3. t = [queue |-> s.queue, nodes |-> s.nodes, edges |-> s.edges, rows |-> q, truncated |-> cut]
    BY <1>2, <1>5 DEF GrIsBuild
  <2>4. cut \in BOOLEAN
    BY <1>2 DEF GrIsBuild, GrOverBudget
  <2>5. /\ ~cut => ~s.truncated
        /\ ~cut => Len(path) > GrDepth /\ GrId(path) \notin grExpanded
    BY <1>5
  <2> HIDE DEF q, t, cut, path
  <2>6. GrIsBuild(t)
    BY <1>2, <2>1, <2>3, <2>4 DEF GrIsBuild
  <2>7. \A r : GrRowSound(r, s) => GrRowSound(r, t)
    BY <2>3, <2>5 DEF GrRowSound, GrTargets
  <2>8. GrRowSound(row("collapsed"), t)
    BY <2>2, <2>3, <2>5 DEF GrRowSound
  <2>9. \A r \in ToSet(t.rows) : GrRowSound(r, t)
    BY <2>1, <2>3, <2>7, <2>8 DEF GrFilling
  <2>10. QED
    BY <2>3, <2>6, <2>7, <2>9 DEF GrFilling, GrTargets
<1>6. ASSUME ~GrOverBudget(s), field.child # GrLeaf, t = shown
      PROVE  GrFilling(t, item.id, nodes)
  <2> DEFINE q == Append(s.rows, row("child-ref"))
             e == Append(s.edges, edge)
             w == Append(s.queue, child)
  <2>1. /\ GrSequence(q) /\ ToSet(q) = ToSet(s.rows) \cup {row("child-ref")}
        /\ GrSequence(e) /\ ToSet(e) = ToSet(s.edges) \cup {edge}
        /\ GrSequence(w) /\ ToSet(w) = ToSet(s.queue) \cup {child}
        /\ Len(s.queue) \in Nat /\ Len(w) = Len(s.queue) + 1
    BY <1>2, GrAppended, GrToSetAppended DEF GrIsBuild
  <2>2. /\ row("child-ref").kind = "child-ref" /\ row("child-ref").id = GrId(path)
        /\ edge.target = GrId(path) /\ child.id = GrId(path) /\ child.value = field.child
    OBVIOUS
  <2> HIDE DEF row, edge, child
  <2>3. t = [queue |-> w, nodes |-> s.nodes, edges |-> e, rows |-> q, truncated |-> s.truncated]
    BY <1>2, <1>6 DEF GrIsBuild
  <2> HIDE DEF q, t, e, w, path
  <2>4. child.value \in DOMAIN grData.objects
    BY <1>6, <2>2 DEF GrFieldFits
  <2>5. GrIsBuild(t)
    BY <1>2, <2>1, <2>3, <2>4 DEF GrIsBuild
  <2>6. GrTargets(t) = GrTargets(s) \cup {edge.target}
    BY <2>1, <2>3 DEF GrTargets
  <2>7. GrIds(t.queue) = GrIds(s.queue) \cup {child.id}
    BY <2>1, <2>3 DEF GrIds
  <2>8. \A r : GrRowSound(r, s) => GrRowSound(r, t)
    BY <2>3, <2>6 DEF GrRowSound
  <2>9. GrRowSound(row("child-ref"), t)
    BY <2>2, <2>6 DEF GrRowSound
  <2>10. \A r \in ToSet(t.rows) : GrRowSound(r, t)
    BY <2>1, <2>3, <2>8, <2>9 DEF GrFilling
  <2>11. Len(t.nodes) + 1 + Len(t.queue) <= GrMaxNodes
    <3>1. Len(s.nodes) \in Nat
      BY <1>2, GrAppended DEF GrIsBuild
    <3>2. ~(Len(s.nodes) + 1 + Len(s.queue) >= GrMaxNodes)
      BY <1>6 DEF GrOverBudget
    <3>3. Len(s.queue) \in Nat /\ Len(w) = Len(s.queue) + 1 /\ t.queue = w /\ t.nodes = s.nodes
      BY <2>1, <2>3
    <3> DEFINE a == Len(s.nodes)
               b == Len(s.queue)
    <3> HIDE DEF a, b
    <3>4. a \in Nat /\ b \in Nat /\ Len(w) = b + 1 /\ ~(a + 1 + b >= GrMaxNodes)
      BY <3>1, <3>2, <3>3 DEF a, b
    <3>5. a + 1 + (b + 1) <= GrMaxNodes
      BY <1>2, <3>4
    <3>6. QED
      BY <3>3, <3>4, <3>5 DEF a
  <2>12. GrIds(t.nodes) \cup GrIds(t.queue) \cup {item.id} = GrTargets(t)
    BY <2>2, <2>3, <2>6, <2>7 DEF GrFilling
  <2>13. QED
    BY <1>2, <2>3, <2>5, <2>8, <2>10, <2>11, <2>12 DEF GrFilling
<1>7. GrFilling(t, item.id, nodes)
  <2> HIDE DEF t, add, folded, shown
  <2>1. QED
    BY <1>1, <1>4, <1>5, <1>6
<1>8. QED
  BY <1>7

-----------------------------------------------------------------------------
IsGrFilled(f, s, item, fields, n) == f = [i \in 0..n |-> IF i = 0 THEN s ELSE GrField(f[i - 1], item, fields[i])]

\* The function by which GrFields is defined does exist.
LEMMA GrFilledDefined ==
  ASSUME NEW s, NEW item, NEW fields, NEW m \in Nat
  PROVE  \E f : IsGrFilled(f, s, item, fields, m)
<1> DEFINE P == {n \in Nat : \E f : IsGrFilled(f, s, item, fields, n)}
<1>1. 0 \in P
  <2> DEFINE f == [i \in 0..0 |-> s]
  <2>1. IsGrFilled(f, s, item, fields, 0)
    BY DEF IsGrFilled
  <2>2. QED
    BY <2>1
<1>2. ASSUME NEW n \in Nat, n \in P
      PROVE  n + 1 \in P
  <2>1. PICK f : IsGrFilled(f, s, item, fields, n)
    BY <1>2
  <2> DEFINE g == [i \in 0..n + 1 |-> IF i = n + 1 THEN GrField(f[n], item, fields[n + 1]) ELSE f[i]]
  <2>2. ASSUME NEW i \in 0..n + 1
        PROVE  g[i] = IF i = 0 THEN s ELSE GrField(g[i - 1], item, fields[i])
    <3>1. CASE i = 0
      BY <2>1, <3>1 DEF IsGrFilled
    <3>2. CASE i # 0
      <4>1. i - 1 \in 0..n + 1 /\ i - 1 # n + 1 /\ g[i - 1] = f[i - 1]
        BY <3>2
      <4>2. CASE i = n + 1
        BY <3>2, <4>1, <4>2
      <4>3. CASE i # n + 1
        <5>1. i \in 0..n /\ g[i] = f[i]
          BY <4>3
        <5>2. f[i] = GrField(f[i - 1], item, fields[i])
          BY <2>1, <3>2, <5>1 DEF IsGrFilled
        <5>3. QED
          BY <3>2, <4>1, <5>1, <5>2
      <4>4. QED
        BY <4>2, <4>3
    <3>3. QED
      BY <3>1, <3>2
  <2>3. IsGrFilled(g, s, item, fields, n + 1)
    BY <2>2 DEF IsGrFilled
  <2> HIDE DEF g
  <2>4. QED
    BY <2>3
<1> HIDE DEF P
<1>3. Nat \subseteq P
  BY <1>1, <1>2, SetInduction
<1>4. QED
  BY <1>3 DEF P

LEMMA GrFieldsSound ==
  ASSUME GrAssumption, NEW s, NEW item, NEW nodes, NEW fields, Len(fields) \in Nat,
         GrFilling(s, item.id, nodes), \A i \in 1..Len(fields) : GrFieldFits(fields[i])
  PROVE  GrFilling(GrFields(s, item, fields), item.id, nodes)
<1> DEFINE n == Len(fields)
           f == CHOOSE f : f = [i \in 0..n |-> IF i = 0 THEN s ELSE GrField(f[i - 1], item, fields[i])]
<1>1. f = [i \in 0..n |-> IF i = 0 THEN s ELSE GrField(f[i - 1], item, fields[i])]
  <2>1. \E g : g = [i \in 0..n |-> IF i = 0 THEN s ELSE GrField(g[i - 1], item, fields[i])]
    <3> HIDE DEF n
    <3>1. PICK g : IsGrFilled(g, s, item, fields, n)
      BY GrFilledDefined DEF n
    <3>2. QED
      BY <3>1 DEF IsGrFilled
  <2>2. QED
    BY <2>1
<1>2. GrFields(s, item, fields) = f[n]
  BY DEF GrFields
<1> HIDE DEF f
<1> DEFINE P == {i \in Nat : i <= n => GrFilling(f[i], item.id, nodes)}
<1>3. 0 \in P
  BY <1>1
<1>4. ASSUME NEW i \in Nat, i \in P
      PROVE  i + 1 \in P
  <2>1. SUFFICES ASSUME i + 1 <= n
                 PROVE  GrFilling(f[i + 1], item.id, nodes)
    OBVIOUS
  <2>2. i + 1 \in 0..n /\ i + 1 # 0 /\ (i + 1) - 1 = i /\ i + 1 \in 1..n /\ i <= n
    BY <2>1
  <2>3. f[i + 1] = GrField(f[i], item, fields[i + 1])
    BY <1>1, <2>2
  <2>4. GrFilling(f[i], item.id, nodes) /\ GrFieldFits(fields[i + 1])
    BY <1>4, <2>2
  <2>5. QED
    BY <2>3, <2>4, GrFieldSound
<1>5. Nat \subseteq P
  <2> HIDE DEF P
  <2>1. QED
    BY <1>3, <1>4, SetInduction
<1>6. QED
  BY <1>2, <1>5

\* What a visit makes of a container that is not a node yet.
LEMMA GrVisitFills ==
  ASSUME GrAssumption, grData \in GrHeaps, NEW s, GrSound(s), s.queue # << >>,
         \A n \in ToSet(s.nodes) : n.id # Head(s.queue).id
  PROVE  \E done, rows :
           /\ GrFilling(done, Head(s.queue).id, s.nodes)
           /\ \A r \in ToSet(rows) : GrRowSound(r, done)
           /\ GrVisit(s) = [done EXCEPT !.nodes = Append(@, [id |-> Head(s.queue).id, value |-> Head(s.queue).value,
                                                             rows |-> rows])]
<1> DEFINE item == Head(s.queue)
           fields == grData.objects[item.value].fields
           all == item.id \in grOverflow \/ Len(fields) <= GrMaxOpen
           some == IF all THEN fields ELSE SubSeq(fields, 1, GrMaxOpen)
           popped == [s EXCEPT !.queue = Tail(@), !.rows = << >>]
           done == GrFields(popped, item, some)
           rest == [path |-> item.path, kind |-> "overflow", id |-> item.id]
           rows == IF all THEN done.rows ELSE Append(done.rows, rest)
<1>1. GrVisit(s) = [done EXCEPT !.nodes = Append(@, [id |-> item.id, value |-> item.value, rows |-> rows])]
  BY DEF GrVisit
<1>2. /\ GrIsBuild(s) /\ GrSequence(Tail(s.queue)) /\ ToSet(s.queue) = ToSet(Tail(s.queue)) \cup {item}
      /\ Len(s.queue) \in Nat /\ Len(Tail(s.queue)) = Len(s.queue) - 1 /\ Len(s.nodes) \in Nat
  BY GrShortened, GrToSetShortened, GrAppended DEF GrSound, GrIsBuild
<1>3. item.value \in DOMAIN grData.objects
  <2> HIDE DEF item
  <2>1. QED
    BY <1>2 DEF GrIsBuild
<1>4. fields \in Seq(ToSet(fields)) /\ \A f \in ToSet(fields) : GrFieldFits(f)
  BY <1>3 DEF GrAssumption, GrFieldFits
<1>5. Len(some) \in Nat /\ \A i \in 1..Len(some) : GrFieldFits(some[i])
  <2> HIDE DEF fields
  <2>1. Len(fields) \in Nat /\ \A i \in 1..Len(fields) : GrFieldFits(fields[i])
    BY <1>4 DEF ToSet
  <2>2. CASE all
    BY <2>1, <2>2
  <2>3. CASE ~all
    <3>1. GrMaxOpen \in Nat /\ GrMaxOpen < Len(fields)
      BY <2>1, <2>3 DEF GrAssumption
    <3>2. /\ Len(SubSeq(fields, 1, GrMaxOpen)) = GrMaxOpen
          /\ \A i \in 1..GrMaxOpen : SubSeq(fields, 1, GrMaxOpen)[i] = fields[i]
      BY <1>4, <2>1, <3>1
    <3>3. some = SubSeq(fields, 1, GrMaxOpen)
      BY <2>3
    <3> HIDE DEF some
    <3>4. QED
      BY <2>1, <3>1, <3>2, <3>3
  <2>4. QED
    BY <2>2, <2>3
<1>6. GrFilling(popped, item.id, s.nodes)
  <2> HIDE DEF item
  <2>1. popped = [queue |-> Tail(s.queue), nodes |-> s.nodes, edges |-> s.edges, rows |-> << >>, truncated |-> s.truncated]
    <3> DEFINE q == Tail(s.queue)
               u == [s EXCEPT !.queue = q]
    <3>1. popped = [u EXCEPT !.rows = << >>]
      BY <1>2 DEF GrIsBuild
    <3> HIDE DEF q, popped
    <3>2. u = [queue |-> q, nodes |-> s.nodes, edges |-> s.edges, rows |-> s.rows, truncated |-> s.truncated]
      BY <1>2 DEF GrIsBuild
    <3> HIDE DEF u
    <3>3. popped = [queue |-> q, nodes |-> s.nodes, edges |-> s.edges, rows |-> << >>, truncated |-> s.truncated]
      BY <3>1, <3>2
    <3>4. QED
      BY <3>3 DEF q
  <2> HIDE DEF popped
  <2>2. GrIsBuild(popped)
    BY <1>2, <2>1, GrEmpty DEF GrIsBuild
  <2>3. Len(popped.nodes) + 1 + Len(popped.queue) <= GrMaxNodes
    <3> DEFINE a == Len(s.nodes)
               b == Len(s.queue)
               c == Len(Tail(s.queue))
    <3>1. Len(popped.nodes) = a /\ Len(popped.queue) = c
      BY <2>1
    <3>2. a \in Nat /\ b \in Nat /\ c = b - 1 /\ a + b <= GrMaxNodes /\ GrMaxNodes \in Nat
      BY <1>2 DEF GrSound, GrAssumption
    <3> HIDE DEF a, b, c
    <3>3. QED
      BY <3>1, <3>2
  <2>4. \A r : GrRowSound(r, s) => GrRowSound(r, popped)
    BY <2>1 DEF GrRowSound, GrTargets
  <2>5. GrIds(s.queue) = GrIds(popped.queue) \cup {item.id}
    BY <1>2, <2>1 DEF GrIds
  <2>6. GrIds(popped.nodes) \cup GrIds(popped.queue) \cup {item.id} = GrTargets(popped)
    BY <2>1, <2>5 DEF GrSound, GrTargets
  <2>7. \A r \in ToSet(popped.rows) : GrRowSound(r, popped)
    BY <2>1, GrEmpty
  <2>8. QED
    BY <2>1, <2>2, <2>3, <2>4, <2>6, <2>7 DEF GrFilling, GrSound
<1>7. GrFilling(done, item.id, s.nodes)
  <2> HIDE DEF item, popped, some
  <2>1. QED
    BY <1>5, <1>6, GrFieldsSound
<1>8. \A r \in ToSet(rows) : GrRowSound(r, done)
  <2> HIDE DEF done
  <2>1. GrSequence(done.rows) /\ \A r \in ToSet(done.rows) : GrRowSound(r, done)
    BY <1>7 DEF GrFilling, GrIsBuild
  <2>2. rest.kind = "overflow"
    OBVIOUS
  <2> HIDE DEF rest
  <2>3. GrRowSound(rest, done)
    BY <2>2 DEF GrRowSound
  <2>4. ToSet(Append(done.rows, rest)) = ToSet(done.rows) \cup {rest}
    BY <2>1, GrToSetAppended
  <2>5. QED
    BY <2>1, <2>3, <2>4
<1> HIDE DEF done, rows
<1>9. QED
  BY <1>1, <1>7, <1>8

\* How much the loop may still do: it goes down with every visit.
GrLeft(s) == (GrMaxNodes + 1) * (GrMaxNodes - Len(s.nodes)) + Len(s.queue)

LEMMA GrVisitSound ==
  ASSUME GrAssumption, grData \in GrHeaps, NEW s, GrSound(s), s.queue # << >>
  PROVE  GrSound(GrVisit(s)) /\ GrLeft(GrVisit(s)) < GrLeft(s)
<1> DEFINE item == Head(s.queue)
           t == GrVisit(s)
<1>1. /\ GrIsBuild(s) /\ GrSequence(Tail(s.queue)) /\ ToSet(s.queue) = ToSet(Tail(s.queue)) \cup {item}
      /\ Len(s.queue) \in Nat \ {0} /\ Len(Tail(s.queue)) = Len(s.queue) - 1 /\ Len(s.nodes) \in Nat
      /\ DOMAIN s.nodes = 1..Len(s.nodes)
  BY GrShortened, GrToSetShortened, GrAppended DEF GrSound, GrIsBuild
<1>2. GrMaxNodes \in Nat
  BY DEF GrAssumption
<1>3. CASE \E n \in ToSet(s.nodes) : n.id = item.id
  <2>1. t = [s EXCEPT !.queue = Tail(@)]
    BY <1>3 DEF GrVisit
  <2>2. t = [queue |-> Tail(s.queue), nodes |-> s.nodes, edges |-> s.edges, rows |-> s.rows, truncated |-> s.truncated]
    BY <1>1, <2>1 DEF GrIsBuild
  <2> HIDE DEF t
  <2>3. GrIsBuild(t)
    BY <1>1, <2>2 DEF GrIsBuild
  <2>4. \A r : GrRowSound(r, s) => GrRowSound(r, t)
    BY <2>2 DEF GrRowSound, GrTargets
  <2>5. GrIds(s.queue) = GrIds(t.queue) \cup {item.id} /\ item.id \in GrIds(s.nodes)
    BY <1>1, <1>3, <2>2 DEF GrIds
  <2>6. GrIds(t.nodes) \cup GrIds(t.queue) = GrTargets(t)
    BY <2>2, <2>5 DEF GrSound, GrTargets
  <2>7. Len(t.nodes) + Len(t.queue) <= GrMaxNodes
    <3> DEFINE a == Len(s.nodes)
               b == Len(s.queue)
               c == Len(Tail(s.queue))
    <3>1. Len(t.nodes) = a /\ Len(t.queue) = c
      BY <2>2
    <3>2. a \in Nat /\ b \in Nat /\ c = b - 1 /\ a + b <= GrMaxNodes
      BY <1>1 DEF GrSound
    <3> HIDE DEF a, b, c
    <3>3. QED
      BY <1>2, <3>1, <3>2
  <2>8. GrSound(t)
    BY <2>2, <2>3, <2>4, <2>6, <2>7 DEF GrSound
  <2>9. GrLeft(t) < GrLeft(s)
    <3> DEFINE m == (GrMaxNodes + 1) * (GrMaxNodes - Len(s.nodes))
    <3>1. m \in Int
      BY <1>1, <1>2
    <3>2. GrLeft(s) = m + Len(s.queue) /\ GrLeft(t) = m + Len(Tail(s.queue))
      BY <2>2 DEF GrLeft
    <3> HIDE DEF m
    <3>3. QED
      BY <1>1, <3>1, <3>2
  <2>10. QED
    BY <2>8, <2>9 DEF t
<1>4. CASE \A n \in ToSet(s.nodes) : n.id # item.id
  <2>1. PICK done, rows :
          /\ GrFilling(done, item.id, s.nodes)
          /\ \A r \in ToSet(rows) : GrRowSound(r, done)
          /\ t = [done EXCEPT !.nodes = Append(@, [id |-> item.id, value |-> item.value, rows |-> rows])]
    BY <1>4, GrVisitFills
  <2> DEFINE node == [id |-> item.id, value |-> item.value, rows |-> rows]
             nodes == Append(s.nodes, node)
  <2>2. node.id = item.id /\ node.rows = rows
    OBVIOUS
  <2>3. GrIsBuild(done) /\ done.nodes = s.nodes
    BY <2>1 DEF GrFilling
  <2>4. t = [queue |-> done.queue, nodes |-> nodes, edges |-> done.edges, rows |-> done.rows, truncated |-> done.truncated]
    BY <2>1, <2>3 DEF GrIsBuild
  <2>5. /\ GrSequence(nodes) /\ ToSet(nodes) = ToSet(s.nodes) \cup {node} /\ Len(nodes) = Len(s.nodes) + 1
        /\ \A i \in 1..Len(s.nodes) : nodes[i] = s.nodes[i]
        /\ nodes[Len(s.nodes) + 1] = node
    BY <1>1, GrAppended, GrToSetAppended DEF GrIsBuild
  <2>6. Len(done.queue) \in Nat
    BY <2>3, GrAppended DEF GrIsBuild
  <2> HIDE DEF t, node, nodes, item
  <2>7. GrIsBuild(t)
    BY <2>3, <2>4, <2>5 DEF GrIsBuild
  <2>8. \A r : GrRowSound(r, done) => GrRowSound(r, t)
    BY <2>4 DEF GrRowSound, GrTargets
  <2>9. \A n \in ToSet(t.nodes) : \A r \in ToSet(n.rows) : GrRowSound(r, t)
    <3>1. \A n \in ToSet(s.nodes) : \A r \in ToSet(n.rows) : GrRowSound(r, t)
      BY <2>1, <2>3, <2>8 DEF GrFilling
    <3>2. \A r \in ToSet(node.rows) : GrRowSound(r, t)
      BY <2>1, <2>2, <2>8
    <3>3. ToSet(t.nodes) = ToSet(s.nodes) \cup {node}
      BY <2>4, <2>5
    <3>4. QED
      BY <3>1, <3>2, <3>3
  <2>10. GrIds(t.nodes) \cup GrIds(t.queue) = GrTargets(t)
    <3>1. GrIds(t.nodes) = GrIds(s.nodes) \cup {item.id}
      BY <2>2, <2>4, <2>5 DEF GrIds
    <3>2. GrIds(s.nodes) \cup GrIds(done.queue) \cup {item.id} = GrTargets(done)
      BY <2>1, <2>3 DEF GrFilling
    <3>3. QED
      BY <2>4, <3>1, <3>2 DEF GrTargets
  <2>11. Len(done.nodes) + 1 + Len(done.queue) <= GrMaxNodes
    BY <2>1 DEF GrFilling
  <2>12. Len(t.nodes) + Len(t.queue) <= GrMaxNodes
    BY <1>1, <1>2, <2>3, <2>4, <2>5, <2>6, <2>11
  <2>13. ASSUME NEW i \in 1..Len(t.nodes), NEW j \in 1..Len(t.nodes), t.nodes[i].id = t.nodes[j].id
         PROVE  i = j
    <3>1. t.nodes = nodes /\ Len(t.nodes) = Len(s.nodes) + 1
      BY <2>4, <2>5
    <3>2. \A k \in 1..Len(s.nodes) : nodes[k].id # item.id
      BY <1>1, <1>4, <2>5 DEF ToSet
    <3>3. CASE i = Len(s.nodes) + 1 \/ j = Len(s.nodes) + 1
      BY <1>1, <2>2, <2>5, <2>13, <3>1, <3>2, <3>3
    <3>4. CASE i # Len(s.nodes) + 1 /\ j # Len(s.nodes) + 1
      <4>1. i \in 1..Len(s.nodes) /\ j \in 1..Len(s.nodes)
        BY <1>1, <3>1, <3>4
      <4>2. s.nodes[i].id = s.nodes[j].id
        BY <2>5, <2>13, <3>1, <4>1
      <4>3. QED
        BY <4>1, <4>2 DEF GrSound
    <3>5. QED
      BY <3>3, <3>4
  <2>14. GrSound(t)
    BY <2>7, <2>9, <2>10, <2>12, <2>13 DEF GrSound
  <2>15. GrLeft(t) < GrLeft(s)
    <3> DEFINE a == GrMaxNodes - Len(s.nodes)
               K == GrMaxNodes + 1
               b == Len(done.queue)
    <3>1. /\ GrLeft(s) = K * a + Len(s.queue)
          /\ GrLeft(t) = K * (GrMaxNodes - (Len(s.nodes) + 1)) + b
      BY <2>4, <2>5 DEF GrLeft
    <3>2. GrMaxNodes - (Len(s.nodes) + 1) = a - 1 /\ a \in Int /\ K \in Int /\ b < K
      <4> DEFINE c == Len(s.nodes)
      <4>1. c \in Nat /\ b \in Nat /\ c + 1 + b <= GrMaxNodes
        BY <1>1, <2>3, <2>6, <2>11
      <4> HIDE DEF b, c
      <4>2. GrMaxNodes - (c + 1) = (GrMaxNodes - c) - 1 /\ GrMaxNodes - c \in Int
        BY <1>2, <4>1
      <4>3. c + 1 + b \in Int /\ b <= c + 1 + b /\ b < GrMaxNodes + 1
        BY <1>2, <4>1
      <4>4. QED
        BY <1>2, <4>2, <4>3 DEF c
    <3> HIDE DEF a, K, b
    <3>3. K * (a - 1) = K * a - K /\ K * a \in Int
      BY <3>2
    <3> DEFINE p == K * a
    <3> HIDE DEF p
    <3>4. GrLeft(s) = p + Len(s.queue) /\ GrLeft(t) = (p - K) + b /\ p \in Int
      BY <3>1, <3>2, <3>3 DEF p
    <3>5. b \in Nat
      BY <2>6 DEF b
    <3>6. QED
      BY <1>1, <3>2, <3>4, <3>5
  <2>16. QED
    BY <2>14, <2>15 DEF t
<1>5. QED
  BY <1>3, <1>4

-----------------------------------------------------------------------------
IsGrBuilt(f, n) ==
  f = [i \in 0..n |-> IF i = 0 THEN GrStart
                      ELSE LET s == f[i - 1] IN IF s.queue = << >> THEN s ELSE GrVisit(s)]

\* The function by which GrGraph is defined does exist.
LEMMA GrBuiltDefined ==
  ASSUME NEW m \in Nat
  PROVE  \E f : IsGrBuilt(f, m)
<1> DEFINE next(s) == IF s.queue = << >> THEN s ELSE GrVisit(s)
           Is(f, n) == f = [i \in 0..n |-> IF i = 0 THEN GrStart ELSE next(f[i - 1])]
           P == {n \in Nat : \E f : Is(f, n)}
<1> HIDE DEF next
<1>1. 0 \in P
  <2> DEFINE f == [i \in 0..0 |-> GrStart]
  <2>1. Is(f, 0)
    OBVIOUS
  <2>2. QED
    BY <2>1
<1>2. ASSUME NEW n \in Nat, n \in P
      PROVE  n + 1 \in P
  <2>1. PICK f : Is(f, n)
    BY <1>2
  <2> DEFINE g == [i \in 0..n + 1 |-> IF i = n + 1 THEN next(f[n]) ELSE f[i]]
  <2>2. ASSUME NEW i \in 0..n + 1
        PROVE  g[i] = IF i = 0 THEN GrStart ELSE next(g[i - 1])
    <3>1. CASE i = 0
      BY <2>1, <3>1
    <3>2. CASE i # 0
      <4>1. i - 1 \in 0..n + 1 /\ i - 1 # n + 1 /\ g[i - 1] = f[i - 1]
        BY <3>2
      <4>2. CASE i = n + 1
        BY <3>2, <4>1, <4>2
      <4>3. CASE i # n + 1
        <5>1. i \in 0..n /\ g[i] = f[i]
          BY <4>3
        <5>2. f[i] = next(f[i - 1])
          BY <2>1, <3>2, <5>1
        <5>3. QED
          BY <3>2, <4>1, <5>1, <5>2
      <4>4. QED
        BY <4>2, <4>3
    <3>3. QED
      BY <3>1, <3>2
  <2>3. Is(g, n + 1)
    BY <2>2
  <2> HIDE DEF g, Is
  <2>4. QED
    BY <2>3
<1> HIDE DEF Is
<1>3. Nat \subseteq P
  BY <1>1, <1>2, SetInduction
<1>4. QED
  BY <1>3 DEF Is, IsGrBuilt, next

LEMMA GrStartSound ==
  ASSUME GrAssumption, grData \in GrHeaps
  PROVE  GrSound(GrStart) /\ GrLeft(GrStart) = (GrMaxNodes + 1) * GrMaxNodes + 1
<1> DEFINE item == [id |-> << >>, path |-> << >>, value |-> grData.root, ancestors |-> {}]
           s == [queue |-> <<item>>, nodes |-> << >>, edges |-> << >>, rows |-> << >>, truncated |-> FALSE]
<1>1. GrStart = s
  BY DEF GrStart
<1>2. item.id = << >> /\ item.value = grData.root
  OBVIOUS
<1> HIDE DEF item
<1>3. GrSequence(<<item>>) /\ Len(<<item>>) = 1 /\ ToSet(<<item>>) = {item}
  BY GrSingle
<1>4. /\ s.queue = <<item>> /\ s.nodes = << >> /\ s.edges = << >> /\ s.rows = << >> /\ s.truncated = FALSE
      /\ s = [queue |-> s.queue, nodes |-> s.nodes, edges |-> s.edges, rows |-> s.rows, truncated |-> s.truncated]
  OBVIOUS
<1> HIDE DEF s
<1>5. grData.root \in DOMAIN grData.objects /\ GrMaxNodes \in Nat \ {0}
  BY DEF GrAssumption
<1>6. GrIsBuild(s)
  BY <1>2, <1>3, <1>4, <1>5, GrEmpty DEF GrIsBuild
<1>7. GrIds(s.nodes) = {} /\ GrIds(s.queue) = {<< >>} /\ GrTargets(s) = {<< >>}
  BY <1>2, <1>3, <1>4, GrEmpty DEF GrIds, GrTargets
<1>8. Len(s.nodes) = 0 /\ Len(s.queue) = 1 /\ ToSet(s.nodes) = {}
  BY <1>3, <1>4, GrEmpty
<1>9. GrSound(s)
  BY <1>5, <1>6, <1>7, <1>8 DEF GrSound
<1>10. GrLeft(s) = (GrMaxNodes + 1) * GrMaxNodes + 1
  BY <1>5, <1>8 DEF GrLeft
<1>11. QED
  BY <1>1, <1>9, <1>10

\* The loop ends with its queue empty, and with a graph that is sound.
LEMMA GrGraphSound ==
  ASSUME GrAssumption, grData \in GrHeaps
  PROVE  GrSound(GrGraph) /\ GrGraph.queue = << >>
<1> DEFINE n == GrVisits
           f == CHOOSE f : f = [i \in 0..n |-> IF i = 0 THEN GrStart
                                  ELSE LET s == f[i - 1] IN IF s.queue = << >> THEN s ELSE GrVisit(s)]
           K == GrMaxNodes + 1
<1>1. GrMaxNodes \in Nat \ {0} /\ n = K * K /\ K \in Nat
  BY DEF GrAssumption, GrVisits
<1>2. K * K = K * GrMaxNodes + K /\ K * GrMaxNodes \in Nat
  BY <1>1
<1> DEFINE p == K * GrMaxNodes
<1> HIDE DEF n, p
<1>3. p \in Nat /\ n = p + K /\ n \in Nat /\ n > p + 1
  <2>1. p \in Nat /\ n = p + K
    BY <1>1, <1>2 DEF p
  <2> HIDE DEF K
  <2>2. K \in Nat /\ K > 1
    BY <1>1 DEF K
  <2>3. QED
    BY <2>1, <2>2
<1>4. f = [i \in 0..n |-> IF i = 0 THEN GrStart
                           ELSE LET s == f[i - 1] IN IF s.queue = << >> THEN s ELSE GrVisit(s)]
  <2>1. PICK g : IsGrBuilt(g, n)
    BY <1>3, GrBuiltDefined
  <2>2. QED
    BY <2>1 DEF IsGrBuilt
<1>5. GrGraph = f[n]
  BY DEF GrGraph, n
<1> HIDE DEF f
<1> DEFINE P == {i \in Nat : i <= n => /\ GrSound(f[i])
                                       /\ f[i].queue = << >> \/ GrLeft(f[i]) + i <= p + 1}
<1>6. 0 \in P
  <2>1. f[0] = GrStart
    BY <1>3, <1>4
  <2>2. GrSound(GrStart) /\ GrLeft(GrStart) = p + 1
    BY GrStartSound DEF p
  <2>3. QED
    BY <1>3, <2>1, <2>2
<1>7. \A s : GrSound(s) => GrLeft(s) \in Nat
  <2> SUFFICES ASSUME NEW s, GrSound(s)
               PROVE  GrLeft(s) \in Nat
    OBVIOUS
  <2>1. Len(s.nodes) \in Nat /\ Len(s.queue) \in Nat /\ Len(s.nodes) + Len(s.queue) <= GrMaxNodes
    BY GrAppended DEF GrSound, GrIsBuild
  <2> DEFINE a == Len(s.nodes)
             b == Len(s.queue)
  <2>2. a \in Nat /\ b \in Nat /\ a + b <= GrMaxNodes /\ GrLeft(s) = K * (GrMaxNodes - a) + b
    BY <2>1 DEF GrLeft
  <2> HIDE DEF a, b, K
  <2> DEFINE c == GrMaxNodes - a
  <2>3. c \in Nat
    BY <1>1, <2>2
  <2> HIDE DEF c
  <2>4. K * c \in Nat
    BY <1>1, <2>3
  <2>5. QED
    BY <2>2, <2>4 DEF c
<1>8. ASSUME NEW i \in Nat, i \in P
      PROVE  i + 1 \in P
  <2>1. SUFFICES ASSUME i + 1 <= n
                 PROVE  /\ GrSound(f[i + 1])
                        /\ f[i + 1].queue = << >> \/ GrLeft(f[i + 1]) + (i + 1) <= p + 1
    OBVIOUS
  <2>2. i + 1 \in 0..n /\ i + 1 # 0 /\ (i + 1) - 1 = i /\ i <= n
    BY <1>3, <2>1
  <2>3. f[i + 1] = IF f[i].queue = << >> THEN f[i] ELSE GrVisit(f[i])
    BY <1>4, <2>2
  <2>4. GrSound(f[i]) /\ (f[i].queue = << >> \/ GrLeft(f[i]) + i <= p + 1)
    BY <1>8, <2>2
  <2>5. CASE f[i].queue = << >>
    BY <2>3, <2>4, <2>5
  <2>6. CASE f[i].queue # << >>
    <3>1. f[i + 1] = GrVisit(f[i])
      BY <2>3, <2>6
    <3>2. GrSound(f[i + 1]) /\ GrLeft(f[i + 1]) < GrLeft(f[i])
      BY <2>4, <2>6, <3>1, GrVisitSound
    <3>3. GrLeft(f[i + 1]) \in Nat /\ GrLeft(f[i]) \in Nat
      BY <1>7, <2>4, <3>2
    <3>4. QED
      BY <1>3, <2>4, <2>6, <3>2, <3>3
  <2>7. QED
    BY <2>5, <2>6
<1>9. Nat \subseteq P
  <2> HIDE DEF P
  <2>1. QED
    BY <1>6, <1>8, SetInduction
<1>10. GrSound(f[n]) /\ (f[n].queue = << >> \/ GrLeft(f[n]) + n <= p + 1)
  BY <1>3, <1>9
<1>11. GrLeft(f[n]) \in Nat
  BY <1>7, <1>10
<1>12. QED
  BY <1>3, <1>5, <1>10, <1>11

LEMMA GrWellFormedAlways ==
  ASSUME GrAssumption, grData \in GrHeaps
  PROVE  GrWellFormed
<1> DEFINE g == GrGraph
           ids == {n.id : n \in ToSet(g.nodes)}
           rows == UNION {ToSet(n.rows) : n \in ToSet(g.nodes)}
<1> HIDE DEF g
<1>1. GrSound(g) /\ g.queue = << >>
  BY GrGraphSound DEF g
<1>2. Len(g.nodes) \in Nat /\ DOMAIN g.nodes = 1..Len(g.nodes)
  BY <1>1, GrAppended DEF GrSound, GrIsBuild
<1>3. Len(g.nodes) <= GrMaxNodes
  <2>1. Len(g.queue) = 0
    BY <1>1, GrEmpty
  <2>2. GrMaxNodes \in Nat /\ Len(g.nodes) + Len(g.queue) <= GrMaxNodes
    BY <1>1 DEF GrSound, GrAssumption
  <2>3. QED
    BY <1>2, <2>1, <2>2
<1>4. ids = GrTargets(g)
  <2>1. GrIds(g.queue) = {}
    BY <1>1, GrEmpty DEF GrIds
  <2>2. QED
    BY <1>1, <2>1 DEF GrSound, GrIds
<1>5. Cardinality(ids) = Len(g.nodes)
  <2> DEFINE N == 1..Len(g.nodes)
             f == [i \in N |-> g.nodes[i].id]
  <2>1. ids = {f[i] : i \in N}
    BY <1>2 DEF ToSet
  <2>2. f \in Bijection(N, ids)
    <3>1. \A i, j \in N : f[i] = f[j] => i = j
      BY <1>1 DEF GrSound
    <3> HIDE DEF ids, N
    <3>2. f \in [N -> ids] /\ \A y \in ids : \E i \in N : f[i] = y
      BY <2>1
    <3> HIDE DEF f
    <3>3. QED
      BY <3>1, <3>2 DEF Bijection, Injection, Surjection, IsInjective
  <2>3. IsFiniteSet(N) /\ Cardinality(N) = Len(g.nodes)
    BY <1>2, FS_Interval
  <2> HIDE DEF f, N, ids
  <2>4. QED
    BY <2>2, <2>3, FS_Bijection DEF ExistsBijection
<1>6. \A r \in rows : GrRowSound(r, g)
  BY <1>1 DEF GrSound
<1> HIDE DEF ids, rows
<1>7. /\ g.queue = << >>
      /\ Len(g.nodes) <= GrMaxNodes /\ Cardinality(ids) = Len(g.nodes)
      /\ ids = {e.target : e \in ToSet(g.edges)} \cup {<< >>}
      /\ \A r \in rows : /\ r.kind = "child-ref" => r.id \in ids
                         /\ r.kind = "collapsed" /\ ~g.truncated => r.id \notin grExpanded /\ Len(r.path) > GrDepth
  BY <1>1, <1>3, <1>4, <1>5, <1>6 DEF GrRowSound, GrTargets
<1>8. QED
  BY <1>7 DEF GrWellFormed, g, ids, rows

\* buildJsonGraph: whatever value the view was given and whatever the user had opened in earlier
\* ones, the graph it shows is well formed: its loop ends, within the budget, with every
\* reference at a node that is there once, and folds only what may still be opened.
THEOREM GraphIsWellFormed == GrSpec => []GrWellFormed
<1>1. GrInit => grData \in GrHeaps
  BY DEF GrInit
<1>2. grData \in GrHeaps /\ [GrNext]_grVars => (grData \in GrHeaps)'
  <2> SUFFICES ASSUME grData \in GrHeaps, [GrNext]_grVars
               PROVE  grData' \in GrHeaps
    OBVIOUS
  <2>1. ASSUME NEW data \in GrHeaps, GrArrives(data)
        PROVE  grData' \in GrHeaps
    BY <2>1 DEF GrArrives
  <2>2. ASSUME NEW node, NEW row, GrToggleExpand(row) \/ GrToggleOverflow(row) \/ GrSelectRow(node, row)
        PROVE  grData' \in GrHeaps
    BY <2>2 DEF GrToggleExpand, GrToggleOverflow, GrSelectRow
  <2>3. CASE GrClose
    BY <2>3 DEF GrClose
  <2>4. CASE UNCHANGED grVars
    BY <2>4 DEF grVars
  <2>5. QED
    BY <2>1, <2>2, <2>3, <2>4 DEF GrNext
<1>3. grData \in GrHeaps => GrWellFormed
  BY GrAssumption, GrWellFormedAlways
<1>4. QED
  BY <1>1, <1>2, <1>3, PTL DEF GrSpec

=============================================================================
