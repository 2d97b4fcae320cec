----------------------------- MODULE DbTransfer -----------------------------
(***************************************************************************)
(* Export and import of a relational engine's files: DbFileActions of the  *)
(* Storage tab and the commands of db_file.rs.  A database is its main     *)
(* file and its write-ahead log; one page holds it all, so a file is the   *)
(* version of that page, and who opens the pair sees the log's version     *)
(* when there is a log.  The shared-memory file goes the way of the log.   *)
(***************************************************************************)
EXTENDS Naturals

CONSTANTS
  DbPlatform,               \* "android", "ios-simulator"
  DbNone,
  DbMaxVersion, DbMaxJobs   \* bounds of the model

VARIABLES
  dbPlatform,
  dbApp,     \* the files on the device
  dbDisk,    \* the files in the directory the user exports to and imports from
  dbPanel,   \* the panel that is mounted: [id, busy, pending]
  dbJob,     \* the transfers that run, by the panel that started them
  dbTold,    \* history: the last transfer that ended [kind, ok, exact, meant], or DbNone
  dbMeant,   \* history: what the app showed when dbDisk was last exported whole, or DbNone
  dbVersion, dbJobs   \* model bounds

dbVars == <<dbPlatform, dbApp, dbDisk, dbPanel, dbJob, dbTold, dbMeant, dbVersion, dbJobs>>

DbSeen(files) == IF files.wal # DbNone THEN files.wal ELSE files.main

DbPanel(id) == [id |-> id, busy |-> FALSE, pending |-> FALSE]

DbInit ==
  /\ dbPlatform \in DbPlatform
  /\ dbApp = [main |-> 0, wal |-> DbNone] /\ dbDisk = [main |-> DbNone, wal |-> DbNone]
  /\ dbPanel = DbPanel(0) /\ dbJob = [i \in 0..1 |-> DbNone]
  /\ dbTold = DbNone /\ dbMeant = DbNone /\ dbVersion = 0 /\ dbJobs = 0

DbDisturbed == [i \in 0..1 |-> IF dbJob[i] = DbNone THEN DbNone ELSE [dbJob[i] EXCEPT !.exact = FALSE]]

\* The app commits to the log, and moves the log into the main file when it closes the database.
DbCommit ==
  /\ dbVersion < DbMaxVersion /\ dbVersion' = dbVersion + 1
  /\ dbApp' = [dbApp EXCEPT !.wal = dbVersion + 1]
  /\ dbJob' = DbDisturbed /\ dbTold' = DbNone
  /\ UNCHANGED <<dbPlatform, dbDisk, dbPanel, dbMeant, dbJobs>>

DbCheckpoint ==
  /\ dbApp.wal # DbNone
  /\ dbApp' = [main |-> dbApp.wal, wal |-> DbNone]
  /\ dbJob' = DbDisturbed /\ dbTold' = DbNone
  /\ UNCHANGED <<dbPlatform, dbDisk, dbPanel, dbMeant, dbVersion, dbJobs>>

\* The user empties the directory.
DbEmptied ==
  /\ dbDisk.main # DbNone
  /\ dbDisk' = [main |-> DbNone, wal |-> DbNone]
  /\ dbJob' = DbDisturbed /\ dbTold' = DbNone /\ dbMeant' = DbNone
  /\ UNCHANGED <<dbPlatform, dbApp, dbPanel, dbVersion, dbJobs>>

\* A transfer is "exact" while nothing else touches the files.
DbStart(kind) ==
  /\ dbJobs < DbMaxJobs /\ dbJobs' = dbJobs + 1
  /\ dbJob' = [DbDisturbed EXCEPT ![dbPanel.id] =
       [kind |-> kind, file |-> "main", exact |-> dbJob[1 - dbPanel.id] = DbNone]]
  /\ dbTold' = DbNone

\* handleExport, from the click to the directory picked.
DbExport ==
  /\ ~dbPanel.busy /\ ~dbPanel.pending /\ DbStart("export")
  /\ dbPanel' = [dbPanel EXCEPT !.busy = TRUE]
  /\ UNCHANGED <<dbPlatform, dbApp, dbDisk, dbMeant, dbVersion>>

\* handlePickImport, and the two answers to ConfirmImportDialog.
DbPickImport ==
  /\ ~dbPanel.busy /\ dbDisk.main # DbNone
  /\ dbPanel' = [dbPanel EXCEPT !.pending = TRUE]
  /\ UNCHANGED <<dbPlatform, dbApp, dbDisk, dbJob, dbTold, dbMeant, dbVersion, dbJobs>>

DbCancelImport ==
  /\ dbPanel.pending
  /\ dbPanel' = [dbPanel EXCEPT !.pending = FALSE]
  /\ UNCHANGED <<dbPlatform, dbApp, dbDisk, dbJob, dbTold, dbMeant, dbVersion, dbJobs>>

DbConfirmImport ==
  /\ dbPanel.pending /\ DbStart("import")
  /\ dbPanel' = [dbPanel EXCEPT !.pending = FALSE, !.busy = TRUE]
  /\ UNCHANGED <<dbPlatform, dbApp, dbDisk, dbMeant, dbVersion>>

\* Another tab and back: the new panel is not busy, and the transfer of the old one goes on.
DbRemount ==
  /\ dbJob[1 - dbPanel.id] = DbNone
  /\ dbPanel' = DbPanel(1 - dbPanel.id)
  /\ UNCHANGED <<dbPlatform, dbApp, dbDisk, dbJob, dbTold, dbMeant, dbVersion, dbJobs>>

\* The transfer ends: the message, and the panel that started it is free again.
DbEnd(i, ok) ==
  /\ dbJob' = [dbJob EXCEPT ![i] = DbNone]
  /\ dbTold' = [kind |-> dbJob[i].kind, ok |-> ok, exact |-> dbJob[i].exact, meant |-> dbMeant]
  /\ dbPanel' = IF dbPanel.id = i THEN [dbPanel EXCEPT !.busy = FALSE] ELSE dbPanel

DbFails(i) ==
  /\ dbJob[i] # DbNone /\ DbEnd(i, FALSE)
  /\ dbMeant' = IF dbJob[i].kind = "export" THEN DbNone ELSE dbMeant
  /\ UNCHANGED <<dbPlatform, dbApp, dbDisk, dbVersion, dbJobs>>

DbOn(i, kind, file) == dbJob[i] # DbNone /\ dbJob[i].kind = kind /\ dbJob[i].file = file

\* export: the main file, then the log if there is one; one that was in the directory stays.
DbExportMain(i) ==
  /\ DbOn(i, "export", "main") /\ dbApp.main # DbNone
  /\ dbDisk' = [dbDisk EXCEPT !.main = dbApp.main] /\ dbMeant' = DbNone
  /\ dbJob' = [(IF dbJob[1 - i] = DbNone THEN dbJob ELSE DbDisturbed) EXCEPT ![i].file = "wal"]
  /\ UNCHANGED <<dbPlatform, dbApp, dbPanel, dbTold, dbVersion, dbJobs>>

DbExportWal(i) ==
  /\ DbOn(i, "export", "wal") /\ DbEnd(i, TRUE)
  /\ dbDisk' = IF dbApp.wal = DbNone THEN dbDisk ELSE [dbDisk EXCEPT !.wal = dbApp.wal]
  /\ dbMeant' = IF dbJob[i].exact THEN DbSeen(dbApp) ELSE DbNone
  /\ UNCHANGED <<dbPlatform, dbApp, dbVersion, dbJobs>>

\* On a device a log that cannot be read counts as one that is not there.
DbExportSkips(i) ==
  /\ DbOn(i, "export", "wal") /\ dbPlatform = "android" /\ dbApp.wal # DbNone
  /\ dbJob' = [dbJob EXCEPT ![i] = DbNone]
  /\ dbTold' = [kind |-> "export", ok |-> TRUE, exact |-> FALSE, meant |-> dbMeant]
  /\ dbPanel' = IF dbPanel.id = i THEN [dbPanel EXCEPT !.busy = FALSE] ELSE dbPanel
  /\ UNCHANGED <<dbPlatform, dbApp, dbDisk, dbMeant, dbVersion, dbJobs>>

\* import: the main file is placed, if it still exists.
DbImportMain(i) ==
  /\ DbOn(i, "import", "main")
  /\ dbApp' = IF dbDisk.main = DbNone THEN dbApp ELSE [dbApp EXCEPT !.main = dbDisk.main]
  /\ dbJob' = [(IF dbJob[1 - i] = DbNone THEN dbJob ELSE DbDisturbed) EXCEPT ![i].file = "wal"]
  /\ UNCHANGED <<dbPlatform, dbDisk, dbPanel, dbTold, dbMeant, dbVersion, dbJobs>>

\* Mutant: a log the directory does not have is left on the device.
MutDbPlacedWal == IF dbDisk.wal = DbNone THEN dbApp.wal ELSE dbDisk.wal

DbPlacedWal == dbDisk.wal

\* then the log, or the device's is removed when the directory has none.
DbImportWal(i) ==
  /\ DbOn(i, "import", "wal") /\ DbEnd(i, TRUE)
  /\ dbApp' = [dbApp EXCEPT !.wal = DbPlacedWal]
  /\ UNCHANGED <<dbPlatform, dbDisk, dbMeant, dbVersion, dbJobs>>

\* On a device nobody looks whether it could be removed.
DbImportLeaves(i) ==
  /\ DbOn(i, "import", "wal") /\ dbPlatform = "android" /\ dbDisk.wal = DbNone /\ dbApp.wal # DbNone
  /\ dbJob' = [dbJob EXCEPT ![i] = DbNone]
  /\ dbTold' = [kind |-> "import", ok |-> TRUE, exact |-> FALSE, meant |-> dbMeant]
  /\ dbPanel' = IF dbPanel.id = i THEN [dbPanel EXCEPT !.busy = FALSE] ELSE dbPanel
  /\ UNCHANGED <<dbPlatform, dbApp, dbDisk, dbMeant, dbVersion, dbJobs>>

DbNext ==
  \/ DbCommit \/ DbCheckpoint \/ DbEmptied
  \/ DbExport \/ DbPickImport \/ DbCancelImport \/ DbConfirmImport \/ DbRemount
  \/ \E i \in 0..1 : \/ DbFails(i) \/ DbExportMain(i) \/ DbExportWal(i) \/ DbExportSkips(i)
                     \/ DbImportMain(i) \/ DbImportWal(i) \/ DbImportLeaves(i)

DbSpec == DbInit /\ [][DbNext]_dbVars

-----------------------------------------------------------------------------

\* db_file.rs: whatever failed half way or ran at the same time before, a transfer that reports
\* success while nothing else touches the files and every step of it works has copied what there
\* is: after an import the app has the directory's pair and no log of its own is left over it,
\* after an export the directory has the main file and the log of the app.  (An import whose file
\* has gone since it was picked reports success too.)
DbToldTrue ==
  dbTold # DbNone /\ dbTold.ok /\ dbTold.exact =>
    /\ dbTold.kind = "import" /\ dbDisk.main # DbNone => dbApp = dbDisk
    /\ dbTold.kind = "export" => dbDisk.main = dbApp.main /\ dbApp.wal \in {DbNone, dbDisk.wal}

\* db_file.rs: "so a stale WAL can't silently override the just-imported main file the next
\* time the app opens the database": the import of what was exported shows what was exported.
DbNoStaleWal ==
  dbTold # DbNone /\ dbTold.ok /\ dbTold.kind = "import" /\ dbTold.exact /\ dbTold.meant # DbNone =>
    DbSeen(dbApp) = dbTold.meant

=============================================================================
