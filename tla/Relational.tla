----------------------------- MODULE Relational -----------------------------
(***************************************************************************)
(* The panel of a relational engine in the Storage tab: RelationalStorage, *)
(* the foreign keys it infers from names, and "type the name" before a     *)
(* table is cleared.  A name is a sequence of words; a table is [name,     *)
(* key, refs, rows] with key "id", "other" or RlNone for its primary key,  *)
(* refs the stems of its `xxx_id` columns, rows the keys of its rows.      *)
(***************************************************************************)
EXTENDS Naturals, Sequences, SequencesExt, FiniteSets

CONSTANTS
  RlEngine, RlSnapshots,   \* the engines, and the schemas an app may report
  RlPlurals,               \* for a word, the forms `${stem}s` and `-ies` or `-es`
  RlNone,
  RlMaxReports, RlMaxClears, RlMaxSteps   \* bounds of the model

ASSUME RlAssumption ==
  /\ RlNone \notin RlEngine /\ RlNone \notin RlSnapshots
  /\ \A s \in RlSnapshots : s \in Seq(ToSet(s))

VARIABLES
  rlStorage,   \* engine -> its tables, or RlNone
  rlEngine,    \* the chip that was clicked, or the first engine
  rlPanel,     \* [selected, highlight, expanded, asking, input]
  rlClears,    \* clears sent [engine, table, typed, asked, status]
  rlAsked,     \* history: the row the user opened or followed last [table, id], or RlNone
  rlReports, rlSteps   \* model bounds

rlVars == <<rlStorage, rlEngine, rlPanel, rlClears, rlAsked, rlReports, rlSteps>>

\* The three spellings of a table that a column named `${stem}_id` may mean.
RlForms(stem) ==
  [i \in 1..3 |-> IF i = 1 THEN stem ELSE Append(Front(stem), RlPlurals[Last(stem)][i - 1])]

\* name.endsWith(`_${form}`)
RlEndsIn(name, form) == Len(name) > Len(form) /\ IsSuffix(form, name)

RlTargets(tables) == {t \in ToSet(tables) : t.key # RlNone}

RlNames(tables) == {t.name : t \in tables}

\* The tables that a stem may mean by their last words.
\* Mutant: the table itself is left out before they are counted.
MutRlSuffixMatches(tables, stem, current) ==
  {n \in RlNames(RlTargets(tables)) \ {current} : \E f \in ToSet(RlForms(stem)) : RlEndsIn(n, f)}

RlSuffixMatches(tables, stem, current) ==
  {n \in RlNames(RlTargets(tables)) : \E f \in ToSet(RlForms(stem)) : RlEndsIn(n, f)}

\* inferForeignKeys, for one column of one table.
RlForeignKey(tables, stem, current) ==
  LET forms == RlForms(stem)
      exact == {i \in DOMAIN forms : forms[i] \in RlNames(RlTargets(tables))}
      first == CHOOSE i \in exact : \A j \in exact : i <= j
      matches == RlSuffixMatches(tables, stem, current)
  IN IF exact # {} /\ forms[first] # current THEN forms[first]
     ELSE IF Cardinality(matches) = 1 /\ matches # {current} THEN CHOOSE n \in matches : TRUE
     ELSE RlNone

RlFresh == [selected |-> RlNone, highlight |-> RlNone, expanded |-> RlNone, asking |-> RlNone, input |-> RlNone]

RlTables == rlStorage[rlEngine]

\* tableName, and its rows: none when no table of the snapshot has that name.
RlShown(tables, panel) ==
  IF panel.selected # RlNone THEN panel.selected ELSE IF tables = << >> THEN RlNone ELSE Head(tables).name

RlTable(tables, name) == {t \in ToSet(tables) : t.name = name}

\* rowId: the column named id, else the place of the row in the list.
RlRowIds(table) == IF table.key = "id" THEN table.rows ELSE [i \in DOMAIN table.rows |-> i - 1]

RlInit ==
  /\ rlStorage = [e \in RlEngine |-> RlNone] /\ rlEngine = RlNone /\ rlPanel = RlFresh
  /\ rlClears = << >> /\ rlAsked = RlNone /\ rlReports = 0 /\ rlSteps = 0

\* A snapshot of an engine; the first engine is the one shown.
RlReport(e, tables) ==
  /\ rlReports < RlMaxReports /\ rlReports' = rlReports + 1
  /\ rlStorage' = [rlStorage EXCEPT ![e] = tables]
  /\ rlEngine' = IF rlEngine = RlNone THEN e ELSE rlEngine
  /\ UNCHANGED <<rlPanel, rlClears, rlAsked, rlSteps>>

\* What the user does is bounded, and the dialog covers the page while it is open.
RlUser == rlEngine # RlNone /\ rlSteps < RlMaxSteps /\ rlSteps' = rlSteps + 1

RlDoes == RlUser /\ rlPanel.asking = RlNone

RlChip(e) ==
  /\ RlDoes /\ rlStorage[e] # RlNone /\ e # rlEngine
  /\ rlEngine' = e
  /\ UNCHANGED <<rlStorage, rlPanel, rlClears, rlAsked, rlReports>>

\* selectTable, which closes the open row; while a row is highlighted the change of table
\* runs the effect of the highlight again, and that opens the row of this id here too.
RlSelect(name) ==
  /\ RlDoes /\ name \in RlNames(ToSet(RlTables))
  /\ rlPanel' = [rlPanel EXCEPT !.selected = name,
                   !.expanded = IF name # RlShown(RlTables, rlPanel) THEN rlPanel.highlight ELSE RlNone]
  /\ UNCHANGED <<rlStorage, rlEngine, rlClears, rlAsked, rlReports>>

RlToggle(id) ==
  /\ RlDoes /\ \E t \in RlTable(RlTables, RlShown(RlTables, rlPanel)) : id \in ToSet(RlRowIds(t))
  /\ rlPanel' = [rlPanel EXCEPT !.expanded = IF @ = id THEN RlNone ELSE id]
  /\ rlAsked' = IF rlPanel.expanded = id THEN RlNone ELSE [table |-> RlShown(RlTables, rlPanel), id |-> id]
  /\ UNCHANGED <<rlStorage, rlEngine, rlClears, rlReports>>

\* A link in a cell: navigateToRelated, then the effect that opens the row it highlights.
RlFollow(stem, id) ==
  LET current == RlShown(RlTables, rlPanel)
      target == RlForeignKey(RlTables, stem, current)
  IN /\ RlDoes /\ rlPanel.expanded # RlNone
     /\ \E t \in RlTable(RlTables, current) : stem \in t.refs /\ rlPanel.expanded \in ToSet(RlRowIds(t))
     /\ target # RlNone
     /\ rlPanel' = [rlPanel EXCEPT !.selected = target, !.highlight = id, !.expanded = id]
     /\ rlAsked' = [table |-> target, id |-> id]
     /\ UNCHANGED <<rlStorage, rlEngine, rlClears, rlReports>>

RlHighlightEnds ==
  /\ rlPanel.highlight # RlNone
  /\ rlPanel' = [rlPanel EXCEPT !.highlight = RlNone]
  /\ UNCHANGED <<rlStorage, rlEngine, rlClears, rlAsked, rlReports, rlSteps>>

\* latestTableClear: any engine's clear of a table of this name.
RlClearStatus(name) ==
  LET mine == SelectSeq(rlClears, LAMBDA c : c.table = name)
  IN IF mine = << >> THEN RlNone ELSE Last(mine).status

RlAsk ==
  LET shown == RlShown(RlTables, rlPanel)
  IN /\ RlDoes /\ shown # RlNone /\ RlClearStatus(shown) # "pending"
     /\ rlPanel' = [rlPanel EXCEPT !.asking = [engine |-> rlEngine, table |-> shown], !.input = RlNone]
     /\ UNCHANGED <<rlStorage, rlEngine, rlClears, rlAsked, rlReports>>

RlType(name) ==
  /\ RlUser /\ rlPanel.asking # RlNone /\ name # rlPanel.input
  /\ rlPanel' = [rlPanel EXCEPT !.input = name]
  /\ UNCHANGED <<rlStorage, rlEngine, rlClears, rlAsked, rlReports>>

RlCancel ==
  /\ rlPanel.asking # RlNone
  /\ rlPanel' = [rlPanel EXCEPT !.asking = RlNone, !.input = RlNone]
  /\ UNCHANGED <<rlStorage, rlEngine, rlClears, rlAsked, rlReports, rlSteps>>

\* Mutant: the name was right when it was typed.
MutRlCanConfirm == rlPanel.input = rlPanel.asking.table

RlCanConfirm == rlPanel.input = RlShown(RlTables, rlPanel)

\* onConfirm: sendStorageClear for the table that is shown now.
RlConfirm ==
  /\ rlPanel.asking # RlNone /\ RlShown(RlTables, rlPanel) # RlNone /\ RlCanConfirm
  /\ Len(rlClears) < RlMaxClears
  /\ rlClears' = Append(rlClears, [engine |-> rlEngine, table |-> RlShown(RlTables, rlPanel),
                                   typed |-> rlPanel.input, asked |-> rlPanel.asking, status |-> "pending"])
  /\ rlPanel' = [rlPanel EXCEPT !.asking = RlNone, !.input = RlNone]
  /\ UNCHANGED <<rlStorage, rlEngine, rlAsked, rlReports, rlSteps>>

RlCleared(i, status) ==
  /\ rlClears[i].status = "pending"
  /\ rlClears' = [rlClears EXCEPT ![i].status = status]
  /\ UNCHANGED <<rlStorage, rlEngine, rlPanel, rlAsked, rlReports, rlSteps>>

RlAll == UNION {ToSet(s) : s \in RlSnapshots}
RlKnown == {t.name : t \in RlAll}
RlStems == UNION {t.refs : t \in RlAll}
RlIds == UNION {ToSet(t.rows) : t \in RlAll} \cup 0..1

RlNext ==
  \/ \E e \in RlEngine : RlChip(e) \/ \E s \in RlSnapshots : RlReport(e, s)
  \/ \E n \in RlKnown : RlSelect(n) \/ RlType(n)
  \/ \E id \in RlIds : RlToggle(id) \/ \E stem \in RlStems : RlFollow(stem, id)
  \/ RlHighlightEnds \/ RlAsk \/ RlCancel \/ RlConfirm
  \/ \E i \in DOMAIN rlClears, status \in {"applied", "failed"} : RlCleared(i, status)

RlSpec == RlInit /\ [][RlNext]_rlVars
-----------------------------------------------------------------------------

\* ConfirmClearDialog: whatever snapshot comes in while the dialog is open and moves it to
\* another table, the table that is cleared is the one whose name was typed, in the engine
\* the dialog was opened for.
RlClearTyped ==
  \A i \in DOMAIN rlClears :
    LET c == rlClears[i] IN c.table = c.typed /\ c.engine = c.asked.engine

\* inferForeignKeys.ts: whatever schema is reported, a column that names no table exactly is
\* linked only when one table alone ends that way, the column's own table counted.
RlLinksHonest ==
  rlEngine # RlNone => \A t \in ToSet(RlTables), stem \in RlStems :
    LET target == RlForeignKey(RlTables, stem, t.name)
        alike(u) == \E f \in ToSet(RlForms(stem)) : RlEndsIn(u.name, f)
    IN stem \in t.refs /\ target # RlNone =>
         /\ target # t.name
         /\ target \in ToSet(RlForms(stem)) \/ \A u \in RlTargets(RlTables) : alike(u) => u.name = target

\* The table that is cleared is the table whose name was typed, and the table a link leads to
\* is the one the schema names.
RlTableMeant == RlClearTyped /\ RlLinksHonest

\* The row that is open is the one the user clicked or followed a link to.  The view does not
\* keep this: an id outlives the table it was opened in.
RlOpensAsked ==
  rlPanel.expanded # RlNone =>
    rlAsked = [table |-> RlShown(RlTables, rlPanel), id |-> rlPanel.expanded]

=============================================================================
