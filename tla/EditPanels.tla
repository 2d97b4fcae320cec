----------------------------- MODULE EditPanels ------------------------------
(***************************************************************************)
(* The tabs in which a value of the app is edited (Storage, State,         *)
(* Queries): which entry each shows, the drafts in its editors, and what a *)
(* save writes to whom.                                                    *)
(*                                                                         *)
(* React keeps the state of a component as long as the same component      *)
(* stands in the same place under the same key.  EdIdentity gives that     *)
(* key; EdRender is what is left of the page's state once it has been      *)
(* rendered again and its effects have run, and every action ends in it.   *)
(* An entry is a key of a key-value engine, a Zustand store or a query; a  *)
(* value has one field per path.                                           *)
(***************************************************************************)
EXTENDS Naturals, Sequences, SequencesExt, FiniteSets

CONSTANTS
  EdEntry,  \* entries: [app, tab, place (engine, storeId or hash), key]
  EdPath, EdValue, EdNone,
  EdMaxReports, EdMaxSaves, EdMaxVisits \* bounds of the model

EdTabs == {"storage", "stores", "queries"}
ASSUME EdAssumption == \A e \in EdEntry : e.tab \in EdTabs

VARIABLES
  edData,    \* AppData: entry -> its value, or EdNone
  edArrived, \* entries in the order of their first report
  edUpdated, \* entries in the order of their last one
  edPage,    \* the page, see EdFresh
  edWrites,  \* writes sent; opened is the entry whose value the draft started from
  edReports  \* model bound

edVars == <<edData, edArrived, edUpdated, edPage, edWrites, edReports>>

EdState == [EdPath -> EdValue]
EdLocal == [raw |-> EdNone, edited |-> EdNone]

\* What is left of the page after a change of tab: app, tab and pendingHighlight.
EdFresh(app, tab, jump, visit) ==
  [app |-> app, tab |-> tab, jump |-> jump, visit |-> visit,
   pick |-> EdNone,      \* selectedEngine, selected or selectedHash
   open |-> EdNone,      \* expandedKey of the KV table
   highlight |-> EdNone, \* the row that pulses
   local |-> << >>,      \* key of a mounted row or panel -> its raw draft and last edited path
   field |-> EdNone,     \* the selected path of the JSON graph
   draft |-> EdNone]     \* the text of the field editor and the entry it was opened on

EdHere(page, data) == {e \in EdEntry : e.app = page.app /\ e.tab = page.tab /\ data[e] # EdNone}
EdFirst(order, entries) == IF entries = {} THEN EdNone ELSE SelectSeq(order, LAMBDA e : e \in entries)[1]
EdPlace(e) == IF e = EdNone THEN EdNone ELSE e.place

\* The entries listed on the page, those of activeEngine, activeId, or the hash of active:
\* what was picked, else the first engine or store heard of, or the query updated last.
EdListed(page, data, arrived, updated) ==
  LET here == EdHere(page, data)
      active == IF \E e \in here : e.place = page.pick THEN page.pick
                ELSE EdPlace(EdFirst(IF page.tab = "queries" THEN Reverse(updated) ELSE arrived, here))
  IN {e \in here : e.place = active}

\* The one among them whose JSON graph is on the page.
EdShown(page, listed) ==
  IF \E e \in listed : page.tab = "storage" => e.key = page.open
  THEN CHOOSE e \in listed : page.tab = "storage" => e.key = page.open
  ELSE EdNone

\* Mutant: the panel of a store is not given the store's id as its key.
MutEdIdentity(e) == IF e.tab = "storage" THEN e.key ELSE e.tab

\* key={entry.key} of a KvRow, key={activeId} of a StoreStatePanel; QueryDetail has none.
EdIdentity(e) ==
  CASE e.tab = "storage" -> e.key
    [] e.tab = "stores" -> e.place
    [] e.tab = "queries" -> e.tab

EdMounted(listed) == {EdIdentity(e) : e \in listed}

\* The effects that take a "jump here from Network": pick, open and mark the target.
EdJumped(page, data) ==
  IF page.jump # EdNone /\ \E e \in EdHere(page, data) : e.place = page.jump.place
  THEN [page EXCEPT !.pick = page.jump.place, !.jump = EdNone, !.highlight = page.jump.key,
                    !.open = IF page.tab = "storage" THEN page.jump.key ELSE @]
  ELSE page

EdNow == EdShown(edPage, EdListed(edPage, edData, edArrived, edUpdated))

\* From the page as it was rendered to the page after a change.
EdRender(changed, data, arrived, updated) ==
  LET page == EdJumped(changed, data)
      listed == EdListed(page, data, arrived, updated)
      before == EdNow
      now == EdShown(page, listed)
      same == /\ before # EdNone /\ now # EdNone /\ page.visit = edPage.visit
              /\ EdIdentity(before) = EdIdentity(now)
      field == IF same THEN page.field ELSE EdNone
  IN /\ edPage' = [page EXCEPT
          !.local = [k \in EdMounted(listed) |->
                       IF k \in DOMAIN @ THEN @[k] ELSE EdLocal],
          !.field = field,
          !.draft = IF field = EdNone THEN EdNone
                    ELSE IF field = edPage.field /\ same THEN @
                    ELSE [text |-> data[now][field], opened |-> now]]

EdInit ==
  /\ edData = [e \in EdEntry |-> EdNone] /\ edArrived = << >> /\ edUpdated = << >>
  /\ edPage = EdFresh((CHOOSE e \in EdEntry : TRUE).app, "storage", EdNone, 0)
  /\ edWrites = << >> /\ edReports = 0

\* The app reports a value, or that the entry is gone.
EdReport(e, v) ==
  LET data == [edData EXCEPT ![e] = v]
      others(order) == SelectSeq(order, LAMBDA x : x # e)
      arrived == IF v = EdNone THEN others(edArrived)
                 ELSE IF edData[e] = EdNone THEN Append(edArrived, e) ELSE edArrived
      updated == IF v = EdNone THEN others(edUpdated) ELSE Append(others(edUpdated), e)
  IN /\ v # edData[e]
     /\ edReports < EdMaxReports /\ edReports' = edReports + 1
     /\ edData' = data /\ edArrived' = arrived /\ edUpdated' = updated
     /\ EdRender(edPage, data, arrived, updated)
     /\ UNCHANGED edWrites

EdUi(page) ==
  /\ EdRender(page, edData, edArrived, edUpdated)
  /\ UNCHANGED <<edData, edArrived, edUpdated, edWrites, edReports>>

\* selectApp: the views are given another appId and keep their state.
EdSelectApp(a) == a # edPage.app /\ EdUi([edPage EXCEPT !.app = a])

\* setActiveTab
EdSelectTab(tab) ==
  /\ tab # edPage.tab /\ edPage.visit < EdMaxVisits
  /\ EdUi(EdFresh(edPage.app, tab, edPage.jump, edPage.visit + 1))

\* highlightAndNavigate, from a "related" chip of the Network tab.
EdJump(e) ==
  /\ e.tab \in {"storage", "queries"} /\ edPage.visit < EdMaxVisits
  /\ EdUi(EdFresh(edPage.app, e.tab, [place |-> e.place, key |-> e.key],
                  edPage.visit + 1))

EdPick(e) == e \in EdHere(edPage, edData) /\ EdUi([edPage EXCEPT !.pick = e.place])

EdToggleRow(key) ==
  /\ edPage.tab = "storage" /\ key \in DOMAIN edPage.local
  /\ EdUi([edPage EXCEPT !.open = IF @ = key THEN EdNone ELSE key])

\* onSelectRow, and the panel's close button.
EdOpenField(path) ==
  EdNow # EdNone /\ edPage.local[EdIdentity(EdNow)].raw = EdNone /\ path # edPage.field
    /\ EdUi([edPage EXCEPT !.field = path])

EdType(v) ==
  edPage.draft # EdNone /\ v # edPage.draft.text /\ EdUi([edPage EXCEPT !.draft.text = v])

\* latestWrite, and the status shown beside the path that was edited last.
EdLatest ==
  LET mine == SelectSeq(edWrites, LAMBDA w : w.to = EdNow)
  IN IF mine = << >> THEN EdNone ELSE Last(mine).status

EdStatus(path) == IF edPage.local[EdIdentity(EdNow)].edited = path THEN EdLatest ELSE EdNone

EdSend(value, path, opened) ==
  /\ Len(edWrites) < EdMaxSaves
  /\ edWrites' = Append(edWrites, [to |-> EdNow, value |-> value, opened |-> opened, status |-> "pending"])
  /\ EdRender([edPage EXCEPT !.local[EdIdentity(EdNow)] = [raw |-> EdNone, edited |-> path]],
              edData, edArrived, edUpdated)
  /\ UNCHANGED <<edData, edArrived, edUpdated, edReports>>

\* save and handleEdit: the draft is put into the value that is shown now.
EdSave ==
  /\ edPage.draft # EdNone /\ EdStatus(edPage.field) # "pending"
  /\ EdSend([edData[EdNow] EXCEPT ![edPage.field] = edPage.draft.text], edPage.field, edPage.draft.opened)

\* "Edit raw JSON", its cancel, and its save.  The row keeps the text when it is closed.
EdRawOpen ==
  /\ edPage.tab = "storage" /\ EdNow # EdNone
  /\ edPage.local[EdNow.key].raw = EdNone
  /\ EdUi([edPage EXCEPT !.local[EdNow.key].raw = [text |-> edData[EdNow], opened |-> EdNow],
                         !.field = EdNone])

EdRawType(v) ==
  /\ edPage.tab = "storage" /\ EdNow # EdNone
  /\ edPage.local[EdNow.key].raw # EdNone /\ v # edPage.local[EdNow.key].raw.text
  /\ EdUi([edPage EXCEPT !.local[EdNow.key].raw.text = v])

EdRawCancel ==
  /\ edPage.tab = "storage" /\ EdNow # EdNone /\ edPage.local[EdNow.key].raw # EdNone
  /\ EdUi([edPage EXCEPT !.local[EdNow.key].raw = EdNone])

EdRawSave ==
  /\ edPage.tab = "storage" /\ EdNow # EdNone /\ edPage.local[EdNow.key].raw # EdNone
  /\ LET raw == edPage.local[EdNow.key].raw IN EdSend(raw.text, EdNone, raw.opened)

EdVerdict(i, status) ==
  /\ edWrites[i].status = "pending"
  /\ edWrites' = [edWrites EXCEPT ![i].status = status]
  /\ UNCHANGED <<edData, edArrived, edUpdated, edPage, edReports>>

EdNext ==
  \/ \E e \in EdEntry : \/ \E v \in EdState \cup {EdNone} : EdReport(e, v)
                        \/ EdJump(e) \/ EdPick(e)
  \/ \E a \in {e.app : e \in EdEntry} : EdSelectApp(a)
  \/ \E tab \in {e.tab : e \in EdEntry} : EdSelectTab(tab)
  \/ \E key \in {e.key : e \in EdEntry} : EdToggleRow(key)
  \/ \E p \in EdPath \cup {EdNone} : EdOpenField(p)
  \/ \E v \in EdValue : EdType(v)
  \/ \E v \in EdState : EdRawType(v)
  \/ EdSave \/ EdRawOpen \/ EdRawCancel \/ EdRawSave
  \/ \E i \in DOMAIN edWrites, status \in {"applied", "failed"} : EdVerdict(i, status)

EdSpec == EdInit /\ [][EdNext]_edVars

-----------------------------------------------------------------------------

\* StoresView.tsx keys its panel and StorageView.tsx its rows: a draft is saved to the key or
\* the store it was opened on, in another engine or another app at worst; only in the Queries
\* tab, whose panel has no key, can it end in another entry.
EdDraftHome ==
  \A i \in DOMAIN edWrites :
    LET w == edWrites[i]
    IN /\ w.opened.tab = w.to.tab
       /\ w.to.tab = "stores" => w.opened.place = w.to.place
       /\ w.to.tab = "storage" => w.opened.key = w.to.key

=============================================================================
