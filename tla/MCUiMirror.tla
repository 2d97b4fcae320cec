----------------------------- MODULE MCUiMirror -----------------------------
(* Small instances of UiMirror, with the history variables of PageHistory.    *)
(*                                                                            *)
(* A run adds up the state spaces of its scenarios: "restarts" has an         *)
(* application that starts anew and one that the user removes, "reconnects"   *)
(* one process whose connections break and overlap at the server, that is     *)
(* swept, sends heartbeats and is removed, on a page that may be loaded       *)
(* again, both without stores, and "fields" one process that writes its       *)
(* stores, whose connection breaks when the list has been answered and which  *)
(* connects again when the end of the broken one has been emitted.            *)
EXTENDS PageHistory

CONSTANT Scenario  \* the scenarios of the run

VARIABLE scenario

\* Without stores no message tells the page anything: its listener may as well come first.
Storeless == value'[now'] = NoStores /\ (heard' = {} \/ "message" \in heard')

Loaded == heard' = Kinds /\ listing' = "done"

Within ==
  CASE scenario = "restarts"   -> Storeless /\ breaks' = 0 /\ pings' = 0 /\ sweeps' = 0 /\ reloads' = 0
    [] scenario = "reconnects" -> /\ Storeless /\ now' = 1 /\ breaks' + pings' + sweeps' + forgets' + 2 * reloads' <= 3
                                  /\ Loaded \/ reloads' > 0 \/ (link'[1] = "none" /\ pings' = 0)
    [] scenario = "fields"     -> /\ now' = 1 /\ breaks' <= 1 /\ reloads' = 0 /\ forgets' = 0
                                  /\ pings' = 0 /\ sweeps' = 0 /\ unnoticed'[1] = 0
                                  /\ heard' = Kinds \/ (value'[1] = NoStores /\ link'[1] = "none")
                                  /\ breaks' = 0 \/ (listing' # "asked" /\ (dropping'[1] = 0 \/ link'[1] = "none"))
    [] OTHER -> TRUE

MCInit == HiInit /\ scenario \in Scenario

MCNext == HiNext /\ Within /\ UNCHANGED scenario

MCSpec == MCInit /\ [][MCNext]_<<hiVars, scenario>>
MCFairSpec == MCSpec /\ Fairness

=============================================================================
