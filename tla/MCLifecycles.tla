---------------------------- MODULE MCLifecycles ----------------------------
(* Five components that share no state, checked side by side: `part` says      *)
(* which of them takes the steps of a behaviour, the others stay at one        *)
(* initial state, so the state space is the sum of the five and not their      *)
(* product.                                                                    *)
EXTENDS Updater, SnapshotAdapter, SdkLifecycle, QueryAdapter, EditPanels

CONSTANTS Part, t1, t2

VARIABLE part

MCTables == <<t1, t2>>

\* Nothing said about auto-attach, or everything but the network asked for.
MCOptions == {[k \in LcKey |-> "unset"], [k \in LcKey |-> IF k = "network" THEN "off" ELSE "on"]}

\* The same key in the same engine of two apps and in another engine; two stores, a query.
MCEntries ==
  {[app |-> "a", tab |-> "storage", place |-> "localStorage", key |-> "k"],
   [app |-> "b", tab |-> "storage", place |-> "sessionStorage", key |-> "k"],
   [app |-> "a", tab |-> "stores", place |-> "s1", key |-> "s1"],
   [app |-> "a", tab |-> "stores", place |-> "s2", key |-> "s2"],
   [app |-> "a", tab |-> "queries", place |-> "q1", key |-> "q1"]}

MCInit ==
  /\ part \in Part
  /\ UpInit
  /\ SnInit /\ (part = "snapshots" \/ snEngine = "realm")
  /\ LcInit /\ (part = "sdk" \/ (lcDev /\ lcReady = {} /\ lcOption = CHOOSE o \in LcOption : TRUE))
  /\ QaInit /\ (part = "queries" \/ qaSetData)
  /\ EdInit

MCNext ==
  /\ UNCHANGED part
  /\ \/ part = "updater"   /\ UpNext /\ UNCHANGED <<snVars, lcVars, qaVars, edVars>>
     \/ part = "snapshots" /\ SnNext /\ UNCHANGED <<upVars, lcVars, qaVars, edVars>>
     \/ part = "sdk"       /\ LcNext /\ UNCHANGED <<upVars, snVars, qaVars, edVars>>
     \/ part = "queries"   /\ QaNext /\ UNCHANGED <<upVars, snVars, lcVars, edVars>>
     \/ part = "panels"    /\ EdNext /\ UNCHANGED <<upVars, snVars, lcVars, qaVars>>

MCSpec ==
  /\ MCInit /\ [][MCNext]_<<part, upVars, snVars, lcVars, qaVars, edVars>>
  /\ UpFairness /\ SnFairness

=============================================================================
