----------------------------- MODULE MCWsServer -----------------------------
(* Small instances of WsServer, in scenarios whose state spaces one run adds  *)
(* up: "pair" has two connections of every length the bounds allow, "crowd"   *)
(* one more than there are slots, each sending at most a hello, all of one    *)
(* app.  And the one history variable a comment of registry.rs needs in order *)
(* to be stated.                                                              *)
EXTENDS WsServer, TLC

CONSTANTS
  Scenario,  \* the scenarios of the run
  Extra      \* the connection that only "crowd" has

VARIABLES
  scenario,
  forgotten  \* apps the user forgot and that have not come back

Symmetric == Permutations(Conn \ {Extra}) \cup Permutations(App)

Within ==
  CASE scenario = "pair"  -> pc'[Extra] = pc[Extra]
    [] scenario = "crowd" -> /\ \A c \in Conn : frames'[c] <= 1 /\ cur'[c] \in {Hello, None}
                             /\ Cardinality({bound'[c] : c \in Conn} \ {None}) <= 1
    [] OTHER -> TRUE

MCInit == Init /\ forgotten = {} /\ scenario \in Scenario
MCNext == Next /\ Within /\ UNCHANGED <<scenario, forgotten>>
MCSpec == MCInit /\ [][MCNext]_<<vars, scenario, forgotten>>
MCFairSpec == MCSpec /\ Fairness

HNext ==
  /\ Next /\ UNCHANGED scenario
  /\ forgotten' = {a \in App : a \in Known \cup forgotten /\ a \notin DOMAIN apps'}
HSpec == MCInit /\ [][HNext]_<<vars, scenario, forgotten>>

\* registry.rs: a still-connected app that gets forgotten reappears on its next
\* message ("its next hello/heartbeat re-registers it").  No eviction happens in
\* the run that checks this, so only forget removes an app.
ForgottenReturns ==
  [][\A c \in Conn : (pc[c] = "record" /\ pc'[c] # "record" /\ bound[c] \in forgotten)
                        => bound[c] \in DOMAIN apps']_<<vars, forgotten>>

=============================================================================
