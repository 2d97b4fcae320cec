------------------------------- MODULE MCFeeds -------------------------------
(* Eleven components that share no state, checked side by side: `part` says    *)
(* which of them takes the steps of a behaviour, the others stay at one        *)
(* initial state, so the state space is the sum of the eleven and not their    *)
(* product.                                                                    *)
EXTENDS Alerts, KvAdapter, NetworkFeed, NavFeed, StoreFeed, Values, Telemetry,
        DbTransfer, Relational, Correlation, JsonGraph

CONSTANT Part

VARIABLE part

-----------------------------------------------------------------------------
(* Inputs *)

MCKeys == <<"a", "b">>

MCPlurals == [gallery |-> <<"gallerys", "galleries">>, user |-> <<"users", "useres">>]

Table(n, k, r, w) == [name |-> n, key |-> k, refs |-> r, rows |-> w]

\* A table that is named exactly, one whose key is another column, and two that end alike.
MCSnapshots ==
  {<<Table(<<"users">>, "id", {}, <<2, 1>>), Table(<<"log">>, "id", {<<"user">>}, <<1>>)>>,
   <<Table(<<"log">>, "id", {<<"user">>}, <<1>>), Table(<<"user">>, "other", {}, <<2, 1>>)>>,
   <<Table(<<"face", "gallery">>, "id", {<<"gallery">>}, <<1>>),
     Table(<<"print", "gallery">>, "id", {<<"gallery">>}, <<1>>)>>}

MCTokens ==
  [u1 |-> {"users", "42"}, u2 |-> {"posts"},
   q1 |-> {"users", "42"}, q2 |-> {"users"}, q3 |-> {"users", "7"},
   k2 |-> {"posts", "users"}]

Field(k, c) == [key |-> k, child |-> c]
Object(f) == [array |-> FALSE, fields |-> f]
Array(f) == [array |-> TRUE, fields |-> f]

\* A tree three deep, a cycle with a container that two fields share, and a dotted key.
MCHeaps ==
  {[root |-> 1,
    objects |-> <<Object(<<Field(<<"a">>, 2), Field(<<"b">>, 3)>>),
                  Object(<<Field(<<"a">>, 4), Field(<<"b">>, GrLeaf), Field(<<"c">>, GrLeaf)>>),
                  Array(<<Field(<<"0">>, GrLeaf)>>), Object(<<Field(<<"a">>, 5)>>), Object(<< >>)>>],
   [root |-> 1,
    objects |-> <<Object(<<Field(<<"a">>, 2), Field(<<"b">>, 3)>>),
                  Object(<<Field(<<"a">>, 3), Field(<<"b">>, 1)>>),
                  Array(<<Field(<<"0">>, GrLeaf), Field(<<"1">>, 2), Field(<<"2">>, GrLeaf)>>)>>],
   [root |-> 1,
    objects |-> <<Object(<<Field(<<"a">>, 2), Field(<<"a", "b">>, 3)>>), Object(<<Field(<<"b">>, 4)>>),
                  Object(<< >>), Object(<<Field(<<"a">>, GrLeaf)>>)>>]}

-----------------------------------------------------------------------------
MCInit ==
  /\ part \in Part
  /\ AlInit
  /\ KvInit /\ (part = "kv" \/ kvEngine = CHOOSE e \in KvEngine : TRUE)
  /\ NfInit
  /\ NvInit /\ (part = "nav" \/ (nvAdapter = "navigation" /\ nvStack[1].name = CHOOSE s \in NvScreen : TRUE))
  /\ StInit /\ (part = "stores" \/ stKind = "redux")
  /\ VaInit /\ (part = "values" \/ \A id \in VaIds : vaKind[id] = "object")
  /\ TeInit
  /\ DbInit /\ (part = "files" \/ dbPlatform = CHOOSE p \in DbPlatform : TRUE)
  /\ RlInit /\ CoInit
  /\ GrInit /\ (part = "graph" \/ grData = CHOOSE g \in GrHeaps : TRUE)

MCNext ==
  /\ UNCHANGED part
  /\ (part = "alerts" /\ AlNext) \/ (part # "alerts" /\ UNCHANGED alVars)
  /\ (part = "kv" /\ KvNext) \/ (part # "kv" /\ UNCHANGED kvVars)
  /\ (part = "network" /\ NfNext) \/ (part # "network" /\ UNCHANGED nfVars)
  /\ (part = "nav" /\ NvNext) \/ (part # "nav" /\ UNCHANGED nvVars)
  /\ (part = "stores" /\ StNext) \/ (part # "stores" /\ UNCHANGED stVars)
  /\ (part = "values" /\ VaNext) \/ (part # "values" /\ UNCHANGED vaVars)
  /\ (part = "telemetry" /\ TeNext) \/ (part # "telemetry" /\ UNCHANGED teVars)
  /\ (part = "files" /\ DbNext) \/ (part # "files" /\ UNCHANGED dbVars)
  /\ (part = "tables" /\ RlNext) \/ (part # "tables" /\ UNCHANGED rlVars)
  /\ (part = "links" /\ CoNext) \/ (part # "links" /\ UNCHANGED coVars)
  /\ (part = "graph" /\ GrNext) \/ (part # "graph" /\ UNCHANGED grVars)

MCVars == <<part, alVars, kvVars, nfVars, nvVars, stVars, vaVars, teVars, dbVars, rlVars,
            coVars, grVars>>

MCSpec == MCInit /\ [][MCNext]_MCVars

=============================================================================
