------------------------------- MODULE NavFeed -------------------------------
(***************************************************************************)
(* The navigation tab: what attachNavigation and useSpyglassReactRouter    *)
(* report of the app's routes, and the graph of screens the desktop adds   *)
(* up from it.  Screens are counted by name, routes have keys; the server  *)
(* keeps the last nav/state and nav/transition, and the page is given them *)
(* again when it starts and each time the app connects again, in any order *)
(* and on another path than the live events (as in NetworkFeed).           *)
(***************************************************************************)
EXTENDS Naturals, Sequences, SequencesExt

CONSTANTS
  NvScreen,
  NvAdapter, \* adapters of the instance, of NvAdapters
  NvNone,    \* no route
  NvMaxMoves, NvMaxAttach, NvMaxInputs \* bounds of the model: of each, of both and what disturbs the page

\* "transitionOnly" is the option of attachNavigation.
NvAdapters == {"navigation", "transitionOnly", "reactRouter"}
ASSUME NvAssumption == NvAdapter \subseteq NvAdapters /\ NvNone \notin NvScreen

VARIABLES
  nvAdapter,
  nvStack,   \* the app's routes: key and name, the current one last
  nvLast,    \* the adapter's lastRoute
  nvMoves, nvAttached, \* model bounds: keys handed out, attach calls
  nvSent,    \* transitions sent so far
  nvCache,   \* the server's last frame of each type
  nvEvents,  \* frames on their way to the page
  nvFetches, \* the page's calls of get_cached_messages, in the order they were made
  nvGraph,   \* AppData.navGraph
  nvApplied, \* history: transitions -> how often the graph has counted them
  nvCrossed, \* history: a replay and the live events have overtaken each other
  nvDisturbed \* model bound: reloads, reconnects and clears so far

nvApp == <<nvAdapter, nvStack, nvLast, nvMoves, nvAttached, nvSent>>
nvLink == <<nvCache, nvEvents, nvFetches>>
nvPage == <<nvGraph, nvApplied, nvCrossed, nvDisturbed>>
nvVars == <<nvApp, nvLink, nvPage>>

NvEmpty == [visits |-> << >>, edges |-> << >>, transitions |-> << >>, active |-> NvNone, last |-> NvNone]
NvConnected == [type |-> "app-connected"]

\* A call is "asked", "answered" with frames, or "done".
NvFetch(stage, frames) == [stage |-> stage, frames |-> frames]

NvInit ==
  /\ nvAdapter \in NvAdapter
  /\ \E s \in NvScreen : nvStack = <<[key |-> 0, name |-> s]>>
  /\ nvLast = NvNone /\ nvMoves = 0 /\ nvAttached = 0 /\ nvSent = 0
  /\ nvCache = {} /\ nvEvents = << >> /\ nvFetches = << >>
  /\ nvGraph = NvEmpty /\ nvApplied = << >> /\ nvCrossed = FALSE /\ nvDisturbed = 0

\* Model bound.
NvMayAct == nvMoves + nvAttached + nvDisturbed < NvMaxInputs

NvKey(route) == IF nvAdapter = "reactRouter" THEN route.name ELSE route.key

NvStateFrame(stack) ==
  <<[type |-> "nav/state", names |-> [i \in DOMAIN stack |-> stack[i].name], active |-> Last(stack).name]>>

\* emitTransition sends nothing while the current route is the one it reported last.
NvTransitionFrame(last, stack) ==
  LET to == Last(stack)
  IN IF last # NvNone /\ NvKey(last) = NvKey(to) THEN << >>
     ELSE <<[type |-> "nav/transition", from |-> IF last = NvNone THEN NvNone ELSE last.name,
             to |-> to.name, key |-> NvKey(to), n |-> nvSent + 1]>>

\* The frames of one effect or listener call, in the adapter's order.
NvFrames(last, stack, attaching) ==
  LET transition == NvTransitionFrame(last, stack)
  IN CASE attaching \/ nvAdapter = "reactRouter" -> NvStateFrame(stack) \o transition
       [] nvAdapter = "transitionOnly" -> transition
       [] OTHER -> transition \o NvStateFrame(stack)

NvReport(last, stack, attaching) ==
  LET frames == NvFrames(last, stack, attaching)
  IN /\ nvLast' = Last(stack)
     /\ nvSent' = nvSent + Len(NvTransitionFrame(last, stack))
     /\ nvEvents' = nvEvents \o frames
     /\ nvCache' = {f \in nvCache : \A g \in ToSet(frames) : g.type # f.type} \cup ToSet(frames)
     /\ UNCHANGED <<nvFetches, nvPage>>

\* attachNavigation, or the mount of the hook; a remount has forgotten lastRoute.
NvAttach ==
  /\ NvMayAct /\ nvAttached < NvMaxAttach /\ nvAttached' = nvAttached + 1
  /\ NvReport(NvNone, nvStack, TRUE)
  /\ UNCHANGED <<nvAdapter, nvStack, nvMoves>>

\* The app navigates: a push, a pop, or a replace of the URL.
NvMove(stack) ==
  /\ NvMayAct /\ nvAttached > 0 /\ nvMoves < NvMaxMoves /\ nvMoves' = nvMoves + 1
  /\ nvStack' = stack
  /\ NvReport(nvLast, stack, FALSE)
  /\ UNCHANGED <<nvAdapter, nvAttached>>

NvPush(s) == NvMove(LET route == [key |-> nvMoves + 1, name |-> s]
                    IN IF nvAdapter = "reactRouter" THEN <<route>> ELSE Append(nvStack, route))
NvPop == Len(nvStack) > 1 /\ NvMove(Front(nvStack))

-----------------------------------------------------------------------------

\* What is entered is not counted yet.
NvEntered(f, S) == [y \in DOMAIN f \cup S |-> IF y \in DOMAIN f THEN f[y] ELSE 0]
NvCount(f, x) == [NvEntered(f, {x}) EXCEPT ![x] = @ + 1]

\* applyNavStateToGraph makes nodes and edges, and counts neither.
NvApplyState(g, f) ==
  [g EXCEPT !.visits = NvEntered(@, ToSet(f.names)),
            !.edges = NvEntered(@, {<<f.names[i], f.names[i + 1]>> : i \in 1..Len(f.names) - 1}),
            !.active = f.active]

\* Mutant: the replay of the last transition is not recognised.
MutNvIsReplay(g, f) == FALSE
NvIsReplay(g, f) == f.key = g.last

\* applyNavTransitionToGraph
NvApplyTransition(g, f) ==
  IF NvIsReplay(g, f) THEN g
  ELSE LET seen == NvCount(g.visits, f.to)
       IN [visits |-> IF f.from = NvNone THEN seen ELSE NvEntered(seen, {f.from}),
           edges |-> IF f.from = NvNone THEN g.edges ELSE NvCount(g.edges, <<f.from, f.to>>),
           transitions |-> <<[from |-> f.from, to |-> f.to]>> \o g.transitions,
           active |-> f.to, last |-> f.key]

NvApply(g, f) == IF f.type = "nav/state" THEN NvApplyState(g, f) ELSE NvApplyTransition(g, f)

\* The graph, with the transitions it has counted.
NvShown == [graph |-> nvGraph, counted |-> nvApplied]
NvStep(shown, f) ==
  [graph |-> NvApply(shown.graph, f),
   counted |-> IF f.type = "nav/transition" /\ ~NvIsReplay(shown.graph, f)
               THEN NvCount(shown.counted, f.n) ELSE shown.counted]

NvShow(shown) == nvGraph' = shown.graph /\ nvApplied' = shown.counted

NvDisturbs == NvMayAct /\ nvDisturbed' = nvDisturbed + 1

\* The app connects again: app-connected goes the way of the frames.
NvConnects ==
  /\ NvDisturbs
  /\ nvEvents' = Append(nvEvents, NvConnected)
  /\ UNCHANGED <<nvApp, nvCache, nvFetches, nvGraph, nvApplied, nvCrossed>>

\* onAppConnected: the page asks for the cache, whatever it has counted already.
NvConnectArrives ==
  /\ nvEvents # << >> /\ Head(nvEvents) = NvConnected
  /\ nvEvents' = Tail(nvEvents)
  /\ nvFetches' = Append(nvFetches, NvFetch("asked", << >>))
  /\ UNCHANGED <<nvApp, nvCache, nvPage>>

NvEventArrives ==
  /\ nvEvents # << >> /\ Head(nvEvents) # NvConnected
  /\ nvEvents' = Tail(nvEvents)
  /\ NvShow(NvStep(NvShown, Head(nvEvents)))
  /\ UNCHANGED <<nvApp, nvCache, nvFetches, nvCrossed, nvDisturbed>>

\* A new page: it listens from now on and asks for the cache.
NvReload ==
  /\ NvDisturbs
  /\ nvEvents' = << >> /\ nvFetches' = <<NvFetch("asked", << >>)>>
  /\ nvGraph' = NvEmpty /\ nvApplied' = << >> /\ nvCrossed' = FALSE
  /\ UNCHANGED <<nvApp, nvCache>>

NvServerAnswers(i) ==
  /\ nvFetches[i].stage = "asked"
  /\ \E order \in SetToSeqs(nvCache) : nvFetches' = [nvFetches EXCEPT ![i] = NvFetch("answered", order)]
  /\ UNCHANGED <<nvApp, nvCache, nvEvents, nvPage>>

NvTransitions(frames) == {f \in ToSet(frames) : f.type = "nav/transition"}

\* A replayed transition overtaken by a later live one, or that overtakes an earlier one.
NvCrosses(replayed) ==
  \E f \in replayed : \/ \E m \in DOMAIN nvApplied : m > f.n
                      \/ \E g \in NvTransitions(nvEvents) : f.n > g.n

NvStepped(shown, frames) ==
  LET after[i \in 0..Len(frames)] == IF i = 0 THEN shown ELSE NvStep(after[i - 1], frames[i])
  IN after[Len(frames)]

\* hydrateFromCache
NvHydrate(i) ==
  /\ nvFetches[i].stage = "answered"
  /\ nvFetches' = [nvFetches EXCEPT ![i] = NvFetch("done", << >>)]
  /\ NvShow(NvStepped(NvShown, nvFetches[i].frames))
  /\ nvCrossed' = (nvCrossed \/ NvCrosses(NvTransitions(nvFetches[i].frames)))
  /\ UNCHANGED <<nvApp, nvCache, nvEvents, nvDisturbed>>

NvClear ==
  /\ NvDisturbs
  /\ nvGraph' = NvEmpty /\ nvApplied' = << >>
  /\ UNCHANGED <<nvApp, nvLink, nvCrossed>>

NvNext ==
  \/ NvAttach \/ NvPop \/ \E s \in NvScreen : NvPush(s)
  \/ NvConnects \/ NvEventArrives \/ NvConnectArrives \/ NvReload \/ NvClear
  \/ \E i \in DOMAIN nvFetches : NvServerAnswers(i) \/ NvHydrate(i)

NvSpec == NvInit /\ [][NvNext]_nvVars

-----------------------------------------------------------------------------

\* NavGraph.lastAppliedRouteKey: "without this guard, that replay would double-count": a
\* transition is counted once at most.  Excepted is a replay that crossed the live events.
NvCountedOnce == ~nvCrossed => \A n \in DOMAIN nvApplied : nvApplied[n] <= 1

=============================================================================
