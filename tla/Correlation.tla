---------------------------- MODULE Correlation -----------------------------
(***************************************************************************)
(* correlateNetworkEntry: which query and which storage key a request's    *)
(* data went to, guessed from the words of its path and from what changed  *)
(* about when its response came, while the app goes on reporting.          *)
(***************************************************************************)
EXTENDS Naturals, FiniteSets

CONSTANTS
  CoQuery, CoKey,   \* the candidates, of the Queries and of the Storage tab
  CoUrl,            \* requests, by their path; CoOrphan is the url "?" of a response alone
  CoOrphan, CoNone,
  CoTokens,         \* the tokens of a url, a query key or a storage key
  CoWindow,         \* TIMING_WINDOW_MS
  CoMaxTime         \* bound of the model

ASSUME CoAssumption ==
  /\ IsFiniteSet(CoQuery) /\ IsFiniteSet(CoKey)
  /\ \A x \in CoUrl \cup CoQuery \cup CoKey : IsFiniteSet(CoTokens[x])

VARIABLES
  coNow,
  coEntry,    \* the request that is shown [url, startedAt, duration], or CoNone
  coHere,     \* the candidates the desktop has: queries and storage entries
  coKnown,    \* a snapshot of the storage has come
  coChanged   \* queriesMeta and storageMeta: when each last changed, or CoNone

coVars == <<coNow, coEntry, coHere, coKnown, coChanged>>

CoInit ==
  /\ coNow = 0 /\ coEntry = CoNone /\ coHere = {} /\ coKnown = FALSE
  /\ coChanged = [c \in CoQuery \cup CoKey |-> CoNone]

CoPass ==
  /\ coNow < CoMaxTime /\ coNow' = coNow + 1
  /\ UNCHANGED <<coEntry, coHere, coKnown, coChanged>>

CoRequest(u) ==
  /\ coEntry = CoNone
  /\ coEntry' = [url |-> u, startedAt |-> coNow, duration |-> CoNone]
  /\ UNCHANGED <<coNow, coHere, coKnown, coChanged>>

\* The response, or a response whose request was never seen.
CoResponse ==
  /\ coEntry' = IF coEntry = CoNone THEN [url |-> CoOrphan, startedAt |-> coNow, duration |-> 0]
                ELSE [coEntry EXCEPT !.duration = coNow - coEntry.startedAt]
  /\ coEntry # CoNone => coEntry.duration = CoNone
  /\ UNCHANGED <<coNow, coHere, coKnown, coChanged>>

\* A snapshot says what there is, not when it changed; a change says both.
CoSnapshot(domain, here) ==
  /\ coHere' = (coHere \ domain) \cup here
  /\ coKnown' = (coKnown \/ domain = CoKey)
  /\ UNCHANGED <<coNow, coEntry, coChanged>>

\* A change of a key is noted before any snapshot of its engine has come, but adds no entry.
CoChange(c) ==
  /\ coHere' = IF c \in CoKey /\ ~coKnown THEN coHere ELSE coHere \cup {c}
  /\ coChanged' = [coChanged EXCEPT ![c] = coNow]
  /\ UNCHANGED <<coNow, coEntry, coKnown>>

CoRemove(c) ==
  /\ coHere' = coHere \ {c} /\ coChanged' = [coChanged EXCEPT ![c] = coNow]
  /\ UNCHANGED <<coNow, coEntry, coKnown>>

CoNext ==
  \/ CoPass \/ CoResponse \/ \E u \in CoUrl : CoRequest(u)
  \/ \E here \in SUBSET CoQuery : CoSnapshot(CoQuery, here)
  \/ \E here \in SUBSET CoKey : CoSnapshot(CoKey, here)
  \/ \E c \in CoQuery \cup CoKey : CoChange(c) \/ CoRemove(c)

CoSpec == CoInit /\ [][CoNext]_coVars
-----------------------------------------------------------------------------

CoOverlap(c) == Cardinality(CoTokens[coEntry.url] \cap CoTokens[c])

CoRespondedAt == coEntry.startedAt + (IF coEntry.duration = CoNone THEN 0 ELSE coEntry.duration)

CoTimed(c) ==
  /\ coChanged[c] # CoNone
  /\ coChanged[c] - CoRespondedAt <= CoWindow /\ CoRespondedAt - coChanged[c] <= CoWindow

CoCandidates(domain) ==
  IF coEntry = CoNone \/ coEntry.url = CoOrphan THEN {}
  ELSE {c \in domain \cap coHere : CoOverlap(c) > 0}

\* pickBest.  Mutant: when the timing leaves a tie, the overlap alone decides.
MutCoPickBest(candidates) ==
  LET top(pool) == {c \in pool : \A d \in pool : CoOverlap(d) <= CoOverlap(c)}
      timed == top({c \in candidates : CoTimed(c)})
  IN IF Cardinality(timed) = 1 THEN timed
     ELSE IF Cardinality(top(candidates)) = 1 THEN top(candidates) ELSE {}

CoPickBest(candidates) ==
  LET timed == {c \in candidates : CoTimed(c)}
      pool == IF timed # {} THEN timed ELSE candidates
      top == {c \in pool : \A d \in pool : CoOverlap(d) <= CoOverlap(c)}
  IN IF Cardinality(top) = 1 THEN top ELSE {}

CoLink(domain) == CoPickBest(CoCandidates(domain))

\* The candidates that a step is about.
CoTouched(domain) ==
  {d \in domain : (d \in coHere) # (d \in coHere') \/ coChanged'[d] # coChanged[d]}

\* The link is computed anew with every report, while the user is about to follow it and edit
\* what it leads to.  A report about other candidates may withdraw it or put one of those in
\* its place, but never moves it to a third; and other candidates that go away leave it alone.
CoLinkHolds ==
  [][coEntry' = coEntry =>
       \A domain \in {CoQuery, CoKey} : \A c \in domain \ CoTouched(domain) :
         CoLink(domain) = {c} =>
           /\ CoLink(domain)' \subseteq {c} \cup (CoTouched(domain) \cap coHere')
           /\ CoTouched(domain) \cap coHere' = {} => CoLink(domain)' = {c}]_coVars

\* correlateNetworkEntry.ts: the timing is "used only to break a tie between two equally-strong
\* token matches".  pickBest does not keep this: it looks at the timing first.
CoTimingBreaksTies ==
  \A domain \in {CoQuery, CoKey} : \A c \in CoLink(domain), d \in CoCandidates(domain) :
    CoOverlap(d) <= CoOverlap(c)

=============================================================================
