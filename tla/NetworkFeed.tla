----------------------------- MODULE NetworkFeed -----------------------------
(***************************************************************************)
(* The network tab: what attachNetwork reports of the app's exchanges, and *)
(* the rows the desktop makes of it.                                       *)
(*                                                                         *)
(* An XMLHttpRequest object can be used again; every send() adds listeners *)
(* to it that are never taken off.  The page of the desktop asks the       *)
(* server for the last frame of every type when it is reloaded and each    *)
(* time the app connects again, be its list filled or cleared; the frames  *)
(* arrive in the order of a HashMap and on another path than the live      *)
(* events.  Exchanges are numbered; a row keeps the number of the exchange *)
(* whose outcome it shows, which the code does not know.  What a broken    *)
(* connection loses of the app's frames is not in this module.             *)
(***************************************************************************)
EXTENDS Naturals, Sequences, SequencesExt

CONSTANTS
  NfXhr,     \* XMLHttpRequest objects of the app
  NfOutcome, \* outcomes of an exchange, of NfOutcomes
  NfNone,    \* nothing
  NfMaxRows, \* MAX_NETWORK_ENTRIES
  NfMaxSends, NfMaxInputs \* bounds of the model: of requests, of requests and what disturbs the page

\* No answer; an answer of 2xx; a 3xx the XHR patch flags as not ok; 4xx; 5xx.
NfOutcomes == {"failed", "ok", "redirect", "client", "server"}
ASSUME NfAssumption ==
  /\ NfOutcome \subseteq NfOutcomes /\ NfNone \notin NfOutcomes
  /\ "fetch" \notin NfXhr /\ NfMaxRows \in Nat \ {0}

VARIABLES
  nfVia,       \* exchange -> its XMLHttpRequest, or "fetch"
  nfListening, \* object -> exchanges with listeners on it
  nfRunning,   \* exchanges that have not settled
  nfCache,     \* the server's last network/request and network/response
  nfEvents,    \* frames on their way to the page
  nfFetches,   \* the page's calls of get_cached_messages, in the order they were made
  nfRows,      \* AppData.network, newest first
  nfReplayed,  \* history: requests that were replayed to the page after it was told their end
  nfDisturbed  \* model bound: reloads, reconnects and clears so far

nfApp == <<nfVia, nfListening, nfRunning>>
nfPage == <<nfFetches, nfRows, nfReplayed, nfDisturbed>>
nfVars == <<nfApp, nfCache, nfEvents, nfPage>>

NfRequest(n) == [type |-> "request", id |-> n, of |-> n, outcome |-> NfNone]
NfResponse(n, of, outcome) == [type |-> "response", id |-> n, of |-> of, outcome |-> outcome]

NfConnected == [type |-> "connected"]

\* A call is "asked", "answered" with frames, or "done".
NfFetch(stage, frames) == [stage |-> stage, frames |-> frames]

NfInit ==
  /\ nfVia = << >> /\ nfListening = [x \in NfXhr |-> << >>] /\ nfRunning = {}
  /\ nfCache = {} /\ nfEvents = << >>
  /\ nfFetches = << >> /\ nfRows = << >> /\ nfReplayed = {}
  /\ nfDisturbed = 0

\* The server keeps the last frame of a type and passes every frame on.
NfEmit(frames) ==
  /\ nfEvents' = nfEvents \o frames
  /\ nfCache' = {f \in nfCache : \A g \in ToSet(frames) : g.type # f.type}
                  \cup IF frames = << >> THEN {} ELSE {Last(frames)}

\* open() and send(): open() on an object in use drops its exchange without an event.
NfXhrSend(x) ==
  LET n == Len(nfVia) + 1
  IN /\ n <= NfMaxSends /\ n + nfDisturbed <= NfMaxInputs
     /\ nfVia' = Append(nfVia, x)
     /\ nfListening' = [nfListening EXCEPT ![x] = Append(@, n)]
     /\ nfRunning' = {m \in nfRunning : nfVia[m] # x} \cup {n}
     /\ NfEmit(<<NfRequest(n)>>)
     /\ UNCHANGED nfPage

\* load, error, timeout or abort: every listener on the object reports it as its own.
NfXhrSettles(n, outcome) ==
  /\ n \in nfRunning /\ nfVia[n] \in NfXhr
  /\ nfRunning' = nfRunning \ {n}
  /\ NfEmit([i \in DOMAIN nfListening[nfVia[n]] |-> NfResponse(nfListening[nfVia[n]][i], n, outcome)])
  /\ UNCHANGED <<nfVia, nfListening, nfPage>>

NfFetchSend ==
  LET n == Len(nfVia) + 1
  IN /\ n <= NfMaxSends /\ n + nfDisturbed <= NfMaxInputs
     /\ nfVia' = Append(nfVia, "fetch")
     /\ nfRunning' = nfRunning \cup {n}
     /\ NfEmit(<<NfRequest(n)>>)
     /\ UNCHANGED <<nfListening, nfPage>>

\* The body has been read as well, or the call or the read of the body threw.
NfFetchSettles(n, outcome) ==
  /\ n \in nfRunning /\ nfVia[n] = "fetch"
  /\ nfRunning' = nfRunning \ {n}
  /\ NfEmit(<<NfResponse(n, n, outcome)>>)
  /\ UNCHANGED <<nfVia, nfListening, nfPage>>

NfRow(f) == [id |-> f.id, known |-> f.type = "request", of |-> f.of, outcome |-> f.outcome]
NfPut(row, rows) == SubSeq(<<row>> \o rows, 1, IF Len(rows) < NfMaxRows THEN Len(rows) + 1 ELSE NfMaxRows)
NfIndex(rows, id) == {i \in DOMAIN rows : rows[i].id = id}

\* Mutant: a request is not looked up before it is put in front.
MutNfApply(rows, f) ==
  IF f.type = "request" \/ NfIndex(rows, f.id) = {} THEN NfPut(NfRow(f), rows)
  ELSE [i \in DOMAIN rows |->
          IF i \in NfIndex(rows, f.id) THEN [rows[i] EXCEPT !.of = f.of, !.outcome = f.outcome] ELSE rows[i]]

\* network/request is dropped when there is a row of its id, even one its response made.
NfApply(rows, f) ==
  IF NfIndex(rows, f.id) = {} THEN NfPut(NfRow(f), rows)
  ELSE IF f.type = "request" THEN rows
  ELSE [i \in DOMAIN rows |->
          IF i \in NfIndex(rows, f.id) THEN [rows[i] EXCEPT !.of = f.of, !.outcome = f.outcome] ELSE rows[i]]

NfApplied(rows, frames) ==
  LET after[i \in 0..Len(frames)] == IF i = 0 THEN rows ELSE NfApply(after[i - 1], frames[i])
  IN after[Len(frames)]

\* Model bound.
NfDisturbs ==
  /\ Len(nfVia) + nfDisturbed < NfMaxInputs
  /\ nfDisturbed' = nfDisturbed + 1

\* The app connects again: app-connected goes the way of the frames.
NfConnects ==
  /\ NfDisturbs
  /\ nfEvents' = Append(nfEvents, NfConnected)
  /\ UNCHANGED <<nfApp, nfCache, nfFetches, nfRows, nfReplayed>>

NfEventArrives ==
  /\ nfEvents # << >> /\ Head(nfEvents) # NfConnected
  /\ nfEvents' = Tail(nfEvents)
  /\ nfRows' = NfApply(nfRows, Head(nfEvents))
  /\ UNCHANGED <<nfApp, nfCache, nfFetches, nfReplayed, nfDisturbed>>

\* onAppConnected: the page asks for the cache, whatever it shows already.
NfConnectArrives ==
  /\ nfEvents # << >> /\ Head(nfEvents) = NfConnected
  /\ nfEvents' = Tail(nfEvents)
  /\ nfFetches' = Append(nfFetches, NfFetch("asked", << >>))
  /\ UNCHANGED <<nfApp, nfCache, nfRows, nfReplayed, nfDisturbed>>

\* A new page: it listens from now on and asks for the cache.
NfReload ==
  /\ NfDisturbs
  /\ nfEvents' = << >> /\ nfRows' = << >> /\ nfReplayed' = {}
  /\ nfFetches' = <<NfFetch("asked", << >>)>>
  /\ UNCHANGED <<nfApp, nfCache>>

NfServerAnswers(i) ==
  /\ nfFetches[i].stage = "asked"
  /\ \E order \in SetToSeqs(nfCache) : nfFetches' = [nfFetches EXCEPT ![i] = NfFetch("answered", order)]
  /\ UNCHANGED <<nfApp, nfCache, nfEvents, nfRows, nfReplayed, nfDisturbed>>

\* Exchanges that have ended, with no news of it on the way to the page.
NfTold(n) ==
  n \notin nfRunning /\ \A i \in DOMAIN nfEvents : nfEvents[i].type = "response" => nfEvents[i].id # n

\* hydrateFromCache
NfHydrate(i) ==
  LET frames == nfFetches[i].frames
      requests == {f \in ToSet(frames) : f.type = "request"}
  IN /\ nfFetches[i].stage = "answered"
     /\ nfFetches' = [nfFetches EXCEPT ![i] = NfFetch("done", << >>)]
     /\ nfRows' = NfApplied(nfRows, frames)
     /\ nfReplayed' = nfReplayed \cup {f.id : f \in {g \in requests : NfTold(g.id)}}
     /\ UNCHANGED <<nfApp, nfCache, nfEvents, nfDisturbed>>

NfClear ==
  /\ NfDisturbs
  /\ nfRows' = << >>
  /\ UNCHANGED <<nfApp, nfCache, nfEvents, nfFetches, nfReplayed>>

NfNext ==
  \/ \E x \in NfXhr : NfXhrSend(x)
  \/ NfFetchSend
  \/ \E n \in nfRunning, outcome \in NfOutcome : NfXhrSettles(n, outcome) \/ NfFetchSettles(n, outcome)
  \/ NfConnects \/ NfEventArrives \/ NfConnectArrives \/ NfReload \/ NfClear
  \/ \E i \in DOMAIN nfFetches : NfServerAnswers(i) \/ NfHydrate(i)

NfSpec == NfInit /\ [][NfNext]_nfVars
-----------------------------------------------------------------------------

\* networkStatus.ts, for the pill's colour and for the filters.
NfBucket(row) ==
  CASE row.outcome = NfNone -> "pending"
    [] row.outcome = "redirect" -> "client"
    [] OTHER -> row.outcome

NfFiltered(rows, buckets) ==
  {rows[i] : i \in {j \in DOMAIN rows : buckets = {} \/ NfBucket(rows[j]) \in buckets}}

NfSettled == nfEvents = << >> /\ \A i \in DOMAIN nfFetches : nfFetches[i].stage = "done"

NfReused(m, n) == m # n /\ nfVia[m] = nfVia[n] /\ nfVia[n] \in NfXhr

NfStillOpen(n) == n \in nfRunning \/ \E m \in n + 1..Len(nfVia) : NfReused(m, n)

\* connection.ts, "the same request shows up twice": an exchange has one row, whatever is
\* replayed onto whatever page; the outcome in it is its own unless the app used one
\* XMLHttpRequest for both; and with nothing on the way, what is listed as pending is running
\* or was dropped by open() - unless it was replayed after the page had been told its end.
NfRowsHonest ==
  /\ \A i, j \in DOMAIN nfRows : nfRows[i].id = nfRows[j].id => i = j
  /\ \A i \in DOMAIN nfRows : nfRows[i].of = nfRows[i].id \/ NfReused(nfRows[i].of, nfRows[i].id)
  /\ NfSettled => \A row \in NfFiltered(nfRows, {"pending"}) : NfStillOpen(row.id) \/ row.id \in nfReplayed

\* The same without the exception: what is listed as pending has not ended.  The code does not
\* keep this: after a clear, the replay of a reconnect brings a request back without its response.
NfPendingTrue ==
  NfSettled => \A row \in NfFiltered(nfRows, {"pending"}) : NfStillOpen(row.id)

=============================================================================
