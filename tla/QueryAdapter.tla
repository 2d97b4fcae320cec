---------------------------- MODULE QueryAdapter -----------------------------
(***************************************************************************)
(* The React Query adapter: attached any number of times to one client,    *)
(* its single slots for the write and the command handler, the desktop's   *)
(* query/write and query/command frames, and the queries the desktop       *)
(* shows.  (WriteChannel has the desktop's pending entries.)               *)
(*                                                                         *)
(* A frame is accepted in one step and handled in a microtask, in which    *)
(* the slot is read again.  The cache is synchronous: a write runs the     *)
(* app's observers before it returns, and they may write or remove the     *)
(* query.  Frames keep their order and act on the desktop when sent.       *)
(***************************************************************************)
EXTENDS Naturals, Sequences, FiniteSets

CONSTANTS
  QaHash,      \* query hashes; a custom queryKeyHashFn makes them underivable
  QaData,      \* query data
  QaMaxAttach, QaMaxFrames, QaMaxTime, QaMaxApp \* bounds of the model

VARIABLES
  qaSetData,  \* the client's queries have setData (query-core >= 5)
  qaCache,    \* hash -> the query: data, dataUpdatedAt, whether the hash is custom
  qaNow,      \* the clock, in milliseconds
  qaAttached, qaCount, \* adapters attached now, and ever
  qaWriter, qaCommander, \* queryWriteHandler, queryCommandHandler: an adapter, or 0
  qaJobs,     \* accepted frames, in the order of their microtasks
  qaReplies,  \* frame -> the reply: an error code, "wrote" or "done"
  qaTook,     \* history: frames that gave the addressed query its data
  qaView,     \* the desktop's `queries`
  qaApp       \* model bound

qaClient == <<qaCache, qaView>>
qaSlots == <<qaAttached, qaCount, qaWriter, qaCommander>>
qaChannel == <<qaJobs, qaReplies, qaTook>>
qaVars == <<qaSetData, qaNow, qaClient, qaSlots, qaChannel, qaApp>>

QaInit ==
  /\ qaSetData \in BOOLEAN
  /\ qaCache = << >> /\ qaView = << >> /\ qaNow = 0
  /\ qaAttached = {} /\ qaCount = 0 /\ qaWriter = 0 /\ qaCommander = 0
  /\ qaJobs = << >> /\ qaReplies = << >> /\ qaTook = {} /\ qaApp = 0

QaPut(f, x, v) == [y \in DOMAIN f \cup {x} |-> IF y = x THEN v ELSE f[y]]
QaSet(cache, h, d, custom) == QaPut(cache, h, [data |-> d, at |-> qaNow, custom |-> custom])
QaWithout(cache, h) == [x \in DOMAIN cache \ {h} |-> cache[x]]

\* Every cache event is reported by every adapter; the desktop keeps the last report.
QaCacheIs(cache) ==
  /\ qaCache' = cache
  /\ qaView' = IF qaAttached = {} THEN qaView
               ELSE [h \in (DOMAIN qaView \ (DOMAIN qaCache \ DOMAIN cache)) \cup DOMAIN cache |->
                       IF h \in DOMAIN cache THEN cache[h] ELSE qaView[h]]

QaAppSets(h, d) ==
  /\ qaApp < QaMaxApp /\ qaApp' = qaApp + 1
  /\ \E custom \in BOOLEAN :
       /\ h \in DOMAIN qaCache => custom = qaCache[h].custom
       /\ QaCacheIs(QaSet(qaCache, h, d, custom))
  /\ UNCHANGED <<qaSetData, qaNow, qaSlots, qaChannel>>

QaAppRemoves(h) ==
  /\ h \in DOMAIN qaCache /\ qaApp < QaMaxApp /\ qaApp' = qaApp + 1
  /\ QaCacheIs(QaWithout(qaCache, h))
  /\ UNCHANGED <<qaSetData, qaNow, qaSlots, qaChannel>>

QaTick ==
  /\ qaNow < QaMaxTime /\ qaNow' = qaNow + 1
  /\ UNCHANGED <<qaSetData, qaClient, qaSlots, qaChannel, qaApp>>

QaAttach ==
  /\ qaCount < QaMaxAttach
  /\ qaCount' = qaCount + 1 /\ qaAttached' = qaAttached \cup {qaCount + 1}
  /\ qaWriter' = qaCount + 1 /\ qaCommander' = qaCount + 1
  /\ qaView' = qaCache
  /\ UNCHANGED <<qaSetData, qaCache, qaNow, qaChannel, qaApp>>

QaFreed(slot, n) == IF slot = n THEN 0 ELSE slot

QaDetach(n) ==
  /\ n \in qaAttached /\ qaAttached' = qaAttached \ {n}
  /\ qaWriter' = QaFreed(qaWriter, n) /\ qaCommander' = QaFreed(qaCommander, n)
  /\ UNCHANGED <<qaSetData, qaNow, qaClient, qaCount, qaChannel, qaApp>>

QaReply(i, code) == qaReplies' = QaPut(qaReplies, i, code)

\* "none" stands for a payload without `data`.
QaReceive(kind, h, d) ==
  LET i == Cardinality(DOMAIN qaReplies) + Len(qaJobs) + 1
      slot == IF kind = "write" THEN qaWriter ELSE qaCommander
  IN /\ i <= QaMaxFrames
     /\ IF slot = 0 THEN QaReply(i, "no-adapter") /\ UNCHANGED qaJobs
        ELSE IF kind = "write" /\ d = "none" THEN QaReply(i, "invalid-data") /\ UNCHANGED qaJobs
        ELSE /\ qaJobs' = Append(qaJobs, [id |-> i, kind |-> kind, hash |-> h, data |-> d])
             /\ UNCHANGED qaReplies
     /\ UNCHANGED <<qaSetData, qaNow, qaClient, qaSlots, qaTook, qaApp>>

\* What the write makes of the cache: setData works on the query that was found,
\* setQueryData derives the hash again, and gives a query under a custom one a twin beside it.  Then the observers run.
QaWritten(job) ==
  LET found == qaCache[job.hash]
      missed == ~qaSetData /\ found.custom
      next == IF missed THEN qaCache ELSE QaSet(qaCache, job.hash, job.data, found.custom)
  IN {next} \cup IF missed THEN {}
       ELSE {QaWithout(next, job.hash)} \cup {QaSet(next, job.hash, d, found.custom) : d \in QaData}

\* Mutant: a write that did not throw is taken for applied.
MutQaVerdict(job, after) == IF job.hash \in DOMAIN after THEN "wrote" ELSE "not-applied"

\* The write is proved by reading the query again.
QaVerdict(job, after) ==
  IF job.hash \notin DOMAIN after THEN "not-applied"
  ELSE IF after[job.hash].at = qaCache[job.hash].at /\ after[job.hash].data = qaCache[job.hash].data
       THEN "not-applied" ELSE "wrote"

QaHandleWrite(job) ==
  \E after \in QaWritten(job) :
    /\ QaCacheIs(after)
    /\ QaReply(job.id, QaVerdict(job, after))
    /\ qaTook' = qaTook \cup
         IF qaSetData \/ ~qaCache[job.hash].custom THEN {job.id} ELSE {}

\* refetch, invalidate and reset end in a result of the app's own fetch, or leave the query.
QaHandleCommand(job) ==
  /\ \E after \in {qaCache, QaWithout(qaCache, job.hash)}
                  \cup {QaSet(qaCache, job.hash, d, qaCache[job.hash].custom) : d \in QaData} :
       QaCacheIs(after)
  /\ QaReply(job.id, "done") /\ UNCHANGED qaTook

\* The microtask: the slot can have been emptied since the frame was accepted.
QaHandle ==
  /\ qaJobs # << >> /\ qaJobs' = Tail(qaJobs)
  /\ LET job == Head(qaJobs)
         slot == IF job.kind = "write" THEN qaWriter ELSE qaCommander
     IN IF slot = 0 THEN QaReply(job.id, "engine-error") /\ UNCHANGED <<qaClient, qaTook>>
        ELSE IF job.hash \notin DOMAIN qaCache
             THEN QaReply(job.id, "no-query") /\ UNCHANGED <<qaClient, qaTook>>
        ELSE IF job.kind = "write" THEN QaHandleWrite(job) ELSE QaHandleCommand(job)
  /\ UNCHANGED <<qaSetData, qaNow, qaSlots, qaApp>>

QaNext ==
  \/ \E h \in QaHash, d \in QaData : QaAppSets(h, d)
  \/ \E h \in QaHash : QaAppRemoves(h) \/ QaReceive("command", h, "none")
                       \/ \E d \in QaData \cup {"none"} : QaReceive("write", h, d)
  \/ QaTick \/ QaAttach \/ QaHandle
  \/ \E n \in 1..QaMaxAttach : QaDetach(n)

QaSpec == QaInit /\ [][QaNext]_qaVars

-----------------------------------------------------------------------------

\* reactQuery.ts: "Don't infer success from 'it didn't throw'": a write is answered as
\* done only if the query with that hash was given the data, in any order of attaching,
\* detaching, removals and frames; and a query that an attached adapter reports is shown
\* as the cache has it.
QaHonest ==
  /\ \A i \in DOMAIN qaReplies : qaReplies[i] = "wrote" => i \in qaTook
  /\ qaAttached # {} => qaView = qaCache

=============================================================================
