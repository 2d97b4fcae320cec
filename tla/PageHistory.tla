---------------------------- MODULE PageHistory ----------------------------
(***************************************************************************)
(* UiMirror with history variables that say what the page has been told:   *)
(* the bootstrap asks for the list before its listeners are registered,    *)
(* and what is emitted in between reaches nobody.  What the page promises  *)
(* about the list and the stores is a promise about what it was told.      *)
(***************************************************************************)
EXTENDS UiMirror

VARIABLES
  told,   \* runs this page was told of, by the list or by an event
  met,    \* those announced by an event when the list had arrived
  missed, \* runs with an event that this page did not listen for
  muted,  \* runs marked connected again, by a frame that is not a hello, since it was last reported
  raced,  \* runs whose last report was under way at the same time as one of the opposite
  fresh   \* fields reported live since the last replay of the cache

history == <<told, met, missed, muted, raced, fresh>>
hiVars == <<vars, history>>

HiInit == Init /\ told = {} /\ met = {} /\ missed = {} /\ muted = {} /\ raced = {} /\ fresh = {}

Reloaded == reloads' > reloads
Took == ~Reloaded /\ Len(events') < Len(events)
Listed == ~Reloaded /\ listing = "answered" /\ listing' = "done"
Forgotten == IF forgets' > forgets THEN DOMAIN pill \ DOMAIN pill' ELSE {}
Unheard ==
  {r \in Run : events' = events /\ (Len(emitting'[r]) < Len(emitting[r]) \/ dropping'[r] < dropping[r])}
Replayed == {fetches[i].run : i \in {j \in DOMAIN fetches : fetches' = RemoveAt(fetches, j)}}

\* What the registry has the page told of a run: that it is connected, or no longer.
Rising(r) == emitting[r] # << >> /\ Head(emitting[r]).kind = "connected"
Raised == {r \in Run : ~Rising(r) /\ Rising(r)'}
Lowered == {r \in Run : dropping'[r] > dropping[r]}
\* Registry::record of a frame that is not a hello sets the flag and tells nobody.
Revived == {r \in DOMAIN reg \ Raised : ~reg[r] /\ r \in DOMAIN reg' /\ reg'[r]}

Flagged ==
  /\ muted' = (muted \cup Revived) \ (Raised \cup Lowered)
  /\ raced' = (raced \ (Raised \cup Lowered))
                \cup {r \in Raised : dropping[r] > 0} \cup {r \in Lowered : Rising(r)}

Announced == IF Took /\ Head(events).kind = "connected" THEN {Head(events).run} ELSE {}

Reported ==
  IF ~Took \/ Head(events).kind # "message" THEN {}
  ELSE LET r == Head(events).run
           frame == Head(events).frame
       IN CASE frame.type = "state/init"   -> {r} \X {frame.store} \X Field
            [] frame.type = "state/action" -> {<<r, frame.store, frame.field>>}
            [] OTHER -> {}

IsShown(d, x) == x[1] \in DOMAIN d /\ d[x[1]][x[2]] # None

\* What a step of the system tells the page; a page that is loaded again was told nothing.
Remembered ==
  IF Reloaded
  THEN told' = {} /\ met' = {} /\ missed' = {} /\ fresh' = {} /\ UNCHANGED <<muted, raced>>
  ELSE /\ told' = (told \cup Announced \cup
                    IF Listed THEN {listed[i].run : i \in DOMAIN listed} ELSE {}) \ Forgotten
       /\ met' = (met \cup IF listing = "done" THEN Announced ELSE {}) \ Forgotten
       /\ missed' = missed \cup Unheard
       /\ Flagged
       /\ fresh' = {x \in fresh \cup Reported : IsShown(data', x) /\ x[1] \notin Replayed}

HiNext == Next /\ Remembered

HiSpec == HiInit /\ [][HiNext]_hiVars

-----------------------------------------------------------------------------
(* What the page promises                                                  *)

\* Of a run that was announced after the list, the dot tells what the registry knows, through
\* breaks, reconnects, ends of older connections, sweeps, heartbeats, restarts, removals and
\* late events of older runs: it is on for no run that the registry marks disconnected, and off
\* for a connected one only when a frame other than a hello set the flag again.  Excepted are
\* runs whose last report crossed one of the opposite on its way.
PillFollows ==
  Settled => \A r \in (met \ (missed \cup raced)) \cap DOMAIN pill \cap DOMAIN reg :
               IF pill[r] THEN reg[r] ELSE reg[r] => r \in muted

\* The same without exceptions: a dot shows what the registry holds.  The code does not keep
\* this: after a sweep, or the late end of an older connection, a heartbeat sets the flag and
\* the page is not told; and two tasks may emit two opposite reports in the other order.
DotsAgree ==
  Settled => \A r \in (met \ missed) \cap DOMAIN pill \cap DOMAIN reg : pill[r] = reg[r]

\* A field reported live since the last replay of the cache shows what the app holds,
\* after reconnects and reloads too, unless a frame was lost with its socket.
FreshFieldsAgree ==
  (Settled /\ now \notin missed \cup lost /\ backlog[now] = << >>) =>
    \A x \in fresh : x[1] = now => data[now][x[2]][x[3]] = value[now][x[2]][x[3]]

\* connection.ts: a restarted app is "the existing one coming back to life": once all
\* is settled, a connected run that the page was told of is the one it shows.
LivePillShown == (Settled /\ link[now] = "up" /\ now \in told) => now \in DOMAIN pill

\* ipc.ts: the cache holds "every state/init", to hydrate the page after a reload:
\* every store that a connected, listed app has introduced is shown.
EveryStoreBack ==
  (Settled /\ link[now] = "up" /\ now \in told \ (missed \cup lost)) =>
    \A s \in Store : value[now][s] # None => data[now][s] # None

\* diff.ts: "how the desktop UI reconstructs each store's live state from the state/init
\* snapshot plus the stream of state/action diffs": a page that has heard everything a
\* connected app sent, with no frame lost, shows what the app's stores hold.
MirrorAgrees ==
  (Settled /\ link[now] = "up" /\ now \in met \ (missed \cup lost)) =>
    \A s \in Store : data[now][s] = value[now][s]

=============================================================================
