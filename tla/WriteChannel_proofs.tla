------------------------ MODULE WriteChannel_proofs ------------------------
(***************************************************************************)
(* Proofs about WriteChannel, for every set of requests, every kind of     *)
(* resource, every way its values are reshaped on the way back, and every  *)
(* number of app writes and broken connections.                            *)
(***************************************************************************)
EXTENDS WriteChannel, SequenceTheorems, TLAPS

LEMMA FrameTypes ==
  /\ \A v \in Contents : Change(v) \in Frame
  /\ \A r \in Request, ok \in BOOLEAN : Result(r, ok) \in Frame
BY ValueAssumption DEF Change, Result, Frame, Contents

\* The head of a queue has the queue's type and its tail is a queue again.
LEMMA QueueHead ==
  ASSUME NEW S, NEW q \in Seq(S), q # << >>
  PROVE  Head(q) \in S /\ Tail(q) \in Seq(S)
BY HeadTailProperties

\* The reducer maps statuses to statuses.
LEMMA ReducedType ==
  ASSUME TypeOK, NEW f \in Frame
  PROVE  Reduced(f) \in [Request -> {"none", "pending", "applied", "failed", "superseded", "cleared", "gone"}]
<1>1. CASE f.type = "change"
  BY <1>1 DEF Reduced, OnChange, TypeOK
<1>2. CASE f.type # "change"
  <2>1. f.request \in Request
    BY <1>2 DEF Frame
  <2> QED BY <1>2, <2>1 DEF Reduced, OnResult, TypeOK
<1> QED BY <1>1, <1>2

\* Every variable keeps its type.
THEOREM TypeCorrect == Spec => []TypeOK
<1>1. Init => TypeOK
  <2> SUFFICES ASSUME Init PROVE TypeOK
    OBVIOUS
  <2>1. seen \in Contents /\ store \in Contents /\ held \subseteq Contents
    BY ValueAssumption DEF Init, Contents
  <2>2. up \in Seq(Frame) /\ toApp \in Seq(Request) /\ lossy \in BOOLEAN /\ linked \in BOOLEAN
    BY EmptySeq DEF Init
  <2>3. sweeps \in [Request -> Nat]
    BY DEF Init
  <2> QED BY <2>1, <2>2, <2>3 DEF Init, TypeOK
<1>2. TypeOK /\ [Next]_vars => TypeOK'
  <2> SUFFICES ASSUME TypeOK, [Next]_vars PROVE TypeOK'
    OBVIOUS
  <2> USE DEF desk, app
  <2>1. ASSUME NEW r \in Request,
               SendWrite(r) \/ SendUnsendable(r) \/ PromiseResolves(r) \/ PromiseRejects(r)
                 \/ TimesOut(r) \/ ServerRejects(r)
        PROVE  TypeOK'
    BY <2>1 DEF SendWrite, SendUnsendable, PromiseResolves, PromiseRejects, TimesOut,
                ServerRejects, Failed, TypeOK
  <2>2. ASSUME NEW r \in Request, ServerEnqueues(r) PROVE TypeOK'
    BY <2>2 DEF ServerEnqueues, TypeOK
  <2>3. ASSUME NEW r \in Request, HandlerCompletes(r) PROVE TypeOK'
    <3>1. Wants[r] \in Contents
      BY ValueAssumption DEF Contents
    <3>2. up' \in Seq(Frame)
      BY <2>3, <3>1, FrameTypes DEF HandlerCompletes, TypeOK
    <3> QED BY <2>3, <3>1, <3>2 DEF HandlerCompletes, TypeOK
  <2>4. ASSUME NEW r \in Request, HandlerFails(r) PROVE TypeOK'
    BY <2>4 DEF HandlerFails, TypeOK
  <2>5. ASSUME NEW r \in Request, Replies(r) PROVE TypeOK'
    <3>1. (sdk[r] = "resolved") \in BOOLEAN
      OBVIOUS
    <3>2. Result(r, sdk[r] = "resolved") \in Frame
      BY <3>1, FrameTypes
    <3>3. up' \in Seq(Frame)
      BY <2>5, <3>2 DEF Replies, TypeOK
    <3> QED BY <2>5, <3>3 DEF Replies, TypeOK
  <2>6. ASSUME NEW r \in Request, SweepFires(r) PROVE TypeOK'
    BY <2>6 DEF SweepFires, TypeOK
  <2>7. CASE SdkRefuses
    <3>1. Head(toApp) \in Request /\ toApp' \in Seq(Request)
      BY <2>7, QueueHead DEF SdkRefuses, TypeOK
    <3>2. Result(Head(toApp), FALSE) \in Frame
      BY <3>1, FrameTypes
    <3>3. up' \in Seq(Frame)
      <4>1. up' = Append(up, Result(Head(toApp), FALSE)) /\ up \in Seq(Frame)
        BY <2>7 DEF SdkRefuses, TypeOK
      <4> QED BY <3>2, <4>1, AppendProperties
    <3> QED BY <2>7, <3>1, <3>3 DEF SdkRefuses, TypeOK
  <2>8. CASE SdkAccepts
    <3>1. Head(toApp) \in Request /\ toApp' \in Seq(Request)
      BY <2>8, QueueHead DEF SdkAccepts, TypeOK
    <3> QED BY <2>8, <3>1 DEF SdkAccepts, TypeOK
  <2>9. ASSUME NEW v \in Contents, AppWrites(v) PROVE TypeOK'
    <3>1. up' \in Seq(Frame)
      BY <2>9, FrameTypes DEF AppWrites, TypeOK
    <3> QED BY <2>9, <3>1 DEF AppWrites, TypeOK
  <2>10. CASE LinkDrops \/ LinkReturns
    <3>1. lossy' \in BOOLEAN /\ linked' \in BOOLEAN
      BY <2>10 DEF LinkDrops, LinkReturns, TypeOK
    <3>2. up' \in Seq(Frame) /\ toApp' \in Seq(Request)
      BY <2>10, EmptySeq DEF LinkDrops, LinkReturns, TypeOK
    <3>3. UNCHANGED <<desk, app>>
      BY <2>10 DEF LinkDrops, LinkReturns
    <3> QED BY <3>1, <3>2, <3>3 DEF TypeOK
  <2>11. CASE HandleEnvelope
    <3>1. Head(up) \in Frame /\ up' \in Seq(Frame)
      BY <2>11, QueueHead DEF HandleEnvelope, TypeOK
    <3>2. status' \in [Request -> {"none", "pending", "applied", "failed", "superseded", "cleared", "gone"}]
      BY <2>11, <3>1, ReducedType DEF HandleEnvelope
    <3>3. sweeps' \in [Request -> Nat]
      BY <2>11 DEF HandleEnvelope, Armed, TypeOK
    <3>4. seen' \in Contents
      BY <2>11, <3>1 DEF HandleEnvelope, Frame, TypeOK
    <3> QED BY <2>11, <3>1, <3>2, <3>3, <3>4 DEF HandleEnvelope, TypeOK
  <2>12. CASE AppDisconnected \/ RemoveApp
    BY <2>12 DEF AppDisconnected, RemoveApp, Contents, TypeOK
  <2>13. CASE UNCHANGED vars
    BY <2>13 DEF vars, TypeOK
  <2> QED BY <2>1, <2>2, <2>3, <2>4, <2>5, <2>6, <2>7, <2>8, <2>9, <2>10, <2>11, <2>12, <2>13
          DEF Next, Settling
<1> QED BY <1>1, <1>2, PTL DEF Spec

-----------------------------------------------------------------------------
(* "Applied" is honest *)

\* A frame that is under way tells the truth: a change names a value the resource
\* has held, a positive result a write that was made.
True(f, H, E) == \/ f.type = "change" /\ \E v \in H : f.value = Echo[v]
                 \/ f.type = "result" /\ (f.ok => f.request \in E)
FramesTrue == \A i \in 1..Len(up) : True(up[i], held, effected)

HonestInv ==
  /\ AppliedHeld
  /\ FramesTrue
  /\ \A r \in Request : sdk[r] = "resolved" => r \in effected

LEMMA AppendHonest ==
  ASSUME TypeOK, FramesTrue, NEW f, True(f, held', effected'), up' = Append(up, f),
         held \subseteq held', effected \subseteq effected'
  PROVE  FramesTrue'
<1>1. up \in Seq(Frame)
  BY DEF TypeOK
<1>2. ASSUME NEW i \in 1..Len(up') PROVE True(up'[i], held', effected')
  <2>1. CASE i = Len(up) + 1
    <3>1. up'[i] = f
      BY <1>1, <2>1
    <3> QED BY <3>1
  <2>2. CASE i # Len(up) + 1
    <3>1. i \in 1..Len(up) /\ up'[i] = up[i]
      BY <1>1, <2>2
    <3>2. True(up[i], held, effected)
      BY <3>1 DEF FramesTrue
    <3>3. True(up[i], held', effected')
      BY <3>2 DEF True
    <3> QED BY <3>1, <3>3
  <2> QED BY <2>1, <2>2
<1> QED BY <1>2 DEF FramesTrue

LEMMA HonestStep == TypeOK /\ HonestInv /\ [Next]_vars => HonestInv'
<1> SUFFICES ASSUME TypeOK, HonestInv, [Next]_vars PROVE HonestInv'
  OBVIOUS
<1> USE DEF desk, app
<1>0. /\ held \subseteq Contents /\ up \in Seq(Frame) /\ sdk \in [Request -> {"none", "running", "resolved", "rejected", "answered"}]
      /\ status \in [Request -> {"none", "pending", "applied", "failed", "superseded", "cleared", "gone"}]
  BY DEF TypeOK
\* Nothing is newly applied and everything held stays held.
<1>1. ASSUME \A r \in Request : status'[r] = "applied" => status[r] = "applied",
             held \subseteq held', effected \subseteq effected'
      PROVE  AppliedHeld'
  BY <1>1 DEF HonestInv, AppliedHeld, Matches
<1>2. ASSUME UNCHANGED <<app, up>>, \A r \in Request : status'[r] = "applied" => status[r] = "applied"
      PROVE  HonestInv'
  <2>1. AppliedHeld'
    BY <1>1, <1>2
  <2> QED BY <1>2, <2>1 DEF HonestInv, FramesTrue, True
<1>3. ASSUME NEW r \in Request,
             SendWrite(r) \/ SendUnsendable(r) \/ PromiseResolves(r) \/ PromiseRejects(r)
               \/ TimesOut(r) \/ ServerRejects(r) \/ ServerEnqueues(r) \/ SweepFires(r)
      PROVE  HonestInv'
  <2>1. UNCHANGED <<app, up>>
    BY <1>3 DEF SendWrite, SendUnsendable, PromiseResolves, PromiseRejects, TimesOut,
                ServerRejects, ServerEnqueues, SweepFires
  <2>2. \A x \in Request : status'[x] = "applied" => status[x] = "applied"
    BY <1>0, <1>3 DEF SendWrite, SendUnsendable, PromiseResolves, PromiseRejects, TimesOut,
                ServerRejects, ServerEnqueues, SweepFires, Failed
  <2> QED BY <1>2, <2>1, <2>2
<1>4. ASSUME NEW r \in Request, HandlerCompletes(r) PROVE HonestInv'
  <2>1. /\ effected' = effected \cup {r} /\ held' = held \cup {Wants[r]} /\ status' = status
        /\ sdk' = [sdk EXCEPT ![r] = "resolved"]
    BY <1>4 DEF HandlerCompletes
  <2>2. AppliedHeld'
    BY <1>1, <2>1
  <2>3. FramesTrue'
    <3>1. CASE Kind = "ack"
      BY <1>4, <2>1, <3>1 DEF HandlerCompletes, HonestInv, FramesTrue, True
    <3>2. CASE Kind # "ack"
      <4>1. up' = Append(up, Change(Wants[r]))
        BY <1>4, <3>2 DEF HandlerCompletes
      <4>2. True(Change(Wants[r]), held', effected')
        BY <2>1 DEF True, Change
      <4> QED BY <2>1, <4>1, <4>2, AppendHonest DEF HonestInv
    <3> QED BY <3>1, <3>2
  <2> QED BY <1>0, <2>1, <2>2, <2>3 DEF HonestInv
<1>5. ASSUME NEW r \in Request, HandlerFails(r) PROVE HonestInv'
  BY <1>0, <1>1, <1>5 DEF HandlerFails, HonestInv, FramesTrue
<1>6. ASSUME NEW r \in Request, Replies(r) PROVE HonestInv'
  <2>1. /\ UNCHANGED <<status, effected, held>> /\ up' = Append(up, Result(r, sdk[r] = "resolved"))
        /\ sdk' = [sdk EXCEPT ![r] = "answered"]
    BY <1>6 DEF Replies
  <2>2. True(Result(r, sdk[r] = "resolved"), held', effected')
    BY <2>1 DEF True, Result, HonestInv
  <2>3. FramesTrue'
    BY <2>1, <2>2, AppendHonest DEF HonestInv
  <2> QED BY <1>0, <1>1, <2>1, <2>3 DEF HonestInv
<1>7. CASE SdkRefuses
  <2>1. /\ UNCHANGED <<status, effected, held>> /\ up' = Append(up, Result(Head(toApp), FALSE))
        /\ sdk' = [sdk EXCEPT ![Head(toApp)] = "answered"]
    BY <1>7 DEF SdkRefuses
  <2>2. True(Result(Head(toApp), FALSE), held', effected')
    BY DEF True, Result
  <2>3. FramesTrue'
    BY <2>1, <2>2, AppendHonest DEF HonestInv
  <2> QED BY <1>0, <1>1, <2>1, <2>3 DEF HonestInv
<1>8. CASE SdkAccepts
  BY <1>0, <1>1, <1>8 DEF SdkAccepts, HonestInv, FramesTrue
<1>9. ASSUME NEW v \in Contents, AppWrites(v) PROVE HonestInv'
  <2>1. /\ UNCHANGED <<status, effected, sdk>> /\ up' = Append(up, Change(v)) /\ held' = held \cup {v}
    BY <1>9 DEF AppWrites
  <2>2. True(Change(v), held', effected')
    BY <2>1 DEF True, Change
  <2>3. FramesTrue'
    BY <2>1, <2>2, AppendHonest DEF HonestInv
  <2> QED BY <1>1, <2>1, <2>3 DEF HonestInv
<1>10. CASE LinkDrops
  BY <1>1, <1>10 DEF LinkDrops, HonestInv, FramesTrue
<1>11. CASE LinkReturns \/ AppDisconnected \/ RemoveApp \/ UNCHANGED vars
  <2>1. UNCHANGED <<app, up>>
    BY <1>11 DEF LinkReturns, AppDisconnected, RemoveApp, vars
  <2>2. \A x \in Request : status'[x] = "applied" => status[x] = "applied"
    BY <1>0, <1>11 DEF LinkReturns, AppDisconnected, RemoveApp, vars
  <2> QED BY <1>2, <2>1, <2>2
<1>12. CASE HandleEnvelope
  <2> DEFINE f == Head(up)
  <2>1. /\ UNCHANGED app /\ up # << >> /\ up' = Tail(up) /\ status' = Reduced(f)
    BY <1>12 DEF HandleEnvelope
  <2>2. f = up[1] /\ Len(up) > 0 /\ \A i \in 1..Len(up') : up'[i] = up[i + 1] /\ i + 1 \in 1..Len(up)
    BY <1>0, <2>1
  <2>3. True(f, held, effected)
    BY <2>2 DEF HonestInv, FramesTrue
  <2>4. FramesTrue'
    BY <2>1, <2>2 DEF HonestInv, FramesTrue
  <2>5. ASSUME NEW r \in Request, status'[r] = "applied"
        PROVE  r \in effected \/ \E v \in held : Matches(r, Echo[v])
    <3>1. CASE status[r] = "applied"
      BY <3>1 DEF HonestInv, AppliedHeld
    <3>2. CASE status[r] # "applied" /\ f.type = "change"
      <4>1. Matches(r, f.value)
        BY <1>0, <2>1, <2>5, <3>2 DEF Reduced, OnChange
      <4> QED BY <2>3, <3>2, <4>1 DEF True
    <3>3. CASE status[r] # "applied" /\ f.type # "change"
      <4>1. r = f.request /\ f.ok
        BY <1>0, <2>1, <2>5, <3>3 DEF Reduced, OnResult
      <4> QED BY <2>3, <3>3, <4>1 DEF True
    <3> QED BY <3>1, <3>2, <3>3
  <2>6. AppliedHeld'
    BY <2>1, <2>5 DEF AppliedHeld, Matches
  <2> QED BY <2>1, <2>4, <2>6 DEF HonestInv
<1> QED BY <1>3, <1>4, <1>5, <1>6, <1>7, <1>8, <1>9, <1>10, <1>11, <1>12 DEF Next, Settling

\* The desktop never shows "applied" for a write the app can not have had, for any
\* interleaving of answers, reports, timeouts, removals and broken connections.
THEOREM AppliedIsHonest == Spec => []AppliedHeld
<1>1. Init => HonestInv
  <2> SUFFICES ASSUME Init PROVE HonestInv
    OBVIOUS
  <2>1. FramesTrue
    BY DEF Init, FramesTrue
  <2> QED BY <2>1 DEF Init, HonestInv, AppliedHeld
<1>2. HonestInv => AppliedHeld
  BY DEF HonestInv
<1> QED BY <1>1, <1>2, HonestStep, TypeCorrect, PTL DEF Spec

\* No timeout, rejection or disconnect report that comes late overrides a result.
THEOREM ResultsAreKept == Spec => ResultKept
<1> DEFINE A == \A r \in Request :
                  (status[r] \in {"applied", "superseded"} /\ status'[r] = "failed")
                    => up # << >> /\ Head(up) = Result(r, FALSE)
<1>1. TypeOK /\ [Next]_vars => [A]_vars
  <2> SUFFICES ASSUME TypeOK, [Next]_vars, NEW r \in Request,
                      status[r] \in {"applied", "superseded"}, status'[r] = "failed"
               PROVE  up # << >> /\ Head(up) = Result(r, FALSE)
    OBVIOUS
  <2> USE DEF desk, app
  <2>0. status \in [Request -> {"none", "pending", "applied", "failed", "superseded", "cleared", "gone"}]
    BY DEF TypeOK
  <2>1. ASSUME NEW x \in Request,
               SendWrite(x) \/ SendUnsendable(x) \/ PromiseResolves(x) \/ PromiseRejects(x)
                 \/ TimesOut(x) \/ ServerRejects(x) \/ ServerEnqueues(x) \/ SweepFires(x)
        PROVE  FALSE
    BY <2>0, <2>1 DEF SendWrite, SendUnsendable, PromiseResolves, PromiseRejects, TimesOut,
                      ServerRejects, ServerEnqueues, SweepFires, Failed
  <2>2. ASSUME NEW x \in Request, HandlerCompletes(x) \/ HandlerFails(x) \/ Replies(x)
        PROVE  FALSE
    BY <2>2 DEF HandlerCompletes, HandlerFails, Replies
  <2>3. CASE SdkRefuses \/ SdkAccepts \/ (\E v \in Contents : AppWrites(v)) \/ LinkDrops \/ LinkReturns
    BY <2>3 DEF SdkRefuses, SdkAccepts, AppWrites, LinkDrops, LinkReturns
  <2>4. CASE AppDisconnected \/ RemoveApp \/ UNCHANGED vars
    BY <2>0, <2>4 DEF AppDisconnected, RemoveApp, vars
  <2>5. CASE HandleEnvelope
    <3>1. up # << >> /\ Head(up) \in Frame /\ status' = Reduced(Head(up))
      BY <2>5, QueueHead DEF HandleEnvelope, TypeOK
    <3>2. Head(up).type # "change"
      BY <2>0, <3>1 DEF Reduced, OnChange
    <3>3. Head(up).request = r /\ ~Head(up).ok
      BY <2>0, <3>1, <3>2 DEF Reduced, OnResult
    <3>4. Head(up) = [type |-> "result", request |-> r, ok |-> FALSE]
      BY <3>1, <3>2, <3>3 DEF Frame
    <3> QED BY <3>1, <3>4 DEF Result
  <2> QED BY <2>1, <2>2, <2>3, <2>4, <2>5 DEF Next, Settling
<1> QED BY <1>1, TypeCorrect, PTL DEF Spec, ResultKept

-----------------------------------------------------------------------------
(* The verdict agrees with the answer *)

\* A request goes its way once: it is handed to the server only after its entry was made,
\* to the app only after the server took it, and a handler runs only for what was read.
OnceOnly ==
  /\ \A r \in Request : status[r] = "none" => call[r] = "none"
  /\ \A r \in Request : call[r] \in {"none", "invoked"} =>
       sdk[r] = "none" /\ \A i \in 1..Len(toApp) : toApp[i] # r
  /\ \A i \in 1..Len(toApp) : sdk[toApp[i]] = "none"
  /\ \A i, j \in 1..Len(toApp) : toApp[i] = toApp[j] => i = j
  /\ \A r \in Request : /\ sdk[r] = "resolved" => r \in effected
                        /\ r \in effected => sdk[r] \in {"resolved", "answered"}

\* A result under way is the last word of its request and says what became of it.
ResultTrue(f, S, E) ==
  f.type = "result" => S[f.request] = "answered" /\ (f.ok <=> f.request \in E)
ResultsTrue == \A i \in 1..Len(up) : ResultTrue(up[i], sdk, effected)

Owed(r, frames) == \E i \in 1..Len(frames) : frames[i].type = "result" /\ frames[i].request = r

Agrees(r) == IF r \in effected THEN status[r] \notin {"pending", "failed"}
                               ELSE status[r] \notin {"pending", "applied", "superseded"}

\* Unless a frame was lost, a request the app has answered is one whose verdict agrees, or
\* whose answer is still on its way.
VerdictOwed == ~lossy => \A r \in Request : sdk[r] = "answered" => Owed(r, up) \/ Agrees(r)

VerdictInv == OnceOnly /\ ResultsTrue /\ VerdictOwed

LEMMA OnceStep == TypeOK /\ OnceOnly /\ [Next]_vars => OnceOnly'
<1> SUFFICES ASSUME TypeOK, OnceOnly, [Next]_vars PROVE OnceOnly'
  OBVIOUS
<1> USE DEF desk, app
<1>0. /\ status \in [Request -> {"none", "pending", "applied", "failed", "superseded", "cleared", "gone"}]
      /\ call \in [Request -> {"none", "invoked", "accepted", "rejected", "armed", "over"}]
      /\ sdk \in [Request -> {"none", "running", "resolved", "rejected", "answered"}]
      /\ toApp \in Seq(Request) /\ up \in Seq(Frame)
  BY DEF TypeOK
\* No status becomes "none".
<1>1. ASSUME UNCHANGED <<call, sdk, effected, toApp>>, \A r \in Request : status'[r] = "none" => status[r] = "none"
      PROVE  OnceOnly'
  BY <1>1 DEF OnceOnly
<1>2. ASSUME NEW r \in Request, SendWrite(r) PROVE OnceOnly'
  BY <1>0, <1>2 DEF SendWrite, OnceOnly
<1>3. ASSUME NEW r \in Request, SendUnsendable(r) \/ SweepFires(r) PROVE OnceOnly'
  <2>1. UNCHANGED <<call, sdk, effected, toApp>>
    BY <1>3 DEF SendUnsendable, SweepFires
  <2>2. \A x \in Request : status'[x] = "none" => status[x] = "none"
    BY <1>0, <1>3 DEF SendUnsendable, SweepFires
  <2> QED BY <1>1, <2>1, <2>2
<1>4. ASSUME NEW r \in Request, ServerEnqueues(r) PROVE OnceOnly'
  <2>1. /\ call[r] = "invoked" /\ call' = [call EXCEPT ![r] = "accepted"]
        /\ UNCHANGED <<status, sdk, effected>> /\ toApp' \in {toApp, Append(toApp, r)}
    BY <1>4 DEF ServerEnqueues
  <2>2. sdk[r] = "none" /\ \A i \in 1..Len(toApp) : toApp[i] # r
    BY <2>1 DEF OnceOnly
  <2>3. \A i \in 1..Len(toApp') : IF i <= Len(toApp) THEN toApp'[i] = toApp[i] ELSE i = Len(toApp) + 1 /\ toApp'[i] = r
    BY <1>0, <2>1, SMTT(30)
  <2> QED BY <1>0, <2>1, <2>2, <2>3, SMTT(30) DEF OnceOnly
<1>5. ASSUME NEW r \in Request,
             ServerRejects(r) \/ PromiseResolves(r) \/ PromiseRejects(r) \/ TimesOut(r)
      PROVE  OnceOnly'
  <2>1. /\ UNCHANGED <<sdk, effected, toApp>> /\ call[r] \notin {"none"}
        /\ \E c \in {"rejected", "armed", "over"} : call' = [call EXCEPT ![r] = c]
    BY <1>5 DEF ServerRejects, PromiseResolves, PromiseRejects, TimesOut
  <2>2. \A x \in Request : status'[x] = "none" => status[x] = "none"
    BY <1>0, <1>5 DEF ServerRejects, PromiseResolves, PromiseRejects, TimesOut, Failed
  <2> QED BY <1>0, <2>1, <2>2 DEF OnceOnly
<1>6. ASSUME NEW r \in Request, HandlerCompletes(r) \/ HandlerFails(r) \/ Replies(r) PROVE OnceOnly'
  <2>1. /\ sdk[r] # "none" /\ UNCHANGED <<status, call, toApp>>
        /\ \E s \in {"resolved", "rejected", "answered"} : sdk' = [sdk EXCEPT ![r] = s]
    BY <1>6 DEF HandlerCompletes, HandlerFails, Replies
  <2>2. sdk' \in [Request -> {"none", "running", "resolved", "rejected", "answered"}] /\ sdk'[r] # "none"
    BY <1>0, <2>1
  <2>3. \A x \in Request : x # r => sdk'[x] = sdk[x]
    BY <1>0, <2>1
  <2>4. \A x \in Request : x # r => (x \in effected' <=> x \in effected)
    BY <1>6 DEF HandlerCompletes, HandlerFails, Replies
  <2>5. (sdk'[r] = "resolved" => r \in effected') /\ (r \in effected' => sdk'[r] \in {"resolved", "answered"})
    BY <1>0, <1>6 DEF HandlerCompletes, HandlerFails, Replies, OnceOnly
  <2>6. \A i \in 1..Len(toApp) : toApp[i] \in Request /\ toApp[i] # r
    BY <1>0, <2>1 DEF OnceOnly
  <2>7. \A x \in Request : call'[x] \in {"none", "invoked"} =>
          sdk'[x] = "none" /\ \A i \in 1..Len(toApp') : toApp'[i] # x
    BY <2>1, <2>3 DEF OnceOnly
  <2>8. \A x \in Request : (sdk'[x] = "resolved" => x \in effected')
                             /\ (x \in effected' => sdk'[x] \in {"resolved", "answered"})
    BY <2>3, <2>4, <2>5 DEF OnceOnly
  <2> QED BY <2>1, <2>3, <2>6, <2>7, <2>8 DEF OnceOnly
<1>7. CASE SdkRefuses \/ SdkAccepts
  <2>1. /\ toApp # << >> /\ toApp' = Tail(toApp) /\ UNCHANGED <<status, call, effected>>
        /\ \E s \in {"answered", "running"} : sdk' = [sdk EXCEPT ![Head(toApp)] = s]
    BY <1>7 DEF SdkRefuses, SdkAccepts
  <2>2. Head(toApp) = toApp[1] /\ Len(toApp) > 0 /\ \A i \in 1..Len(toApp') : toApp'[i] = toApp[i + 1] /\ i + 1 \in 1..Len(toApp)
    BY <1>0, <2>1
  <2>3. \A i \in 1..Len(toApp') : toApp'[i] # Head(toApp)
    BY <2>2 DEF OnceOnly
  <2> QED BY <1>0, <2>1, <2>2, <2>3 DEF OnceOnly
<1>8. CASE LinkDrops
  BY <1>8 DEF LinkDrops, OnceOnly
<1>9. CASE LinkReturns \/ AppDisconnected \/ RemoveApp \/ UNCHANGED vars \/ \E v \in Contents : AppWrites(v)
  <2>1. UNCHANGED <<call, sdk, effected, toApp>>
    BY <1>9 DEF LinkReturns, AppDisconnected, RemoveApp, AppWrites, vars
  <2>2. \A x \in Request : status'[x] = "none" => status[x] = "none"
    BY <1>0, <1>9 DEF LinkReturns, AppDisconnected, RemoveApp, AppWrites, vars
  <2> QED BY <1>1, <2>1, <2>2
<1>10. CASE HandleEnvelope
  <2>1. UNCHANGED <<call, sdk, effected, toApp>> /\ status' = Reduced(Head(up))
    BY <1>10 DEF HandleEnvelope
  <2>2. \A x \in Request : status'[x] = "none" => status[x] = "none"
    BY <1>0, <2>1 DEF Reduced, OnChange, OnResult
  <2> QED BY <1>1, <2>1, <2>2
<1> QED BY <1>2, <1>3, <1>4, <1>5, <1>6, <1>7, <1>8, <1>9, <1>10 DEF Next, Settling

\* What is appended to a stream of true results keeps it one, if no earlier result changes.
LEMMA AppendResult ==
  ASSUME TypeOK, ResultsTrue, NEW f, ResultTrue(f, sdk', effected'), up' = Append(up, f),
         \A r \in Request : sdk[r] = "answered" => sdk'[r] = "answered" /\ (r \in effected' <=> r \in effected)
  PROVE  ResultsTrue'
<1>1. up \in Seq(Frame)
  BY DEF TypeOK
<1>2. ASSUME NEW i \in 1..Len(up') PROVE ResultTrue(up'[i], sdk', effected')
  <2>1. CASE i = Len(up) + 1
    BY <1>1, <2>1
  <2>2. CASE i # Len(up) + 1
    <3>1. i \in 1..Len(up) /\ up'[i] = up[i] /\ up[i] \in Frame
      BY <1>1, <1>2, <2>2
    <3>2. up[i].type = "result" => up[i].request \in Request
      BY <3>1 DEF Frame
    <3> QED BY <3>1, <3>2 DEF ResultsTrue, ResultTrue
  <2> QED BY <2>1, <2>2
<1> QED BY <1>2 DEF ResultsTrue

LEMMA ResultsStep == TypeOK /\ OnceOnly /\ ResultsTrue /\ [Next]_vars => ResultsTrue'
<1> SUFFICES ASSUME TypeOK, OnceOnly, ResultsTrue, [Next]_vars PROVE ResultsTrue'
  OBVIOUS
<1> USE DEF desk, app
<1>0. /\ sdk \in [Request -> {"none", "running", "resolved", "rejected", "answered"}]
      /\ toApp \in Seq(Request) /\ up \in Seq(Frame)
  BY DEF TypeOK
<1>1. ASSUME UNCHANGED <<sdk, effected, up>> PROVE ResultsTrue'
  BY <1>1 DEF ResultsTrue
\* A stream that nothing joins.
<1>2. ASSUME up' = up, \A r \in Request : sdk[r] = "answered" => sdk'[r] = "answered" /\ (r \in effected' <=> r \in effected)
      PROVE  ResultsTrue'
  <2>1. \A i \in 1..Len(up) : up[i] \in Frame
    BY <1>0
  <2>2. \A i \in 1..Len(up) : up[i].type = "result" => up[i].request \in Request
    BY <2>1 DEF Frame
  <2> QED BY <1>2, <2>2 DEF ResultsTrue, ResultTrue
<1>3. ASSUME NEW r \in Request,
             SendWrite(r) \/ SendUnsendable(r) \/ ServerEnqueues(r) \/ ServerRejects(r)
               \/ PromiseResolves(r) \/ PromiseRejects(r) \/ TimesOut(r) \/ SweepFires(r)
      PROVE  ResultsTrue'
  BY <1>1, <1>3 DEF SendWrite, SendUnsendable, ServerEnqueues, ServerRejects, PromiseResolves,
                    PromiseRejects, TimesOut, SweepFires
<1>4. ASSUME NEW r \in Request, HandlerCompletes(r) PROVE ResultsTrue'
  <2>1. /\ sdk[r] = "running" /\ sdk' = [sdk EXCEPT ![r] = "resolved"] /\ effected' = effected \cup {r}
        /\ up' \in {up, Append(up, Change(Wants[r]))}
    BY <1>4 DEF HandlerCompletes
  <2>2. \A x \in Request : sdk[x] = "answered" => sdk'[x] = "answered" /\ (x \in effected' <=> x \in effected)
    BY <1>0, <2>1
  <2>3. ResultTrue(Change(Wants[r]), sdk', effected')
    BY DEF ResultTrue, Change
  <2> QED BY <1>2, <2>1, <2>2, <2>3, AppendResult
<1>5. ASSUME NEW r \in Request, HandlerFails(r) PROVE ResultsTrue'
  <2>1. /\ sdk[r] = "running" /\ sdk' = [sdk EXCEPT ![r] = "rejected"] /\ UNCHANGED <<effected, up>>
    BY <1>5 DEF HandlerFails
  <2>2. \A x \in Request : sdk[x] = "answered" => sdk'[x] = "answered" /\ (x \in effected' <=> x \in effected)
    BY <1>0, <2>1
  <2> QED BY <1>2, <2>1, <2>2
<1>6. ASSUME NEW r \in Request, Replies(r) PROVE ResultsTrue'
  <2>1. /\ sdk[r] \in {"resolved", "rejected"} /\ sdk' = [sdk EXCEPT ![r] = "answered"]
        /\ effected' = effected /\ up' = Append(up, Result(r, sdk[r] = "resolved"))
    BY <1>6 DEF Replies
  <2>2. \A x \in Request : sdk[x] = "answered" => sdk'[x] = "answered" /\ (x \in effected' <=> x \in effected)
    BY <1>0, <2>1
  <2>3. sdk[r] = "resolved" <=> r \in effected
    BY <2>1 DEF OnceOnly
  <2>4. ResultTrue(Result(r, sdk[r] = "resolved"), sdk', effected')
    BY <1>0, <2>1, <2>3 DEF ResultTrue, Result
  <2> QED BY <2>1, <2>2, <2>4, AppendResult
<1>7. CASE SdkRefuses
  <2> DEFINE r == Head(toApp)
  <2>1. /\ toApp # << >> /\ sdk' = [sdk EXCEPT ![r] = "answered"]
        /\ effected' = effected /\ up' = Append(up, Result(r, FALSE))
    BY <1>7 DEF SdkRefuses
  <2>2. r \in Request /\ r = toApp[1] /\ 1 \in 1..Len(toApp)
    BY <1>0, <2>1
  <2>3. r \notin effected
    BY <2>2 DEF OnceOnly
  <2>4. \A x \in Request : sdk[x] = "answered" => sdk'[x] = "answered" /\ (x \in effected' <=> x \in effected)
    BY <1>0, <2>1
  <2>5. ResultTrue(Result(r, FALSE), sdk', effected')
    BY <1>0, <2>1, <2>2, <2>3 DEF ResultTrue, Result
  <2> QED BY <2>1, <2>4, <2>5, AppendResult
<1>8. CASE SdkAccepts
  <2>1. /\ toApp # << >> /\ sdk' = [sdk EXCEPT ![Head(toApp)] = "running"] /\ UNCHANGED <<effected, up>>
    BY <1>8 DEF SdkAccepts
  <2>2. Head(toApp) \in Request /\ sdk[Head(toApp)] = "none"
    BY <1>0, <2>1 DEF OnceOnly
  <2>3. \A x \in Request : sdk[x] = "answered" => sdk'[x] = "answered" /\ (x \in effected' <=> x \in effected)
    BY <1>0, <2>1, <2>2
  <2> QED BY <1>2, <2>1, <2>3
<1>9. ASSUME NEW v \in Contents, AppWrites(v) PROVE ResultsTrue'
  <2>1. UNCHANGED <<sdk, effected>> /\ up' = Append(up, Change(v))
    BY <1>9 DEF AppWrites
  <2>2. ResultTrue(Change(v), sdk', effected')
    BY DEF ResultTrue, Change
  <2> QED BY <2>1, <2>2, AppendResult
<1>10. CASE LinkDrops
  BY <1>10 DEF LinkDrops, ResultsTrue
<1>11. CASE LinkReturns \/ AppDisconnected \/ RemoveApp \/ UNCHANGED vars
  BY <1>1, <1>11 DEF LinkReturns, AppDisconnected, RemoveApp, vars
<1>12. CASE HandleEnvelope
  <2>1. UNCHANGED <<sdk, effected>> /\ up # << >> /\ up' = Tail(up)
    BY <1>12 DEF HandleEnvelope
  <2>2. \A i \in 1..Len(up') : up'[i] = up[i + 1] /\ i + 1 \in 1..Len(up)
    BY <1>0, <2>1
  <2> QED BY <2>1, <2>2 DEF ResultsTrue
<1> QED BY <1>3, <1>4, <1>5, <1>6, <1>7, <1>8, <1>9, <1>10, <1>11, <1>12 DEF Next, Settling

LEMMA VerdictStep == TypeOK /\ VerdictInv /\ [Next]_vars => VerdictOwed'
<1> SUFFICES ASSUME TypeOK, OnceOnly, ResultsTrue, VerdictOwed, [Next]_vars, ~lossy',
                    NEW r \in Request, sdk'[r] = "answered"
             PROVE  Owed(r, up') \/ Agrees(r)'
  BY DEF VerdictInv, VerdictOwed
<1> USE DEF desk, app
<1>0. /\ status \in [Request -> {"none", "pending", "applied", "failed", "superseded", "cleared", "gone"}]
      /\ sdk \in [Request -> {"none", "running", "resolved", "rejected", "answered"}]
      /\ toApp \in Seq(Request) /\ up \in Seq(Frame) /\ lossy \in BOOLEAN
  BY DEF TypeOK
\* The request was answered before the step, and the step neither reads its answer nor
\* touches a verdict that agrees.
<1>1. ASSUME sdk[r] = "answered", ~lossy, Owed(r, up) => Owed(r, up'),
             r \in effected' <=> r \in effected,
             status'[r] = status[r] \/ (status[r] = "pending" /\ status'[r] = "failed")
               \/ status'[r] \in {"cleared", "gone"}
      PROVE  Owed(r, up') \/ Agrees(r)'
  BY <1>1 DEF VerdictOwed, Agrees
<1>2. ASSUME NEW f, up' = Append(up, f) PROVE Owed(r, up) => Owed(r, up')
  <2> SUFFICES ASSUME NEW i \in 1..Len(up), up[i].type = "result", up[i].request = r
               PROVE  Owed(r, up')
    BY DEF Owed
  <2>1. i \in 1..Len(up') /\ up'[i] = up[i]
    BY <1>0, <1>2
  <2> QED BY <2>1 DEF Owed
<1>3. status[r] = "none" => sdk[r] = "none"
  BY DEF OnceOnly
<1>13. ASSUME NEW ok \in BOOLEAN, up' = Append(up, Result(r, ok)) PROVE Owed(r, up')
  <2>1. Len(up') = Len(up) + 1 /\ up'[Len(up')] = Result(r, ok)
    BY <1>0, <1>13, FrameTypes, AppendProperties
  <2> QED BY <1>0, <2>1 DEF Owed, Result
<1>4. ASSUME NEW x \in Request,
             SendWrite(x) \/ SendUnsendable(x) \/ ServerEnqueues(x) \/ ServerRejects(x)
               \/ PromiseResolves(x) \/ PromiseRejects(x) \/ TimesOut(x) \/ SweepFires(x)
      PROVE  Owed(r, up') \/ Agrees(r)'
  <2>1. UNCHANGED <<sdk, effected, up, lossy>>
    BY <1>4 DEF SendWrite, SendUnsendable, ServerEnqueues, ServerRejects, PromiseResolves,
                PromiseRejects, TimesOut, SweepFires
  <2>2. status[r] # "none"
    BY <1>3, <2>1
  <2>3. status'[r] = status[r] \/ (status[r] = "pending" /\ status'[r] = "failed")
          \/ status'[r] \in {"cleared", "gone"}
    BY <1>0, <1>4, <2>2 DEF SendWrite, SendUnsendable, ServerEnqueues, ServerRejects, PromiseResolves,
                PromiseRejects, TimesOut, SweepFires, Failed
  <2> QED BY <1>1, <2>1, <2>3
<1>5. ASSUME NEW x \in Request, HandlerCompletes(x) \/ HandlerFails(x) PROVE Owed(r, up') \/ Agrees(r)'
  <2>1. /\ sdk[x] = "running" /\ \E s \in {"resolved", "rejected"} : sdk' = [sdk EXCEPT ![x] = s]
        /\ UNCHANGED <<status, lossy>> /\ effected' \in {effected, effected \cup {x}}
        /\ up' = up \/ \E f : up' = Append(up, f)
    BY <1>5 DEF HandlerCompletes, HandlerFails
  <2>2. r # x /\ sdk[r] = "answered"
    BY <1>0, <2>1
  <2> QED BY <1>1, <1>2, <2>1, <2>2
<1>6. ASSUME NEW x \in Request, Replies(x) PROVE Owed(r, up') \/ Agrees(r)'
  <2>1. /\ sdk' = [sdk EXCEPT ![x] = "answered"] /\ UNCHANGED <<status, effected, lossy>>
        /\ up' = Append(up, Result(x, sdk[x] = "resolved"))
    BY <1>6 DEF Replies
  <2>2. CASE r = x
    BY <1>13, <2>1, <2>2
  <2>3. CASE r # x
    <3>1. sdk[r] = "answered"
      BY <1>0, <2>1, <2>3
    <3> QED BY <1>1, <1>2, <2>1, <3>1
  <2> QED BY <2>2, <2>3
<1>7. CASE SdkRefuses
  <2> DEFINE x == Head(toApp)
  <2>1. /\ sdk' = [sdk EXCEPT ![x] = "answered"] /\ UNCHANGED <<status, effected, lossy>>
        /\ up' = Append(up, Result(x, FALSE))
    BY <1>7 DEF SdkRefuses
  <2>2. CASE r = x
    BY <1>13, <2>1, <2>2
  <2>3. CASE r # x
    <3>1. sdk[r] = "answered"
      BY <1>0, <2>1, <2>3
    <3> QED BY <1>1, <1>2, <2>1, <3>1
  <2> QED BY <2>2, <2>3
<1>8. CASE SdkAccepts
  <2>1. /\ sdk' = [sdk EXCEPT ![Head(toApp)] = "running"] /\ UNCHANGED <<status, effected, up, lossy>>
    BY <1>8 DEF SdkAccepts
  <2>2. sdk[r] = "answered"
    BY <1>0, <2>1
  <2> QED BY <1>1, <2>1, <2>2
<1>9. ASSUME NEW v \in Contents, AppWrites(v) PROVE Owed(r, up') \/ Agrees(r)'
  <2>1. UNCHANGED <<sdk, status, effected, lossy>> /\ up' = Append(up, Change(v))
    BY <1>9 DEF AppWrites
  <2> QED BY <1>1, <1>2, <2>1
<1>10. CASE LinkDrops
  <2>1. UNCHANGED <<sdk, status, effected>> /\ up = << >> /\ up' = << >> /\ ~lossy
    BY <1>10 DEF LinkDrops
  <2> QED BY <1>1, <2>1
<1>11. CASE LinkReturns \/ AppDisconnected \/ RemoveApp \/ UNCHANGED vars
  <2>1. UNCHANGED <<sdk, effected, up, lossy>>
    BY <1>11 DEF LinkReturns, AppDisconnected, RemoveApp, vars
  <2>2. status'[r] = status[r] \/ (status[r] = "pending" /\ status'[r] = "failed") \/ status'[r] = "gone"
    BY <1>0, <1>11 DEF LinkReturns, AppDisconnected, RemoveApp, vars
  <2> QED BY <1>1, <2>1, <2>2
<1>12. CASE HandleEnvelope
  <2> DEFINE f == Head(up)
  <2>1. UNCHANGED <<sdk, effected, lossy>> /\ up # << >> /\ up' = Tail(up) /\ status' = Reduced(f)
    BY <1>12 DEF HandleEnvelope
  <2>2. f = up[1] /\ 1 \in 1..Len(up) /\ f \in Frame
    BY <1>0, <2>1
  <2>3. CASE f.type = "result" /\ f.request = r
    <3>1. f.ok <=> r \in effected
      BY <2>2, <2>3 DEF ResultsTrue, ResultTrue
    <3>2. status'[r] \in {"cleared", "gone"} \/ status'[r] = IF f.ok THEN "applied" ELSE "failed"
      BY <1>0, <1>3, <2>1, <2>3 DEF Reduced, OnResult
    <3> QED BY <2>1, <3>1, <3>2 DEF Agrees
  <2>4. CASE ~(f.type = "result" /\ f.request = r)
    <3>1. Owed(r, up) => Owed(r, up')
      <4> SUFFICES ASSUME NEW i \in 1..Len(up), up[i].type = "result", up[i].request = r
                   PROVE  Owed(r, up')
        BY DEF Owed
      <4>1. i # 1
        BY <2>2, <2>4
      <4>2. i - 1 \in 1..Len(up') /\ up'[i - 1] = up[i]
        BY <1>0, <2>1, <4>1
      <4> QED BY <4>2 DEF Owed
    <3>2. CASE f.type = "result"
      <4>1. status'[r] = status[r]
        BY <1>0, <2>1, <2>4, <3>2 DEF Reduced, OnResult
      <4> QED BY <1>1, <2>1, <3>1, <4>1
    <3>3. CASE f.type = "change"
      <4>1. \/ status'[r] = status[r]
            \/ status[r] \in {"pending", "applied"} /\ status'[r] \in {"applied", "superseded"}
        BY <1>0, <2>1, <3>3, KindAssumption DEF Reduced, OnChange, Reconciled
      <4>2. ~Owed(r, up') => Agrees(r)
        BY <2>1, <3>1 DEF VerdictOwed
      <4> QED BY <2>1, <4>1, <4>2 DEF Agrees
    <3> QED BY <2>2, <3>2, <3>3 DEF Frame
  <2> QED BY <2>3, <2>4
<1> QED BY <1>4, <1>5, <1>6, <1>7, <1>8, <1>9, <1>10, <1>11, <1>12 DEF Next, Settling

\* When all answers have been read and none was lost, what the desktop says of a write is
\* what became of it in the app, for any number of requests and any interleaving of
\* answers, reports, timeouts, disconnects and removals.
THEOREM VerdictsAgree == Spec => []VerdictAgrees
<1>1. Init => VerdictInv
  <2> SUFFICES ASSUME Init PROVE VerdictInv
    OBVIOUS
  <2>1. OnceOnly
    BY DEF Init, OnceOnly
  <2>2. ResultsTrue /\ VerdictOwed
    BY DEF Init, ResultsTrue, VerdictOwed
  <2> QED BY <2>1, <2>2 DEF VerdictInv
<1>2. TypeOK /\ VerdictInv /\ [Next]_vars => VerdictInv'
  BY OnceStep, ResultsStep, VerdictStep DEF VerdictInv
<1>3. VerdictInv => VerdictAgrees
  <2> SUFFICES ASSUME VerdictOwed, up = << >>, ~lossy, NEW r \in Request, sdk[r] = "answered"
               PROVE  Agrees(r)
    BY DEF VerdictInv, VerdictAgrees, Agrees
  <2>1. ~Owed(r, up)
    BY DEF Owed
  <2> QED BY <2>1 DEF VerdictOwed
<1> QED BY <1>1, <1>2, <1>3, TypeCorrect, PTL DEF Spec

-----------------------------------------------------------------------------
(* The channel implements the contract *)

\* A step that only moves verdicts the contract lets move, and calls nothing applied
\* anew, is a judgement of the contract.
LEMMA Judged ==
  ASSUME TypeOK, TypeOK', AppliedHeld', UNCHANGED <<effected, held>>,
         \A r \in Request : status'[r] # status[r] => <<status[r], status'[r]>> \in Contract!Move
  PROVE  Contract!Judges
<1>1. status' \in [Request -> Contract!Verdict]
  BY DEF TypeOK, Contract!Verdict, Contract!Shown
<1>2. Had' = Had
  BY DEF Had, Matches
<1>3. \A r \in Request : status'[r] = "applied" => r \in Had'
  BY DEF AppliedHeld, Had, Matches
<1> QED BY <1>1, <1>2, <1>3 DEF Contract!Judges

\* The app has had at least as much after a step as before it.
LEMMA HadGrows ==
  ASSUME held \subseteq held', effected \subseteq effected', UNCHANGED status
  PROVE  Contract!Happens
BY DEF Contract!Happens, Had, Matches

LEMMA ContractStep ==
  TypeOK /\ TypeOK' /\ HonestInv /\ HonestInv' /\ [Next]_vars => [Contract!Next]_(Contract!vars)
<1> SUFFICES ASSUME TypeOK, TypeOK', AppliedHeld', [Next]_vars
             PROVE  [Contract!Next]_(Contract!vars)
  BY DEF HonestInv
<1> USE DEF desk, app
<1>0. /\ status \in [Request -> {"none", "pending", "applied", "failed", "superseded", "cleared", "gone"}]
      /\ up \in Seq(Frame)
  BY DEF TypeOK
<1>1. ASSUME UNCHANGED <<status, effected, held>> PROVE UNCHANGED Contract!vars
  BY <1>1 DEF Contract!vars, Had, Matches
<1>2. ASSUME UNCHANGED <<effected, held>>,
             \A r \in Request : status'[r] # status[r] => <<status[r], status'[r]>> \in Contract!Move
      PROVE  Contract!Next
  BY <1>2, Judged DEF Contract!Next
<1>3. ASSUME NEW r \in Request, SendWrite(r) \/ SendUnsendable(r) PROVE Contract!Next
  <2>1. Had' = Had
    BY <1>3 DEF SendWrite, SendUnsendable, Had, Matches
  <2>2. status[r] = "none" /\ \E v \in {"pending", "failed"} : status' = [status EXCEPT ![r] = v]
    BY <1>3 DEF SendWrite, SendUnsendable
  <2>3. Contract!Asks(r)
    BY <2>1, <2>2 DEF Contract!Asks
  <2> QED BY <2>3 DEF Contract!Next
<1>4. ASSUME NEW r \in Request,
             PromiseRejects(r) \/ TimesOut(r) \/ SweepFires(r)
      PROVE  Contract!Next
  <2>1. UNCHANGED <<effected, held>>
    BY <1>4 DEF PromiseRejects, TimesOut, SweepFires
  <2>2. \A x \in Request : status'[x] # status[x] => <<status[x], status'[x]>> \in Contract!Move
    BY <1>0, <1>4 DEF PromiseRejects, TimesOut, SweepFires, Failed, Contract!Move
  <2> QED BY <1>2, <2>1, <2>2
<1>5. ASSUME NEW r \in Request,
             PromiseResolves(r) \/ ServerRejects(r) \/ ServerEnqueues(r) \/ HandlerFails(r) \/ Replies(r)
      PROVE  UNCHANGED Contract!vars
  BY <1>1, <1>5 DEF PromiseResolves, ServerRejects, ServerEnqueues, HandlerFails, Replies
<1>6. ASSUME NEW r \in Request, HandlerCompletes(r) PROVE Contract!Next
  BY <1>6, HadGrows DEF HandlerCompletes, Contract!Next
<1>7. ASSUME NEW v \in Contents, AppWrites(v) PROVE Contract!Next
  BY <1>7, HadGrows DEF AppWrites, Contract!Next
<1>8. CASE SdkRefuses \/ SdkAccepts \/ LinkDrops \/ LinkReturns \/ UNCHANGED vars
  BY <1>1, <1>8 DEF SdkRefuses, SdkAccepts, LinkDrops, LinkReturns, vars
<1>9. CASE AppDisconnected \/ RemoveApp
  <2>1. \A x \in Request : status'[x] # status[x] => <<status[x], status'[x]>> \in Contract!Move
    BY <1>0, <1>9 DEF AppDisconnected, RemoveApp, Contract!Move, Contract!Shown
  <2> QED BY <1>2, <1>9, <2>1 DEF AppDisconnected, RemoveApp
<1>10. CASE HandleEnvelope
  <2> DEFINE f == Head(up)
  <2>1. /\ UNCHANGED <<effected, held>> /\ status' = Reduced(f) /\ f \in Frame
    BY <1>0, <1>10, QueueHead DEF HandleEnvelope
  <2>2. CASE f.type = "change"
    <3>1. \A x \in Request : status'[x] # status[x] =>
            status[x] \in {"pending", "applied"} /\ status'[x] \in {"applied", "superseded"}
      BY <1>0, <2>1, <2>2, KindAssumption DEF Reduced, OnChange, Reconciled
    <3>2. \A x \in Request : status'[x] # status[x] => <<status[x], status'[x]>> \in Contract!Move
      BY <3>1 DEF Contract!Move
    <3> QED BY <1>2, <2>1, <3>2
  <2>3. CASE f.type # "change"
    <3>1. \A x \in Request : status'[x] # status[x] =>
            /\ status[x] \in {"pending", "applied", "failed", "superseded"}
            /\ status'[x] \in {"applied", "failed"}
      BY <1>0, <2>1, <2>3 DEF Reduced, OnResult
    <3>2. \A x \in Request : status'[x] # status[x] => <<status[x], status'[x]>> \in Contract!Move
      BY <3>1 DEF Contract!Move
    <3> QED BY <1>2, <2>1, <3>2
  <2> QED BY <2>2, <2>3
<1> QED BY <1>3, <1>4, <1>5, <1>6, <1>7, <1>8, <1>9, <1>10 DEF Next, Settling

\* Every run of the channel is a run of the contract: its first state is one of the
\* contract's, and each of its steps asks, happens, judges or changes nothing the
\* contract sees.
THEOREM ChannelKeepsContract == Spec => ContractKept
<1>1. Init => HonestInv
  <2> SUFFICES ASSUME Init PROVE HonestInv
    OBVIOUS
  <2>1. FramesTrue
    BY DEF Init, FramesTrue
  <2> QED BY <2>1 DEF Init, HonestInv, AppliedHeld
<1>2. Init => Contract!Init
  BY DEF Init, Contract!Init, Had
<1> QED BY <1>1, <1>2, HonestStep, ContractStep, TypeCorrect, PTL
        DEF Spec, ContractKept, Contract!Spec

=============================================================================
