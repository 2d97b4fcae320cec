----------------------------- MODULE Sdk_proofs -----------------------------
(***************************************************************************)
(* Proofs about the parts of the SDK that report on the application: the   *)
(* React Query adapter (QueryAdapter), the frame statistics and warnings   *)
(* (Telemetry) and the key-value storage adapters (KvAdapter); and about   *)
(* init() and close(), which patch them in and out (SdkLifecycle).         *)
(***************************************************************************)
EXTENDS QueryAdapter, Telemetry, KvAdapter, SdkLifecycle,
        FiniteSetTheorems, SequenceTheorems, Recursion_proofs, TLAPS

-----------------------------------------------------------------------------
(* What the query adapter answers and shows *)

QaIsFunction(f) == f = [x \in DOMAIN f |-> f[x]]

QaAnswersMeant == \A i \in DOMAIN qaReplies : qaReplies[i] = "wrote" => i \in qaTook

QaInv == QaIsFunction(qaCache) /\ QaHonest

LEMMA QaInvInit == QaInit => QaInv
<1> SUFFICES ASSUME QaInit
             PROVE  QaInv
  OBVIOUS
<1>1. qaCache = << >> /\ DOMAIN qaReplies = {} /\ qaAttached = {}
  BY DEF QaInit
<1>2. QED
  BY <1>1 DEF QaInv, QaIsFunction, QaHonest

\* Every change of the cache reaches the desktop while an adapter is attached.
LEMMA QaCacheShown ==
  ASSUME QaInv, NEW cache, QaIsFunction(cache), QaCacheIs(cache), qaAttached' = qaAttached
  PROVE  QaIsFunction(qaCache') /\ (qaAttached' # {} => qaView' = qaCache')
<1>1. qaCache' = cache
  BY DEF QaCacheIs
<1>2. ASSUME qaAttached # {}
      PROVE  qaView' = cache
  <2> DEFINE shown == (DOMAIN qaView \ (DOMAIN qaCache \ DOMAIN cache)) \cup DOMAIN cache
  <2>1. qaView' = [h \in shown |-> IF h \in DOMAIN cache THEN cache[h] ELSE qaView[h]]
    BY <1>2 DEF QaCacheIs
  <2>2. shown = DOMAIN cache
    BY <1>2 DEF QaInv, QaHonest
  <2>3. QED
    BY <2>1, <2>2 DEF QaIsFunction
<1>3. QED
  BY <1>1, <1>2

LEMMA QaChangesAreFunctions ==
  ASSUME NEW cache, NEW h, NEW d, NEW custom
  PROVE  QaIsFunction(QaSet(cache, h, d, custom)) /\ QaIsFunction(QaWithout(cache, h))
  BY DEF QaIsFunction, QaSet, QaPut, QaWithout

\* A reply that is not "wrote", or is to a frame whose write was taken.
LEMMA QaReplyMeant ==
  ASSUME QaAnswersMeant, NEW i, NEW code, QaReply(i, code), qaTook \subseteq qaTook',
         code = "wrote" => i \in qaTook'
  PROVE  QaAnswersMeant'
  BY DEF QaAnswersMeant, QaReply, QaPut

LEMMA QaInvStep == QaInv /\ [QaNext]_qaVars => QaInv'
<1> SUFFICES ASSUME QaInv, [QaNext]_qaVars
             PROVE  QaInv'
  OBVIOUS
<1>0. QaIsFunction(qaCache) /\ QaAnswersMeant /\ (qaAttached # {} => qaView = qaCache)
  BY DEF QaInv, QaHonest, QaAnswersMeant
<1>a. ASSUME QaIsFunction(qaCache'), QaAnswersMeant', qaAttached' # {} => qaView' = qaCache'
      PROVE  QaInv'
  BY <1>a DEF QaInv, QaHonest, QaAnswersMeant
<1>1. ASSUME NEW h, NEW d, QaAppSets(h, d)
      PROVE  QaInv'
  <2>1. PICK custom : QaCacheIs(QaSet(qaCache, h, d, custom))
    BY <1>1 DEF QaAppSets
  <2>2. qaAttached' = qaAttached /\ qaReplies' = qaReplies /\ qaTook' = qaTook
    BY <1>1 DEF QaAppSets, qaSlots, qaChannel
  <2>3. QED
    BY <1>0, <1>a, <2>1, <2>2, QaCacheShown, QaChangesAreFunctions DEF QaAnswersMeant
<1>2. ASSUME NEW h, QaAppRemoves(h)
      PROVE  QaInv'
  <2>1. /\ QaCacheIs(QaWithout(qaCache, h))
        /\ qaAttached' = qaAttached /\ qaReplies' = qaReplies /\ qaTook' = qaTook
    BY <1>2 DEF QaAppRemoves, qaSlots, qaChannel
  <2>2. QED
    BY <1>0, <1>a, <2>1, QaCacheShown, QaChangesAreFunctions DEF QaAnswersMeant
<1>3. ASSUME NEW kind, NEW h, NEW d, QaReceive(kind, h, d)
      PROVE  QaInv'
  <2>1. UNCHANGED <<qaCache, qaView, qaAttached, qaTook>>
    BY <1>3 DEF QaReceive, qaClient, qaSlots
  <2>2. (\E i : QaReply(i, "no-adapter") \/ QaReply(i, "invalid-data")) \/ qaReplies' = qaReplies
    BY <1>3 DEF QaReceive
  <2>3. QaAnswersMeant'
    BY <1>0, <2>1, <2>2 DEF QaAnswersMeant, QaReply, QaPut
  <2>4. QED
    BY <1>0, <1>a, <2>1, <2>3
<1>4. CASE QaHandle
  <2> DEFINE job == Head(qaJobs)
  <2>1. qaAttached' = qaAttached
    BY <1>4 DEF QaHandle, qaSlots
  <2>2. ASSUME NEW code, code # "wrote", QaReply(job.id, code), UNCHANGED <<qaClient, qaTook>>
        PROVE  QaInv'
    BY <1>0, <1>a, <2>1, <2>2, QaReplyMeant DEF qaClient
  <2>3. ASSUME QaHandleWrite(job)
        PROVE  QaInv'
    <3>1. PICK after \in QaWritten(job) :
            /\ QaCacheIs(after) /\ QaReply(job.id, QaVerdict(job, after))
            /\ qaTook' = qaTook \cup
                 IF qaSetData \/ ~qaCache[job.hash].custom THEN {job.id} ELSE {}
      BY <2>3 DEF QaHandleWrite
    <3>2. QaIsFunction(after)
      BY <1>0, QaChangesAreFunctions DEF QaWritten
    <3>3. QaVerdict(job, after) = "wrote" => job.id \in qaTook'
      <4>1. CASE qaSetData \/ ~qaCache[job.hash].custom
        BY <3>1, <4>1
      <4>2. CASE ~(qaSetData \/ ~qaCache[job.hash].custom)
        <5>1. after = qaCache
          BY <4>2 DEF QaWritten
        <5>2. QED
          BY <5>1 DEF QaVerdict
      <4>3. QED
        BY <4>1, <4>2
    <3>4. QaAnswersMeant'
      BY <1>0, <3>1, <3>3, QaReplyMeant
    <3>5. QED
      BY <1>a, <2>1, <3>1, <3>2, <3>4, QaCacheShown
  <2>4. ASSUME QaHandleCommand(job)
        PROVE  QaInv'
    <3>1. PICK after \in {qaCache, QaWithout(qaCache, job.hash)}
                         \cup {QaSet(qaCache, job.hash, d, qaCache[job.hash].custom) : d \in QaData} :
            QaCacheIs(after)
      BY <2>4 DEF QaHandleCommand
    <3>2. QaReply(job.id, "done") /\ qaTook' = qaTook
      BY <2>4 DEF QaHandleCommand
    <3>3. QaIsFunction(after)
      BY <1>0, QaChangesAreFunctions
    <3>4. QaAnswersMeant'
      BY <1>0, <3>2, QaReplyMeant
    <3>5. QED
      BY <1>a, <2>1, <3>1, <3>3, <3>4, QaCacheShown
  <2> HIDE DEF job
  <2>5. \/ QaReply(job.id, "engine-error") /\ UNCHANGED <<qaClient, qaTook>>
        \/ QaReply(job.id, "no-query") /\ UNCHANGED <<qaClient, qaTook>>
        \/ QaHandleWrite(job)
        \/ QaHandleCommand(job)
    BY <1>4 DEF QaHandle, job
  <2>6. QED
    BY <2>2, <2>3, <2>4, <2>5
<1>5. CASE QaAttach
  BY <1>0, <1>5, <1>a DEF QaAttach, qaChannel, QaAnswersMeant
<1>6. ASSUME NEW n, QaDetach(n)
      PROVE  QaInv'
  BY <1>0, <1>6, <1>a DEF QaDetach, qaClient, qaChannel, QaAnswersMeant
<1>7. CASE QaTick \/ UNCHANGED qaVars
  BY <1>0, <1>7, <1>a DEF QaTick, qaVars, qaClient, qaSlots, qaChannel, QaAnswersMeant
<1>8. QED
  BY <1>1, <1>2, <1>3, <1>4, <1>5, <1>6, <1>7 DEF QaNext

\* reactQuery.ts: "Don't infer success from 'it didn't throw'": in any order of attaching,
\* detaching, removals and frames, a write answered as done was given to the query that was
\* addressed, and what is shown while an adapter is attached is what the cache holds.
THEOREM QueriesAnsweredHonestly == QaSpec => []QaHonest
<1>1. QaInv => QaHonest
  BY DEF QaInv
<1>2. QED
  BY <1>1, QaInvInit, QaInvStep, PTL DEF QaSpec

-----------------------------------------------------------------------------
(* What the SDK tells of itself *)

TePerf == [last : Nat, first : BOOLEAN, count : Nat, longest : Nat, dropped : Nat, start : Nat]
TeStallRow == [type : {"stall"}, took : Nat, ts : Nat]
TeSampleRow == [type : {"sample"}, count : Nat, longest : Nat, dropped : Nat, window : Nat, ts : Nat]

\* A sample covers at least a window, and drops no frame it does not count.
TeSound == {f \in TeSampleRow : f.window >= TeWindow /\ f.dropped <= f.count}

TeTyped ==
  /\ teNow \in Nat /\ tePerf \in {TeNone} \cup TePerf
  /\ teFrames \in Seq(TeStallRow \cup TeSound)
  /\ teView \in [samples : Seq(TeSound), stalls : Seq(TeStallRow)]
  /\ teTruth \in [dropped : Nat, reported : Nat]
  /\ teWarn \in [once : BOOLEAN, last : Nat]
  /\ teWarned \in [at : Seq(Nat), silent : BOOLEAN]

\* The window that is open.
TeOpenWindow ==
  tePerf # TeNone =>
    /\ tePerf.last <= teNow /\ tePerf.start <= teNow /\ tePerf.dropped <= tePerf.count
    /\ teTruth.dropped = teTruth.reported + tePerf.dropped

\* The throttle knows of the last warning of this outage, and of no older one.
TeThrottled ==
  /\ teWarn.last <= teNow
  /\ teWarn.once <=> teWarned.at # << >>
  /\ teWarned.at # << >> => teWarned.at[Len(teWarned.at)] = teWarn.last
  /\ \A i \in 2..Len(teWarned.at) : teWarned.at[i] - teWarned.at[i - 1] >= TeThrottle
  /\ ~teWarned.silent

TeInv == TeTyped /\ TeOpenWindow /\ teTruth.reported <= teTruth.dropped /\ TeThrottled

LEMMA TeInvCounts == TeInv => TeCountedOnce
<1> SUFFICES ASSUME TeInv
             PROVE  TeCountedOnce
  OBVIOUS
<1>1. \A f \in ToSet(teView.samples) : f.window >= TeWindow /\ f.dropped <= f.count
  <2>1. teView.samples \in Seq(TeSound)
    BY DEF TeInv, TeTyped
  <2>2. QED
    BY <2>1 DEF ToSet, TeSound
<1>2. QED
  BY <1>1 DEF TeInv, TeOpenWindow, TeThrottled, TeCountedOnce

LEMMA TeInvInit == TeInit => TeInv
<1> SUFFICES ASSUME TeInit
             PROVE  TeInv
  OBVIOUS
<1> USE DEF TeInit
<1>1. TeTyped
  BY DEF TeTyped, TeAttached, TePerf
<1>2. TeOpenWindow /\ teTruth.reported <= teTruth.dropped
  BY DEF TeOpenWindow, TeAttached
<1>3. TeThrottled
  BY DEF TeThrottled
<1>4. QED
  BY <1>1, <1>2, <1>3 DEF TeInv

\* A frame: it drops at most the one frame it counts.
LEMMA TeFrameTyped ==
  ASSUME TeInv, tePerf # TeNone
  PROVE  /\ TeFrame \in TePerf
         /\ TeFrame.last = teNow /\ TeFrame.start = tePerf.start
         /\ TeFrame.dropped <= TeFrame.count
         /\ TeFrame.dropped = tePerf.dropped +
              (IF ~tePerf.first /\ teNow - tePerf.last > TeDrop THEN 1 ELSE 0)
<1> DEFINE took == teNow - tePerf.last
<1>1. /\ tePerf \in TePerf /\ tePerf.dropped <= tePerf.count
      /\ took \in Nat /\ teNow \in Nat
  BY DEF TeInv, TeTyped, TeOpenWindow, TePerf
<1> HIDE DEF took
<1>2. TeFrame = [tePerf EXCEPT !.last = teNow, !.first = FALSE,
                    !.count = @ + (IF ~tePerf.first THEN 1 ELSE 0),
                    !.longest = IF ~tePerf.first /\ took > @ THEN took ELSE @,
                    !.dropped = @ + (IF ~tePerf.first /\ took > TeDrop THEN 1 ELSE 0)]
  BY DEF TeFrame, took
<1> DEFINE counted == IF ~tePerf.first THEN 1 ELSE 0
           longest == IF ~tePerf.first /\ took > tePerf.longest THEN took ELSE tePerf.longest
           dropped == IF ~tePerf.first /\ took > TeDrop THEN 1 ELSE 0
<1>3. counted \in {0, 1} /\ dropped \in {0, 1} /\ dropped <= counted
  OBVIOUS
<1>4. longest \in Nat
  BY <1>1 DEF TePerf
<1>5. TeFrame = [last |-> teNow, first |-> FALSE, count |-> tePerf.count + counted,
                 longest |-> longest, dropped |-> tePerf.dropped + dropped,
                 start |-> tePerf.start]
  BY <1>1, <1>2 DEF TePerf
<1>6. TeFrame.dropped = tePerf.dropped +
        (IF ~tePerf.first /\ teNow - tePerf.last > TeDrop THEN 1 ELSE 0)
  BY <1>5 DEF took
<1> HIDE DEF counted, longest, dropped
<1>7. QED
  BY <1>1, <1>3, <1>4, <1>5, <1>6 DEF TePerf

LEMMA TeOneRow ==
  ASSUME NEW S, NEW row \in S
  PROVE  <<row>> \in Seq(S)
  OBVIOUS

\* A row that is put on top of rows leaves rows.
LEMMA TePutTyped ==
  ASSUME NEW S, NEW row \in S, NEW rows \in Seq(S)
  PROVE  TePut(row, rows) \in Seq(S)
<1>1. <<row>> \o rows \in Seq(S) /\ Len(<<row>> \o rows) = Len(rows) + 1 /\ Len(rows) \in Nat
  BY ConcatProperties
<1> DEFINE n == IF Len(rows) < TeMaxRows THEN Len(rows) + 1 ELSE TeMaxRows
<1>2. n \in Nat /\ n <= Len(<<row>> \o rows)
  BY <1>1, TeAssumption
<1>3. SubSeq(<<row>> \o rows, 1, n) \in Seq(S)
  <2> HIDE DEF n
  <2>1. 1 \in 1..Len(<<row>> \o rows) + 1 /\ n \in 0..Len(<<row>> \o rows)
    BY <1>1, <1>2
  <2>2. QED
    BY <1>1, <2>1, SubSeqProperties
<1>4. QED
  BY <1>3 DEF TePut

LEMMA TeTruthAdds ==
  ASSUME NEW truth \in [dropped : Nat, reported : Nat], NEW m \in Nat, NEW n \in Nat,
         NEW next, next = [truth EXCEPT !.dropped = @ + m, !.reported = @ + n]
  PROVE  /\ next \in [dropped : Nat, reported : Nat]
         /\ next.dropped = truth.dropped + m
         /\ next.reported = truth.reported + n
<1>1. truth.dropped \in Nat /\ truth.reported \in Nat
  OBVIOUS
<1>2. truth.dropped + m \in Nat /\ truth.reported + n \in Nat
  BY <1>1
<1>3. next = [dropped |-> truth.dropped + m, reported |-> truth.reported + n]
  OBVIOUS
<1>4. QED
  BY <1>2, <1>3

LEMMA TeInvStep == TeInv /\ [TeNext]_teVars => TeInv'
<1> SUFFICES ASSUME TeInv, [TeNext]_teVars
             PROVE  TeInv'
  OBVIOUS
<1>1. CASE TePass
  BY <1>1, SMTT(30) DEF TePass, TeInv, TeTyped, TeOpenWindow, TeThrottled, TePerf
<1>2. CASE TeTick
  <2> DEFINE perf == TeFrame
             full == teNow - perf.start >= TeWindow
             sample == [type |-> "sample", count |-> perf.count, longest |-> perf.longest,
                        dropped |-> perf.dropped, window |-> teNow - perf.start, ts |-> teNow]
             samples == IF full THEN <<sample>> ELSE << >>
             dropped == IF ~tePerf.first /\ teNow - tePerf.last > TeDrop THEN 1 ELSE 0
  <2>1. tePerf # TeNone /\ UNCHANGED <<teNow, teView, teWarn, teWarned>>
    BY <1>2 DEF TeTick
  <2>2. /\ perf \in TePerf /\ perf.last = teNow /\ perf.start = tePerf.start
        /\ perf.dropped <= perf.count /\ perf.dropped = tePerf.dropped + dropped
    BY <2>1, TeFrameTyped
  <2>3. /\ tePerf \in TePerf /\ tePerf.last <= teNow /\ tePerf.start <= teNow /\ teNow \in Nat
        /\ teTruth \in [dropped : Nat, reported : Nat]
        /\ teTruth.dropped = teTruth.reported + tePerf.dropped
    BY <2>1 DEF TeInv, TeTyped, TeOpenWindow
  <2>4. samples \in Seq(TeStallRow \cup TeSound)
    <3>1. CASE full
      <4>1. sample \in TeSound
        BY <2>2, <2>3, <3>1, TeAssumption DEF TePerf, TeSound, TeSampleRow
      <4>2. samples = <<sample>>
        BY <3>1
      <4> HIDE DEF sample, samples
      <4>3. QED
        BY <4>1, <4>2, TeOneRow
    <3>2. CASE ~full
      BY <3>2
    <3>3. QED
      BY <3>1, <3>2
  <2>5. TeStallFrames \in Seq(TeStallRow \cup TeSound)
    <3>1. teNow - tePerf.last \in Nat
      BY <2>3 DEF TePerf
    <3> DEFINE row == [type |-> "stall", took |-> teNow - tePerf.last, ts |-> teNow]
    <3>2. row \in TeStallRow \cup TeSound
      BY <2>3, <3>1 DEF TeStallRow
    <3>3. TeStallFrames \in {<<row>>, << >>}
      BY DEF TeStallFrames
    <3> HIDE DEF row
    <3>4. <<row>> \in Seq(TeStallRow \cup TeSound)
      BY <3>2, TeOneRow
    <3>5. << >> \in Seq(TeStallRow \cup TeSound)
      BY EmptySeq
    <3>6. QED
      BY <3>3, <3>4, <3>5
  <2>6. teFrames' = teFrames \o TeStallFrames \o samples
    BY <1>2 DEF TeTick
  <2>7. teTruth' = [teTruth EXCEPT !.dropped = @ + dropped,
                                   !.reported = @ + (IF full THEN perf.dropped ELSE 0)]
    BY <1>2 DEF TeTick
  <2>8. tePerf' = IF full THEN TeNextWindow(perf) ELSE perf
    BY <1>2 DEF TeTick
  <2>9. teFrames' \in Seq(TeStallRow \cup TeSound)
    <3>1. teFrames \in Seq(TeStallRow \cup TeSound)
      BY DEF TeInv, TeTyped
    <3> HIDE DEF samples
    <3>2. QED
      BY <2>4, <2>5, <2>6, <3>1, ConcatProperties
  <2> HIDE DEF samples, sample
  <2>10. dropped \in {0, 1}
    OBVIOUS
  <2> HIDE DEF dropped, perf
  <2>11. CASE full
    <3>1. tePerf' \in TePerf /\ tePerf'.last = teNow /\ tePerf'.start = teNow
          /\ tePerf'.dropped = 0 /\ tePerf'.count = 0
      BY <2>2, <2>3, <2>8, <2>11 DEF TeNextWindow, TePerf
    <3>2. /\ teTruth' \in [dropped : Nat, reported : Nat]
          /\ teTruth'.dropped = teTruth.dropped + dropped
          /\ teTruth'.reported = teTruth.reported + perf.dropped
      <4>1. teTruth' = [teTruth EXCEPT !.dropped = @ + dropped, !.reported = @ + perf.dropped]
        BY <2>7, <2>11
      <4>2. perf.dropped \in Nat
        BY <2>2 DEF TePerf
      <4>3. teTruth \in [dropped : Nat, reported : Nat] /\ dropped \in Nat
        BY <2>3, <2>10
      <4>4. QED
        BY <4>1, <4>2, <4>3, TeTruthAdds
    <3>3. /\ teTruth'.dropped = teTruth'.reported
      BY <2>2, <2>3, <2>10, <3>2 DEF TePerf
    <3>4. QED
      BY <2>1, <2>3, <2>9, <3>1, <3>2, <3>3 DEF TeInv, TeTyped, TeOpenWindow, TeThrottled
  <2>12. CASE ~full
    <3>1. tePerf' = perf
      BY <2>8, <2>12
    <3>2. /\ teTruth' \in [dropped : Nat, reported : Nat]
          /\ teTruth'.dropped = teTruth.dropped + dropped
          /\ teTruth'.reported = teTruth.reported + 0
      <4>1. teTruth' = [teTruth EXCEPT !.dropped = @ + dropped, !.reported = @ + 0]
        BY <2>7, <2>12
      <4>2. teTruth \in [dropped : Nat, reported : Nat] /\ dropped \in Nat
        BY <2>3, <2>10
      <4>3. QED
        BY <4>1, <4>2, TeTruthAdds
    <3>3. /\ teTruth'.dropped = teTruth'.reported + perf.dropped
          /\ teTruth'.reported <= teTruth'.dropped
      BY <2>2, <2>3, <2>10, <3>2 DEF TePerf
    <3>4. QED
      BY <2>1, <2>2, <2>3, <2>9, <3>1, <3>2, <3>3 DEF TeInv, TeTyped, TeOpenWindow, TeThrottled
  <2>13. QED
    BY <2>11, <2>12
<1>3. CASE TeStop
  BY <1>3 DEF TeStop, TeInv, TeTyped, TeOpenWindow, TeThrottled
<1>4. CASE TeArrives
  <2> DEFINE f == Head(teFrames)
  <2>1. /\ teFrames # << >> /\ teFrames' = Tail(teFrames)
        /\ UNCHANGED <<teNow, tePerf, teTruth, teWarn, teWarned>>
    BY <1>4 DEF TeArrives
  <2>2. /\ f \in TeStallRow \cup TeSound /\ teFrames' \in Seq(TeStallRow \cup TeSound)
        /\ teView.samples \in Seq(TeSound) /\ teView.stalls \in Seq(TeStallRow)
    BY <2>1, HeadTailProperties DEF TeInv, TeTyped
  <2>3. teView' \in [samples : Seq(TeSound), stalls : Seq(TeStallRow)]
    <3>1. CASE f \in TeSound
      <4>1. teView' = [teView EXCEPT !.samples = TePut(f, @)]
        BY <1>4, <3>1 DEF TeArrives, TeSound, TeSampleRow
      <4>2. QED
        BY <2>2, <3>1, <4>1, TePutTyped DEF TeInv, TeTyped
    <3>2. CASE f \in TeStallRow
      <4>1. teView' = [teView EXCEPT !.stalls = TePut(f, @)]
        BY <1>4, <3>2 DEF TeArrives, TeStallRow
      <4>2. QED
        BY <2>2, <3>2, <4>1, TePutTyped DEF TeInv, TeTyped
    <3>3. QED
      BY <2>2, <3>1, <3>2
  <2>4. QED
    BY <2>1, <2>2, <2>3 DEF TeInv, TeTyped, TeOpenWindow, TeThrottled
<1>5. CASE TeClear
  <2>1. teView' \in [samples : Seq(TeSound), stalls : Seq(TeStallRow)]
    <3>1. teView' = [samples |-> << >>, stalls |-> << >>]
      BY <1>5 DEF TeClear, TeInv, TeTyped
    <3>2. QED
      BY <3>1, EmptySeq
  <2>2. UNCHANGED <<teNow, tePerf, teFrames, teTruth, teWarn, teWarned>>
    BY <1>5 DEF TeClear
  <2>3. QED
    BY <2>1, <2>2 DEF TeInv, TeTyped, TeOpenWindow, TeThrottled
<1>6. CASE TeFails
  <2>0. UNCHANGED <<teNow, tePerf, teFrames, teView, teTruth>>
    BY <1>6 DEF TeFails
  <2>1. /\ teNow \in Nat /\ teWarn \in [once : BOOLEAN, last : Nat]
        /\ teWarned.at \in Seq(Nat) /\ TeThrottled
    BY DEF TeInv, TeTyped
  <2>2. teWarn' \in [once : BOOLEAN, last : Nat] /\ teWarned' \in [at : Seq(Nat), silent : BOOLEAN]
        /\ TeThrottled'
    <3>1. CASE TeShouldLog
      <4>1. teWarn' = [once |-> TRUE, last |-> teNow]
            /\ teWarned' = [at |-> Append(teWarned.at, teNow), silent |-> FALSE]
        BY <1>6, <3>1 DEF TeFails
      <4>2. /\ teWarned'.at \in Seq(Nat) /\ Len(teWarned'.at) = Len(teWarned.at) + 1
            /\ \A i \in 1..Len(teWarned.at) : teWarned'.at[i] = teWarned.at[i]
            /\ teWarned'.at[Len(teWarned.at) + 1] = teNow
            /\ Len(teWarned.at) \in Nat
        BY <2>1, <4>1, AppendProperties
      <4>3. Len(teWarned.at) > 0 => teNow - teWarned.at[Len(teWarned.at)] >= TeThrottle
        BY <2>1, <3>1 DEF TeThrottled, TeShouldLog
      <4>4. \A i \in 2..Len(teWarned'.at) : teWarned'.at[i] - teWarned'.at[i - 1] >= TeThrottle
        <5> SUFFICES ASSUME NEW i \in 2..Len(teWarned'.at)
                     PROVE  teWarned'.at[i] - teWarned'.at[i - 1] >= TeThrottle
          OBVIOUS
        <5>1. CASE i \in 2..Len(teWarned.at)
          <6>1. i \in 1..Len(teWarned.at) /\ i - 1 \in 1..Len(teWarned.at)
            BY <4>2, <5>1
          <6>2. teWarned.at[i] - teWarned.at[i - 1] >= TeThrottle
            BY <2>1, <5>1 DEF TeThrottled
          <6>3. teWarned'.at[i] = teWarned.at[i] /\ teWarned'.at[i - 1] = teWarned.at[i - 1]
            BY <4>2, <6>1
          <6>4. QED
            BY <6>2, <6>3
        <5>2. CASE i = Len(teWarned.at) + 1
          <6>1. i - 1 = Len(teWarned.at) /\ i - 1 \in 1..Len(teWarned.at)
            BY <4>2, <5>2
          <6>2. /\ teWarned'.at[i] = teNow
                /\ teWarned'.at[i - 1] = teWarned.at[Len(teWarned.at)]
            BY <4>2, <5>2, <6>1
          <6>3. Len(teWarned.at) > 0
            BY <4>2, <6>1
          <6>4. QED
            BY <4>3, <6>2, <6>3
        <5>3. QED
          BY <4>2, <5>1, <5>2
      <4>5. teWarned'.at # << >> /\ teWarned'.at[Len(teWarned'.at)] = teNow
        BY <4>2
      <4>6. teWarn'.once = TRUE /\ teWarn'.last = teNow /\ teWarned'.silent = FALSE
        BY <4>1
      <4>7. QED
        BY <2>0, <2>1, <4>1, <4>2, <4>4, <4>5, <4>6, SMTT(30) DEF TeThrottled
    <3>2. CASE ~TeShouldLog
      <4>1. teWarn' = teWarn /\ teWarn.once
        BY <1>6, <2>1, <3>2 DEF TeFails, TeShouldLog
      <4>2. teWarned' = [at |-> teWarned.at, silent |-> FALSE]
        BY <1>6, <2>1, <3>2, <4>1 DEF TeFails, TeThrottled
      <4>3. QED
        BY <2>0, <2>1, <4>1, <4>2 DEF TeThrottled
    <3>3. QED
      BY <3>1, <3>2
  <2>3. QED
    BY <2>0, <2>2 DEF TeInv, TeTyped, TeOpenWindow
<1>7. CASE TeOpens
  <2>1. /\ teWarned'.at = << >> /\ teWarned'.silent = FALSE
        /\ teWarn'.once = FALSE /\ teWarn'.last = teWarn.last
        /\ UNCHANGED <<teNow, tePerf, teFrames, teView, teTruth>>
    BY <1>7 DEF TeOpens, TeInv, TeTyped
  <2>2. TeTyped'
    <3>1. teWarned' = [at |-> << >>, silent |-> FALSE] /\ << >> \in Seq(Nat)
      BY <1>7, EmptySeq DEF TeOpens
    <3>2. teWarn' = [teWarn EXCEPT !.once = FALSE]
      BY <1>7 DEF TeOpens
    <3>3. QED
      BY <2>1, <3>1, <3>2 DEF TeInv, TeTyped
  <2>3. TeThrottled'
    BY <2>1 DEF TeInv, TeThrottled
  <2>4. QED
    BY <2>1, <2>2, <2>3 DEF TeInv, TeOpenWindow
<1>8. CASE UNCHANGED teVars
  BY <1>8 DEF teVars, TeInv, TeTyped, TeOpenWindow, TeThrottled
<1>9. QED
  BY <1>1, <1>2, <1>3, <1>4, <1>5, <1>6, <1>7, <1>8 DEF TeNext

\* performance.ts and diagnostics.ts: however the windows, frames, outages and openings fall,
\* every dropped frame is in one sample or in the open window, no sample is shorter than a
\* window, and the warnings of an outage are a throttle apart, the first of them at once.
THEOREM FramesCountedOnce == TeSpec => []TeCountedOnce
<1>1. QED
  BY TeInvCounts, TeInvInit, TeInvStep, PTL DEF TeSpec

-----------------------------------------------------------------------------
(* The desktop's copy of a key-value engine *)

KvDisks == UNION {[D -> SUBSET Nat] : D \in SUBSET KvKey}
KvCalls == [op : {"set", "merge", "remove", "clear"}, key : KvKey, val : Nat, seen : BOOLEAN]
KvGets == [op : {"get"}, key : {KvNoView}, val : SUBSET KvKey, seen : {FALSE}]
KvQueued == KvCalls \cup KvGets \cup {KvKeys}

\* What a promise of the native queue carries: the disk its call left behind.
KvMeant(c) ==
  /\ c.op = "set" => c.key \in DOMAIN c.disk /\ c.disk[c.key] = {c.val}
  /\ c.op = "merge" => c.key \in DOMAIN c.disk
  /\ c.op = "remove" => c.key \notin DOMAIN c.disk
KvWrites == [op : {"set", "merge", "remove", "clear"}, key : KvKey, val : Nat, seen : BOOLEAN, disk : KvDisks]
KvReads == [op : {"keys", "get"}, key : {KvNoView}, val : SUBSET KvKey, seen : {FALSE}, disk : KvDisks]
KvResults == {c \in KvWrites : KvMeant(c)} \cup KvReads

KvTyped ==
  /\ kvDisk \in KvDisks
  /\ kvView \in KvDisks \cup {KvNoView}
  /\ kvCalls \in Nat
  /\ kvEngine \in KvEngines
  /\ kvEngine = "asyncStorage" => kvNative \in Seq(KvQueued) /\ kvDone \in Seq(KvResults)
  /\ kvEngine # "asyncStorage" => kvNative = << >>
  /\ kvEngine = "mmkv" => kvDone = << >>
  /\ kvEngine = "localStorage" => kvDone \in Seq({KvStorage})

\* The attached patches are stacked: each is on top of every older one that is still there.
KvStacked ==
  kvEngine # "mmkv" /\ ~kvBroken =>
    /\ kvMethod \in kvAttached \cup {0}
    /\ \A a \in kvAttached :
         /\ a <= kvMethod
         /\ kvInner[a] \in kvAttached \cup {0} /\ kvInner[a] < a
         /\ \A b \in kvAttached : b < a => b <= kvInner[a]

KvPatchTyped == kvInner \in Seq(Nat) /\ kvAttached \in SUBSET (1..Len(kvInner)) /\ kvMethod \in Nat

KvSame(d, e, k) == (k \in DOMAIN d <=> k \in DOMAIN e) /\ (k \in DOMAIN e => d[k] = e[k])
KvAgrees(k) == k \notin kvOff => KvSame(kvView, kvDisk, k)

\* The frame of the promise shows the desktop the key as the engine had it.
KvTouches(c, k) == c.op = "get" \/ (c.seen /\ c.op \in {"set", "merge", "remove"} /\ c.key = k)

\* Once the promises have been continued the key will be shown as the engine has it now.
KvCovered(k) ==
  \/ /\ \A i \in 1..Len(kvDone) : ~KvTouches(kvDone[i], k)
     /\ KvAgrees(k)
  \/ \E i \in 1..Len(kvDone) :
       /\ KvTouches(kvDone[i], k)
       /\ \A j \in 1..Len(kvDone) : j > i => ~KvTouches(kvDone[j], k)
       /\ KvSame(kvDone[i].disk, kvDisk, k)

KvRefreshes(c) == c.op = "keys" \/ (c.op = "clear" /\ c.seen)
KvRefreshComing ==
  \/ \E i \in 1..Len(kvNative) : KvRefreshes(kvNative[i]) \/ kvNative[i].op = "get"
  \/ \E i \in 1..Len(kvDone) : KvRefreshes(kvDone[i])

KvShown == kvView # KvNoView \/ \E i \in 1..Len(kvDone) : kvDone[i].op = "get"

KvWatched == kvAttached # {} /\ ~kvBroken

\* A call that no adapter saw is followed by a snapshot.
KvUnseenFollowed ==
  \A i \in 1..Len(kvNative) :
    kvNative[i].op \notin {"keys", "get"} /\ ~kvNative[i].seen =>
      \E j \in 1..Len(kvNative) : j > i /\ kvNative[j].op = "keys"

KvQueueFollows ==
  kvEngine = "asyncStorage" /\ KvWatched =>
    /\ KvUnseenFollowed
    /\ KvRefreshComing \/ (KvShown /\ \A k \in KvKey : KvCovered(k))

KvAtOnceFollows ==
  kvEngine # "asyncStorage" /\ KvWatched =>
    kvView # KvNoView /\ (kvDone = << >> => \A k \in KvKey : KvAgrees(k))

KvInv == KvTyped /\ KvPatchTyped /\ KvStacked /\ KvQueueFollows /\ KvAtOnceFollows

LEMMA KvInvInit == KvInit => KvInv
<1> SUFFICES ASSUME KvInit
             PROVE  KvInv
  OBVIOUS
<1>1. << >> \in KvDisks
  BY SMTT(30) DEF KvDisks
<1>2. << >> \in Seq(KvQueued) /\ << >> \in Seq(KvResults) /\ << >> \in Seq({KvStorage}) /\ << >> \in Seq(Nat)
  BY EmptySeq
<1>3. KvTyped
  BY <1>1, <1>2, KvAssumption DEF KvInit, KvTyped
<1>4. QED
  BY <1>2, <1>3 DEF KvInit, KvInv, KvPatchTyped, KvStacked, KvQueueFollows, KvAtOnceFollows, KvWatched

LEMMA KvPutDisk ==
  ASSUME NEW d \in KvDisks, NEW k \in KvKey, NEW v \in SUBSET Nat, NEW e, e = KvPut(d, k, v)
  PROVE  /\ e \in KvDisks
         /\ k \in DOMAIN e /\ e[k] = v
         /\ \A x \in KvKey : x # k => KvSame(e, d, x)
<1>1. PICK D \in SUBSET KvKey : d \in [D -> SUBSET Nat]
  BY DEF KvDisks
<1>2. e \in [D \cup {k} -> SUBSET Nat]
  BY <1>1 DEF KvPut
<1>3. D \cup {k} \in SUBSET KvKey
  OBVIOUS
<1>4. e \in KvDisks
  BY <1>2, <1>3 DEF KvDisks
<1>5. QED
  BY <1>1, <1>4 DEF KvPut, KvSame

LEMMA KvDropDisk ==
  ASSUME NEW d \in KvDisks, NEW k \in KvKey
  PROVE  /\ KvDrop(d, k) \in KvDisks
         /\ DOMAIN KvDrop(d, k) = DOMAIN d \ {k}
         /\ \A x \in KvKey : x # k => KvSame(KvDrop(d, k), d, x)
<1>1. PICK D \in SUBSET KvKey : d \in [D -> SUBSET Nat]
  BY DEF KvDisks
<1>2. KvDrop(d, k) \in [D \ {k} -> SUBSET Nat]
  BY <1>1 DEF KvDrop
<1>3. D \ {k} \in SUBSET KvKey
  OBVIOUS
<1>4. KvDrop(d, k) \in KvDisks
  BY <1>2, <1>3 DEF KvDisks
<1>5. QED
  BY <1>1, <1>4 DEF KvDrop, KvSame

\* A call changes the disk at its key alone, unless it clears it.
LEMMA KvAppliedDisk ==
  ASSUME NEW c, NEW d \in KvDisks, NEW key \in KvKey, NEW val \in Nat, c.key = key, c.val = val,
         c.op \in {"set", "merge", "remove", "clear", "otherTab"}
  PROVE  /\ KvApplied(c, d) \in KvDisks
         /\ c.op # "clear" => \A x \in KvKey : x # key => KvSame(KvApplied(c, d), d, x)
         /\ c.op \in {"set", "merge"} => key \in DOMAIN KvApplied(c, d)
         /\ c.op = "set" => KvApplied(c, d)[key] = {val}
         /\ c.op = "remove" => key \notin DOMAIN KvApplied(c, d)
<1> DEFINE old == IF key \in DOMAIN d THEN d[key] ELSE {}
<1>1. old \in SUBSET Nat
  <2>1. PICK D \in SUBSET KvKey : d \in [D -> SUBSET Nat]
    BY DEF KvDisks
  <2>2. QED
    BY <2>1
<1>2. CASE c.op \in {"set", "otherTab"}
  <2>1. KvApplied(c, d) = KvPut(d, key, {val})
    BY <1>2 DEF KvApplied
  <2> DEFINE v == {val}
             new == KvPut(d, key, v)
  <2>2. v \in SUBSET Nat
    OBVIOUS
  <2>3. /\ new \in KvDisks /\ key \in DOMAIN new /\ new[key] = v
        /\ \A x \in KvKey : x # key => KvSame(new, d, x)
    <3> HIDE DEF v
    <3>1. new = KvPut(d, key, v)
      OBVIOUS
    <3> HIDE DEF new
    <3>2. QED
      BY <2>2, <3>1, KvPutDisk
  <2> HIDE DEF new
  <2>4. KvApplied(c, d) = new
    BY <2>1 DEF new
  <2>5. QED
    BY <1>2, <2>3, <2>4
<1>3. CASE c.op = "merge"
  <2>1. KvApplied(c, d) = KvPut(d, key, {val} \cup old)
    BY <1>3 DEF KvApplied
  <2> DEFINE v == {val} \cup old
             new == KvPut(d, key, v)
  <2>2. v \in SUBSET Nat
    BY <1>1
  <2>3. new \in KvDisks /\ key \in DOMAIN new /\ \A x \in KvKey : x # key => KvSame(new, d, x)
    <3> HIDE DEF v
    <3>1. new = KvPut(d, key, v)
      OBVIOUS
    <3> HIDE DEF new
    <3>2. QED
      BY <2>2, <3>1, KvPutDisk
  <2> HIDE DEF new
  <2>4. KvApplied(c, d) = new
    BY <2>1 DEF new
  <2>5. QED
    BY <1>3, <2>3, <2>4
<1>4. CASE c.op = "remove"
  <2>1. KvApplied(c, d) = KvDrop(d, key)
    BY <1>4 DEF KvApplied
  <2> DEFINE new == KvDrop(d, key)
  <2>2. new \in KvDisks /\ key \notin DOMAIN new /\ \A x \in KvKey : x # key => KvSame(new, d, x)
    BY KvDropDisk
  <2> HIDE DEF new
  <2>3. KvApplied(c, d) = new
    BY <2>1 DEF new
  <2>4. QED
    BY <1>4, <2>2, <2>3
<1>5. CASE c.op = "clear"
  <2>1. KvApplied(c, d) = << >>
    BY <1>5 DEF KvApplied
  <2>2. << >> \in KvDisks
    BY DEF KvDisks
  <2>3. QED
    BY <1>5, <2>1, <2>2
<1>6. QED
  BY <1>2, <1>3, <1>4, <1>5

\* After a snapshot the copy agrees with the disk it was taken from.
LEMMA KvSnapshotShows ==
  ASSUME NEW keys \in SUBSET KvKey, NEW d \in KvDisks, KvSnapshot(keys, d)
  PROVE  /\ kvView' \in KvDisks
         /\ \A k \in KvKey : k \notin kvOff' => KvSame(kvView', d, k)
<1>1. PICK D \in SUBSET KvKey : d \in [D -> SUBSET Nat]
  BY DEF KvDisks
<1>2. kvView' \in [keys -> SUBSET Nat]
  BY <1>1 DEF KvSnapshot
<1>3. QED
  BY <1>1, <1>2 DEF KvDisks, KvSnapshot, KvSame

\* After a report the copy agrees with the disk it was made for at the key it names, and is
\* what it was elsewhere.
LEMMA KvReportShows ==
  ASSUME kvView \in KvDisks, NEW c, NEW d \in KvDisks, NEW key \in KvKey, NEW val \in Nat,
         c.key = key, c.val = val, c.op \in {"set", "merge", "remove"},
         c.op = "set" => key \in DOMAIN d /\ d[key] = {val},
         c.op = "merge" => key \in DOMAIN d,
         c.op = "remove" => key \notin DOMAIN d,
         KvReport(c, d)
  PROVE  /\ kvView' \in KvDisks
         /\ key \notin kvOff' => KvSame(kvView', d, key)
         /\ \A k \in KvKey : k # key => (k \in kvOff' <=> k \in kvOff) /\ KvSame(kvView', kvView, k)
<1>0. {val} \in SUBSET Nat
  OBVIOUS
<1>1. kvView # KvNoView
  BY KvAssumption DEF KvDisks
<1>2. kvView' = IF c.op = "remove" THEN KvDrop(kvView, key) ELSE KvPut(kvView, key, {val})
  BY <1>1 DEF KvReport
<1>3. \A k \in KvKey : k # key => (k \in kvOff' <=> k \in kvOff)
  BY DEF KvReport
<1>7. key \notin kvOff' => c.op # "merge" \/ d[key] = {val}
  BY DEF KvReport
<1>4. CASE c.op = "remove"
  <2>1. kvView' = KvDrop(kvView, key)
    BY <1>2, <1>4
  <2>2. kvView' \in KvDisks /\ key \notin DOMAIN kvView' /\ \A k \in KvKey : k # key => KvSame(kvView', kvView, k)
    BY <2>1, KvDropDisk, ZenonT(40)
  <2>3. KvSame(kvView', d, key)
    BY <1>4, <2>2 DEF KvSame
  <2>4. QED
    BY <1>3, <2>2, <2>3
<1>5. CASE c.op # "remove"
  <2>1. kvView' = KvPut(kvView, key, {val})
    BY <1>2, <1>5
  <2>2. key \notin kvOff' => key \in DOMAIN d /\ d[key] = {val}
    BY <1>5, <1>7
  <2>3. /\ kvView' \in KvDisks /\ key \in DOMAIN kvView' /\ kvView'[key] = {val}
        /\ \A k \in KvKey : k # key => KvSame(kvView', kvView, k)
    <3> DEFINE v == {val}
               new == KvPut(kvView, key, v)
    <3>1. /\ new \in KvDisks /\ key \in DOMAIN new /\ new[key] = v
          /\ \A k \in KvKey : k # key => KvSame(new, kvView, k)
      <4>1. v \in SUBSET Nat
        OBVIOUS
      <4> HIDE DEF v
      <4>2. new = KvPut(kvView, key, v)
        OBVIOUS
      <4> HIDE DEF new
      <4>3. QED
        BY <4>1, <4>2, KvPutDisk
    <3> HIDE DEF new
    <3>2. kvView' = new
      BY <2>1 DEF new
    <3>3. QED
      BY <3>1, <3>2
  <2>4. key \notin kvOff' => KvSame(kvView', d, key)
    BY <2>2, <2>3 DEF KvSame
  <2>5. QED
    BY <1>3, <2>3, <2>4
<1>6. QED
  BY <1>4, <1>5

LEMMA KvHeadTail ==
  ASSUME NEW S, NEW s \in Seq(S), s # << >>
  PROVE  /\ Head(s) \in S /\ Head(s) = s[1] /\ 1 \in 1..Len(s)
         /\ Tail(s) \in Seq(S) /\ Len(s) \in Nat /\ Len(Tail(s)) \in Nat /\ Len(s) = Len(Tail(s)) + 1
         /\ \A i \in 1..Len(Tail(s)) : Tail(s)[i] = s[i + 1]
<1>1. Len(s) \in Nat \ {0}
  BY EmptySeq
<1>2. Head(s) = s[1]
  OBVIOUS
<1>3. QED
  BY <1>1, <1>2, HeadTailProperties

LEMMA KvAppended ==
  ASSUME NEW S, NEW s \in Seq(S), NEW e \in S
  PROVE  /\ Append(s, e) \in Seq(S) /\ Append(s, e) # << >>
         /\ Len(s) \in Nat /\ Len(Append(s, e)) = Len(s) + 1
         /\ \A i \in 1..Len(s) : Append(s, e)[i] = s[i]
         /\ Append(s, e)[Len(s) + 1] = e
<1>1. Len(s) \in Nat
  BY LenProperties
<1>2. QED
  BY <1>1, AppendProperties

\* Attaching and detaching keep the patches stacked, as long as the outermost goes first.
LEMMA KvPatchStep ==
  ASSUME KvPatchTyped, KvStacked, [KvNext]_kvVars
  PROVE  KvPatchTyped' /\ KvStacked'
<1>0. Len(kvInner) \in Nat
  BY LenProperties DEF KvPatchTyped
<1>1. ASSUME UNCHANGED <<kvEngine, kvAdapters>>
      PROVE  KvPatchTyped' /\ KvStacked'
  BY <1>1 DEF KvPatchTyped, KvStacked, kvAdapters
<1>2. CASE KvAttach
  <2> DEFINE n == Len(kvInner) + 1
  <2>1. /\ kvEngine' = kvEngine /\ kvBroken' = kvBroken /\ kvMethod' = n
        /\ kvAttached' = kvAttached \cup {n} /\ kvInner' = Append(kvInner, kvMethod)
    BY <1>2 DEF KvAttach
  <2>2. /\ kvInner' \in Seq(Nat) /\ Len(kvInner') = n
        /\ \A i \in 1..Len(kvInner) : kvInner'[i] = kvInner[i]
        /\ kvInner'[n] = kvMethod
    BY <2>1, KvAppended DEF KvPatchTyped
  <2>3. KvPatchTyped'
    <3>1. kvAttached \subseteq 1..Len(kvInner)
      BY DEF KvPatchTyped
    <3>2. 1..Len(kvInner) \subseteq 1..n /\ n \in 1..n /\ n \in Nat
      BY <1>0
    <3>3. kvAttached' \subseteq 1..Len(kvInner')
      BY <2>1, <2>2, <3>1, <3>2
    <3>4. QED
      BY <2>1, <2>2, <3>2, <3>3 DEF KvPatchTyped
  <2>4. KvStacked'
    <3> SUFFICES ASSUME kvEngine' # "mmkv", ~kvBroken'
                 PROVE  /\ kvMethod' \in kvAttached' \cup {0}
                        /\ \A a \in kvAttached' :
                             /\ a <= kvMethod'
                             /\ kvInner'[a] \in kvAttached' \cup {0} /\ kvInner'[a] < a
                             /\ \A b \in kvAttached' : b < a => b <= kvInner'[a]
      BY DEF KvStacked
    <3>1. /\ kvMethod \in kvAttached \cup {0}
          /\ \A a \in kvAttached :
               /\ a <= kvMethod
               /\ kvInner[a] \in kvAttached \cup {0} /\ kvInner[a] < a
               /\ \A b \in kvAttached : b < a => b <= kvInner[a]
      BY <2>1 DEF KvStacked
    <3>2. kvAttached \subseteq 1..Len(kvInner) /\ kvMethod < n
      BY <1>0, <3>1 DEF KvPatchTyped
    <3>3. QED
      BY <1>0, <2>1, <2>2, <3>1, <3>2
  <2>5. QED
    BY <2>3, <2>4
<1>3. ASSUME NEW n, KvDetach(n)
      PROVE  KvPatchTyped' /\ KvStacked'
  <2>1. /\ n \in kvAttached /\ kvAttached' = kvAttached \ {n} /\ kvMethod' = kvInner[n]
        /\ kvInner' = kvInner /\ kvEngine' = kvEngine
        /\ kvBroken' = (kvBroken \/ (kvEngine # "mmkv" /\ kvMethod # n))
    BY <1>3 DEF KvDetach
  <2>2. kvInner[n] \in Nat
    BY <2>1, ElementOfSeq DEF KvPatchTyped
  <2>3. KvPatchTyped'
    BY <2>1, <2>2 DEF KvPatchTyped
  <2>4. KvStacked'
    <3> SUFFICES ASSUME kvEngine # "mmkv", ~kvBroken, kvMethod = n
                 PROVE  KvStacked'
      BY <2>1 DEF KvStacked
    <3>1. \A a \in kvAttached :
               /\ a <= n
               /\ kvInner[a] \in kvAttached \cup {0} /\ kvInner[a] < a
               /\ \A b \in kvAttached : b < a => b <= kvInner[a]
      BY DEF KvStacked
    <3>2. kvAttached \subseteq Nat
      BY <1>0 DEF KvPatchTyped
    <3>3. QED
      BY <2>1, <2>2, <3>1, <3>2 DEF KvStacked
  <2>5. QED
    BY <2>3, <2>4
<1>4. QED
  BY <1>1, <1>2, <1>3 DEF KvNext, KvCall, KvApply, KvJsRuns, kvVars

\* While an adapter is attached, and none was taken from under another, calls are seen.
LEMMA KvCallsSeen ==
  ASSUME KvPatchTyped, KvStacked, KvWatched
  PROVE  KvSeen
<1>1. PICK a \in kvAttached : a > 0
  <2>1. kvAttached \subseteq 1..Len(kvInner)
    BY DEF KvPatchTyped
  <2>2. PICK a \in kvAttached : TRUE
    BY DEF KvWatched
  <2>3. a > 0
    BY <2>1
  <2>4. QED
    BY <2>3
<1>2. kvAttached \subseteq Int
  BY DEF KvPatchTyped
<1>3. kvEngine # "mmkv" => kvMethod # 0
  BY <1>1, <1>2 DEF KvStacked, KvWatched
<1>4. QED
  BY <1>3 DEF KvSeen, KvWatched

LEMMA KvViewIsDisk == ASSUME kvView \in KvDisks PROVE kvView # KvNoView
  BY KvAssumption DEF KvDisks

LEMMA KvCallFollows ==
  ASSUME KvInv, NEW op \in KvOp, NEW k \in KvKey, KvCall(op, k)
  PROVE  KvTyped' /\ KvQueueFollows' /\ KvAtOnceFollows'
<1> DEFINE call == [op |-> op, key |-> k, val |-> kvCalls + 1, seen |-> KvSeen]
<1>1. /\ KvHas(op) /\ kvCalls' = kvCalls + 1
      /\ kvEngine = "asyncStorage" => kvNative' = Append(kvNative, call) /\ UNCHANGED <<kvDisk, kvDone, kvView, kvOff>>
      /\ kvEngine # "asyncStorage" => KvSyncCall(call)
      /\ kvEngine' = kvEngine /\ kvAttached' = kvAttached /\ kvBroken' = kvBroken
  BY DEF KvCall, kvAdapters, kvDesktop
<1>2. kvCalls + 1 \in Nat /\ kvEngine \in KvEngines
  BY DEF KvInv, KvTyped
<1>3. op \in KvOps /\ KvSeen \in BOOLEAN
  BY KvAssumption DEF KvSeen
<1>4. KvWatched => KvSeen
  BY KvCallsSeen DEF KvInv
<1>5. KvWatched' <=> KvWatched
  BY <1>1 DEF KvWatched
<1>6. CASE kvEngine = "asyncStorage"
  <2>1. call \in KvQueued
    <3>1. op \in {"set", "merge", "remove", "clear"}
      BY <1>1, <1>3, <1>6 DEF KvHas, KvOps
    <3>2. call \in KvCalls
      BY <1>2, <1>3, <3>1 DEF KvCalls
    <3>3. QED
      BY <3>2 DEF KvQueued
  <2> HIDE DEF call
  <2>2. kvNative \in Seq(KvQueued) /\ kvDone \in Seq(KvResults)
    BY <1>6 DEF KvInv, KvTyped
  <2>3. /\ kvNative' \in Seq(KvQueued) /\ Len(kvNative) \in Nat /\ Len(kvNative') = Len(kvNative) + 1
        /\ \A i \in 1..Len(kvNative) : kvNative'[i] = kvNative[i]
        /\ kvNative'[Len(kvNative) + 1] = call
    <3>1. kvNative' = Append(kvNative, call)
      BY <1>1, <1>6
    <3>2. QED
      BY <2>1, <2>2, <3>1, KvAppended
  <2>4. UNCHANGED <<kvDisk, kvDone, kvView, kvOff>>
    BY <1>1, <1>6
  <2>5. KvTyped'
    BY <1>1, <1>2, <1>6, <2>2, <2>3, <2>4 DEF KvInv, KvTyped
  <2>6. ASSUME KvWatched
        PROVE  KvUnseenFollowed'
    <3>1. call.seen
      BY <1>4, <2>6 DEF call
    <3>2. KvUnseenFollowed
      BY <1>6, <2>6 DEF KvInv, KvQueueFollows
    <3>3. SUFFICES ASSUME NEW i \in 1..Len(kvNative'), kvNative'[i].op \notin {"keys", "get"}, ~kvNative'[i].seen
                   PROVE  \E j \in 1..Len(kvNative') : j > i /\ kvNative'[j].op = "keys"
      BY DEF KvUnseenFollowed
    <3>4. i \in 1..Len(kvNative) /\ kvNative'[i] = kvNative[i]
      BY <2>3, <3>1, <3>3
    <3>5. PICK j \in 1..Len(kvNative) : j > i /\ kvNative[j].op = "keys"
      BY <3>2, <3>3, <3>4 DEF KvUnseenFollowed
    <3>6. j \in 1..Len(kvNative') /\ kvNative'[j] = kvNative[j]
      BY <2>3
    <3>7. QED
      BY <3>5, <3>6
  <2>7. KvRefreshComing => KvRefreshComing'
    BY <2>3, <2>4 DEF KvRefreshComing, KvRefreshes
  <2>8. KvShown => KvShown'
    BY <2>4 DEF KvShown
  <2>9. ASSUME NEW x \in KvKey, KvCovered(x)
        PROVE  KvCovered(x)'
    BY <2>4, <2>9 DEF KvCovered, KvAgrees, KvTouches, KvSame
  <2>10. KvQueueFollows'
    BY <1>5, <1>1, <1>6, <2>6, <2>7, <2>8, <2>9 DEF KvInv, KvQueueFollows
  <2>11. QED
    BY <1>1, <1>6, <2>5, <2>10 DEF KvAtOnceFollows
<1>7. CASE kvEngine # "asyncStorage"
  <2>1. /\ kvDisk' = KvApplied(call, kvDisk) /\ kvNative' = kvNative
        /\ op = "otherTab" => kvDone' = Append(kvDone, KvStorage) /\ UNCHANGED <<kvView, kvOff>>
        /\ op # "otherTab" => kvDone' = kvDone
        /\ op # "otherTab" /\ ~KvSeen => UNCHANGED <<kvView, kvOff>>
        /\ op = "clear" /\ KvSeen => KvSnapshot({}, kvDisk')
        /\ op \notin {"clear", "otherTab"} /\ KvSeen => KvReport(call, kvDisk')
    BY <1>1, <1>7 DEF KvSyncCall, kvDesktop
  <2>2. call.op = op /\ call.key = k /\ call.val = kvCalls + 1
    OBVIOUS
  <2> HIDE DEF call
  <2>3. op \in {"set", "merge", "remove", "clear", "otherTab"} /\ (op = "merge" => FALSE)
    BY <1>1, <1>3, <1>7 DEF KvOps, KvHas
  <2>4. kvDisk \in KvDisks /\ kvView \in KvDisks \cup {KvNoView}
    BY DEF KvInv, KvTyped
  <2> DEFINE v == kvCalls + 1
  <2>5. v \in Nat /\ call.val = v
    BY <1>2, <2>2
  <2> HIDE DEF v
  <2>6. /\ kvDisk' \in KvDisks
        /\ op # "clear" => \A x \in KvKey : x # k => KvSame(kvDisk', kvDisk, x)
        /\ op = "set" => k \in DOMAIN kvDisk' /\ kvDisk'[k] = {v}
        /\ op = "remove" => k \notin DOMAIN kvDisk'
    BY <2>1, <2>2, <2>3, <2>4, <2>5, KvAppliedDisk
  <2>7. CASE op = "otherTab"
    <3>1. kvEngine = "localStorage"
      BY <1>1, <2>7 DEF KvHas
    <3>2. kvDone \in Seq({KvStorage}) /\ KvStorage \in {KvStorage}
      BY <3>1 DEF KvInv, KvTyped
    <3>3. kvDone' \in Seq({KvStorage}) /\ kvDone' # << >>
      BY <2>1, <2>7, <3>2, KvAppended
    <3>4. KvTyped'
      BY <1>1, <1>2, <2>1, <2>6, <2>7, <3>1, <3>3 DEF KvInv, KvTyped
    <3>5. QED
      BY <1>1, <1>5, <2>1, <2>7, <3>1, <3>3, <3>4 DEF KvInv, KvQueueFollows, KvAtOnceFollows
  <2>8. CASE op # "otherTab" /\ ~KvSeen
    <3>1. KvTyped'
      BY <1>1, <1>2, <2>1, <2>6, <2>8 DEF KvInv, KvTyped
    <3>2. QED
      BY <1>1, <1>4, <1>5, <1>7, <2>8, <3>1 DEF KvQueueFollows, KvAtOnceFollows
  <2>9. CASE op = "clear" /\ KvSeen
    <3>1. /\ kvView' \in KvDisks
          /\ \A x \in KvKey : x \notin kvOff' => KvSame(kvView', kvDisk', x)
      <4>1. \A d \in KvDisks : KvSnapshot({}, d) =>
              /\ kvView' \in KvDisks
              /\ \A x \in KvKey : x \notin kvOff' => KvSame(kvView', d, x)
        BY KvSnapshotShows
      <4>2. QED
        BY <2>1, <2>6, <2>9, <4>1
    <3>2. KvTyped'
      BY <1>1, <1>2, <2>1, <2>6, <2>9, <3>1 DEF KvInv, KvTyped
    <3>3. kvView' # KvNoView
      BY <3>1, KvAssumption DEF KvDisks
    <3>4. QED
      BY <1>1, <1>7, <3>1, <3>2, <3>3 DEF KvQueueFollows, KvAtOnceFollows, KvAgrees
  <2>10. CASE op \in {"set", "remove"} /\ KvSeen
    <3>1. CASE kvView = KvNoView
      <4>1. kvView' = kvView
        BY <2>1, <2>10, <3>1 DEF KvReport
      <4>2. KvTyped'
        BY <1>1, <1>2, <2>1, <2>6, <2>10, <4>1 DEF KvInv, KvTyped
      <4>3. ~KvWatched
        BY <1>7, <3>1 DEF KvInv, KvAtOnceFollows
      <4>4. QED
        BY <1>1, <1>5, <4>2, <4>3 DEF KvQueueFollows, KvAtOnceFollows
    <3>2. CASE kvView \in KvDisks
      <4>1. \A d \in KvDisks :
              /\ op = "set" => k \in DOMAIN d /\ d[k] = {v}
              /\ op = "remove" => k \notin DOMAIN d
              /\ KvReport(call, d)
              => /\ kvView' \in KvDisks
                 /\ k \notin kvOff' => KvSame(kvView', d, k)
                 /\ \A x \in KvKey : x # k => (x \in kvOff' <=> x \in kvOff) /\ KvSame(kvView', kvView, x)
        BY <2>2, <2>5, <2>10, <3>2, KvReportShows
      <4>2. /\ kvView' \in KvDisks
            /\ k \notin kvOff' => KvSame(kvView', kvDisk', k)
            /\ \A x \in KvKey : x # k => (x \in kvOff' <=> x \in kvOff) /\ KvSame(kvView', kvView, x)
        BY <2>1, <2>6, <2>10, <4>1
      <4>3. KvTyped'
        BY <1>1, <1>2, <2>1, <2>6, <2>10, <4>2 DEF KvInv, KvTyped
      <4>4. kvView' # KvNoView
        BY <4>2, KvAssumption DEF KvDisks
      <4>5. ASSUME NEW x \in KvKey, KvAgrees(x)
            PROVE  KvAgrees(x)'
        <5>1. CASE x = k
          BY <4>2, <5>1 DEF KvAgrees
        <5>2. CASE x # k
          <6>1. x \notin kvOff' => KvSame(kvView, kvDisk, x)
            BY <4>2, <4>5, <5>2 DEF KvAgrees
          <6>2. KvSame(kvView', kvView, x) /\ KvSame(kvDisk', kvDisk, x)
            BY <2>6, <2>10, <4>2, <5>2
          <6>3. x \notin kvOff' => KvSame(kvView', kvDisk', x)
            BY <6>1, <6>2 DEF KvSame
          <6>4. QED
            BY <6>3 DEF KvAgrees
        <5>3. QED
          BY <5>1, <5>2
      <4>6. kvDone' = kvDone
        BY <2>1, <2>10
      <4>7. QED
        BY <1>1, <1>5, <1>7, <4>3, <4>4, <4>5, <4>6 DEF KvInv, KvQueueFollows, KvAtOnceFollows
    <3>3. QED
      BY <2>4, <3>1, <3>2
  <2>11. QED
    BY <2>3, <2>7, <2>8, <2>9, <2>10
<1>8. QED
  BY <1>6, <1>7

LEMMA KvAttachFollows ==
  ASSUME KvInv, KvAttach
  PROVE  KvTyped' /\ KvQueueFollows' /\ KvAtOnceFollows'
<1>1. /\ UNCHANGED <<kvEngine, kvDisk, kvDone, kvBroken, kvCalls>>
      /\ kvEngine = "asyncStorage" => kvNative' = Append(kvNative, KvKeys) /\ UNCHANGED <<kvView, kvOff>>
      /\ kvEngine # "asyncStorage" => KvSnapshot(DOMAIN kvDisk, kvDisk) /\ kvNative' = kvNative
  BY DEF KvAttach, kvDesktop
<1>2. kvDisk \in KvDisks
  BY DEF KvInv, KvTyped
<1>3. CASE kvEngine = "asyncStorage"
  <2>1. KvKeys \in KvQueued /\ KvKeys.op = "keys"
    BY DEF KvQueued, KvKeys
  <2>2. kvNative \in Seq(KvQueued)
    BY <1>3 DEF KvInv, KvTyped
  <2>3. /\ kvNative' \in Seq(KvQueued) /\ Len(kvNative) \in Nat /\ Len(kvNative') = Len(kvNative) + 1
        /\ kvNative'[Len(kvNative) + 1] = KvKeys
    BY <1>1, <1>3, <2>1, <2>2, KvAppended
  <2>4. KvTyped'
    BY <1>1, <1>3, <2>3 DEF KvInv, KvTyped
  <2> DEFINE n == Len(kvNative')
  <2>5. n \in 1..Len(kvNative') /\ kvNative'[n].op = "keys" /\ \A i \in 1..n : i = n \/ n > i
    BY <2>1, <2>3
  <2>6. KvUnseenFollowed'
    BY <2>5 DEF KvUnseenFollowed
  <2>7. KvRefreshComing'
    BY <2>5 DEF KvRefreshComing, KvRefreshes
  <2>8. QED
    BY <1>1, <1>3, <2>4, <2>6, <2>7 DEF KvQueueFollows, KvAtOnceFollows
<1>4. CASE kvEngine # "asyncStorage"
  <2>1. DOMAIN kvDisk \in SUBSET KvKey
    BY <1>2 DEF KvDisks
  <2>2. kvView' \in KvDisks /\ \A x \in KvKey : x \notin kvOff' => KvSame(kvView', kvDisk, x)
    BY <1>1, <1>2, <1>4, <2>1, KvSnapshotShows
  <2>3. KvTyped'
    BY <1>1, <1>4, <2>2 DEF KvInv, KvTyped
  <2>4. kvView' # KvNoView
    BY <2>2, KvAssumption DEF KvDisks
  <2>5. QED
    BY <1>1, <1>4, <2>2, <2>3, <2>4 DEF KvQueueFollows, KvAtOnceFollows, KvAgrees
<1>5. QED
  BY <1>3, <1>4

LEMMA KvDetachFollows ==
  ASSUME KvInv, NEW n, KvDetach(n)
  PROVE  KvTyped' /\ KvQueueFollows' /\ KvAtOnceFollows'
<1>1. /\ UNCHANGED <<kvEngine, kvDisk, kvNative, kvDone, kvView, kvOff, kvCalls>>
      /\ KvWatched' => KvWatched
  BY DEF KvDetach, kvDesktop, KvWatched
<1>2. KvTyped'
  BY <1>1 DEF KvInv, KvTyped
<1>3. (KvUnseenFollowed => KvUnseenFollowed') /\ (KvRefreshComing => KvRefreshComing') /\ (KvShown => KvShown')
  BY <1>1 DEF KvUnseenFollowed, KvRefreshComing, KvRefreshes, KvShown
<1>4. \A k \in KvKey : (KvAgrees(k) => KvAgrees(k)') /\ (KvCovered(k) => KvCovered(k)')
  BY <1>1 DEF KvCovered, KvAgrees, KvTouches, KvSame
<1>5. QED
  BY <1>1, <1>2, <1>3, <1>4 DEF KvInv, KvQueueFollows, KvAtOnceFollows

\* A touched key stays covered when the queue's oldest promise is continued, and what the
\* promise shows is all that has to be right when it was the last to touch the key.
LEMMA KvCoveredTail ==
  ASSUME NEW S, kvDone \in Seq(S), kvDone # << >>, kvDone' = Tail(kvDone), kvDisk' = kvDisk,
         NEW k \in KvKey, KvCovered(k),
         (/\ \A i \in 1..Len(kvDone') : ~KvTouches(kvDone'[i], k)
          /\ IF KvTouches(Head(kvDone), k) THEN KvSame(Head(kvDone).disk, kvDisk, k) ELSE KvAgrees(k))
           => KvAgrees(k)'
  PROVE  KvCovered(k)'
<1>1. /\ Head(kvDone) = kvDone[1] /\ 1 \in 1..Len(kvDone)
      /\ Len(kvDone) \in Nat /\ Len(kvDone') \in Nat /\ Len(kvDone) = Len(kvDone') + 1
      /\ \A i \in 1..Len(kvDone') : kvDone'[i] = kvDone[i + 1]
  BY KvHeadTail
<1>2. CASE \A i \in 1..Len(kvDone) : ~KvTouches(kvDone[i], k)
  <2>1. KvAgrees(k)
    BY <1>2 DEF KvCovered
  <2>2. \A i \in 1..Len(kvDone') : ~KvTouches(kvDone'[i], k)
    BY <1>1, <1>2
  <2>3. KvAgrees(k)'
    BY <1>1, <1>2, <2>1, <2>2
  <2>4. QED
    BY <2>2, <2>3 DEF KvCovered, KvTouches
<1>3. CASE ~(\A i \in 1..Len(kvDone) : ~KvTouches(kvDone[i], k))
  <2>1. PICK i \in 1..Len(kvDone) :
          /\ KvTouches(kvDone[i], k)
          /\ \A j \in 1..Len(kvDone) : j > i => ~KvTouches(kvDone[j], k)
          /\ KvSame(kvDone[i].disk, kvDisk, k)
    BY <1>3 DEF KvCovered
  <2>2. CASE i = 1
    <3>1. \A j \in 1..Len(kvDone') : ~KvTouches(kvDone'[j], k)
      BY <1>1, <2>1, <2>2
    <3>2. KvAgrees(k)'
      BY <1>1, <2>1, <2>2, <3>1
    <3>3. QED
      BY <3>1, <3>2 DEF KvCovered, KvTouches
  <2>3. CASE i # 1
    <3> DEFINE p == i - 1
    <3>1. p \in 1..Len(kvDone') /\ i = p + 1
      BY <1>1, <2>3
    <3>2. kvDone'[p] = kvDone[i]
      BY <1>1, <3>1
    <3>3. ASSUME NEW j \in 1..Len(kvDone'), j > p
          PROVE  ~KvTouches(kvDone'[j], k)
      <4>1. kvDone'[j] = kvDone[j + 1] /\ j + 1 \in 1..Len(kvDone) /\ j + 1 > i
        BY <1>1, <3>1, <3>3
      <4>2. QED
        BY <2>1, <4>1
    <3> HIDE DEF p
    <3>4. KvTouches(kvDone'[p], k) /\ KvSame(kvDone'[p].disk, kvDisk', k)
      BY <2>1, <3>2
    <3>5. QED
      BY <3>1, <3>3, <3>4 DEF KvCovered, KvTouches, KvSame
  <2>4. QED
    BY <2>2, <2>3
<1>4. QED
  BY <1>2, <1>3

LEMMA KvApplyFollows ==
  ASSUME KvInv, KvApply
  PROVE  KvTyped' /\ KvQueueFollows' /\ KvAtOnceFollows'
<1> DEFINE c == Head(kvNative)
           v == IF c.op = "keys" THEN DOMAIN kvDisk ELSE c.val
           done == KvResult(c, v, KvApplied(c, kvDisk))
<1>1. /\ kvNative # << >> /\ kvNative' = Tail(kvNative)
      /\ kvDisk' = KvApplied(c, kvDisk) /\ kvDone' = Append(kvDone, done)
      /\ UNCHANGED <<kvEngine, kvAttached, kvBroken, kvView, kvOff, kvCalls>>
  BY DEF KvApply, kvAdapters, kvDesktop
<1>2. /\ kvEngine = "asyncStorage" /\ kvNative \in Seq(KvQueued) /\ kvDone \in Seq(KvResults)
      /\ kvDisk \in KvDisks
  BY <1>1 DEF KvInv, KvTyped
<1>3. /\ c \in KvQueued /\ c = kvNative[1] /\ 1 \in 1..Len(kvNative) /\ kvNative' \in Seq(KvQueued)
      /\ Len(kvNative) \in Nat /\ Len(kvNative') \in Nat /\ Len(kvNative) = Len(kvNative') + 1
      /\ \A i \in 1..Len(kvNative') : kvNative'[i] = kvNative[i + 1]
  BY <1>1, <1>2, KvHeadTail
<1> HIDE DEF c
<1>4. done.op = c.op /\ done.key = c.key /\ done.val = v /\ done.seen = c.seen /\ done.disk = kvDisk'
  BY <1>1 DEF KvResult
<1>5. CASE c \in KvCalls
  <2> DEFINE key == c.key
             val == c.val
  <2>1. key \in KvKey /\ val \in Nat /\ c.seen \in BOOLEAN /\ c.op \in {"set", "merge", "remove", "clear"}
    BY <1>5 DEF KvCalls
  <2>2. c.key = key /\ c.val = val
    OBVIOUS
  <2>3. v = val
    BY <2>1
  <2> HIDE DEF key, val, v
  <2>4. /\ kvDisk' \in KvDisks
        /\ c.op # "clear" => \A x \in KvKey : x # key => KvSame(kvDisk', kvDisk, x)
        /\ c.op \in {"set", "merge"} => key \in DOMAIN kvDisk'
        /\ c.op = "set" => kvDisk'[key] = {val}
        /\ c.op = "remove" => key \notin DOMAIN kvDisk'
    BY <1>1, <1>2, <2>1, <2>2, KvAppliedDisk
  <2>5. done \in KvWrites
    <3>1. done = [op |-> c.op, key |-> key, val |-> val, seen |-> c.seen, disk |-> kvDisk']
      BY <1>1, <2>2, <2>3 DEF KvResult
    <3>2. QED
      BY <2>1, <2>4, <3>1 DEF KvWrites
  <2> HIDE DEF done
  <2>6. KvMeant(done)
    BY <1>4, <2>2, <2>3, <2>4 DEF KvMeant
  <2>7. done \in KvResults
    BY <2>5, <2>6 DEF KvResults
  <2>8. /\ kvDone' \in Seq(KvResults) /\ Len(kvDone) \in Nat /\ Len(kvDone') = Len(kvDone) + 1
        /\ \A i \in 1..Len(kvDone) : kvDone'[i] = kvDone[i]
        /\ kvDone'[Len(kvDone) + 1] = done
    BY <1>1, <1>2, <2>7, KvAppended
  <2>9. KvTyped'
    BY <1>1, <1>2, <1>3, <2>4, <2>8 DEF KvInv, KvTyped
  <2> DEFINE n == Len(kvDone) + 1
  <2>10. n \in 1..Len(kvDone') /\ (\A i \in 1..Len(kvDone) : i \in 1..Len(kvDone')) /\ kvDone'[n] = done
    BY <2>8
  <2>11. ASSUME KvWatched
         PROVE  KvUnseenFollowed' /\ (KvRefreshComing' \/ (KvShown' /\ \A k \in KvKey : KvCovered(k)'))
    <3>1. KvUnseenFollowed /\ (KvRefreshComing \/ (KvShown /\ \A k \in KvKey : KvCovered(k)))
      BY <1>2, <2>11 DEF KvInv, KvQueueFollows
    <3>2. KvUnseenFollowed'
      <4>1. SUFFICES ASSUME NEW i \in 1..Len(kvNative'), kvNative'[i].op \notin {"keys", "get"}, ~kvNative'[i].seen
                     PROVE  \E j \in 1..Len(kvNative') : j > i /\ kvNative'[j].op = "keys"
        BY DEF KvUnseenFollowed
      <4>2. i + 1 \in 1..Len(kvNative) /\ kvNative'[i] = kvNative[i + 1]
        BY <1>3
      <4>3. PICK j \in 1..Len(kvNative) : j > i + 1 /\ kvNative[j].op = "keys"
        BY <3>1, <4>1, <4>2 DEF KvUnseenFollowed
      <4>4. j - 1 \in 1..Len(kvNative') /\ j - 1 > i /\ kvNative'[j - 1] = kvNative[j]
        BY <1>3, <4>3
      <4>5. QED
        BY <4>3, <4>4
    <3>3. CASE ~c.seen
      <4>1. PICK j \in 1..Len(kvNative) : j > 1 /\ kvNative[j].op = "keys"
        BY <1>3, <2>1, <3>1, <3>3 DEF KvUnseenFollowed
      <4>2. j - 1 \in 1..Len(kvNative') /\ kvNative'[j - 1] = kvNative[j]
        BY <1>3, <4>1
      <4>3. KvRefreshComing'
        BY <4>1, <4>2 DEF KvRefreshComing, KvRefreshes
      <4>4. QED
        BY <3>2, <4>3
    <3>4. CASE c.seen /\ c.op = "clear"
      <4>1. KvRefreshComing'
        BY <1>4, <2>10, <3>4 DEF KvRefreshComing, KvRefreshes
      <4>2. QED
        BY <3>2, <4>1
    <3>5. CASE c.seen /\ c.op # "clear" /\ KvRefreshComing
      <4>1. CASE \E i \in 1..Len(kvNative) : KvRefreshes(kvNative[i]) \/ kvNative[i].op = "get"
        <5>1. PICK i \in 1..Len(kvNative) : KvRefreshes(kvNative[i]) \/ kvNative[i].op = "get"
          BY <4>1
        <5>2. i # 1
          BY <1>3, <2>1, <3>5, <5>1 DEF KvRefreshes
        <5>3. i - 1 \in 1..Len(kvNative') /\ kvNative'[i - 1] = kvNative[i]
          BY <1>3, <5>2
        <5>4. QED
          BY <3>2, <5>1, <5>3 DEF KvRefreshComing, KvRefreshes
      <4>2. CASE \E i \in 1..Len(kvDone) : KvRefreshes(kvDone[i])
        <5>1. PICK i \in 1..Len(kvDone) : KvRefreshes(kvDone[i])
          BY <4>2
        <5>2. i \in 1..Len(kvDone') /\ kvDone'[i] = kvDone[i]
          BY <2>8, <2>10
        <5>3. QED
          BY <3>2, <5>1, <5>2 DEF KvRefreshComing, KvRefreshes
      <4>3. QED
        BY <3>5, <4>1, <4>2 DEF KvRefreshComing
    <3>6. CASE c.seen /\ c.op # "clear" /\ KvShown /\ \A k \in KvKey : KvCovered(k)
      <4>1. KvShown'
        BY <1>1, <2>8, <2>10, <3>6 DEF KvShown
      <4>2. ASSUME NEW k \in KvKey
            PROVE  KvCovered(k)'
        <5>1. CASE k = key
          <6>1. KvTouches(done, k) /\ KvSame(done.disk, kvDisk', k)
            BY <1>4, <2>1, <2>2, <3>6, <5>1 DEF KvTouches, KvSame
          <6>2. \A j \in 1..Len(kvDone') : ~(j > n)
            BY <2>8
          <6>3. QED
            BY <2>10, <6>1, <6>2 DEF KvCovered, KvTouches, KvSame
        <5>2. CASE k # key
          <6>1. ~KvTouches(done, k) /\ KvSame(kvDisk', kvDisk, k)
            BY <1>4, <2>1, <2>2, <2>4, <3>6, <5>2 DEF KvTouches
          <6>2. \A j \in 1..Len(kvDone') : j \in 1..Len(kvDone) \/ j = n
            BY <2>8
          <6>3. CASE (\A i \in 1..Len(kvDone) : ~KvTouches(kvDone[i], k)) /\ KvAgrees(k)
            <7>1. KvAgrees(k)'
              BY <1>1, <6>1, <6>3 DEF KvAgrees, KvSame
            <7>2. \A i \in 1..Len(kvDone') : ~KvTouches(kvDone'[i], k)
              BY <2>8, <2>10, <6>1, <6>2, <6>3
            <7>3. QED
              BY <7>1, <7>2 DEF KvCovered, KvTouches
          <6>4. ASSUME NEW i \in 1..Len(kvDone), KvTouches(kvDone[i], k),
                       \A j \in 1..Len(kvDone) : j > i => ~KvTouches(kvDone[j], k),
                       KvSame(kvDone[i].disk, kvDisk, k)
                PROVE  KvCovered(k)'
            <7>1. i \in 1..Len(kvDone') /\ kvDone'[i] = kvDone[i]
              BY <2>8, <2>10
            <7>2. \A j \in 1..Len(kvDone') : j > i => ~KvTouches(kvDone'[j], k)
              BY <2>8, <2>10, <6>1, <6>2, <6>4
            <7>3. KvSame(kvDone'[i].disk, kvDisk', k)
              BY <6>1, <6>4, <7>1 DEF KvSame
            <7>4. KvTouches(kvDone'[i], k)
              BY <6>4, <7>1
            <7>5. QED
              BY <7>1, <7>2, <7>3, <7>4 DEF KvCovered, KvTouches, KvSame
          <6>5. QED
            BY <3>6, <6>3, <6>4 DEF KvCovered
        <5>3. QED
          BY <5>1, <5>2
      <4>3. QED
        BY <3>2, <4>1, <4>2
    <3>7. QED
      BY <3>1, <3>2, <3>3, <3>4, <3>5, <3>6
  <2>12. KvWatched' <=> KvWatched
    BY <1>1 DEF KvWatched
  <2>13. QED
    BY <1>1, <1>2, <2>9, <2>11, <2>12 DEF KvQueueFollows, KvAtOnceFollows
<1>6. CASE c \in KvGets \cup {KvKeys}
  <2>1. c.op \in {"keys", "get"} /\ c.key = KvNoView /\ c.seen = FALSE /\ (c.op = "get" => c.val \in SUBSET KvKey)
    <3>1. CASE c \in KvGets
      <4>1. c.seen \in {FALSE}
        BY <3>1 DEF KvGets
      <4>2. c.op = "get" /\ c.key = KvNoView /\ c.val \in SUBSET KvKey
        BY <3>1 DEF KvGets
      <4>3. QED
        BY <4>1, <4>2
    <3>2. CASE c = KvKeys
      <4>1. c.seen \in {FALSE}
        BY <3>2 DEF KvKeys
      <4>2. c.op = "keys" /\ c.key = KvNoView
        BY <3>2 DEF KvKeys
      <4>3. QED
        BY <4>1, <4>2
    <3>3. QED
      BY <1>6, <3>1, <3>2
  <2>2. kvDisk' = kvDisk
    BY <1>1, <2>1 DEF KvApplied
  <2>3. DOMAIN kvDisk \in SUBSET KvKey
    BY <1>2 DEF KvDisks
  <2>4. v \in SUBSET KvKey
    BY <2>1, <2>3
  <2> HIDE DEF v
  <2>5. done \in KvReads
    <3>1. done = [op |-> c.op, key |-> KvNoView, val |-> v, seen |-> FALSE, disk |-> kvDisk']
      BY <1>1, <2>1 DEF KvResult
    <3>2. QED
      BY <1>2, <2>1, <2>2, <2>4, <3>1 DEF KvReads
  <2> HIDE DEF done
  <2>6. done \in KvResults
    BY <2>5 DEF KvResults
  <2>7. /\ kvDone' \in Seq(KvResults) /\ Len(kvDone) \in Nat /\ Len(kvDone') = Len(kvDone) + 1
        /\ \A i \in 1..Len(kvDone) : kvDone'[i] = kvDone[i]
        /\ kvDone'[Len(kvDone) + 1] = done
    BY <1>1, <1>2, <2>6, KvAppended
  <2>8. KvTyped'
    BY <1>1, <1>2, <1>3, <2>2, <2>7 DEF KvInv, KvTyped
  <2> DEFINE n == Len(kvDone) + 1
  <2>9. n \in 1..Len(kvDone') /\ kvDone'[n] = done /\ \A j \in 1..Len(kvDone') : ~(j > n)
    BY <2>7
  <2>10. ASSUME KvWatched
         PROVE  KvUnseenFollowed' /\ (KvRefreshComing' \/ (KvShown' /\ \A k \in KvKey : KvCovered(k)'))
    <3>1. KvUnseenFollowed
      BY <1>2, <2>10 DEF KvInv, KvQueueFollows
    <3>2. KvUnseenFollowed'
      <4>1. SUFFICES ASSUME NEW i \in 1..Len(kvNative'), kvNative'[i].op \notin {"keys", "get"}, ~kvNative'[i].seen
                     PROVE  \E j \in 1..Len(kvNative') : j > i /\ kvNative'[j].op = "keys"
        BY DEF KvUnseenFollowed
      <4>2. i + 1 \in 1..Len(kvNative) /\ kvNative'[i] = kvNative[i + 1]
        BY <1>3
      <4>3. PICK j \in 1..Len(kvNative) : j > i + 1 /\ kvNative[j].op = "keys"
        BY <3>1, <4>1, <4>2 DEF KvUnseenFollowed
      <4>4. j - 1 \in 1..Len(kvNative') /\ j - 1 > i /\ kvNative'[j - 1] = kvNative[j]
        BY <1>3, <4>3
      <4>5. QED
        BY <4>3, <4>4
    <3>3. CASE c.op = "keys"
      <4>1. KvRefreshComing'
        BY <1>4, <2>9, <3>3 DEF KvRefreshComing, KvRefreshes
      <4>2. QED
        BY <3>2, <4>1
    <3>4. CASE c.op = "get"
      <4>1. KvShown'
        BY <1>4, <2>9, <3>4 DEF KvShown
      <4>2. ASSUME NEW k \in KvKey
            PROVE  KvCovered(k)'
        <5>1. KvTouches(done, k) /\ KvSame(done.disk, kvDisk', k)
          BY <1>4, <3>4 DEF KvTouches, KvSame
        <5>2. QED
          BY <2>9, <5>1 DEF KvCovered, KvTouches, KvSame
      <4>3. QED
        BY <3>2, <4>1, <4>2
    <3>5. QED
      BY <2>1, <3>3, <3>4
  <2>11. KvWatched' <=> KvWatched
    BY <1>1 DEF KvWatched
  <2>12. QED
    BY <1>1, <1>2, <2>8, <2>10, <2>11 DEF KvQueueFollows, KvAtOnceFollows
<1>7. QED
  BY <1>3, <1>5, <1>6 DEF KvQueued

\* What is coming after the oldest promise still comes once that one is continued.
LEMMA KvQueueTail ==
  ASSUME NEW S, kvDone \in Seq(S), kvDone # << >>, kvDone' = Tail(kvDone),
         kvNative \in Seq(KvQueued), NEW e \in KvQueued, e.op \in {"keys", "get"},
         kvNative' \in {kvNative, Append(kvNative, e)},
         KvUnseenFollowed
  PROVE  /\ kvNative' \in Seq(KvQueued)
         /\ KvUnseenFollowed'
         /\ KvRefreshComing /\ ~KvRefreshes(Head(kvDone)) => KvRefreshComing'
         /\ kvNative' = Append(kvNative, e) => KvRefreshComing'
<1>1. /\ Head(kvDone) = kvDone[1]
      /\ Len(kvDone) \in Nat /\ Len(kvDone') \in Nat /\ Len(kvDone) = Len(kvDone') + 1
      /\ \A i \in 1..Len(kvDone') : kvDone'[i] = kvDone[i + 1]
  BY KvHeadTail
<1>2. /\ kvNative' \in Seq(KvQueued) /\ Len(kvNative) \in Nat
      /\ Len(kvNative') \in {Len(kvNative), Len(kvNative) + 1}
      /\ \A i \in 1..Len(kvNative) : kvNative'[i] = kvNative[i]
      /\ Len(kvNative') = Len(kvNative) + 1 => kvNative'[Len(kvNative) + 1] = e
      /\ kvNative' = Append(kvNative, e) => Len(kvNative') = Len(kvNative) + 1
  <2>0. Len(kvNative) \in Nat
    BY LenProperties
  <2>1. CASE kvNative' = kvNative
    <3>1. kvNative # Append(kvNative, e)
      BY <2>0, KvAppended
    <3>2. QED
      BY <2>0, <2>1, <3>1
  <2>2. CASE kvNative' = Append(kvNative, e)
    BY <2>2, KvAppended
  <2>3. QED
    BY <2>1, <2>2
<1>3. \A i \in 1..Len(kvNative) : i \in 1..Len(kvNative') /\ kvNative'[i] = kvNative[i]
  BY <1>2
<1>4. KvUnseenFollowed'
  <2>1. SUFFICES ASSUME NEW i \in 1..Len(kvNative'), kvNative'[i].op \notin {"keys", "get"}, ~kvNative'[i].seen
                 PROVE  \E j \in 1..Len(kvNative') : j > i /\ kvNative'[j].op = "keys"
    BY DEF KvUnseenFollowed
  <2>2. i \in 1..Len(kvNative)
    BY <1>2, <2>1
  <2>3. PICK j \in 1..Len(kvNative) : j > i /\ kvNative[j].op = "keys"
    BY <1>3, <2>1, <2>2 DEF KvUnseenFollowed
  <2>4. QED
    BY <1>3, <2>3
<1>5. ASSUME KvRefreshComing, ~KvRefreshes(Head(kvDone))
      PROVE  KvRefreshComing'
  <2>1. CASE \E i \in 1..Len(kvNative) : KvRefreshes(kvNative[i]) \/ kvNative[i].op = "get"
    BY <1>3, <2>1 DEF KvRefreshComing, KvRefreshes
  <2>2. CASE \E i \in 1..Len(kvDone) : KvRefreshes(kvDone[i])
    <3>1. PICK i \in 1..Len(kvDone) : KvRefreshes(kvDone[i])
      BY <2>2
    <3>2. i # 1
      BY <1>1, <1>5, <3>1
    <3>3. i - 1 \in 1..Len(kvDone') /\ kvDone'[i - 1] = kvDone[i]
      BY <1>1, <3>2
    <3>4. QED
      BY <3>1, <3>3 DEF KvRefreshComing, KvRefreshes
  <2>3. QED
    BY <1>5, <2>1, <2>2 DEF KvRefreshComing
<1>6. ASSUME kvNative' = Append(kvNative, e)
      PROVE  KvRefreshComing'
  <2> DEFINE n == Len(kvNative) + 1
  <2>1. n \in 1..Len(kvNative') /\ kvNative'[n] = e
    BY <1>2, <1>6
  <2>2. QED
    BY <2>1 DEF KvRefreshComing, KvRefreshes
<1>7. QED
  BY <1>2, <1>4, <1>5, <1>6

LEMMA KvJsRunsFollows ==
  ASSUME KvInv, KvJsRuns
  PROVE  KvTyped' /\ KvQueueFollows' /\ KvAtOnceFollows'
<1> DEFINE c == Head(kvDone)
<1>1. /\ kvDone # << >> /\ kvDone' = Tail(kvDone) /\ KvContinue(c)
      /\ UNCHANGED <<kvEngine, kvDisk, kvAttached, kvBroken, kvCalls>>
  BY DEF KvJsRuns, kvAdapters
<1>2. KvWatched' <=> KvWatched
  BY <1>1 DEF KvWatched
<1>3. kvDisk \in KvDisks /\ kvView \in KvDisks \cup {KvNoView} /\ kvEngine # "mmkv" /\ kvEngine \in KvEngines
  BY <1>1 DEF KvInv, KvTyped
<1>4. CASE kvEngine = "localStorage"
  <2>1. kvDone \in Seq({KvStorage})
    BY <1>4 DEF KvInv, KvTyped
  <2>2. c = KvStorage /\ kvDone' \in Seq({KvStorage})
    BY <1>1, <2>1, KvHeadTail
  <2>3. /\ kvNative' = kvNative
        /\ IF kvAttached = {} THEN UNCHANGED <<kvView, kvOff>> ELSE KvSnapshot(DOMAIN kvDisk, kvDisk)
    BY <1>1, <2>2 DEF KvContinue, KvStorage, kvDesktop
  <2>4. CASE kvAttached = {}
    <3>1. KvTyped'
      BY <1>1, <1>3, <1>4, <2>2, <2>3, <2>4 DEF KvInv, KvTyped
    <3>2. QED
      BY <1>1, <2>4, <3>1 DEF KvQueueFollows, KvAtOnceFollows, KvWatched
  <2>5. CASE kvAttached # {}
    <3>1. DOMAIN kvDisk \in SUBSET KvKey
      BY <1>3 DEF KvDisks
    <3>2. kvView' \in KvDisks /\ \A x \in KvKey : x \notin kvOff' => KvSame(kvView', kvDisk, x)
      BY <1>3, <2>3, <2>5, <3>1, KvSnapshotShows
    <3>3. KvTyped'
      BY <1>1, <1>3, <1>4, <2>2, <2>3, <3>2 DEF KvInv, KvTyped
    <3>4. kvView' # KvNoView
      BY <3>2, KvAssumption DEF KvDisks
    <3>5. QED
      BY <1>1, <1>4, <3>2, <3>3, <3>4 DEF KvQueueFollows, KvAtOnceFollows, KvAgrees
  <2>6. QED
    BY <2>4, <2>5
<1>5. CASE kvEngine = "asyncStorage"
  <2>1. kvNative \in Seq(KvQueued) /\ kvDone \in Seq(KvResults)
    BY <1>5 DEF KvInv, KvTyped
  <2>2. /\ c \in KvResults /\ c = kvDone[1] /\ 1 \in 1..Len(kvDone) /\ kvDone' \in Seq(KvResults)
        /\ Len(kvDone) \in Nat /\ Len(kvDone') \in Nat /\ Len(kvDone) = Len(kvDone') + 1
        /\ \A i \in 1..Len(kvDone') : kvDone'[i] = kvDone[i + 1]
    BY <1>1, <2>1, KvHeadTail
  <2>3. KvKeys \in KvQueued /\ KvKeys.op = "keys"
    BY DEF KvQueued, KvKeys
  <2>4. KvWatched => KvUnseenFollowed /\ (KvRefreshComing \/ (KvShown /\ \A k \in KvKey : KvCovered(k)))
    BY <1>5 DEF KvInv, KvQueueFollows
  \* All that is left to show of a step.
  <2>5. ASSUME kvNative' \in Seq(KvQueued), kvView' \in KvDisks \cup {KvNoView},
               KvWatched => KvUnseenFollowed' /\ (KvRefreshComing' \/ (KvShown' /\ \A k \in KvKey : KvCovered(k)'))
        PROVE  KvTyped' /\ KvQueueFollows' /\ KvAtOnceFollows'
    <3>1. KvTyped'
      BY <1>1, <1>3, <1>5, <2>2, <2>5 DEF KvInv, KvTyped
    <3>2. QED
      BY <1>1, <1>2, <1>5, <2>5, <3>1 DEF KvQueueFollows, KvAtOnceFollows
  <2> HIDE DEF c
  <2>6. CASE c \in KvReads /\ c.op = "keys"
    <3>1. kvNative' = Append(kvNative, KvGet(c.val)) /\ kvView' = kvView
      BY <1>1, <2>6 DEF KvContinue, kvDesktop
    <3>2. KvGet(c.val) \in KvQueued /\ KvGet(c.val).op = "get"
      BY <2>6 DEF KvReads, KvQueued, KvGets, KvGet
    <3> DEFINE e == KvGet(c.val)
    <3> HIDE DEF e
    <3>3. e \in KvQueued /\ e.op \in {"keys", "get"} /\ kvNative' = Append(kvNative, e)
      BY <3>1, <3>2 DEF e
    <3>4. kvNative' \in Seq(KvQueued)
      BY <2>1, <3>3, KvAppended
    <3>5. KvWatched => KvUnseenFollowed' /\ KvRefreshComing'
      BY <1>1, <2>1, <2>4, <3>3, KvQueueTail
    <3>6. QED
      BY <1>3, <2>5, <3>1, <3>4, <3>5
  <2>7. CASE c \in KvReads /\ c.op = "get"
    <3>1. KvSnapshot(c.val, c.disk) /\ kvNative' = kvNative
      BY <1>1, <2>7 DEF KvContinue
    <3>2. c.val \in SUBSET KvKey /\ c.disk \in KvDisks /\ ~KvRefreshes(c)
      BY <2>7 DEF KvReads, KvRefreshes
    <3>3. kvView' \in KvDisks /\ \A k \in KvKey : k \notin kvOff' => KvSame(kvView', c.disk, k)
      BY <3>1, <3>2, KvSnapshotShows
    <3>4. kvView' # KvNoView
      BY <3>3, KvAssumption DEF KvDisks
    <3>5. ASSUME KvWatched
          PROVE  KvUnseenFollowed' /\ (KvRefreshComing' \/ (KvShown' /\ \A k \in KvKey : KvCovered(k)'))
      <4>1. KvUnseenFollowed' /\ (KvRefreshComing => KvRefreshComing')
        BY <1>1, <2>1, <2>3, <2>4, <3>1, <3>2, <3>5, KvQueueTail DEF c
      <4>2. ASSUME NEW k \in KvKey, KvCovered(k)
            PROVE  KvCovered(k)'
        <5>1. KvTouches(c, k)
          BY <2>7 DEF KvTouches
        <5>2. KvSame(c.disk, kvDisk, k) => KvAgrees(k)'
          BY <1>1, <3>3 DEF KvAgrees, KvSame
        <5>3. QED
          BY <1>1, <2>1, <4>2, <5>1, <5>2, KvCoveredTail DEF c
      <4>3. KvShown'
        BY <3>4 DEF KvShown
      <4>4. QED
        BY <2>4, <3>5, <4>1, <4>2, <4>3
    <3>6. QED
      BY <2>1, <2>5, <3>1, <3>3, <3>5
  <2>8. CASE c \in KvWrites /\ c.op = "clear"
    <3>1. kvNative' = (IF c.seen THEN Append(kvNative, KvKeys) ELSE kvNative) /\ UNCHANGED <<kvView, kvOff>>
      BY <1>1, <2>8 DEF KvContinue, kvDesktop
    <3>2. kvNative' \in Seq(KvQueued)
      BY <2>1, <2>3, <3>1, KvAppended
    <3>3. ASSUME KvWatched
          PROVE  KvUnseenFollowed' /\ (KvRefreshComing' \/ (KvShown' /\ \A k \in KvKey : KvCovered(k)'))
      <4>1. /\ KvUnseenFollowed'
            /\ c.seen => KvRefreshComing'
            /\ ~c.seen /\ KvRefreshComing => KvRefreshComing'
        BY <1>1, <2>1, <2>3, <2>4, <2>8, <3>1, <3>3, KvQueueTail DEF c, KvRefreshes
      <4>2. ASSUME NEW k \in KvKey, KvCovered(k)
            PROVE  KvCovered(k)'
        <5>1. ~KvTouches(c, k)
          BY <2>8 DEF KvTouches
        <5>2. KvAgrees(k) => KvAgrees(k)'
          BY <1>1, <3>1 DEF KvAgrees, KvSame
        <5>3. QED
          BY <1>1, <2>1, <4>2, <5>1, <5>2, KvCoveredTail DEF c
      <4>3. KvShown => KvShown'
        <5>1. SUFFICES ASSUME NEW i \in 1..Len(kvDone), kvDone[i].op = "get"
                       PROVE  KvShown'
          BY <3>1 DEF KvShown
        <5>2. i # 1
          BY <2>2, <2>8, <5>1
        <5>3. i - 1 \in 1..Len(kvDone') /\ kvDone'[i - 1] = kvDone[i]
          BY <2>2, <5>2
        <5>4. QED
          BY <5>1, <5>3 DEF KvShown
      <4>4. QED
        BY <2>4, <3>3, <4>1, <4>2, <4>3
    <3>4. QED
      BY <1>3, <2>5, <3>1, <3>2, <3>3
  <2>9. CASE c \in KvWrites /\ KvMeant(c) /\ c.op # "clear"
    <3> DEFINE key == c.key
               val == c.val
               disk == c.disk
    <3>1. /\ key \in KvKey /\ val \in Nat /\ disk \in KvDisks /\ c.op \in {"set", "merge", "remove"}
          /\ c.key = key /\ c.val = val /\ c.disk = disk
      BY <2>9 DEF KvWrites
    <3>2. /\ c.op = "set" => key \in DOMAIN disk /\ disk[key] = {val}
          /\ c.op = "merge" => key \in DOMAIN disk
          /\ c.op = "remove" => key \notin DOMAIN disk
      BY <2>9 DEF KvMeant
    <3>3. (IF c.seen THEN KvReport(c, c.disk) ELSE UNCHANGED <<kvView, kvOff>>) /\ kvNative' = kvNative
      BY <1>1, <3>1 DEF KvContinue, kvDesktop
    <3> HIDE DEF key, val, disk
    <3>4. kvView \in KvDisks /\ c.seen =>
            /\ kvView' \in KvDisks
            /\ key \notin kvOff' => KvSame(kvView', disk, key)
            /\ \A k \in KvKey : k # key => (k \in kvOff' <=> k \in kvOff) /\ KvSame(kvView', kvView, k)
      <4>1. SUFFICES ASSUME kvView \in KvDisks, KvReport(c, disk)
                     PROVE  /\ kvView' \in KvDisks
                            /\ key \notin kvOff' => KvSame(kvView', disk, key)
                            /\ \A k \in KvKey : k # key => (k \in kvOff' <=> k \in kvOff) /\ KvSame(kvView', kvView, k)
        BY <3>1, <3>3
      <4>2. QED
        BY <3>1, <3>2, <4>1, KvReportShows
    <3>5. kvView = KvNoView => kvView' = KvNoView
      BY <3>3 DEF KvReport
    <3>6. kvView' \in KvDisks \cup {KvNoView}
      BY <1>3, <3>3, <3>4, <3>5
    <3>7. ASSUME KvWatched
          PROVE  KvUnseenFollowed' /\ (KvRefreshComing' \/ (KvShown' /\ \A k \in KvKey : KvCovered(k)'))
      <4>1. KvUnseenFollowed' /\ (KvRefreshComing => KvRefreshComing')
        BY <1>1, <2>1, <2>3, <2>4, <3>1, <3>3, <3>7, KvQueueTail DEF c, KvRefreshes
      <4>2. ASSUME KvShown, NEW k \in KvKey, KvCovered(k)
            PROVE  KvCovered(k)'
        \* Without a copy a multiGet is still to come, and it touches every key.
        <5>1. kvView = KvNoView => \E i \in 1..Len(kvDone') : KvTouches(kvDone'[i], k)
          <6>1. SUFFICES ASSUME NEW i \in 1..Len(kvDone), kvDone[i].op = "get"
                         PROVE  \E j \in 1..Len(kvDone') : KvTouches(kvDone'[j], k)
            BY <4>2 DEF KvShown
          <6>2. i # 1
            BY <2>2, <3>1, <6>1
          <6>3. i - 1 \in 1..Len(kvDone') /\ kvDone'[i - 1] = kvDone[i]
            BY <2>2, <6>2
          <6>4. QED
            BY <6>1, <6>3 DEF KvTouches
        <5>2. CASE KvTouches(c, k)
          <6>1. c.seen /\ key = k
            BY <3>1, <5>2 DEF KvTouches
          <6>2. kvView \in KvDisks /\ KvSame(disk, kvDisk, k) => KvAgrees(k)'
            BY <1>1, <3>4, <6>1 DEF KvAgrees, KvSame
          <6>3. QED
            BY <1>1, <1>3, <2>1, <3>1, <4>2, <5>1, <5>2, <6>2, KvCoveredTail DEF c
        <5>3. CASE ~KvTouches(c, k)
          <6>1. ~c.seen \/ k # key
            BY <3>1, <5>3 DEF KvTouches
          <6>2. CASE ~c.seen
            <7>1. KvAgrees(k) => KvAgrees(k)'
              BY <1>1, <3>3, <6>2 DEF KvAgrees, KvSame
            <7>2. QED
              BY <1>1, <2>1, <4>2, <5>3, <7>1, KvCoveredTail DEF c
          <6>3. CASE c.seen /\ k # key
            <7>1. kvView \in KvDisks /\ KvAgrees(k) => KvAgrees(k)'
              BY <1>1, <3>4, <6>3 DEF KvAgrees, KvSame
            <7>2. QED
              BY <1>1, <1>3, <2>1, <4>2, <5>1, <5>3, <7>1, KvCoveredTail DEF c
          <6>4. QED
            BY <6>1, <6>2, <6>3
        <5>4. QED
          BY <5>2, <5>3
      <4>3. KvShown => KvShown'
        <5>1. kvView # KvNoView => kvView' # KvNoView
          <6>1. kvView \in KvDisks => kvView' \in KvDisks
            BY <3>3, <3>4
          <6>2. QED
            BY <1>3, <6>1, KvAssumption DEF KvDisks
        <5>2. SUFFICES ASSUME NEW i \in 1..Len(kvDone), kvDone[i].op = "get"
                       PROVE  KvShown'
          BY <5>1 DEF KvShown
        <5>3. i # 1
          BY <2>2, <3>1, <5>2
        <5>4. i - 1 \in 1..Len(kvDone') /\ kvDone'[i - 1] = kvDone[i]
          BY <2>2, <5>3
        <5>5. QED
          BY <5>2, <5>4 DEF KvShown
      <4>4. QED
        BY <2>4, <3>7, <4>1, <4>2, <4>3
    <3>8. QED
      BY <2>1, <2>5, <3>3, <3>6, <3>7
  <2>10. c \in KvReads => c.op \in {"keys", "get"}
    BY DEF KvReads
  <2>11. QED
    BY <2>2, <2>6, <2>7, <2>8, <2>9, <2>10 DEF KvResults
<1>6. QED
  BY <1>3, <1>4, <1>5 DEF KvEngines

LEMMA KvInvStep == KvInv /\ [KvNext]_kvVars => KvInv'
<1> SUFFICES ASSUME KvInv, [KvNext]_kvVars
             PROVE  KvInv'
  OBVIOUS
<1>1. KvPatchTyped' /\ KvStacked'
  BY KvPatchStep DEF KvInv
<1>2. KvTyped' /\ KvQueueFollows' /\ KvAtOnceFollows'
  <2>1. CASE \E op \in KvOp, k \in KvKey : KvCall(op, k)
    BY <2>1, KvCallFollows
  <2>2. CASE KvApply
    BY <2>2, KvApplyFollows
  <2>3. CASE KvJsRuns
    BY <2>3, KvJsRunsFollows
  <2>4. CASE KvAttach
    BY <2>4, KvAttachFollows
  <2>5. CASE \E n \in 1..KvMaxAttach : KvDetach(n)
    BY <2>5, KvDetachFollows
  <2>6. CASE UNCHANGED kvVars
    <3>1. UNCHANGED <<kvEngine, kvDisk, kvNative, kvDone, kvAttached, kvBroken, kvView, kvOff, kvCalls>>
      BY <2>6 DEF kvVars, kvAdapters, kvDesktop
    <3>2. KvTyped'
      BY <3>1 DEF KvInv, KvTyped
    <3>3. /\ (KvUnseenFollowed => KvUnseenFollowed') /\ (KvRefreshComing => KvRefreshComing')
          /\ (KvShown => KvShown') /\ (KvWatched' => KvWatched)
      BY <3>1 DEF KvUnseenFollowed, KvRefreshComing, KvRefreshes, KvShown, KvWatched
    <3>4. \A k \in KvKey : (KvAgrees(k) => KvAgrees(k)') /\ (KvCovered(k) => KvCovered(k)')
      BY <3>1 DEF KvCovered, KvAgrees, KvTouches, KvSame
    <3>5. QED
      BY <3>1, <3>2, <3>3, <3>4 DEF KvInv, KvQueueFollows, KvAtOnceFollows
  <2>7. QED
    BY <2>1, <2>2, <2>3, <2>4, <2>5, <2>6 DEF KvNext
<1>3. QED
  BY <1>1, <1>2 DEF KvInv

\* asyncStorage.ts, "every write in the app ... is observed": whatever the engine, however
\* many adapters are stacked, and however calls, promises and snapshots interleave, once
\* nothing is in flight the desktop's entries are the engine's, but for the keys known to be
\* reported wrongly.
THEOREM EntriesFollowEngine == KvSpec => []KvViewFollows
<1>1. KvInv => KvViewFollows
  <2> SUFFICES ASSUME KvInv, KvSettled, ~kvBroken
               PROVE  /\ kvView # KvNoView
                      /\ \A k \in KvKey \ kvOff :
                           /\ k \in DOMAIN kvView <=> k \in DOMAIN kvDisk
                           /\ k \in DOMAIN kvDisk => kvView[k] = kvDisk[k]
    BY DEF KvViewFollows
  <2>1. KvWatched /\ kvNative = << >> /\ kvDone = << >> /\ Len(kvNative) = 0 /\ Len(kvDone) = 0
    BY DEF KvSettled, KvWatched
  <2>2. CASE kvEngine = "asyncStorage"
    <3>1. ~KvRefreshComing
      BY <2>1 DEF KvRefreshComing
    <3>2. KvShown /\ \A k \in KvKey : KvCovered(k)
      BY <2>1, <2>2, <3>1 DEF KvInv, KvQueueFollows
    <3>3. kvView # KvNoView /\ \A k \in KvKey : KvAgrees(k)
      BY <2>1, <3>2 DEF KvShown, KvCovered
    <3>4. QED
      BY <3>3 DEF KvAgrees, KvSame
  <2>3. CASE kvEngine # "asyncStorage"
    BY <2>1, <2>3 DEF KvInv, KvAtOnceFollows, KvAgrees, KvSame
  <2>4. QED
    BY <2>2, <2>3
<1>2. QED
  BY <1>1, KvInvInit, KvInvStep, PTL DEF KvSpec

-----------------------------------------------------------------------------
(* What a handle attaches *)

LcPatchSet == [target : LcTarget, handle : Nat, core : Nat, held : BOOLEAN, inner : Nat]
LcJobSet == [job : {"import", "resume"}, handle : Nat, patch : Nat]

\* A patch keeps what it found: an older patch of the same method, or the method itself.
LcStack(patches, method) ==
  /\ patches \in Seq(LcPatchSet) /\ method \in [LcTarget -> Nat]
  /\ \A p \in 1..Len(patches) : LET inner == patches[p].inner
                                IN inner < p /\ (inner # 0 => patches[inner].target = patches[p].target)
  /\ \A t \in LcTarget : /\ method[t] <= Len(patches)
                         /\ method[t] # 0 => patches[method[t]].target = t

\* The patches D hold every one that a call from m goes through.
LcChainIn(patches, m, D) ==
  /\ D \subseteq 1..Len(patches)
  /\ m = 0 \/ m \in D
  /\ \A p \in D : patches[p].inner = 0 \/ patches[p].inner \in D

\* A handle patches a method once, and so does a core if it is asked first.
LcOnce(patches, marked) ==
  /\ \A p, q \in 1..Len(patches) :
       patches[p].handle # 0 /\ patches[p].handle = patches[q].handle /\ patches[p].target = patches[q].target
         => p = q
  /\ \A p \in 1..Len(patches) : patches[p].target \in LcMarks =>
       patches[p].core \in 1..Len(marked) /\ patches[p].target \in marked[patches[p].core]
  /\ \A p, q \in 1..Len(patches) :
       patches[p].target \in LcMarks /\ patches[p].core = patches[q].core /\ patches[p].target = patches[q].target
         => p = q

\* What waits for the import of t, when there are `count` handles, is of one handle each: it
\* has patched nothing yet, or it has patched what its continuation will keep or detach.
LcJobFits(patches, count, t, j) ==
  /\ j.handle \in 1..count
  /\ j.job = "import" => /\ j.patch = 0
                         /\ \A p \in 1..Len(patches) : patches[p].handle = j.handle => patches[p].target # t
  /\ j.job = "resume" => /\ t = "zustand" /\ j.patch \in 1..Len(patches)
                         /\ patches[j.patch].handle = j.handle /\ patches[j.patch].target = t
                         /\ ~patches[j.patch].held

LcJobsFit(patches, count, t, jobs) ==
  /\ \A n, k \in 1..Len(jobs) : jobs[n].handle = jobs[k].handle => n = k
  /\ \A n \in 1..Len(jobs) : LcJobFits(patches, count, t, jobs[n])

LcWaits(t, p) == t \in LcAsync /\ \E n \in 1..Len(lcQueue[t]) : lcQueue[t][n].patch = p

LcMeant(t, p) ==
  LET patch == lcPatches[p]
  IN patch.handle = 0 \/ (patch.held /\ lcOpen[patch.handle]) \/ (~patch.held /\ LcWaits(t, p))

LcTyped ==
  /\ lcOpen \in Seq(BOOLEAN) /\ lcMarked \in Seq(SUBSET LcMarks) /\ Len(lcMarked) = Len(lcOpen)
  /\ lcCore \in 0..Len(lcOpen)
  /\ lcQueue \in [LcAsync -> Seq(LcJobSet)]
  /\ \A p \in 1..Len(lcPatches) : lcPatches[p].handle <= Len(lcOpen) /\ lcPatches[p].core <= Len(lcOpen)

LcCovered(t) == \E D : LcChainIn(lcPatches, lcMethod[t], D) /\ \A p \in D : LcMeant(t, p)

LcInv ==
  /\ LcTyped
  /\ LcStack(lcPatches, lcMethod)
  /\ LcOnce(lcPatches, lcMarked)
  /\ \A t \in LcAsync : LcJobsFit(lcPatches, Len(lcOpen), t, lcQueue[t])
  /\ \A t \in LcTarget \ lcCrossed : LcCovered(t)

\* What LcPatch does to the patches and to the methods.
LcGrew(old, oldMethod, new, newMethod, targets, handle, core, held) ==
  /\ new \in Seq(LcPatchSet) /\ Len(old) \in Nat /\ Len(new) \in Nat /\ Len(old) <= Len(new)
  /\ \A p \in 1..Len(old) : new[p] = old[p]
  /\ \A p \in Len(old) + 1..Len(new) :
       /\ new[p].target \in targets /\ new[p].handle = handle /\ new[p].core = core /\ new[p].held = held
       /\ new[p].inner = oldMethod[new[p].target]
  /\ \A p, q \in Len(old) + 1..Len(new) : new[p].target = new[q].target => p = q
  /\ newMethod \in [LcTarget -> Nat]
  /\ \A t \in targets : newMethod[t] \in Len(old) + 1..Len(new) /\ new[newMethod[t]].target = t
  /\ \A t \in LcTarget \ targets : newMethod[t] = oldMethod[t]

\* SetToSeq lists every element once.
LEMMA SetToSeqLists ==
  ASSUME NEW S, IsFiniteSet(S)
  PROVE  /\ Cardinality(S) \in Nat
         /\ SetToSeq(S) \in [1..Cardinality(S) -> S]
         /\ \A i, j \in 1..Cardinality(S) : SetToSeq(S)[i] = SetToSeq(S)[j] => i = j
         /\ \A x \in S : \E i \in 1..Cardinality(S) : SetToSeq(S)[i] = x
<1> DEFINE n == Cardinality(S)
           s == SetToSeq(S)
<1>1. n \in Nat /\ ExistsBijection(1..n, S)
  BY FS_CardinalityType
<1>2. PICK f : f \in Bijection(1..n, S)
  BY <1>1 DEF ExistsBijection
<1>3. f \in [1..n -> S] /\ IsInjective(f)
  BY <1>2 DEF Bijection, Injection
<1>4. s = CHOOSE g \in [1..n -> S] : IsInjective(g)
  BY DEF SetToSeq
<1> HIDE DEF s
<1>5. s \in [1..n -> S] /\ IsInjective(s)
  BY <1>3, <1>4
<1>6. s \in Injection(1..n, S)
  BY <1>5 DEF Injection
<1>7. Cardinality(1..n) = n
  <2>1. Cardinality(1..n) = IF 1 > n THEN 0 ELSE n - 1 + 1
    BY <1>1, FS_Interval
  <2> HIDE DEF n
  <2>2. QED
    BY <1>1, <2>1
<1>8. s \in Surjection(1..n, S)
  BY <1>6, <1>7, FS_Injection
<1>9. \A x \in S : \E i \in 1..n : s[i] = x
  BY <1>8 DEF Surjection
<1>10. \A i, j \in 1..n : s[i] = s[j] => i = j
  BY <1>5 DEF IsInjective
<1>11. QED
  BY <1>1, <1>5, <1>9, <1>10 DEF s

LEMMA LcGrows ==
  ASSUME LcStack(lcPatches, lcMethod), NEW targets \in SUBSET LcTarget, NEW handle \in Nat, NEW core \in Nat,
         NEW held \in BOOLEAN, LcPatch(targets, handle, core, held)
  PROVE  LcGrew(lcPatches, lcMethod, lcPatches', lcMethod', targets, handle, core, held)
<1> DEFINE order == SetToSeq(targets)
           n == Cardinality(targets)
           patch(t) == [target |-> t, handle |-> handle, core |-> core, held |-> held, inner |-> lcMethod[t]]
           more == [i \in DOMAIN order |-> patch(order[i])]
           N == Len(lcPatches)
           place(t) == CHOOSE i \in DOMAIN order : order[i] = t
<1>1. IsFiniteSet(targets)
  <2> DEFINE two == {"console"} \cup {"network"}
             three == two \cup {"webStorage"}
             four == three \cup {"asyncStorage"}
             five == four \cup {"zustand"}
  <2>1. IsFiniteSet({"console"})
    BY FS_Singleton
  <2>2. IsFiniteSet(two)
    BY <2>1, FS_AddElement
  <2> HIDE DEF two
  <2>3. IsFiniteSet(three)
    BY <2>2, FS_AddElement
  <2> HIDE DEF three
  <2>4. IsFiniteSet(four)
    BY <2>3, FS_AddElement
  <2> HIDE DEF four
  <2>5. IsFiniteSet(five)
    BY <2>4, FS_AddElement
  <2>6. targets \in SUBSET five
    BY DEF LcTarget, LcSync, LcMarks, LcAsync, four, three, two
  <2>7. QED
    BY <2>5, <2>6, FS_Subset
<1>2. /\ n \in Nat /\ order \in [1..n -> targets]
      /\ \A i, j \in 1..n : order[i] = order[j] => i = j
      /\ \A t \in targets : \E i \in 1..n : order[i] = t
  BY <1>1, SetToSeqLists
<1>3. /\ lcPatches' = lcPatches \o more
      /\ lcMethod' = [t \in LcTarget |-> IF t \in targets THEN N + place(t) ELSE lcMethod[t]]
  BY DEF LcPatch
<1>4. lcPatches \in Seq(LcPatchSet) /\ lcMethod \in [LcTarget -> Nat]
  BY DEF LcStack
<1> HIDE DEF order, n
<1>5. DOMAIN order = 1..n
  BY <1>2
<1>6. \A t \in targets : patch(t) \in LcPatchSet
  BY <1>4 DEF LcPatchSet
<1>7. /\ more \in Seq(LcPatchSet) /\ Len(more) = n
      /\ \A i \in 1..n : more[i] = patch(order[i])
  <2>1. \A i \in 1..n : order[i] \in targets /\ more[i] = patch(order[i])
    BY <1>2, <1>5
  <2>2. DOMAIN more = 1..n
    BY <1>5
  <2>3. more \in [1..n -> LcPatchSet]
    <3> HIDE DEF patch
    <3>1. QED
      BY <1>5, <1>6, <2>1
  <2> HIDE DEF more, patch
  <2>4. more \in Seq(LcPatchSet)
    BY <1>2, <2>3
  <2>5. Len(more) = n
    BY <1>2, <2>2, <2>4
  <2>6. QED
    BY <2>1, <2>4, <2>5
<1>8. \A t \in targets : place(t) \in 1..n /\ order[place(t)] = t
  BY <1>2, <1>5
<1>9. \A t, u \in targets : t \in LcTarget
  OBVIOUS
<1>10. \A i \in 1..n : LET e == patch(order[i]) IN
         /\ e.target = order[i] /\ e.target \in targets /\ e.handle = handle /\ e.core = core /\ e.held = held
         /\ e.inner = lcMethod[order[i]]
  BY <1>2
<1> DEFINE all == lcPatches \o more
           method == [t \in LcTarget |-> IF t \in targets THEN N + place(t) ELSE lcMethod[t]]
<1> HIDE DEF more, patch, place
<1>11. /\ N \in Nat /\ all \in Seq(LcPatchSet) /\ Len(all) = N + n
       /\ \A p \in 1..N + n : all[p] = IF p <= N THEN lcPatches[p] ELSE more[p - N]
  <2>1. Len(lcPatches) \in Nat
    BY <1>4, LenProperties
  <2>2. /\ lcPatches \o more \in Seq(LcPatchSet) /\ Len(lcPatches \o more) = Len(lcPatches) + Len(more)
        /\ \A p \in 1..Len(lcPatches) + Len(more) :
             (lcPatches \o more)[p] = IF p <= Len(lcPatches) THEN lcPatches[p] ELSE more[p - Len(lcPatches)]
    BY <1>4, <1>7, ConcatProperties
  <2>3. QED
    BY <1>7, <2>1, <2>2
<1>12. method \in [LcTarget -> Nat] /\ (\A t \in targets : method[t] = N + place(t))
       /\ \A t \in LcTarget \ targets : method[t] = lcMethod[t]
  BY <1>2, <1>4, <1>8, <1>11
<1> HIDE DEF all, N, method
<1>13. \A p \in 1..N : all[p] = lcPatches[p]
  BY <1>2, <1>11
<1>14. \A p \in N + 1..N + n : p - N \in 1..n /\ all[p] = patch(order[p - N])
  <2> TAKE p \in N + 1..N + n
  <2>1. p - N \in 1..n /\ p \in 1..N + n /\ ~(p <= N)
    BY <1>2, <1>11
  <2>2. QED
    BY <1>7, <1>11, <2>1
<1>15. \A p \in N + 1..N + n : all[p].target = order[p - N] /\ all[p].target \in targets
         /\ all[p].handle = handle /\ all[p].core = core /\ all[p].held = held
         /\ all[p].inner = lcMethod[all[p].target]
  BY <1>10, <1>14
<1>16. \A p, q \in N + 1..N + n : all[p].target = all[q].target => p = q
  <2> TAKE p, q \in N + 1..N + n
  <2>1. p - N \in 1..n /\ q - N \in 1..n /\ all[p].target = order[p - N] /\ all[q].target = order[q - N]
    BY <1>14, <1>15
  <2>2. all[p].target = all[q].target => p - N = q - N
    BY <1>2, <2>1
  <2>3. QED
    BY <1>2, <1>11, <2>2
<1>17. \A t \in targets : method[t] \in N + 1..N + n /\ all[method[t]].target = t
  <2> TAKE t \in targets
  <2>1. place(t) \in 1..n /\ order[place(t)] = t /\ method[t] = N + place(t)
    BY <1>8, <1>12
  <2> DEFINE p == N + place(t)
  <2>2. p \in N + 1..N + n /\ p - N = place(t) /\ method[t] = p
    BY <1>2, <1>11, <2>1
  <2> HIDE DEF p
  <2>3. all[p].target = order[place(t)]
    BY <1>15, <2>2
  <2>4. QED
    BY <2>1, <2>2, <2>3
<1>18. lcPatches' = all /\ lcMethod' = method
  BY <1>3 DEF all, method
<1>19. N = Len(lcPatches) /\ N <= N + n /\ N + n \in Nat
  BY <1>2, <1>11 DEF N
<1>20. QED
  BY <1>11, <1>12, <1>13, <1>15, <1>16, <1>17, <1>18, <1>19 DEF LcGrew

\* Every patch a call goes through is among patches that hold, with each, the one it found.
LEMMA LcChainWithin ==
  ASSUME LcStack(lcPatches, lcMethod), NEW t \in LcTarget, NEW D, LcChainIn(lcPatches, lcMethod[t], D)
  PROVE  LcChain(t) \subseteq D
<1> DEFINE N == Len(lcPatches)
           from == CHOOSE f : f = [p \in 0..N |-> IF p = 0 THEN {} ELSE {p} \cup f[lcPatches[p].inner]]
           S == SUBSET Nat
           before == [p \in 1..N |-> lcPatches[p].inner]
           step == [p \in 1..N |-> [s \in S |-> {p} \cup s]]
<1>1. LcChain(t) = from[lcMethod[t]]
  BY DEF LcChain
<1>2. N \in Nat /\ \A p \in 1..N : lcPatches[p].inner \in Nat /\ lcPatches[p].inner < p
  <2>1. lcPatches \in Seq(LcPatchSet) /\ N \in Nat
    BY LenProperties DEF LcStack
  <2>2. \A p \in 1..N : lcPatches[p] \in LcPatchSet
    BY <2>1, ElementOfSeq
  <2>3. QED
    BY <2>1, <2>2 DEF LcStack, LcPatchSet
<1>3. before \in [1..N -> Nat] /\ \A p \in 1..N : before[p] = lcPatches[p].inner
  BY <1>2
<1>4. step \in [1..N -> [S -> S]] /\ \A p \in 1..N : \A s \in S : step[p][s] = {p} \cup s
  <2>1. \A p \in 1..N : \A s \in S : {p} \cup s \in S
    BY <1>2
  <2> HIDE DEF S, N
  <2>2. QED
    BY <2>1
<1> HIDE DEF N, before, step
<1>5. IsRecursion(S, N, {}, before, step)
  BY <1>2, <1>3, <1>4 DEF IsRecursion
<1> HIDE DEF S
<1>6. PICK f \in [0..N -> S] : f[0] = {} /\ \A p \in 1..N : f[p] = step[p][f[before[p]]]
  BY ONLY <1>5, RecursionExists
<1>7. \A p \in 1..N : f[p] = {p} \cup f[lcPatches[p].inner]
  <2> TAKE p \in 1..N
  <2>1. lcPatches[p].inner \in 0..N
    BY <1>2
  <2>2. QED
    BY <1>3, <1>4, <1>6, <2>1
<1>8. f = [p \in 0..N |-> IF p = 0 THEN {} ELSE {p} \cup f[lcPatches[p].inner]]
  <2>1. \A p \in 0..N : f[p] = IF p = 0 THEN {} ELSE {p} \cup f[lcPatches[p].inner]
    BY <1>2, <1>6, <1>7
  <2>2. f = [p \in 0..N |-> f[p]]
    BY <1>6
  <2>3. QED
    BY <2>1, <2>2
<1>9. from = [p \in 0..N |-> IF p = 0 THEN {} ELSE {p} \cup from[lcPatches[p].inner]]
  BY <1>8
<1> HIDE DEF from
<1> DEFINE T == {p \in 0..N : (p = 0 \/ p \in D) /\ ~(from[p] \subseteq D)}
<1>10. T = {}
  <2> SUFFICES ASSUME T # {}
               PROVE  FALSE
    OBVIOUS
  <2>1. T \in SUBSET Nat
    BY <1>2
  <2>2. PICK p \in T : \A m \in T : ~(m < p)
    BY <2>1, LeastNatural
  <2>3. p # 0 /\ p \in 1..N /\ p \in D
    <3>1. from[0] = {}
      BY <1>2, <1>9
    <3>2. QED
      BY <1>2, <2>2, <3>1
  <2>4. lcPatches[p].inner \in 0..N /\ lcPatches[p].inner < p /\ (lcPatches[p].inner = 0 \/ lcPatches[p].inner \in D)
    BY <1>2, <2>3 DEF LcChainIn
  <2>5. from[lcPatches[p].inner] \subseteq D
    BY <2>2, <2>4
  <2>6. from[p] = {p} \cup from[lcPatches[p].inner]
    BY <1>9, <2>2, <2>3
  <2>7. QED
    BY <2>2, <2>3, <2>5, <2>6
<1>11. lcMethod[t] \in 0..N
  BY <1>2 DEF LcStack, N
<1>12. QED
  BY <1>1, <1>10, <1>11 DEF LcChainIn

LEMMA LcStackGrows ==
  ASSUME NEW old, NEW oldMethod, LcStack(old, oldMethod), NEW new, NEW newMethod,
         NEW targets \in SUBSET LcTarget, NEW handle, NEW core, NEW held,
         LcGrew(old, oldMethod, new, newMethod, targets, handle, core, held)
  PROVE  LcStack(new, newMethod)
<1> DEFINE N == Len(old)
           M == Len(new)
<1>1. /\ N \in Nat /\ M \in Nat /\ N <= M /\ new \in Seq(LcPatchSet) /\ newMethod \in [LcTarget -> Nat]
      /\ \A p \in 1..N : new[p] = old[p]
      /\ \A p \in N + 1..M : new[p].target \in targets /\ new[p].inner = oldMethod[new[p].target]
      /\ \A t \in targets : newMethod[t] \in N + 1..M /\ new[newMethod[t]].target = t
      /\ \A t \in LcTarget \ targets : newMethod[t] = oldMethod[t]
  BY DEF LcGrew
<1>2. /\ oldMethod \in [LcTarget -> Nat]
      /\ \A p \in 1..N : old[p].inner < p
      /\ \A p \in 1..N : old[p].inner # 0 => old[old[p].inner].target = old[p].target
      /\ \A t \in LcTarget : oldMethod[t] <= N
      /\ \A t \in LcTarget : oldMethod[t] # 0 => old[oldMethod[t]].target = t
      /\ \A p \in 1..N : old[p].inner \in Nat
  <2>1. old \in Seq(LcPatchSet)
    BY DEF LcStack
  <2>2. \A p \in 1..N : old[p] \in LcPatchSet
    BY <2>1, ElementOfSeq
  <2>3. QED
    BY <2>2 DEF LcStack, LcPatchSet
<1> HIDE DEF N, M
<1>3. ASSUME NEW p \in 1..M
      PROVE  new[p].inner < p /\ (new[p].inner # 0 => new[new[p].inner].target = new[p].target)
  <2>1. CASE p \in 1..N
    <3>1. new[p] = old[p] /\ old[p].inner \in 0..N
      BY <1>1, <1>2, <2>1
    <3>2. QED
      BY <1>1, <1>2, <2>1, <3>1
  <2>2. CASE p \in N + 1..M
    <3> DEFINE t == new[p].target
    <3>1. t \in LcTarget /\ new[p].inner = oldMethod[t] /\ oldMethod[t] \in 0..N
      BY <1>1, <1>2, <2>2
    <3> HIDE DEF t
    <3>2. oldMethod[t] # 0 => new[oldMethod[t]].target = t
      BY <1>1, <1>2, <3>1
    <3>3. new[p].inner < p
      BY <1>1, <2>2, <3>1
    <3>4. QED
      BY <3>1, <3>2, <3>3 DEF t
  <2>3. QED
    BY <1>1, <2>1, <2>2
<1>4. ASSUME NEW t \in LcTarget
      PROVE  newMethod[t] <= M /\ (newMethod[t] # 0 => new[newMethod[t]].target = t)
  <2>1. CASE t \in targets
    BY <1>1, <2>1
  <2>2. CASE t \notin targets
    <3>1. newMethod[t] = oldMethod[t] /\ oldMethod[t] \in 0..N
      BY <1>1, <1>2, <2>2
    <3>2. QED
      BY <1>1, <1>2, <3>1
  <2>3. QED
    BY <2>1, <2>2
<1>5. QED
  BY <1>1, <1>3, <1>4 DEF LcStack, M

LEMMA LcChainGrows ==
  ASSUME NEW old, NEW oldMethod, LcStack(old, oldMethod), NEW new, NEW newMethod,
         NEW targets \in SUBSET LcTarget, NEW handle, NEW core, NEW held,
         LcGrew(old, oldMethod, new, newMethod, targets, handle, core, held),
         NEW t \in LcTarget, NEW D, LcChainIn(old, oldMethod[t], D)
  PROVE  \E E : /\ LcChainIn(new, newMethod[t], E)
                /\ \A p \in E : p \in D \/ (t \in targets /\ p = newMethod[t])
<1> DEFINE N == Len(old)
           M == Len(new)
<1>1. /\ N \in Nat /\ M \in Nat /\ N <= M
      /\ \A p \in 1..N : new[p] = old[p]
      /\ \A p \in N + 1..M : new[p].target \in targets /\ new[p].inner = oldMethod[new[p].target]
      /\ \A u \in targets : newMethod[u] \in N + 1..M /\ new[newMethod[u]].target = u
      /\ \A u \in LcTarget \ targets : newMethod[u] = oldMethod[u]
  BY DEF LcGrew
<1>2. /\ D \subseteq 1..N /\ (oldMethod[t] = 0 \/ oldMethod[t] \in D)
      /\ \A p \in D : old[p].inner = 0 \/ old[p].inner \in D
  BY DEF LcChainIn
<1> HIDE DEF N, M
<1>3. \A p \in D : p \in 1..M /\ (new[p].inner = 0 \/ new[p].inner \in D)
  BY <1>1, <1>2
<1>4. CASE t \in targets
  <2> DEFINE E == D \cup {newMethod[t]}
  <2>1. newMethod[t] \in 1..M /\ new[newMethod[t]].inner = oldMethod[t]
    BY <1>1, <1>4
  <2>2. \A p \in E : p \in 1..M /\ (new[p].inner = 0 \/ new[p].inner \in E)
    BY <1>2, <1>3, <2>1
  <2>3. newMethod[t] \in E /\ \A p \in E : p \in D \/ p = newMethod[t]
    OBVIOUS
  <2> HIDE DEF E
  <2>4. LcChainIn(new, newMethod[t], E)
    BY <2>2, <2>3 DEF LcChainIn, M
  <2>5. QED
    BY <1>4, <2>3, <2>4
<1>5. CASE t \notin targets
  <2>1. newMethod[t] = oldMethod[t]
    BY <1>1, <1>5
  <2>2. LcChainIn(new, newMethod[t], D)
    BY <1>2, <1>3, <2>1 DEF LcChainIn, M
  <2>3. QED
    BY <2>2
<1>6. QED
  BY <1>4, <1>5

\* New patches leave everything covered if they are meant and the older ones stay so.
LEMMA LcCoverGrows ==
  ASSUME LcInv, lcCrossed' = lcCrossed,
         NEW targets \in SUBSET LcTarget, NEW handle, NEW core, NEW held,
         LcGrew(lcPatches, lcMethod, lcPatches', lcMethod', targets, handle, core, held),
         \A t \in LcTarget : \A p \in 1..Len(lcPatches) : LcMeant(t, p) => LcMeant(t, p)',
         \A t \in targets : \A p : p = lcMethod'[t] => LcMeant(t, p)'
  PROVE  \A t \in LcTarget \ lcCrossed' : LcCovered(t)'
<1> SUFFICES ASSUME NEW t \in LcTarget \ lcCrossed
             PROVE  LcCovered(t)'
  OBVIOUS
<1>1. LcStack(lcPatches, lcMethod) /\ LcCovered(t)
  BY DEF LcInv
<1>2. PICK D : LcChainIn(lcPatches, lcMethod[t], D) /\ \A p \in D : LcMeant(t, p)
  BY <1>1 DEF LcCovered
<1>3. PICK E : /\ LcChainIn(lcPatches', lcMethod'[t], E)
               /\ \A p \in E : p \in D \/ (t \in targets /\ p = lcMethod'[t])
  <2>1. LcGrew(lcPatches, lcMethod, lcPatches', lcMethod', targets, handle, core, held) /\ t \in LcTarget
    OBVIOUS
  <2>2. QED
    BY ONLY <1>1, <1>2, <2>1, LcChainGrows
<1>4. ASSUME NEW p \in E
      PROVE  LcMeant(t, p)'
  <2>1. CASE p \in D
    <3>1. p \in 1..Len(lcPatches)
      BY <1>2, <2>1 DEF LcChainIn
    <3>2. QED
      BY <1>2, <2>1, <3>1
  <2>2. CASE t \in targets /\ p = lcMethod'[t]
    BY <2>2
  <2>3. QED
    BY <1>3, <2>1, <2>2
<1>5. QED
  BY <1>3, <1>4 DEF LcCovered

\* A method that is restored: the calls no longer go through the patch that is detached.
LEMMA LcDetachCovers ==
  ASSUME LcStack(lcPatches, lcMethod), NEW P \in SUBSET (1..Len(lcPatches)), LcDetach(P),
         \A p, q \in P : lcPatches[p].target = lcPatches[q].target => p = q
  PROVE  /\ LcStack(lcPatches, lcMethod')
         /\ \A t \in LcTarget \ lcCrossed' : t \notin lcCrossed /\
              \A D : LcChainIn(lcPatches, lcMethod[t], D) =>
                \E E : LcChainIn(lcPatches, lcMethod'[t], E) /\ E \subseteq D /\ E \cap P = {}
<1>1. /\ lcPatches \in Seq(LcPatchSet) /\ lcMethod \in [LcTarget -> Nat] /\ Len(lcPatches) \in Nat
      /\ \A p \in 1..Len(lcPatches) : /\ lcPatches[p].inner \in Nat /\ lcPatches[p].inner < p
                                      /\ lcPatches[p].target \in LcTarget
                                      /\ lcPatches[p].inner # 0 =>
                                           lcPatches[lcPatches[p].inner].target = lcPatches[p].target
      /\ \A t \in LcTarget : lcMethod[t] <= Len(lcPatches) /\ (lcMethod[t] # 0 => lcPatches[lcMethod[t]].target = t)
  <2>1. lcPatches \in Seq(LcPatchSet) /\ Len(lcPatches) \in Nat
    BY LenProperties DEF LcStack
  <2>2. \A p \in 1..Len(lcPatches) : lcPatches[p] \in LcPatchSet
    BY <2>1, ElementOfSeq
  <2>3. QED
    BY <2>1, <2>2 DEF LcStack, LcPatchSet
<1>2. ASSUME NEW p \in P
      PROVE  /\ lcMethod'[lcPatches[p].target] = lcPatches[p].inner
             /\ lcMethod[lcPatches[p].target] \notin {p, lcPatches[p].inner} => lcPatches[p].target \in lcCrossed'
  <2> DEFINE t == lcPatches[p].target
             q == CHOOSE q \in P : lcPatches[q].target = t
  <2>1. q \in P /\ lcPatches[q].target = t
    OBVIOUS
  <2>2. q = p
    BY <2>1
  <2>3. lcMethod'[t] = lcPatches[q].inner
    BY <1>1 DEF LcDetach
  <2>4. lcCrossed' = lcCrossed \cup
       {lcPatches[r].target : r \in {s \in P : lcMethod[lcPatches[s].target] \notin {s, lcPatches[s].inner}}}
    BY DEF LcDetach
  <2>5. QED
    BY <2>2, <2>3, <2>4
<1>3. ASSUME NEW t \in LcTarget, \A p \in P : lcPatches[p].target # t
      PROVE  lcMethod'[t] = lcMethod[t]
  BY <1>3 DEF LcDetach
<1>4. lcMethod' \in [LcTarget -> Nat] /\ lcCrossed \subseteq lcCrossed'
  <2>1. \A t \in LcTarget : lcMethod'[t] \in Nat
    <3> TAKE t \in LcTarget
    <3>1. CASE \A p \in P : lcPatches[p].target # t
      BY <1>1, <1>3, <3>1
    <3>2. CASE \E p \in P : lcPatches[p].target = t
      BY <1>1, <1>2, <3>2
    <3>3. QED
      BY <3>1, <3>2
  <2>2. lcMethod' = [t \in LcTarget |-> lcMethod'[t]] /\ lcCrossed \subseteq lcCrossed'
    BY DEF LcDetach
  <2>3. QED
    BY <2>1, <2>2
<1>5. ASSUME NEW t \in LcTarget
      PROVE  lcMethod'[t] <= Len(lcPatches) /\ (lcMethod'[t] # 0 => lcPatches[lcMethod'[t]].target = t)
  <2>1. CASE \A p \in P : lcPatches[p].target # t
    BY <1>1, <1>3, <2>1
  <2>2. CASE \E p \in P : lcPatches[p].target = t
    <3>1. PICK p \in P : lcPatches[p].target = t
      BY <2>2
    <3>2. lcMethod'[t] = lcPatches[p].inner
      BY <1>2, <3>1
    <3>3. QED
      BY <1>1, <3>1, <3>2
  <2>3. QED
    BY <2>1, <2>2
<1>6. LcStack(lcPatches, lcMethod')
  BY <1>1, <1>4, <1>5 DEF LcStack
<1>7. ASSUME NEW t \in LcTarget \ lcCrossed', NEW D, LcChainIn(lcPatches, lcMethod[t], D)
      PROVE  \E E : LcChainIn(lcPatches, lcMethod'[t], E) /\ E \subseteq D /\ E \cap P = {}
  <2> DEFINE C == {q \in D : lcPatches[q].target = t}
  <2>1. /\ D \subseteq 1..Len(lcPatches) /\ (lcMethod[t] = 0 \/ lcMethod[t] \in D)
        /\ \A p \in D : lcPatches[p].inner = 0 \/ lcPatches[p].inner \in D
    BY <1>7 DEF LcChainIn
  <2>2. /\ C \subseteq D /\ C \subseteq 1..Len(lcPatches) /\ (lcMethod[t] = 0 \/ lcMethod[t] \in C)
        /\ \A p \in C : lcPatches[p].target = t /\ (lcPatches[p].inner = 0 \/ lcPatches[p].inner \in C)
    BY <1>1, <2>1
  <2> HIDE DEF C
  <2>3. CASE \A p \in P : lcPatches[p].target # t
    <3>1. LcChainIn(lcPatches, lcMethod'[t], C)
      BY <1>3, <2>2, <2>3 DEF LcChainIn
    <3>2. C \subseteq D /\ C \cap P = {}
      BY <2>2, <2>3
    <3>3. QED
      BY <3>1, <3>2
  <2>4. CASE \E p \in P : lcPatches[p].target = t
    <3>1. PICK p \in P : lcPatches[p].target = t
      BY <2>4
    <3> DEFINE m == lcPatches[p].inner
               E == {q \in C : q <= m}
    <3>2. lcMethod'[t] = m /\ lcMethod[t] \in {p, m}
      BY <1>2, <3>1
    <3>3. p \in 1..Len(lcPatches) /\ m \in Nat /\ m < p
      BY <1>1
    <3> HIDE DEF m
    <3>4. m = 0 \/ m \in C
      BY <2>2, <3>2, <3>3 DEF m
    <3>5. ASSUME NEW q \in E
          PROVE  q \in 1..Len(lcPatches) /\ (lcPatches[q].inner = 0 \/ lcPatches[q].inner \in E)
      BY <1>1, <2>2, <3>3
    <3>6. p \notin E
      BY <3>3
    <3>7. m = 0 \/ m \in E
      BY <3>3, <3>4
    <3>8. E \subseteq D /\ \A q \in E : lcPatches[q].target = t
      BY <2>2
    <3> HIDE DEF E
    <3>9. LcChainIn(lcPatches, lcMethod'[t], E)
      BY <3>2, <3>5, <3>7 DEF LcChainIn
    <3>10. E \cap P = {}
      BY <3>1, <3>6, <3>8
    <3>11. QED
      BY <3>8, <3>9, <3>10
  <2>5. QED
    BY <2>3, <2>4
<1>8. QED
  BY <1>4, <1>6, <1>7

\* Patches of targets are new to the handle and, by its marks, to the core.
LcNewTo(old, targets, handle, core, marked, marks) ==
  /\ \A c \in 1..Len(marked) : c \in 1..Len(marks) /\ marked[c] \subseteq marks[c]
  /\ \A p \in 1..Len(old) : handle # 0 /\ old[p].handle = handle => old[p].target \notin targets
  /\ \A t \in targets \cap LcMarks : /\ core \in 1..Len(marks) /\ t \in marks[core]
                                    /\ \A p \in 1..Len(old) : old[p].target = t => old[p].core # core

LEMMA LcOnceGrows ==
  ASSUME NEW old, NEW oldMethod, NEW new, NEW newMethod, NEW targets, NEW handle, NEW core, NEW held,
         LcGrew(old, oldMethod, new, newMethod, targets, handle, core, held),
         NEW marked, NEW marks, LcOnce(old, marked), LcNewTo(old, targets, handle, core, marked, marks)
  PROVE  LcOnce(new, marks)
<1> USE DEF LcNewTo
<1> DEFINE N == Len(old)
           M == Len(new)
<1>1. /\ N \in Nat /\ M \in Nat /\ N <= M
      /\ \A p \in 1..N : new[p] = old[p]
      /\ \A p \in N + 1..M : /\ new[p].target \in targets /\ new[p].handle = handle
                             /\ new[p].core = core
      /\ \A p, q \in N + 1..M : new[p].target = new[q].target => p = q
  BY DEF LcGrew
<1>2. /\ \A p, q \in 1..N :
           old[p].handle # 0 /\ old[p].handle = old[q].handle /\ old[p].target = old[q].target => p = q
      /\ \A p \in 1..N : old[p].target \in LcMarks =>
           old[p].core \in 1..Len(marked) /\ old[p].target \in marked[old[p].core]
      /\ \A p, q \in 1..N :
           old[p].target \in LcMarks /\ old[p].core = old[q].core /\ old[p].target = old[q].target => p = q
  BY DEF LcOnce
<1>3. \A p \in 1..N : handle # 0 /\ old[p].handle = handle => old[p].target \notin targets
  OBVIOUS
<1>4. \A t \in targets \cap LcMarks : \A p \in 1..N : old[p].target = t => old[p].core # core
  OBVIOUS
<1> HIDE DEF N, M
<1>5. \A p \in 1..M : p \in 1..N \/ p \in N + 1..M
  BY <1>1
<1>6. ASSUME NEW p \in 1..M, NEW q \in 1..M,
             new[p].handle # 0, new[p].handle = new[q].handle, new[p].target = new[q].target
      PROVE  p = q
  <2>1. CASE p \in 1..N /\ q \in 1..N
    BY <1>1, <1>2, <1>6, <2>1
  <2>2. CASE p \in 1..N /\ q \in N + 1..M
    BY <1>1, <1>3, <1>6, <2>2
  <2>3. CASE p \in N + 1..M /\ q \in 1..N
    BY <1>1, <1>3, <1>6, <2>3
  <2>4. CASE p \in N + 1..M /\ q \in N + 1..M
    BY <1>1, <1>6, <2>4
  <2>5. QED
    BY <1>5, <2>1, <2>2, <2>3, <2>4
<1>7. ASSUME NEW p \in 1..M, new[p].target \in LcMarks
      PROVE  new[p].core \in 1..Len(marks) /\ new[p].target \in marks[new[p].core]
  <2>1. CASE p \in 1..N
    BY <1>1, <1>2, <1>7, <2>1
  <2>2. CASE p \in N + 1..M
    BY <1>1, <1>7, <2>2
  <2>3. QED
    BY <1>5, <2>1, <2>2
<1>8. ASSUME NEW p \in 1..M, NEW q \in 1..M,
             new[p].target \in LcMarks, new[p].core = new[q].core, new[p].target = new[q].target
      PROVE  p = q
  <2>1. CASE p \in 1..N /\ q \in 1..N
    BY <1>1, <1>2, <1>8, <2>1
  <2>2. CASE p \in 1..N /\ q \in N + 1..M
    BY <1>1, <1>4, <1>8, <2>2
  <2>3. CASE p \in N + 1..M /\ q \in 1..N
    BY <1>1, <1>4, <1>8, <2>3
  <2>4. CASE p \in N + 1..M /\ q \in N + 1..M
    BY <1>1, <1>8, <2>4
  <2>5. QED
    BY <1>5, <2>1, <2>2, <2>3, <2>4
<1>9. QED
  BY <1>6, <1>7, <1>8 DEF LcOnce, M

LEMMA LcJobFitsGrows ==
  ASSUME NEW old, NEW oldMethod, NEW new, NEW newMethod, NEW targets, NEW handle, NEW core, NEW held,
         LcGrew(old, oldMethod, new, newMethod, targets, handle, core, held),
         NEW count \in Nat, NEW more \in Nat, count <= more,
         NEW t, NEW j, LcJobFits(old, count, t, j), t \notin targets \/ handle # j.handle
  PROVE  LcJobFits(new, more, t, j)
<1>1. /\ Len(old) \in Nat /\ Len(new) \in Nat /\ Len(old) <= Len(new)
      /\ \A p \in 1..Len(old) : new[p] = old[p]
      /\ \A p \in Len(old) + 1..Len(new) : new[p].target \in targets /\ new[p].handle = handle
  BY DEF LcGrew
<1>2. ASSUME j.job = "import", NEW p \in 1..Len(new), new[p].handle = j.handle
      PROVE  new[p].target # t
  <2>1. CASE p \in 1..Len(old)
    BY <1>1, <1>2, <2>1 DEF LcJobFits
  <2>2. CASE p \in Len(old) + 1..Len(new)
    BY <1>1, <1>2, <2>2
  <2>3. QED
    BY <1>1, <2>1, <2>2
<1>3. QED
  BY <1>1, <1>2 DEF LcJobFits

\* The queue without its first entry, and with one more of a handle that has none.
LEMMA LcJobsTail ==
  ASSUME NEW patches, NEW count, NEW t, NEW jobs \in Seq(LcJobSet), jobs # << >>,
         LcJobsFit(patches, count, t, jobs)
  PROVE  /\ Head(jobs) \in LcJobSet /\ LcJobFits(patches, count, t, Head(jobs))
         /\ Tail(jobs) \in Seq(LcJobSet) /\ LcJobsFit(patches, count, t, Tail(jobs))
         /\ \A n \in 1..Len(Tail(jobs)) : Tail(jobs)[n].handle # Head(jobs).handle
         /\ \A p : (\E n \in 1..Len(jobs) : jobs[n].patch = p) /\ p # Head(jobs).patch =>
              \E n \in 1..Len(Tail(jobs)) : Tail(jobs)[n].patch = p
<1> DEFINE rest == Tail(jobs)
           N == Len(jobs)
           M == Len(rest)
<1>1. /\ N \in Nat \ {0} /\ M = N - 1 /\ rest \in Seq(LcJobSet)
      /\ Head(jobs) = jobs[1] /\ Head(jobs) \in LcJobSet /\ \A n \in 1..M : rest[n] = jobs[n + 1]
  BY HeadTailProperties, EmptySeq
<1>2. /\ \A n, k \in 1..N : jobs[n].handle = jobs[k].handle => n = k
      /\ \A n \in 1..N : LcJobFits(patches, count, t, jobs[n])
  BY DEF LcJobsFit
<1> HIDE DEF N, M, rest
<1>3. \A n \in 1..M : n + 1 \in 1..N /\ n + 1 # 1
  BY <1>1
<1>4. LcJobsFit(patches, count, t, rest)
  <2>1. ASSUME NEW n \in 1..M, NEW k \in 1..M, rest[n].handle = rest[k].handle
        PROVE  n = k
    <3>1. n + 1 = k + 1
      BY <1>1, <1>2, <1>3, <2>1, SMTT(30)
    <3>2. QED
      BY <3>1
  <2>2. \A n \in 1..M : LcJobFits(patches, count, t, rest[n])
    BY <1>1, <1>2, <1>3
  <2>3. QED
    BY <2>1, <2>2 DEF LcJobsFit, M
<1>5. \A n \in 1..M : rest[n].handle # Head(jobs).handle
  <2> TAKE n \in 1..M
  <2>1. 1 \in 1..N /\ n + 1 \in 1..N /\ n + 1 # 1
    BY <1>1, <1>3
  <2>2. QED
    BY <1>1, <1>2, <2>1
<1>6. ASSUME NEW p, NEW n \in 1..N, jobs[n].patch = p, p # Head(jobs).patch
      PROVE  \E k \in 1..M : rest[k].patch = p
  <2> DEFINE k == n - 1
  <2>1. n # 1
    BY <1>1, <1>6
  <2>2. k \in 1..M /\ k + 1 = n
    BY <1>1, <2>1
  <2> HIDE DEF k
  <2>3. rest[k].patch = p
    BY <1>1, <1>6, <2>2
  <2>4. QED
    BY <2>2, <2>3
<1>7. LcJobFits(patches, count, t, Head(jobs))
  BY <1>1, <1>2
<1>8. QED
  BY <1>1, <1>4, <1>5, <1>6, <1>7 DEF N, M, rest

LEMMA LcJobsAppend ==
  ASSUME NEW patches, NEW count, NEW t, NEW jobs \in Seq(LcJobSet), LcJobsFit(patches, count, t, jobs),
         NEW j \in LcJobSet, LcJobFits(patches, count, t, j),
         \A n \in 1..Len(jobs) : jobs[n].handle # j.handle
  PROVE  /\ Append(jobs, j) \in Seq(LcJobSet) /\ LcJobsFit(patches, count, t, Append(jobs, j))
         /\ \A p : (\E n \in 1..Len(jobs) : jobs[n].patch = p) \/ p = j.patch =>
              \E n \in 1..Len(Append(jobs, j)) : Append(jobs, j)[n].patch = p
<1> DEFINE more == Append(jobs, j)
           N == Len(jobs)
<1>1. /\ N \in Nat /\ more \in Seq(LcJobSet) /\ Len(more) = N + 1 /\ more[N + 1] = j
      /\ \A n \in 1..N : more[n] = jobs[n]
  BY AppendProperties, LenProperties
<1>2. /\ \A n, k \in 1..N : jobs[n].handle = jobs[k].handle => n = k
      /\ \A n \in 1..N : LcJobFits(patches, count, t, jobs[n]) /\ jobs[n].handle # j.handle
  BY DEF LcJobsFit
<1> HIDE DEF more, N
<1>3. \A n \in 1..N + 1 : n \in 1..N \/ n = N + 1
  BY <1>1
<1>4. ASSUME NEW n \in 1..N + 1, NEW k \in 1..N + 1, more[n].handle = more[k].handle
      PROVE  n = k
  BY <1>1, <1>2, <1>3, <1>4
<1>5. \A n \in 1..N + 1 : LcJobFits(patches, count, t, more[n])
  BY <1>1, <1>2, <1>3
<1>6. LcJobsFit(patches, count, t, more)
  BY <1>1, <1>4, <1>5 DEF LcJobsFit
<1>7. \A p : (\E n \in 1..N : jobs[n].patch = p) \/ p = j.patch =>
        \E n \in 1..Len(more) : more[n].patch = p
  <2>1. \A n \in 1..N : n \in 1..N + 1
    BY <1>1
  <2>2. N + 1 \in 1..N + 1
    BY <1>1
  <2>3. QED
    BY <1>1, <2>1, <2>2
<1>8. QED
  BY <1>1, <1>6, <1>7 DEF more, N

\* The facts of the invariant, opened up.
LEMMA LcFacts ==
  ASSUME LcInv
  PROVE  /\ Len(lcOpen) \in Nat /\ Len(lcPatches) \in Nat
         /\ \A p \in 1..Len(lcPatches) :
              /\ lcPatches[p] \in LcPatchSet
              /\ lcPatches[p].handle \in 0..Len(lcOpen) /\ lcPatches[p].core \in 0..Len(lcOpen)
         /\ \A t \in LcAsync : lcQueue[t] \in Seq(LcJobSet)
<1>1. lcPatches \in Seq(LcPatchSet) /\ lcOpen \in Seq(BOOLEAN)
  BY DEF LcInv, LcTyped, LcStack
<1>2. Len(lcPatches) \in Nat /\ Len(lcOpen) \in Nat
  BY <1>1, LenProperties
<1>3. \A p \in 1..Len(lcPatches) : lcPatches[p] \in LcPatchSet
  BY <1>1, ElementOfSeq
<1>4. \A p \in 1..Len(lcPatches) : lcPatches[p].handle \in Nat /\ lcPatches[p].core \in Nat
  BY <1>3 DEF LcPatchSet
<1>5. \A p \in 1..Len(lcPatches) : lcPatches[p].handle <= Len(lcOpen) /\ lcPatches[p].core <= Len(lcOpen)
  BY DEF LcInv, LcTyped
<1>6. \A p \in 1..Len(lcPatches) :
        lcPatches[p].handle \in 0..Len(lcOpen) /\ lcPatches[p].core \in 0..Len(lcOpen)
  BY <1>2, <1>4, <1>5
<1>7. \A t \in LcAsync : lcQueue[t] \in Seq(LcJobSet)
  BY DEF LcInv, LcTyped
<1>8. QED
  BY <1>2, <1>3, <1>6, <1>7

LEMMA LcInitCallKeeps ==
  ASSUME LcInv, LcInitCall
  PROVE  LcInv'
<1> DEFINE N == Len(lcOpen)
           h == N + 1
           sync == {t \in LcMarks \cup (lcReady \cap LcSync) : LcResolve(t)}
           marks == sync \cap LcMarks
           job == [job |-> "import", handle |-> h, patch |-> 0]
<1>1. /\ lcOpen' = Append(lcOpen, TRUE) /\ lcCore' = h /\ lcMarked' = Append(lcMarked, marks)
      /\ LcPatch(sync, h, h, TRUE)
      /\ lcQueue' = [t \in LcAsync |-> IF LcResolve(t) THEN Append(lcQueue[t], job) ELSE lcQueue[t]]
      /\ lcCrossed' = lcCrossed
  BY DEF LcInitCall
<1>2. /\ N \in Nat /\ Len(lcPatches) \in Nat
      /\ \A p \in 1..Len(lcPatches) :
           /\ lcPatches[p] \in LcPatchSet
           /\ lcPatches[p].handle \in 0..N /\ lcPatches[p].core \in 0..N
      /\ \A t \in LcAsync : lcQueue[t] \in Seq(LcJobSet)
  BY LcFacts
<1>3. sync \in SUBSET LcTarget /\ \A t \in LcAsync : t \notin sync
  BY DEF LcTarget, LcSync, LcMarks, LcAsync
<1>4. marks \in SUBSET LcMarks /\ \A t \in sync \cap LcMarks : t \in marks
  OBVIOUS
<1>5. job \in LcJobSet /\ job.job = "import" /\ job.handle = h /\ job.patch = 0 /\ h \in Nat
  BY <1>2 DEF LcJobSet
<1> HIDE DEF sync, marks, job, N
<1>6. LcStack(lcPatches, lcMethod) /\ LcOnce(lcPatches, lcMarked)
  BY DEF LcInv
<1>7. LcGrew(lcPatches, lcMethod, lcPatches', lcMethod', sync, h, h, TRUE)
  BY <1>1, <1>3, <1>5, <1>6, LcGrows
<1>8. LcStack(lcPatches', lcMethod')
  BY <1>3, <1>6, <1>7, LcStackGrows
<1>9. /\ lcOpen \in Seq(BOOLEAN) /\ lcMarked \in Seq(SUBSET LcMarks) /\ Len(lcMarked) = N
  BY DEF LcInv, LcTyped, N
<1>10. /\ lcOpen' \in Seq(BOOLEAN) /\ Len(lcOpen') = h /\ lcOpen'[h] = TRUE
       /\ \A i \in 1..N : lcOpen'[i] = lcOpen[i]
  <2>1. Len(lcOpen) = N
    BY DEF N
  <2> DEFINE yes == TRUE
  <2>2. yes \in BOOLEAN /\ lcOpen' = Append(lcOpen, yes)
    BY <1>1
  <2>3. yes = TRUE
    OBVIOUS
  <2> HIDE DEF yes
  <2>4. /\ Append(lcOpen, yes) \in Seq(BOOLEAN) /\ Len(Append(lcOpen, yes)) = Len(lcOpen) + 1
        /\ Append(lcOpen, yes)[Len(lcOpen) + 1] = yes
        /\ \A i \in 1..Len(lcOpen) : Append(lcOpen, yes)[i] = lcOpen[i]
    BY <1>9, <2>2, AppendProperties
  <2>5. QED
    BY <2>1, <2>2, <2>3, <2>4
<1>11. /\ lcMarked' \in Seq(SUBSET LcMarks) /\ Len(lcMarked') = h /\ lcMarked'[h] = marks
       /\ \A i \in 1..N : lcMarked'[i] = lcMarked[i]
  BY <1>1, <1>4, <1>9, AppendProperties
<1>12. \A p \in 1..Len(lcPatches') : lcPatches'[p].handle <= h /\ lcPatches'[p].core <= h
  <2> TAKE p \in 1..Len(lcPatches')
  <2>1. /\ \A q \in 1..Len(lcPatches) : lcPatches'[q] = lcPatches[q]
        /\ \A q \in Len(lcPatches) + 1..Len(lcPatches') : lcPatches'[q].handle = h /\ lcPatches'[q].core = h
        /\ Len(lcPatches') \in Nat
    BY <1>7 DEF LcGrew
  <2>2. CASE p \in 1..Len(lcPatches)
    BY <1>2, <2>1, <2>2, SMTT(30)
  <2>3. CASE p \in Len(lcPatches) + 1..Len(lcPatches')
    BY <1>2, <2>1, <2>3
  <2>4. QED
    BY <1>2, <2>1, <2>2, <2>3
<1>13. LcOnce(lcPatches', lcMarked')
  <2>1. \A c \in 1..Len(lcMarked) : c \in 1..Len(lcMarked') /\ lcMarked[c] \subseteq lcMarked'[c]
    <3> TAKE c \in 1..Len(lcMarked)
    <3>1. c \in 1..N /\ Len(lcMarked') = N + 1 /\ N \in Nat
      BY <1>2, <1>9, <1>11
    <3>2. lcMarked'[c] = lcMarked[c]
      BY <1>11, <3>1
    <3>3. QED
      BY <3>1, <3>2
  <2>2. \A p \in 1..Len(lcPatches) : lcPatches[p].handle # h /\ lcPatches[p].core # h
    BY <1>2
  <2>3. \A t \in sync \cap LcMarks : h \in 1..Len(lcMarked') /\ t \in lcMarked'[h]
    BY <1>2, <1>4, <1>11
  <2>4. /\ \A p \in 1..Len(lcPatches) : h # 0 /\ lcPatches[p].handle = h => lcPatches[p].target \notin sync
        /\ \A t \in sync \cap LcMarks : /\ h \in 1..Len(lcMarked') /\ t \in lcMarked'[h]
                                       /\ \A p \in 1..Len(lcPatches) : lcPatches[p].target = t => lcPatches[p].core # h
    BY <2>2, <2>3
  <2>5. LcNewTo(lcPatches, sync, h, h, lcMarked, lcMarked')
    BY ONLY <2>1, <2>4 DEF LcNewTo
  <2>6. QED
    BY ONLY <1>6, <1>7, <2>5, LcOnceGrows
<1>14. ASSUME NEW t \in LcAsync
       PROVE  /\ lcQueue'[t] \in Seq(LcJobSet) /\ LcJobsFit(lcPatches', h, t, lcQueue'[t])
              /\ \A p : (\E n \in 1..Len(lcQueue[t]) : lcQueue[t][n].patch = p) =>
                   \E n \in 1..Len(lcQueue'[t]) : lcQueue'[t][n].patch = p
  <2> DEFINE jobs == lcQueue[t]
  <2>1. jobs \in Seq(LcJobSet) /\ LcJobsFit(lcPatches, N, t, jobs)
    BY <1>2 DEF LcInv, N
  <2>2. lcQueue'[t] = IF LcResolve(t) THEN Append(jobs, job) ELSE jobs
    BY <1>1
  <2> HIDE DEF jobs
  <2>3. LcJobsFit(lcPatches', h, t, jobs)
    <3>1. \A n \in 1..Len(jobs) : LcJobFits(lcPatches, N, t, jobs[n])
      BY <2>1 DEF LcJobsFit
    <3>2. N \in Nat /\ h \in Nat /\ N <= h /\ t \notin sync
      BY <1>2, <1>3
    <3>4. \A n \in 1..Len(jobs) : LcJobFits(lcPatches', h, t, jobs[n])
      BY ONLY <1>7, <3>1, <3>2, LcJobFitsGrows
    <3>5. QED
      BY <2>1, <3>4 DEF LcJobsFit
  <2>4. \A n \in 1..Len(jobs) : jobs[n].handle # job.handle
    <3>1. \A n \in 1..Len(jobs) : jobs[n].handle \in 1..N
      BY <2>1 DEF LcJobsFit, LcJobFits
    <3>2. QED
      BY <1>2, <1>5, <3>1
  <2>5. LcJobFits(lcPatches', h, t, job)
    <3>1. \A p \in 1..Len(lcPatches') : lcPatches'[p].handle = h => lcPatches'[p].target # t
      <4>1. /\ \A q \in 1..Len(lcPatches) : lcPatches'[q] = lcPatches[q]
            /\ \A q \in Len(lcPatches) + 1..Len(lcPatches') : lcPatches'[q].target \in sync
            /\ Len(lcPatches') \in Nat
        BY <1>7 DEF LcGrew
      <4> TAKE p \in 1..Len(lcPatches')
      <4>2. CASE p \in 1..Len(lcPatches)
        BY <1>2, <4>1, <4>2
      <4>3. CASE p \in Len(lcPatches) + 1..Len(lcPatches')
        BY <1>3, <4>1, <4>3
      <4>4. QED
        BY <1>2, <4>1, <4>2, <4>3
    <3>2. h \in 1..h
      BY <1>2
    <3>3. QED
      BY <1>5, <3>1, <3>2 DEF LcJobFits
  <2>6. CASE LcResolve(t)
    <3>1. /\ Append(jobs, job) \in Seq(LcJobSet) /\ LcJobsFit(lcPatches', h, t, Append(jobs, job))
          /\ \A p : (\E n \in 1..Len(jobs) : jobs[n].patch = p) \/ p = job.patch =>
               \E n \in 1..Len(Append(jobs, job)) : Append(jobs, job)[n].patch = p
      BY ONLY <1>5, <2>1, <2>3, <2>4, <2>5, LcJobsAppend
    <3>2. QED
      BY <2>2, <2>6, <3>1 DEF jobs
  <2>7. CASE ~LcResolve(t)
    BY <2>1, <2>2, <2>3, <2>7 DEF jobs
  <2>8. QED
    BY <2>6, <2>7 DEF jobs
<1>15. LcTyped'
  <2>1. lcQueue' \in [LcAsync -> Seq(LcJobSet)]
    BY <1>1, <1>14
  <2>2. lcCore' \in 0..h
    BY <1>1, <1>2
  <2>3. QED
    BY <1>10, <1>11, <1>12, <2>1, <2>2 DEF LcTyped
<1>16. \A t \in LcAsync : LcJobsFit(lcPatches', Len(lcOpen'), t, lcQueue'[t])
  BY <1>10, <1>14
<1>17. \A t \in LcTarget \ lcCrossed' : LcCovered(t)'
  <2>1. ASSUME NEW t \in LcTarget, NEW p \in 1..Len(lcPatches), LcMeant(t, p)
        PROVE  LcMeant(t, p)'
    <3>1. lcPatches'[p] = lcPatches[p]
      BY <1>7 DEF LcGrew
    <3>2. lcPatches[p].handle # 0 => lcOpen'[lcPatches[p].handle] = lcOpen[lcPatches[p].handle]
      BY <1>2, <1>10
    <3>3. LcWaits(t, p) => LcWaits(t, p)'
      BY <1>14 DEF LcWaits
    <3>4. QED
      BY <2>1, <3>1, <3>2, <3>3 DEF LcMeant
  <2>2. ASSUME NEW t \in sync, NEW p, p = lcMethod'[t]
        PROVE  LcMeant(t, p)'
    <3>1. lcPatches'[p].handle = h /\ lcPatches'[p].held
      BY <1>7, <2>2 DEF LcGrew
    <3>2. QED
      BY <1>10, <3>1 DEF LcMeant
  <2>3. QED
    BY <1>1, <1>3, <1>7, <2>1, <2>2, LcCoverGrows
<1>18. QED
  BY <1>8, <1>13, <1>15, <1>16, <1>17 DEF LcInv

LEMMA LcCloseKeeps ==
  ASSUME LcInv, NEW h \in DOMAIN lcOpen, LcClose(h)
  PROVE  LcInv'
<1> DEFINE P == {p \in DOMAIN lcPatches : lcPatches[p].handle = h /\ lcPatches[p].held}
<1>1. /\ lcOpen' = [lcOpen EXCEPT ![h] = FALSE] /\ LcDetach(P) /\ lcCore' = 0
      /\ UNCHANGED <<lcMarked, lcPatches, lcQueue>>
  BY DEF LcClose
<1>2. /\ Len(lcOpen) \in Nat /\ Len(lcPatches) \in Nat
      /\ \A p \in 1..Len(lcPatches) : lcPatches[p].handle \in 0..Len(lcOpen)
  BY LcFacts
<1>3. lcOpen \in Seq(BOOLEAN) /\ lcPatches \in Seq(LcPatchSet)
  BY DEF LcInv, LcTyped, LcStack
<1>4. h \in 1..Len(lcOpen) /\ DOMAIN lcPatches = 1..Len(lcPatches)
  BY <1>3, LenProperties
<1>5. P \in SUBSET (1..Len(lcPatches)) /\ \A p \in 1..Len(lcPatches) : p \in P <=> lcPatches[p].handle = h /\ lcPatches[p].held
  BY <1>4
<1>6. /\ lcOpen' \in Seq(BOOLEAN) /\ Len(lcOpen') = Len(lcOpen)
      /\ \A i \in 1..Len(lcOpen) : i # h => lcOpen'[i] = lcOpen[i]
  BY <1>1, <1>3, <1>4
<1> HIDE DEF P
<1>7. LcStack(lcPatches, lcMethod) /\ LcOnce(lcPatches, lcMarked)
  BY DEF LcInv
<1>8. \A p, q \in P : lcPatches[p].target = lcPatches[q].target => p = q
  <2>1. h # 0 /\ \A p \in P : p \in 1..Len(lcPatches) /\ lcPatches[p].handle = h
    BY <1>2, <1>4, <1>5
  <2>2. QED
    BY <1>7, <2>1 DEF LcOnce
<1>9. /\ LcStack(lcPatches, lcMethod')
      /\ \A t \in LcTarget \ lcCrossed' : t \notin lcCrossed /\
           \A D : LcChainIn(lcPatches, lcMethod[t], D) =>
             \E E : LcChainIn(lcPatches, lcMethod'[t], E) /\ E \subseteq D /\ E \cap P = {}
  BY <1>1, <1>5, <1>7, <1>8, LcDetachCovers
<1>10. ASSUME NEW t \in LcTarget \ lcCrossed'
       PROVE  LcCovered(t)'
  <2>1. LcCovered(t)
    BY <1>9 DEF LcInv
  <2>2. PICK D : LcChainIn(lcPatches, lcMethod[t], D) /\ \A p \in D : LcMeant(t, p)
    BY <2>1 DEF LcCovered
  <2>3. PICK E : LcChainIn(lcPatches, lcMethod'[t], E) /\ E \subseteq D /\ E \cap P = {}
    BY <1>9, <2>2
  <2>4. ASSUME NEW p \in E
        PROVE  LcMeant(t, p)'
    <3>1. LcMeant(t, p) /\ p \in 1..Len(lcPatches) /\ p \notin P
      BY <2>2, <2>3 DEF LcChainIn
    <3>2. LcWaits(t, p) => LcWaits(t, p)'
      BY <1>1 DEF LcWaits
    <3>3. lcPatches[p].held /\ lcPatches[p].handle # 0 => lcOpen'[lcPatches[p].handle] = lcOpen[lcPatches[p].handle]
      BY <1>2, <1>5, <1>6, <3>1
    <3>4. QED
      BY <1>1, <3>1, <3>2, <3>3 DEF LcMeant
  <2>5. LcChainIn(lcPatches', lcMethod'[t], E)
    BY <1>1, <2>3
  <2>6. QED
    BY <2>4, <2>5 DEF LcCovered
<1>11. LcTyped'
  <2>1. lcCore' \in 0..Len(lcOpen')
    BY <1>1, <1>2, <1>6
  <2>2. QED
    BY <1>1, <1>6, <2>1 DEF LcInv, LcTyped
<1>12. QED
  BY <1>1, <1>6, <1>7, <1>9, <1>10, <1>11 DEF LcInv

LEMMA LcAttachKeeps ==
  ASSUME LcInv, NEW t \in LcManual, LcAttach(t)
  PROVE  LcInv'
<1> DEFINE c == lcCore
           marks == [lcMarked EXCEPT ![c] = @ \cup ({t} \cap LcMarks)]
           T == {t}
<1>1. lcCore # 0 /\ UNCHANGED <<lcOpen, lcCore, lcQueue, lcCrossed>>
  BY DEF LcAttach
<1>2. /\ Len(lcOpen) \in Nat /\ Len(lcPatches) \in Nat
      /\ \A p \in 1..Len(lcPatches) : lcPatches[p].handle \in 0..Len(lcOpen) /\ lcPatches[p].core \in 0..Len(lcOpen)
  BY LcFacts
<1>3. t \in LcTarget /\ T \in SUBSET LcTarget
  BY LcAssumption
<1>4. LcStack(lcPatches, lcMethod) /\ LcOnce(lcPatches, lcMarked)
  BY DEF LcInv
<1>5. CASE UNCHANGED <<lcMarked, lcPatches, lcMethod>>
  BY <1>1, <1>5 DEF LcInv, LcTyped, LcCovered, LcMeant, LcWaits
<1>6. CASE /\ LcPatch(T, 0, c, TRUE) /\ lcMarked' = marks
           /\ ~(t \in LcMarks /\ t \in lcMarked[c])
  <2>1. /\ lcMarked \in Seq(SUBSET LcMarks) /\ Len(lcMarked) = Len(lcOpen)
        /\ c \in 1..Len(lcOpen)
    <3>1. c \in 0..Len(lcOpen) /\ lcMarked \in Seq(SUBSET LcMarks) /\ Len(lcMarked) = Len(lcOpen)
      BY DEF LcInv, LcTyped
    <3>2. QED
      BY <1>1, <1>2, <3>1
  <2>2. c \in Nat /\ c \in 1..Len(lcMarked)
    BY <1>2, <2>1
  <2> HIDE DEF c, T
  <2>3. LcGrew(lcPatches, lcMethod, lcPatches', lcMethod', T, 0, c, TRUE)
    BY <1>3, <1>4, <1>6, <2>2, LcGrows
  <2>4. LcStack(lcPatches', lcMethod')
    BY <1>3, <1>4, <2>3, LcStackGrows
  <2>5. /\ marks \in Seq(SUBSET LcMarks) /\ Len(marks) = Len(lcMarked)
        /\ marks[c] = lcMarked[c] \cup ({t} \cap LcMarks)
        /\ \A i \in 1..Len(lcMarked) : i # c => marks[i] = lcMarked[i]
    <3>1. lcMarked[c] \cup ({t} \cap LcMarks) \in SUBSET LcMarks
      <4>1. lcMarked[c] \in SUBSET LcMarks
        BY <2>1, <2>2, ElementOfSeq
      <4>2. QED
        BY <4>1
    <3> DEFINE w == lcMarked[c] \cup ({t} \cap LcMarks)
    <3>2. marks = [lcMarked EXCEPT ![c] = w] /\ w \in SUBSET LcMarks
      BY <3>1
    <3> HIDE DEF w, marks
    <3>3. marks \in Seq(SUBSET LcMarks) /\ Len(marks) = Len(lcMarked) /\ marks[c] = w
          /\ \A i \in 1..Len(lcMarked) : i # c => marks[i] = lcMarked[i]
      BY <2>1, <2>2, <3>2
    <3>4. QED
      BY <3>3 DEF w
  <2> HIDE DEF marks
  <2>6. LcNewTo(lcPatches, T, 0, c, lcMarked, marks)
    <3>1. \A d \in 1..Len(lcMarked) : d \in 1..Len(marks) /\ lcMarked[d] \subseteq marks[d]
      <4> TAKE d \in 1..Len(lcMarked)
      <4>1. CASE d = c
        BY <2>5, <4>1
      <4>2. CASE d # c
        BY <2>5, <4>2
      <4>3. QED
        BY <4>1, <4>2
    <3>2. ASSUME NEW u \in T \cap LcMarks
          PROVE  /\ c \in 1..Len(marks) /\ u \in marks[c]
                 /\ \A p \in 1..Len(lcPatches) : lcPatches[p].target = u => lcPatches[p].core # c
      <4>1. u = t /\ u \in LcMarks /\ u \notin lcMarked[c]
        BY <1>6 DEF T
      <4>2. c \in 1..Len(marks) /\ u \in marks[c]
        BY <2>2, <2>5, <4>1
      <4>3. QED
        BY <1>4, <4>1, <4>2 DEF LcOnce
    <3>3. QED
      BY <3>1, <3>2 DEF LcNewTo
  <2>7. LcOnce(lcPatches', marks)
    BY ONLY <1>4, <2>3, <2>6, LcOnceGrows
  <2>8. ASSUME NEW u \in LcAsync
        PROVE  LcJobsFit(lcPatches', Len(lcOpen), u, lcQueue[u])
    <3>1. /\ LcJobsFit(lcPatches, Len(lcOpen), u, lcQueue[u])
          /\ \A n \in 1..Len(lcQueue[u]) : LcJobFits(lcPatches, Len(lcOpen), u, lcQueue[u][n])
      BY DEF LcInv, LcJobsFit
    <3>2. \A n \in 1..Len(lcQueue[u]) : 0 # lcQueue[u][n].handle
      BY <1>2, <3>1 DEF LcJobFits
    <3>3. Len(lcOpen) \in Nat /\ Len(lcOpen) <= Len(lcOpen)
      BY <1>2
    <3>4. \A n \in 1..Len(lcQueue[u]) : LcJobFits(lcPatches', Len(lcOpen), u, lcQueue[u][n])
      BY ONLY <2>3, <3>1, <3>2, <3>3, LcJobFitsGrows
    <3>5. QED
      BY <3>1, <3>4 DEF LcJobsFit
  <2>9. \A p \in 1..Len(lcPatches') : lcPatches'[p].handle <= Len(lcOpen) /\ lcPatches'[p].core <= Len(lcOpen)
    <3> TAKE p \in 1..Len(lcPatches')
    <3>1. /\ \A q \in 1..Len(lcPatches) : lcPatches'[q] = lcPatches[q]
          /\ \A q \in Len(lcPatches) + 1..Len(lcPatches') : lcPatches'[q].handle = 0 /\ lcPatches'[q].core = c
          /\ Len(lcPatches') \in Nat
      BY <2>3 DEF LcGrew
    <3>2. CASE p \in 1..Len(lcPatches)
      BY <1>2, <3>1, <3>2
    <3>3. CASE p \in Len(lcPatches) + 1..Len(lcPatches')
      BY <1>2, <2>1, <3>1, <3>3
    <3>4. QED
      BY <1>2, <3>1, <3>2, <3>3
  <2>10. LcTyped'
    BY <1>1, <1>6, <2>1, <2>5, <2>9 DEF LcInv, LcTyped
  <2>11. \A u \in LcTarget \ lcCrossed' : LcCovered(u)'
    <3>1. ASSUME NEW u \in LcTarget, NEW p \in 1..Len(lcPatches), LcMeant(u, p)
          PROVE  LcMeant(u, p)'
      <4>1. lcPatches'[p] = lcPatches[p]
        BY <2>3 DEF LcGrew
      <4>2. QED
        BY <1>1, <3>1, <4>1 DEF LcMeant, LcWaits
    <3>2. ASSUME NEW u \in T, NEW p, p = lcMethod'[u]
          PROVE  LcMeant(u, p)'
      BY <2>3, <3>2 DEF LcGrew, LcMeant
    <3>3. QED
      BY <1>1, <1>3, <2>3, <3>1, <3>2, LcCoverGrows
  <2>12. QED
    BY <1>1, <1>6, <2>4, <2>7, <2>8, <2>10, <2>11 DEF LcInv
<1>7. QED
  BY <1>5, <1>6 DEF LcAttach

\* None of the jobs is of this handle.
LcApart(jobs, handle) == \A n \in 1..Len(jobs) : jobs[n].handle # handle

\* A turn takes the first job; what waits for another patch than that job's goes on waiting.
LEMMA LcJobTaken ==
  ASSUME LcInv, NEW t \in LcAsync, lcQueue[t] # << >>, NEW j, j = Head(lcQueue[t]),
         lcQueue' = [lcQueue EXCEPT ![t] = Tail(@)]
  PROVE  /\ j \in LcJobSet /\ LcJobFits(lcPatches, Len(lcOpen), t, j)
         /\ lcQueue' \in [LcAsync -> Seq(LcJobSet)]
         /\ \A u \in LcAsync : LcJobsFit(lcPatches, Len(lcOpen), u, lcQueue'[u])
         /\ LcApart(lcQueue'[t], j.handle)
         /\ \A u \in LcTarget : \A p : LcWaits(u, p) /\ (u # t \/ p # j.patch) => LcWaits(u, p)'
<1> DEFINE jobs == lcQueue[t]
           rest == Tail(jobs)
<1>1. lcQueue \in [LcAsync -> Seq(LcJobSet)] /\ \A u \in LcAsync : LcJobsFit(lcPatches, Len(lcOpen), u, lcQueue[u])
  BY DEF LcInv, LcTyped
<1>2. jobs \in Seq(LcJobSet) /\ jobs # << >> /\ LcJobsFit(lcPatches, Len(lcOpen), t, jobs)
  BY <1>1
<1> HIDE DEF jobs
<1>3. /\ Head(jobs) \in LcJobSet /\ LcJobFits(lcPatches, Len(lcOpen), t, Head(jobs))
      /\ Tail(jobs) \in Seq(LcJobSet) /\ LcJobsFit(lcPatches, Len(lcOpen), t, Tail(jobs))
      /\ \A n \in 1..Len(Tail(jobs)) : Tail(jobs)[n].handle # Head(jobs).handle
      /\ \A p : (\E n \in 1..Len(jobs) : jobs[n].patch = p) /\ p # Head(jobs).patch =>
           \E n \in 1..Len(Tail(jobs)) : Tail(jobs)[n].patch = p
  BY ONLY <1>2, LcJobsTail
<1>4. j = Head(jobs) /\ lcQueue' = [lcQueue EXCEPT ![t] = rest]
  BY DEF jobs
<1> HIDE DEF rest
<1>5. lcQueue'[t] = rest /\ (\A u \in LcAsync : u # t => lcQueue'[u] = lcQueue[u]) /\ rest = Tail(jobs)
  BY <1>1, <1>4 DEF rest
<1>6. lcQueue' \in [LcAsync -> Seq(LcJobSet)]
  BY <1>1, <1>3, <1>4, <1>5
<1>7. \A u \in LcAsync : LcJobsFit(lcPatches, Len(lcOpen), u, lcQueue'[u])
  BY <1>1, <1>3, <1>5
<1>8. ASSUME NEW u \in LcTarget, NEW p, LcWaits(u, p), u # t \/ p # j.patch
      PROVE  LcWaits(u, p)'
  <2>1. CASE u # t
    BY <1>5, <1>8, <2>1 DEF LcWaits
  <2>2. CASE u = t
    <3>1. \E n \in 1..Len(jobs) : jobs[n].patch = p
      BY <1>8, <2>2 DEF LcWaits, jobs
    <3>2. \E n \in 1..Len(rest) : rest[n].patch = p
      BY <1>3, <1>4, <1>5, <1>8, <2>2, <3>1
    <3>3. QED
      BY <1>5, <2>2, <3>2 DEF LcWaits
  <2>3. QED
    BY <2>1, <2>2
<1>9. QED
  BY <1>3, <1>4, <1>5, <1>6, <1>7, <1>8 DEF LcApart

LEMMA LcResumeKeeps ==
  ASSUME LcInv, NEW t \in LcAsync, lcQueue[t] # << >>, NEW j, j = Head(lcQueue[t]), j.job = "resume",
         LcZustandResume(j.handle, j.patch), lcQueue' = [lcQueue EXCEPT ![t] = Tail(@)],
         UNCHANGED <<lcOpen, lcMarked, lcCore>>
  PROVE  LcInv'
<1> DEFINE k == j.patch
           N == Len(lcPatches)
<1>1. /\ j \in LcJobSet /\ LcJobFits(lcPatches, Len(lcOpen), t, j)
      /\ lcQueue' \in [LcAsync -> Seq(LcJobSet)]
      /\ \A u \in LcAsync : LcJobsFit(lcPatches, Len(lcOpen), u, lcQueue'[u])
      /\ LcApart(lcQueue'[t], j.handle)
      /\ \A u \in LcTarget : \A p : LcWaits(u, p) /\ (u # t \/ p # k) => LcWaits(u, p)'
  <2>1. LcInv /\ lcQueue[t] # << >> /\ j = Head(lcQueue[t]) /\ lcQueue' = [lcQueue EXCEPT ![t] = Tail(@)]
    OBVIOUS
  <2>2. /\ j \in LcJobSet /\ LcJobFits(lcPatches, Len(lcOpen), t, j)
        /\ lcQueue' \in [LcAsync -> Seq(LcJobSet)]
        /\ \A u \in LcAsync : LcJobsFit(lcPatches, Len(lcOpen), u, lcQueue'[u])
        /\ LcApart(lcQueue'[t], j.handle)
    BY <2>1, LcJobTaken
  <2>3. \A u \in LcTarget : \A p : LcWaits(u, p) /\ (u # t \/ p # j.patch) => LcWaits(u, p)'
    BY <2>1, LcJobTaken
  <2>4. QED
    BY <2>2, <2>3
<1>2. /\ Len(lcOpen) \in Nat /\ N \in Nat
      /\ \A p \in 1..N : lcPatches[p] \in LcPatchSet
  BY LcFacts
<1>3. lcPatches \in Seq(LcPatchSet) /\ LcStack(lcPatches, lcMethod) /\ LcOnce(lcPatches, lcMarked)
  BY DEF LcInv, LcStack
<1>4. /\ t = "zustand" /\ k \in 1..N /\ lcPatches[k].handle = j.handle /\ lcPatches[k].target = t
      /\ ~lcPatches[k].held /\ j.handle \in 1..Len(lcOpen)
  BY <1>1 DEF LcJobFits
<1>5. CASE lcOpen[j.handle]
  <2>1. lcPatches' = [lcPatches EXCEPT ![k].held = TRUE] /\ UNCHANGED <<lcMethod, lcCrossed>>
    BY <1>5 DEF LcZustandResume
  <2> HIDE DEF k
  <2>2. /\ lcPatches' \in Seq(LcPatchSet) /\ Len(lcPatches') = N
        /\ \A p \in 1..N : p # k => lcPatches'[p] = lcPatches[p]
        /\ \A p \in 1..N : /\ lcPatches'[p].target = lcPatches[p].target /\ lcPatches'[p].handle = lcPatches[p].handle
                           /\ lcPatches'[p].core = lcPatches[p].core /\ lcPatches'[p].inner = lcPatches[p].inner
        /\ lcPatches'[k].held
    <3> DEFINE new == [lcPatches[k] EXCEPT !.held = TRUE]
    <3>1. new \in LcPatchSet /\ new.target = lcPatches[k].target /\ new.handle = lcPatches[k].handle
          /\ new.core = lcPatches[k].core /\ new.inner = lcPatches[k].inner /\ new.held
      BY <1>2, <1>4 DEF LcPatchSet
    <3>2. lcPatches' = [lcPatches EXCEPT ![k] = new]
      BY <2>1
    <3> HIDE DEF new
    <3>3. /\ lcPatches' \in Seq(LcPatchSet) /\ Len(lcPatches') = N /\ lcPatches'[k] = new
          /\ \A p \in 1..N : p # k => lcPatches'[p] = lcPatches[p]
      BY <1>3, <1>4, <3>1, <3>2
    <3>4. QED
      BY <3>1, <3>3
  <2> HIDE DEF N
  <2>3. LcStack(lcPatches', lcMethod')
    <3>1. ASSUME NEW p \in 1..Len(lcPatches')
          PROVE  lcPatches'[p].inner < p
                 /\ (lcPatches'[p].inner # 0 => lcPatches'[lcPatches'[p].inner].target = lcPatches'[p].target)
      <4> DEFINE i == lcPatches[p].inner
      <4>1. p \in 1..N /\ i \in Nat /\ i < p /\ (i # 0 => lcPatches[i].target = lcPatches[p].target)
        BY <1>2, <1>3, <2>2 DEF LcStack, LcPatchSet, N
      <4>2. lcPatches'[p].inner = i /\ (i # 0 => i \in 1..N)
        BY <1>2, <2>2, <4>1
      <4> HIDE DEF i
      <4>3. QED
        BY <2>2, <4>1, <4>2
    <3>2. ASSUME NEW u \in LcTarget
          PROVE  lcMethod'[u] <= Len(lcPatches') /\ (lcMethod'[u] # 0 => lcPatches'[lcMethod'[u]].target = u)
      <4>1. lcMethod'[u] = lcMethod[u] /\ lcMethod[u] \in 0..N /\ (lcMethod[u] # 0 => lcPatches[lcMethod[u]].target = u)
        BY <1>2, <1>3, <2>1 DEF LcStack, N
      <4>2. QED
        BY <1>2, <2>2, <4>1
    <3>3. lcMethod' \in [LcTarget -> Nat]
      BY <1>3, <2>1 DEF LcStack
    <3>4. QED
      BY <2>2, <3>1, <3>2, <3>3 DEF LcStack
  <2>4. LcOnce(lcPatches', lcMarked')
    <3> DEFINE new == lcPatches'
    <3>1. /\ Len(new) = Len(lcPatches)
          /\ \A p \in 1..Len(lcPatches) : /\ new[p].target = lcPatches[p].target
                                           /\ new[p].handle = lcPatches[p].handle /\ new[p].core = lcPatches[p].core
      BY <2>2 DEF N
    <3>2. lcMarked' = lcMarked
      OBVIOUS
    <3> HIDE DEF new
    <3>3. LcOnce(new, lcMarked)
      BY ONLY <1>3, <3>1 DEF LcOnce
    <3>4. QED
      BY <3>2, <3>3 DEF new
  <2>5. ASSUME NEW u \in LcAsync
        PROVE  LcJobsFit(lcPatches', Len(lcOpen'), u, lcQueue'[u])
    <3>1. ASSUME NEW n \in 1..Len(lcQueue'[u]), NEW job, job = lcQueue'[u][n]
          PROVE  LcJobFits(lcPatches', Len(lcOpen), u, job)
      <4>1. LcJobFits(lcPatches, Len(lcOpen), u, job)
        BY <1>1, <3>1 DEF LcJobsFit
      <4>2. job.job = "resume" => job.patch # k
        BY <1>1, <1>4, <3>1, <4>1 DEF LcJobFits, LcApart
      <4>3. QED
        BY <2>2, <4>1, <4>2 DEF LcJobFits, N
    <3>2. LcJobsFit(lcPatches, Len(lcOpen), u, lcQueue'[u])
      BY <1>1
    <3>3. \A n \in 1..Len(lcQueue'[u]) : LcJobFits(lcPatches', Len(lcOpen), u, lcQueue'[u][n])
      BY <3>1
    <3>4. QED
      BY <3>2, <3>3 DEF LcJobsFit
  <2>6. LcTyped'
    BY <1>1, <2>2 DEF LcInv, LcTyped, N
  <2>7. ASSUME NEW u \in LcTarget \ lcCrossed'
        PROVE  LcCovered(u)'
    <3>1. LcCovered(u)
      BY <2>1 DEF LcInv
    <3>2. PICK D : LcChainIn(lcPatches, lcMethod[u], D) /\ \A p \in D : LcMeant(u, p)
      BY <3>1 DEF LcCovered
    <3>3. ASSUME NEW p \in D
          PROVE  LcMeant(u, p)'
      <4>1. LcMeant(u, p) /\ p \in 1..N
        BY <3>2 DEF LcChainIn, N
      <4>2. CASE p = k
        BY <1>4, <1>5, <2>2, <4>2 DEF LcMeant
      <4>3. CASE p # k
        <5>1. LcWaits(u, p) => LcWaits(u, p)'
          BY <1>1, <4>3 DEF k
        <5>2. lcPatches'[p] = lcPatches[p]
          BY <2>2, <4>1, <4>3
        <5>3. QED
          BY <4>1, <5>1, <5>2 DEF LcMeant
      <4>4. QED
        BY <4>2, <4>3
    <3>4. LcChainIn(lcPatches', lcMethod'[u], D)
      BY <2>1, <2>2, <3>2 DEF LcChainIn, N
    <3>5. QED
      BY <3>3, <3>4 DEF LcCovered
  <2>8. QED
    BY <2>3, <2>4, <2>5, <2>6, <2>7 DEF LcInv
<1>6. CASE ~lcOpen[j.handle]
  <2> DEFINE P == {k}
  <2>1. LcDetach(P) /\ lcPatches' = lcPatches
    BY <1>6 DEF LcZustandResume
  <2>2. P \in SUBSET (1..Len(lcPatches)) /\ \A p, q \in P : lcPatches[p].target = lcPatches[q].target => p = q
    BY <1>4
  <2>3. k \in P
    OBVIOUS
  <2> HIDE DEF k, P
  <2>4. /\ LcStack(lcPatches, lcMethod')
        /\ \A u \in LcTarget \ lcCrossed' : u \notin lcCrossed /\
             \A D : LcChainIn(lcPatches, lcMethod[u], D) =>
               \E E : LcChainIn(lcPatches, lcMethod'[u], E) /\ E \subseteq D /\ E \cap P = {}
    BY <1>3, <2>1, <2>2, LcDetachCovers
  <2>5. ASSUME NEW u \in LcTarget \ lcCrossed'
        PROVE  LcCovered(u)'
    <3>1. LcCovered(u)
      BY <2>4 DEF LcInv
    <3>2. PICK D : LcChainIn(lcPatches, lcMethod[u], D) /\ \A p \in D : LcMeant(u, p)
      BY <3>1 DEF LcCovered
    <3>3. PICK E : LcChainIn(lcPatches, lcMethod'[u], E) /\ E \subseteq D /\ E \cap P = {}
      BY <2>4, <3>2
    <3>4. ASSUME NEW p \in E
          PROVE  LcMeant(u, p)'
      <4>1. LcMeant(u, p) /\ p # k
        BY <2>3, <3>2, <3>3
      <4>2. LcWaits(u, p) => LcWaits(u, p)'
        BY <1>1, <4>1 DEF k
      <4>3. QED
        BY <2>1, <4>1, <4>2 DEF LcMeant
    <3>5. LcChainIn(lcPatches', lcMethod'[u], E)
      BY <2>1, <3>3
    <3>6. QED
      BY <3>4, <3>5 DEF LcCovered
  <2>6. LcTyped'
    BY <1>1, <2>1 DEF LcInv, LcTyped
  <2>7. QED
    BY <1>1, <1>3, <2>1, <2>4, <2>5, <2>6 DEF LcInv
<1>7. QED
  BY <1>5, <1>6

\* What an import attaches is one patch more, and the first one its handle has of that target.
LEMMA LcLatePatch ==
  ASSUME LcInv, NEW t \in LcAsync, NEW j, j.job = "import", LcJobFits(lcPatches, Len(lcOpen), t, j),
         NEW core \in 0..Len(lcOpen), NEW held \in BOOLEAN, LcPatch({t}, j.handle, core, held),
         lcMarked' = lcMarked
  PROVE  /\ LcGrew(lcPatches, lcMethod, lcPatches', lcMethod', {t}, j.handle, core, held)
         /\ LcStack(lcPatches', lcMethod') /\ LcOnce(lcPatches', lcMarked')
         /\ Len(lcPatches') = Len(lcPatches) + 1 /\ lcMethod'[t] = Len(lcPatches')
         /\ \A p \in 1..Len(lcPatches') : lcPatches'[p].handle <= Len(lcOpen) /\ lcPatches'[p].core <= Len(lcOpen)
         /\ \A u \in LcAsync : \A jobs :
              LcJobsFit(lcPatches, Len(lcOpen), u, jobs) /\ (u # t \/ LcApart(jobs, j.handle))
                => LcJobsFit(lcPatches', Len(lcOpen), u, jobs)
<1> DEFINE h == j.handle
           T == {t}
           N == Len(lcPatches)
           M == Len(lcPatches')
<1>1. /\ Len(lcOpen) \in Nat /\ N \in Nat
      /\ \A p \in 1..N : lcPatches[p].handle \in 0..Len(lcOpen) /\ lcPatches[p].core \in 0..Len(lcOpen)
  BY LcFacts
<1>2. h \in 1..Len(lcOpen) /\ h \in Nat /\ core \in Nat
      /\ \A p \in 1..N : lcPatches[p].handle = h => lcPatches[p].target \notin T
  BY <1>1 DEF LcJobFits
<1>3. T \in SUBSET LcTarget /\ T \cap LcMarks = {}
  BY DEF LcTarget, LcAsync, LcMarks
<1>4. LcStack(lcPatches, lcMethod) /\ LcOnce(lcPatches, lcMarked)
  BY DEF LcInv
<1>5. LcPatch(T, h, core, held) /\ t \in T /\ \A u \in T : u = t
  OBVIOUS
<1> HIDE DEF h, T
<1>6. LcGrew(lcPatches, lcMethod, lcPatches', lcMethod', T, h, core, held)
  BY <1>2, <1>3, <1>4, <1>5, LcGrows
<1>7. LcStack(lcPatches', lcMethod')
  BY <1>3, <1>4, <1>6, LcStackGrows
<1>8. LcOnce(lcPatches', lcMarked)
  <2>1. LcNewTo(lcPatches, T, h, core, lcMarked, lcMarked)
    BY <1>2, <1>3 DEF LcNewTo, N
  <2>2. QED
    BY ONLY <1>4, <1>6, <2>1, LcOnceGrows
<1>9. /\ M \in Nat /\ N <= M
      /\ \A p \in 1..N : lcPatches'[p] = lcPatches[p]
      /\ \A p \in N + 1..M : lcPatches'[p].target \in T /\ lcPatches'[p].handle = h /\ lcPatches'[p].core = core
      /\ \A p, q \in N + 1..M : lcPatches'[p].target = lcPatches'[q].target => p = q
      /\ lcMethod'[t] \in N + 1..M
  BY <1>5, <1>6 DEF LcGrew
<1>10. M = N + 1 /\ lcMethod'[t] = M
  <2>1. N + 1 \in N + 1..M /\ M \in N + 1..M
    BY <1>1, <1>9
  <2>2. lcPatches'[N + 1].target = t /\ lcPatches'[M].target = t
    BY <1>5, <1>9, <2>1
  <2>3. N + 1 = M
    BY <1>9, <2>1, <2>2
  <2>4. QED
    BY <1>1, <1>9, <2>3
<1>11. \A p \in 1..M : lcPatches'[p].handle <= Len(lcOpen) /\ lcPatches'[p].core <= Len(lcOpen)
  <2> TAKE p \in 1..M
  <2>1. CASE p \in 1..N
    BY <1>1, <1>9, <2>1
  <2>2. CASE p \in N + 1..M
    BY <1>1, <1>2, <1>9, <2>2
  <2>3. QED
    BY <1>1, <1>9, <2>1, <2>2
<1>12. ASSUME NEW u \in LcAsync, NEW jobs, LcJobsFit(lcPatches, Len(lcOpen), u, jobs),
              u # t \/ LcApart(jobs, h)
       PROVE  LcJobsFit(lcPatches', Len(lcOpen), u, jobs)
  <2>1. /\ \A n \in 1..Len(jobs) : LcJobFits(lcPatches, Len(lcOpen), u, jobs[n])
        /\ \A n \in 1..Len(jobs) : u \notin T \/ h # jobs[n].handle
    BY <1>5, <1>12 DEF LcJobsFit, LcApart
  <2>2. Len(lcOpen) \in Nat /\ Len(lcOpen) <= Len(lcOpen)
    BY <1>1
  <2>3. \A n \in 1..Len(jobs) : LcJobFits(lcPatches', Len(lcOpen), u, jobs[n])
    BY ONLY <1>6, <2>1, <2>2, LcJobFitsGrows
  <2>4. QED
    BY <1>12, <2>3 DEF LcJobsFit
<1>13. QED
  BY <1>6, <1>7, <1>8, <1>10, <1>11, <1>12 DEF h, T, N, M

LEMMA LcIdleImportKeeps ==
  ASSUME LcInv, NEW t \in LcAsync, lcQueue[t] # << >>, NEW j, j = Head(lcQueue[t]), j.job = "import",
         lcQueue' = [lcQueue EXCEPT ![t] = Tail(@)],
         UNCHANGED <<lcOpen, lcMarked, lcCore, lcPatches, lcMethod, lcCrossed>>
  PROVE  LcInv'
<1>1. /\ LcJobFits(lcPatches, Len(lcOpen), t, j)
      /\ lcQueue' \in [LcAsync -> Seq(LcJobSet)]
      /\ \A u \in LcAsync : LcJobsFit(lcPatches, Len(lcOpen), u, lcQueue'[u])
  BY LcJobTaken
<1>2. \A u \in LcTarget : \A p : LcWaits(u, p) /\ (u # t \/ p # j.patch) => LcWaits(u, p)'
  BY LcJobTaken
<1>3. j.patch = 0
  BY <1>1 DEF LcJobFits
<1>4. ASSUME NEW u \in LcTarget \ lcCrossed'
      PROVE  LcCovered(u)'
  <2>1. PICK D : LcChainIn(lcPatches, lcMethod[u], D) /\ \A p \in D : LcMeant(u, p)
    BY DEF LcInv, LcCovered
  <2>2. \A p \in D : LcWaits(u, p) => LcWaits(u, p)'
    <3>1. \A p \in D : p # 0
      BY <2>1 DEF LcChainIn
    <3>2. QED
      BY <1>2, <1>3, <3>1
  <2>3. \A p \in D : LcMeant(u, p)'
    BY <2>1, <2>2 DEF LcMeant
  <2>4. QED
    BY <2>1, <2>3 DEF LcCovered
<1>5. LcTyped'
  BY <1>1 DEF LcInv, LcTyped
<1>6. QED
  BY <1>1, <1>4, <1>5 DEF LcInv

LEMMA LcStorageKeeps ==
  ASSUME LcInv, NEW t \in LcAsync, lcQueue[t] # << >>, NEW j, j = Head(lcQueue[t]), j.job = "import",
         lcQueue' = [lcQueue EXCEPT ![t] = Tail(@)],
         lcOpen[j.handle], LcPatch({t}, j.handle, lcCore, TRUE),
         UNCHANGED <<lcOpen, lcMarked, lcCore, lcCrossed>>
  PROVE  LcInv'
<1> DEFINE T == {t}
           h == j.handle
<1>1. /\ LcJobFits(lcPatches, Len(lcOpen), t, j)
      /\ lcQueue' \in [LcAsync -> Seq(LcJobSet)]
      /\ \A u \in LcAsync : LcJobsFit(lcPatches, Len(lcOpen), u, lcQueue'[u])
      /\ LcApart(lcQueue'[t], h)
  <2>1. /\ LcJobFits(lcPatches, Len(lcOpen), t, j)
        /\ lcQueue' \in [LcAsync -> Seq(LcJobSet)]
        /\ \A u \in LcAsync : LcJobsFit(lcPatches, Len(lcOpen), u, lcQueue'[u])
    BY LcJobTaken
  <2>2. LcApart(lcQueue'[t], j.handle)
    BY LcJobTaken
  <2>3. QED
    BY <2>1, <2>2
<1>2. \A u \in LcTarget : \A p : LcWaits(u, p) /\ (u # t \/ p # j.patch) => LcWaits(u, p)'
  BY LcJobTaken
<1>3. j.patch = 0 /\ lcCore \in 0..Len(lcOpen)
  BY <1>1 DEF LcJobFits, LcInv, LcTyped
<1> DEFINE yes == TRUE
<1>4. yes \in BOOLEAN /\ LcPatch({t}, h, lcCore, yes)
  OBVIOUS
<1>5. yes
  OBVIOUS
<1> HIDE DEF yes
<1>6. /\ LcGrew(lcPatches, lcMethod, lcPatches', lcMethod', T, h, lcCore, yes)
      /\ LcStack(lcPatches', lcMethod') /\ LcOnce(lcPatches', lcMarked')
      /\ \A p \in 1..Len(lcPatches') : lcPatches'[p].handle <= Len(lcOpen) /\ lcPatches'[p].core <= Len(lcOpen)
      /\ \A u \in LcAsync : \A jobs :
           LcJobsFit(lcPatches, Len(lcOpen), u, jobs) /\ (u # t \/ LcApart(jobs, h))
             => LcJobsFit(lcPatches', Len(lcOpen), u, jobs)
  <2>1. /\ LcGrew(lcPatches, lcMethod, lcPatches', lcMethod', {t}, j.handle, lcCore, yes)
        /\ LcStack(lcPatches', lcMethod') /\ LcOnce(lcPatches', lcMarked')
        /\ \A p \in 1..Len(lcPatches') : lcPatches'[p].handle <= Len(lcOpen) /\ lcPatches'[p].core <= Len(lcOpen)
    BY <1>1, <1>3, <1>4, LcLatePatch, ZenonT(40)
  <2>2. \A u \in LcAsync : \A jobs :
          LcJobsFit(lcPatches, Len(lcOpen), u, jobs) /\ (u # t \/ LcApart(jobs, j.handle))
            => LcJobsFit(lcPatches', Len(lcOpen), u, jobs)
    BY <1>1, <1>3, <1>4, LcLatePatch
  <2>3. QED
    BY <2>1, <2>2
<1>7. \A u \in LcAsync : LcJobsFit(lcPatches', Len(lcOpen'), u, lcQueue'[u])
  BY <1>1, <1>6
<1>8. LcTyped'
  BY <1>1, <1>6 DEF LcInv, LcTyped
<1>9. ASSUME NEW u \in LcTarget, NEW p \in 1..Len(lcPatches), LcMeant(u, p)
      PROVE  LcMeant(u, p)'
  <2>1. lcPatches'[p] = lcPatches[p]
    BY <1>6 DEF LcGrew
  <2>2. LcWaits(u, p) => LcWaits(u, p)'
    BY <1>2, <1>3
  <2>3. QED
    BY <1>9, <2>1, <2>2 DEF LcMeant
<1>10. ASSUME NEW u \in T, NEW p, p = lcMethod'[u]
       PROVE  LcMeant(u, p)'
  <2>1. lcPatches'[p].handle = h /\ lcPatches'[p].held
    BY <1>5, <1>6, <1>10 DEF LcGrew
  <2>2. QED
    BY <2>1 DEF LcMeant
<1>11. T \in SUBSET LcTarget
  BY DEF LcTarget
<1> HIDE DEF T, h
<1>12. \A u \in LcTarget \ lcCrossed' : LcCovered(u)'
  BY <1>6, <1>9, <1>10, <1>11, LcCoverGrows
<1>13. QED
  BY <1>6, <1>7, <1>8, <1>12 DEF LcInv

LEMMA LcZustandKeeps ==
  ASSUME LcInv, NEW t \in LcAsync, lcQueue[t] # << >>, NEW j, j = Head(lcQueue[t]), j.job = "import",
         t = "zustand", LcPatch({t}, j.handle, 0, FALSE),
         lcQueue' = [lcQueue EXCEPT ![t] = Append(Tail(@), [j EXCEPT !.job = "resume", !.patch = Len(lcPatches')])],
         UNCHANGED <<lcOpen, lcMarked, lcCore, lcCrossed>>
  PROVE  LcInv'
<1> DEFINE T == {t}
           h == j.handle
           jobs == lcQueue[t]
           rest == Tail(jobs)
           M == Len(lcPatches')
           next == [j EXCEPT !.job = "resume", !.patch = M]
<1>1. lcQueue \in [LcAsync -> Seq(LcJobSet)] /\ \A u \in LcAsync : LcJobsFit(lcPatches, Len(lcOpen), u, lcQueue[u])
  BY DEF LcInv, LcTyped
<1>2. jobs \in Seq(LcJobSet) /\ jobs # << >> /\ LcJobsFit(lcPatches, Len(lcOpen), t, jobs)
  BY <1>1
<1>3. j = Head(jobs) /\ lcQueue' = [lcQueue EXCEPT ![t] = Append(rest, next)]
  OBVIOUS
<1> HIDE DEF jobs
<1>4. /\ Head(jobs) \in LcJobSet /\ LcJobFits(lcPatches, Len(lcOpen), t, Head(jobs))
      /\ Tail(jobs) \in Seq(LcJobSet) /\ LcJobsFit(lcPatches, Len(lcOpen), t, Tail(jobs))
      /\ \A n \in 1..Len(Tail(jobs)) : Tail(jobs)[n].handle # Head(jobs).handle
      /\ \A p : (\E n \in 1..Len(jobs) : jobs[n].patch = p) /\ p # Head(jobs).patch =>
           \E n \in 1..Len(Tail(jobs)) : Tail(jobs)[n].patch = p
  BY ONLY <1>2, LcJobsTail
<1>5. /\ j \in LcJobSet /\ LcJobFits(lcPatches, Len(lcOpen), t, j)
      /\ rest \in Seq(LcJobSet) /\ LcJobsFit(lcPatches, Len(lcOpen), t, rest)
      /\ LcApart(rest, h)
      /\ \A p : (\E n \in 1..Len(jobs) : jobs[n].patch = p) /\ p # j.patch => \E n \in 1..Len(rest) : rest[n].patch = p
  BY <1>3, <1>4 DEF LcApart
<1> HIDE DEF rest
<1>6. j.patch = 0 /\ 0 \in 0..Len(lcOpen) /\ h \in 1..Len(lcOpen)
  BY <1>5, LcFacts DEF LcJobFits
<1> DEFINE no == FALSE
<1>7. no \in BOOLEAN /\ LcPatch({t}, h, 0, no)
  OBVIOUS
<1>8. ~no
  OBVIOUS
<1> HIDE DEF no
<1>9. /\ LcGrew(lcPatches, lcMethod, lcPatches', lcMethod', T, h, 0, no)
      /\ LcStack(lcPatches', lcMethod') /\ LcOnce(lcPatches', lcMarked')
      /\ M = Len(lcPatches) + 1 /\ lcMethod'[t] = M
      /\ \A p \in 1..M : lcPatches'[p].handle <= Len(lcOpen) /\ lcPatches'[p].core <= Len(lcOpen)
      /\ \A u \in LcAsync : \A others :
           LcJobsFit(lcPatches, Len(lcOpen), u, others) /\ (u # t \/ LcApart(others, h))
             => LcJobsFit(lcPatches', Len(lcOpen), u, others)
  <2> DEFINE zero == 0
  <2>1. /\ LcInv /\ j.job = "import" /\ lcMarked' = lcMarked /\ zero \in 0..Len(lcOpen)
        /\ LcPatch({t}, j.handle, zero, no) /\ zero = 0
    BY <1>6, <1>7
  <2> HIDE DEF zero
  <2>2. /\ LcGrew(lcPatches, lcMethod, lcPatches', lcMethod', {t}, j.handle, zero, no)
        /\ LcStack(lcPatches', lcMethod') /\ LcOnce(lcPatches', lcMarked')
        /\ Len(lcPatches') = Len(lcPatches) + 1 /\ lcMethod'[t] = Len(lcPatches')
        /\ \A p \in 1..Len(lcPatches') : lcPatches'[p].handle <= Len(lcOpen) /\ lcPatches'[p].core <= Len(lcOpen)
    BY ONLY <1>5, <1>7, <2>1, t \in LcAsync, LcLatePatch
  <2>3. \A u \in LcAsync : \A others :
          LcJobsFit(lcPatches, Len(lcOpen), u, others) /\ (u # t \/ LcApart(others, j.handle))
            => LcJobsFit(lcPatches', Len(lcOpen), u, others)
    BY ONLY <1>5, <1>7, <2>1, t \in LcAsync, LcLatePatch, ZenonT(40)
  <2>4. QED
    BY <2>1, <2>2, <2>3
<1>10. M \in Nat /\ M \in 1..M /\ M \in Len(lcPatches) + 1..M
  BY <1>9, LcFacts
<1>11. next \in LcJobSet /\ next.handle = h /\ next.job = "resume" /\ next.patch = M
  BY <1>5, <1>10 DEF LcJobSet
<1>12. lcPatches'[M].handle = h /\ lcPatches'[M].target = t /\ ~lcPatches'[M].held
  <2>1. lcPatches'[M].target \in T /\ lcPatches'[M].handle = h /\ lcPatches'[M].held = no
    BY <1>9, <1>10 DEF LcGrew
  <2>2. QED
    BY <1>8, <2>1
<1> HIDE DEF next, M
<1>13. LcJobsFit(lcPatches', Len(lcOpen), t, rest)
  BY <1>5, <1>9
<1>14. LcJobFits(lcPatches', Len(lcOpen), t, next)
  BY <1>6, <1>10, <1>11, <1>12 DEF LcJobFits, M
<1>15. /\ Append(rest, next) \in Seq(LcJobSet) /\ LcJobsFit(lcPatches', Len(lcOpen), t, Append(rest, next))
       /\ \A p : (\E n \in 1..Len(rest) : rest[n].patch = p) \/ p = next.patch =>
            \E n \in 1..Len(Append(rest, next)) : Append(rest, next)[n].patch = p
  <2>1. \A n \in 1..Len(rest) : rest[n].handle # next.handle
    BY <1>5, <1>11 DEF LcApart
  <2>2. rest \in Seq(LcJobSet) /\ next \in LcJobSet
    BY <1>5, <1>11
  <2>3. QED
    BY ONLY <1>13, <1>14, <2>1, <2>2, LcJobsAppend
<1> DEFINE all == Append(rest, next)
<1> HIDE DEF all
<1>16. lcQueue'[t] = all /\ \A u \in LcAsync : u # t => lcQueue'[u] = lcQueue[u]
  BY <1>1, <1>3 DEF all
<1>17. /\ all \in Seq(LcJobSet) /\ LcJobsFit(lcPatches', Len(lcOpen), t, all)
       /\ \A p : (\E n \in 1..Len(rest) : rest[n].patch = p) \/ p = M => \E n \in 1..Len(all) : all[n].patch = p
  BY <1>11, <1>15 DEF all
<1>18. lcQueue' \in [LcAsync -> Seq(LcJobSet)]
  BY <1>1, <1>3, <1>16, <1>17
<1>19. ASSUME NEW u \in LcAsync
       PROVE  LcJobsFit(lcPatches', Len(lcOpen'), u, lcQueue'[u])
  <2>1. CASE u = t
    BY <1>16, <1>17, <2>1
  <2>2. CASE u # t
    BY <1>1, <1>9, <1>16, <2>2
  <2>3. QED
    BY <2>1, <2>2
<1>20. LcTyped'
  BY <1>9, <1>18 DEF LcInv, LcTyped, M
<1>21. ASSUME NEW u \in LcTarget, NEW p, p # 0, LcWaits(u, p)
       PROVE  LcWaits(u, p)'
  <2>1. CASE u = t
    <3>1. \E n \in 1..Len(jobs) : jobs[n].patch = p
      BY <1>21, <2>1 DEF LcWaits, jobs
    <3>2. \E n \in 1..Len(all) : all[n].patch = p
      BY <1>5, <1>6, <1>17, <1>21, <3>1
    <3>3. QED
      BY <1>16, <2>1, <3>2 DEF LcWaits
  <2>2. CASE u # t
    BY <1>16, <1>21, <2>2 DEF LcWaits
  <2>3. QED
    BY <2>1, <2>2
<1>22. ASSUME NEW u \in LcTarget, NEW p \in 1..Len(lcPatches), LcMeant(u, p)
       PROVE  LcMeant(u, p)'
  <2>1. lcPatches'[p] = lcPatches[p] /\ p # 0
    BY <1>9 DEF LcGrew
  <2>2. LcWaits(u, p) => LcWaits(u, p)'
    BY <1>21, <2>1
  <2>3. QED
    BY <1>22, <2>1, <2>2 DEF LcMeant
<1>23. ASSUME NEW u \in T, NEW p, p = lcMethod'[u]
       PROVE  LcMeant(u, p)'
  <2>1. u = t /\ p = M
    BY <1>9, <1>23
  <2>2. \E n \in 1..Len(lcQueue'[t]) : lcQueue'[t][n].patch = p
    BY <1>16, <1>17, <2>1
  <2>3. ~lcPatches'[p].held
    BY <1>12, <2>1
  <2>4. QED
    BY <2>1, <2>2, <2>3 DEF LcMeant, LcWaits
<1>24. T \in SUBSET LcTarget
  BY DEF LcTarget
<1> HIDE DEF T, h
<1>25. \A u \in LcTarget \ lcCrossed' : LcCovered(u)'
  BY <1>9, <1>22, <1>23, <1>24, LcCoverGrows
<1>26. QED
  BY <1>9, <1>19, <1>20, <1>25 DEF LcInv

LEMMA LcTurnKeeps ==
  ASSUME LcInv, NEW t \in LcAsync, LcTurn(t)
  PROVE  LcInv'
<1> DEFINE j == Head(lcQueue[t])
<1>1. lcQueue[t] # << >> /\ UNCHANGED <<lcOpen, lcMarked, lcCore>>
  BY DEF LcTurn
<1>2. CASE /\ j.job = "resume" /\ LcZustandResume(j.handle, j.patch)
           /\ lcQueue' = [lcQueue EXCEPT ![t] = Tail(@)]
  <2> SUFFICES ASSUME NEW i, i = j
               PROVE  LcInv'
    OBVIOUS
  <2>1. i = Head(lcQueue[t]) /\ i.job = "resume" /\ LcZustandResume(i.handle, i.patch)
    BY <1>2
  <2>2. QED
    BY <1>1, <1>2, <2>1, LcResumeKeeps
<1>3. CASE /\ j.job = "import" /\ t = "zustand" /\ LcZustandImport(j.handle)
           /\ lcQueue' = [lcQueue EXCEPT ![t] = IF t \notin lcReady THEN Tail(@)
                            ELSE Append(Tail(@), [j EXCEPT !.job = "resume", !.patch = Len(lcPatches')])]
           /\ UNCHANGED lcCrossed
  <2> SUFFICES ASSUME NEW i, i = j
               PROVE  LcInv'
    OBVIOUS
  <2>1. i = Head(lcQueue[t]) /\ i.job = "import"
    BY <1>3
  <2>2. CASE t \notin lcReady
    <3>1. lcQueue' = [lcQueue EXCEPT ![t] = Tail(@)] /\ UNCHANGED <<lcPatches, lcMethod>>
      BY <1>3, <2>2 DEF LcZustandImport
    <3>2. QED
      BY <1>1, <1>3, <2>1, <3>1, LcIdleImportKeeps
  <2>3. CASE t \in lcReady
    <3>1. /\ lcQueue' = [lcQueue EXCEPT ![t] = Append(Tail(@), [i EXCEPT !.job = "resume", !.patch = Len(lcPatches')])]
          /\ LcPatch({t}, i.handle, 0, FALSE)
      BY <1>3, <2>3 DEF LcZustandImport
    <3>2. QED
      BY <1>1, <1>3, <2>1, <3>1, LcZustandKeeps
  <2>4. QED
    BY <2>2, <2>3
<1>4. CASE /\ j.job = "import" /\ t = "asyncStorage" /\ LcStorageImport(j.handle)
           /\ lcQueue' = [lcQueue EXCEPT ![t] = Tail(@)]
           /\ UNCHANGED lcCrossed
  <2> SUFFICES ASSUME NEW i, i = j
               PROVE  LcInv'
    OBVIOUS
  <2>1. i = Head(lcQueue[t]) /\ i.job = "import"
    BY <1>4
  <2>2. CASE UNCHANGED <<lcPatches, lcMethod>>
    BY <1>1, <1>4, <2>1, <2>2, LcIdleImportKeeps
  <2>3. CASE lcOpen[i.handle] /\ LcPatch({t}, i.handle, lcCore, TRUE)
    BY <1>1, <1>4, <2>1, <2>3, LcStorageKeeps
  <2>4. QED
    BY <1>4, <2>2, <2>3 DEF LcStorageImport
<1>5. QED
  BY <1>2, <1>3, <1>4 DEF LcTurn

LEMMA LcInvInit == LcInit => LcInv
<1> SUFFICES ASSUME LcInit
             PROVE  LcInv
  OBVIOUS
<1>1. /\ lcOpen = << >> /\ lcMarked = << >> /\ lcCore = 0 /\ lcPatches = << >>
      /\ lcMethod = [t \in LcTarget |-> 0] /\ lcQueue = [t \in LcAsync |-> << >>]
  BY DEF LcInit
<1>2. /\ lcOpen \in Seq(BOOLEAN) /\ lcMarked \in Seq(SUBSET LcMarks) /\ lcPatches \in Seq(LcPatchSet)
      /\ Len(lcOpen) = 0 /\ Len(lcMarked) = 0 /\ Len(lcPatches) = 0
  BY <1>1
<1>3. lcQueue \in [LcAsync -> Seq(LcJobSet)] /\ \A t \in LcAsync : Len(lcQueue[t]) = 0
  BY <1>1
<1>4. lcMethod \in [LcTarget -> Nat] /\ \A t \in LcTarget : lcMethod[t] = 0
  BY <1>1
<1>5. LcTyped
  BY <1>1, <1>2, <1>3 DEF LcTyped
<1>6. LcStack(lcPatches, lcMethod)
  BY <1>2, <1>4 DEF LcStack
<1>7. LcOnce(lcPatches, lcMarked)
  BY <1>2 DEF LcOnce
<1>8. \A t \in LcAsync : LcJobsFit(lcPatches, Len(lcOpen), t, lcQueue[t])
  BY <1>3 DEF LcJobsFit
<1>9. \A t \in LcTarget : LcCovered(t)
  <2> TAKE t \in LcTarget
  <2>1. LcChainIn(lcPatches, lcMethod[t], {})
    BY <1>4 DEF LcChainIn
  <2>2. QED
    BY <2>1 DEF LcCovered
<1>10. QED
  BY <1>5, <1>6, <1>7, <1>8, <1>9 DEF LcInv

LEMMA LcInvStep == LcInv /\ [LcNext]_lcVars => LcInv'
<1> SUFFICES ASSUME LcInv, [LcNext]_lcVars
             PROVE  LcInv'
  OBVIOUS
<1>1. CASE LcInitCall
  BY <1>1, LcInitCallKeeps
<1>2. ASSUME NEW h \in DOMAIN lcOpen, LcClose(h)
      PROVE  LcInv'
  BY <1>2, LcCloseKeeps
<1>3. ASSUME NEW t \in LcManual, LcAttach(t)
      PROVE  LcInv'
  BY <1>3, LcAttachKeeps
<1>4. ASSUME NEW t \in LcAsync, LcTurn(t)
      PROVE  LcInv'
  BY <1>4, LcTurnKeeps
<1>5. CASE UNCHANGED lcVars
  BY <1>5 DEF lcVars, LcInv, LcTyped, LcCovered, LcMeant, LcWaits
<1>6. QED
  BY <1>1, <1>2, <1>3, <1>4, <1>5 DEF LcNext

LEMMA LcInvHonest == LcInv => LcHandlesHonest
<1> SUFFICES ASSUME LcInv
             PROVE  LcHandlesHonest
  OBVIOUS
<1>1. LcStack(lcPatches, lcMethod) /\ LcOnce(lcPatches, lcMarked)
  BY DEF LcInv
<1>2. ASSUME NEW t \in LcTarget \ lcCrossed, NEW p \in LcChain(t)
      PROVE  LET patch == lcPatches[p]
             IN \/ patch.handle = 0
                \/ lcOpen[patch.handle]
                \/ ~patch.held /\ \E n \in DOMAIN lcQueue[t] : lcQueue[t][n].patch = p
  <2>1. PICK D : LcChainIn(lcPatches, lcMethod[t], D) /\ \A q \in D : LcMeant(t, q)
    BY DEF LcInv, LcCovered
  <2>2. LcMeant(t, p)
    BY <1>1, <1>2, <2>1, LcChainWithin
  <2>3. LcWaits(t, p) => \E n \in DOMAIN lcQueue[t] : lcQueue[t][n].patch = p
    <3>1. t \in LcAsync => lcQueue[t] \in Seq(LcJobSet)
      BY LcFacts
    <3>2. t \in LcAsync => DOMAIN lcQueue[t] = 1..Len(lcQueue[t])
      BY <3>1, LenProperties
    <3>3. QED
      BY <3>2 DEF LcWaits
  <2>4. QED
    BY <2>2, <2>3 DEF LcMeant
<1>3. ASSUME NEW t \in LcMarks, NEW p \in LcChain(t), NEW q \in LcChain(t), lcPatches[p].core = lcPatches[q].core
      PROVE  p = q
  <2> DEFINE D == {r \in 1..Len(lcPatches) : lcPatches[r].target = t}
  <2>1. t \in LcTarget
    BY DEF LcTarget, LcSync
  <2>2. LcChainIn(lcPatches, lcMethod[t], D)
    <3>1. Len(lcPatches) \in Nat /\ \A r \in 1..Len(lcPatches) : lcPatches[r].inner \in Nat
      BY LcFacts DEF LcPatchSet
    <3>2. lcMethod[t] \in Nat
      BY <1>1, <2>1 DEF LcStack
    <3>3. lcMethod[t] = 0 \/ lcMethod[t] \in D
      BY <1>1, <2>1, <3>1, <3>2 DEF LcStack
    <3>4. ASSUME NEW r \in D
          PROVE  lcPatches[r].inner = 0 \/ lcPatches[r].inner \in D
      <4> DEFINE i == lcPatches[r].inner
      <4>1. r \in 1..Len(lcPatches) /\ lcPatches[r].target = t
        OBVIOUS
      <4>2. i \in Nat /\ i < r /\ (i # 0 => lcPatches[i].target = t)
        BY <1>1, <3>1, <4>1 DEF LcStack
      <4>3. i # 0 => i \in 1..Len(lcPatches)
        BY <3>1, <4>1, <4>2
      <4> HIDE DEF i
      <4>4. i = 0 \/ i \in D
        BY <4>2, <4>3
      <4>5. QED
        BY <4>4 DEF i
    <3>5. QED
      BY <3>3, <3>4 DEF LcChainIn
  <2>3. p \in D /\ q \in D
    BY <1>1, <1>3, <2>1, <2>2, LcChainWithin
  <2>4. QED
    BY <1>1, <1>3, <2>3 DEF LcOnce
<1>4. LcClosedDetached
  BY <1>2 DEF LcClosedDetached
<1>5. LcReportedOnce
  BY <1>3 DEF LcReportedOnce
<1>6. QED
  BY <1>4, <1>5 DEF LcHandlesHonest

(***************************************************************************)
(* init() and close() leave an app's methods in order: whatever the order  *)
(* of init() and close() of several handles, of the app's own attach calls *)
(* and of the imports that resolve late, a patch a handle made is in use   *)
(* only while the handle is open or its detach is on the way (except for a *)
(* method that was restored from under another patch), and no call of      *)
(* console or fetch reports to one core twice.                             *)
(***************************************************************************)
THEOREM HandlesStayHonest == LcSpec => []LcHandlesHonest
<1>1. LcInit => LcInv
  BY LcInvInit
<1>2. LcInv /\ [LcNext]_lcVars => LcInv'
  BY LcInvStep
<1>3. LcInv => LcHandlesHonest
  BY LcInvHonest
<1>4. QED
  BY <1>1, <1>2, <1>3, PTL DEF LcSpec

=============================================================================
