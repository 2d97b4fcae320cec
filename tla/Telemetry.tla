------------------------------ MODULE Telemetry ------------------------------
(***************************************************************************)
(* What the SDK tells of itself as time passes: the frame statistics of    *)
(* attachPerformance with what the Performance tab makes of them, and the  *)
(* warnings of createDiagnostics.  Time is counted in steps; app and       *)
(* desktop have the same clock here.                                       *)
(***************************************************************************)
EXTENDS Naturals, Sequences, SequencesExt, FiniteSets

CONSTANTS
  TeNone,
  TeDrop, TeStall, TeWindow, \* dropThresholdMs, stallThresholdMs, sampleWindowMs
  TeThrottle,                \* THROTTLE_MS
  TeMaxRows,                 \* MAX_PERF_SAMPLES and MAX_PERF_STALLS
  TeMaxTime                  \* bound of the model

ASSUME TeAssumption ==
  /\ {TeDrop, TeStall, TeWindow, TeThrottle, TeMaxRows} \subseteq Nat
  /\ TeDrop <= TeStall /\ TeWindow > 0 /\ TeMaxRows > 0

VARIABLES
  teNow,
  tePerf,     \* the adapter's counters, or TeNone when it is not attached
  teFrames,   \* frames on their way to the desktop
  teView,     \* [samples, stalls], each newest first
  teTruth,    \* history: frames dropped and reported
  teWarn,     \* loggedOnce and lastLoggedAt of the diagnostics
  teWarned   \* history: the times of the warnings since the last open, and a failure not told of at once

teVars == <<teNow, tePerf, teFrames, teView, teTruth, teWarn, teWarned>>

TeAttached(now) == [last |-> now, first |-> TRUE, count |-> 0, longest |-> 0, dropped |-> 0, start |-> now]

TeInit ==
  /\ teNow = 0 /\ tePerf = TeAttached(0) /\ teFrames = << >>
  /\ teView = [samples |-> << >>, stalls |-> << >>]
  /\ teTruth = [dropped |-> 0, reported |-> 0]
  /\ teWarn = [once |-> FALSE, last |-> 0] /\ teWarned = [at |-> << >>, silent |-> FALSE]

TePass ==
  /\ teNow < TeMaxTime /\ teNow' = teNow + 1
  /\ UNCHANGED <<tePerf, teFrames, teView, teTruth, teWarn, teWarned>>

\* One frame: counted unless it is the first, and a stall when it took too long.
TeFrame ==
  LET took == teNow - tePerf.last
      counted == ~tePerf.first
  IN [tePerf EXCEPT !.last = teNow, !.first = FALSE,
                    !.count = @ + (IF counted THEN 1 ELSE 0),
                    !.longest = IF counted /\ took > @ THEN took ELSE @,
                    !.dropped = @ + (IF counted /\ took > TeDrop THEN 1 ELSE 0)]

TeStallFrames ==
  IF ~tePerf.first /\ teNow - tePerf.last > TeStall THEN <<[type |-> "stall", took |-> teNow - tePerf.last, ts |-> teNow]>>
  ELSE << >>

\* Mutant: a new window keeps the dropped frames of the last.
MutTeNextWindow(perf) == [perf EXCEPT !.count = 0, !.longest = 0, !.start = teNow]

TeNextWindow(perf) == [perf EXCEPT !.count = 0, !.longest = 0, !.dropped = 0, !.start = teNow]

\* tick
TeTick ==
  LET perf == TeFrame
      full == teNow - perf.start >= TeWindow
      sample == [type |-> "sample", count |-> perf.count, longest |-> perf.longest,
                 dropped |-> perf.dropped, window |-> teNow - perf.start, ts |-> teNow]
  IN /\ tePerf # TeNone /\ teNow > tePerf.last
     /\ tePerf' = IF full THEN TeNextWindow(perf) ELSE perf
     /\ teFrames' = teFrames \o TeStallFrames \o (IF full THEN <<sample>> ELSE << >>)
     /\ teTruth' = [teTruth EXCEPT
          !.dropped = @ + (IF ~tePerf.first /\ teNow - tePerf.last > TeDrop THEN 1 ELSE 0),
          !.reported = @ + (IF full THEN perf.dropped ELSE 0)]
     /\ UNCHANGED <<teNow, teView, teWarn, teWarned>>

\* The function attachPerformance returns: the window that is open is never reported.
TeStop ==
  /\ tePerf # TeNone
  /\ tePerf' = TeNone
  /\ UNCHANGED <<teNow, teFrames, teView, teTruth, teWarn, teWarned>>

TePut(row, rows) == SubSeq(<<row>> \o rows, 1, IF Len(rows) < TeMaxRows THEN Len(rows) + 1 ELSE TeMaxRows)

TeArrives ==
  LET f == Head(teFrames)
  IN /\ teFrames # << >>
     /\ teFrames' = Tail(teFrames)
     /\ teView' = CASE f.type = "sample" -> [teView EXCEPT !.samples = TePut(f, @)]
                    [] f.type = "stall" -> [teView EXCEPT !.stalls = TePut(f, @)]
     /\ UNCHANGED <<teNow, tePerf, teTruth, teWarn, teWarned>>

TeClear ==
  /\ teView.samples # << >> \/ teView.stalls # << >>
  /\ teView' = [teView EXCEPT !.samples = << >>, !.stalls = << >>]
  /\ UNCHANGED <<teNow, tePerf, teFrames, teTruth, teWarn, teWarned>>

\* shouldLog
TeShouldLog == ~teWarn.once \/ teNow - teWarn.last >= TeThrottle

\* handle, for a failed attempt.
TeFails ==
  /\ teWarn' = IF TeShouldLog THEN [once |-> TRUE, last |-> teNow] ELSE teWarn
  /\ teWarned' = [at |-> IF TeShouldLog THEN Append(teWarned.at, teNow) ELSE teWarned.at,
                  silent |-> ~TeShouldLog /\ teWarned.at = << >>]
  /\ UNCHANGED <<teNow, tePerf, teFrames, teView, teTruth>>

\* Mutant: opening does not reset the throttle.
MutTeOpens ==
  /\ teWarned' = [at |-> << >>, silent |-> FALSE]
  /\ UNCHANGED <<teNow, tePerf, teFrames, teView, teTruth, teWarn>>

TeOpens ==
  /\ teWarn' = [teWarn EXCEPT !.once = FALSE]
  /\ teWarned' = [at |-> << >>, silent |-> FALSE]
  /\ UNCHANGED <<teNow, tePerf, teFrames, teView, teTruth>>

TeNext ==
  \/ TePass \/ TeTick \/ TeStop \/ TeArrives \/ TeClear \/ TeFails \/ TeOpens

TeSpec == TeInit /\ [][TeNext]_teVars

-----------------------------------------------------------------------------

\* performance.ts and diagnostics.ts: every dropped frame is in exactly one sample or in the
\* window that is open, and a sample covers at least a window; the warnings of one outage are
\* a throttle apart, and its first failure is told at once, however short the connection was.
TeCountedOnce ==
  /\ tePerf # TeNone => teTruth.dropped = teTruth.reported + tePerf.dropped
  /\ teTruth.reported <= teTruth.dropped
  /\ \A f \in ToSet(teView.samples) : f.window >= TeWindow /\ f.dropped <= f.count
  /\ \A i \in 2..Len(teWarned.at) : teWarned.at[i] - teWarned.at[i - 1] >= TeThrottle
  /\ ~teWarned.silent

=============================================================================
