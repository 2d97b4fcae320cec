---------------------------- MODULE Feeds_proofs ----------------------------
(***************************************************************************)
(* Proofs about what the desktop makes of the reports it is sent: the rows *)
(* of the network tab (NetworkFeed), the graph of the navigation tab       *)
(* (NavFeed), the copies of the app's stores (StoreFeed) and the values in *)
(* them, serialised, compared and patched (Values).                        *)
(***************************************************************************)
EXTENDS NetworkFeed, NavFeed, StoreFeed, Values, FiniteSetTheorems, SequenceTheorems, Recursion_proofs, TLAPS

-----------------------------------------------------------------------------
(* Sequences *)

\* A function on 1..n is a sequence of length n.
LEMMA IntervalFits ==
  ASSUME NEW S, NEW n \in Nat, NEW f \in [1..n -> S]
  PROVE  f \in Seq(S) /\ Len(f) = n /\ DOMAIN f = 1..n
<1>1. f \in Seq(S)
  BY SeqDef
<1>2. DOMAIN f = 1..Len(f) /\ DOMAIN f = 1..n /\ Len(f) \in Nat
  BY <1>1, LenProperties
<1>3. \A m \in Nat : 1..m = 1..n => m = n
  <2> TAKE m \in Nat
  <2> HAVE 1..m = 1..n
  <2>1. m <= n
    BY m = 0 \/ m \in 1..m
  <2>2. n <= m
    BY n = 0 \/ n \in 1..n
  <2>3. QED
    BY <2>1, <2>2
<1>4. QED
  BY <1>1, <1>2, <1>3

\* The frames of a finite cache, in any order, are a sequence.
LEMMA OrdersFit ==
  ASSUME NEW T, IsFiniteSet(T), NEW order \in SetToSeqs(T)
  PROVE  order \in Seq(T)
<1>1. Cardinality(T) \in Nat
  BY FS_CardinalityType
<1>2. order \in [1..Cardinality(T) -> T]
  BY DEF SetToSeqs
<1> HIDE DEF SetToSeqs
<1>3. QED
  BY <1>1, <1>2, SeqDef

LEMMA OneFits ==
  ASSUME NEW S, NEW e \in S
  PROVE  <<e>> \in Seq(S) /\ Len(<<e>>) = 1 /\ <<e>>[1] = e
  OBVIOUS

LEMMA OneJoined ==
  ASSUME NEW e
  PROVE  <<e>> \o << >> = <<e>> /\ << >> \o <<e>> = <<e>>
<1>1. <<e>> \in Seq({e})
  BY OneFits
<1>2. QED
  BY <1>1, ConcatEmptySeq

LEMMA PairJoined ==
  ASSUME NEW d, NEW e
  PROVE  <<d>> \o <<e>> = <<d, e>>
<1> DEFINE S == {d, e}
           s == <<d>> \o <<e>>
<1>1. /\ <<d>> \in Seq(S) /\ <<e>> \in Seq(S) /\ Len(<<d>>) = 1 /\ Len(<<e>>) = 1
      /\ <<d>>[1] = d /\ <<e>>[1] = e
  BY OneFits
<1>2. /\ s \in Seq(S) /\ Len(s) = 1 + 1
      /\ \A i \in 1..1 + 1 : s[i] = IF i <= 1 THEN <<d>>[i] ELSE <<e>>[i - 1]
  BY <1>1, ConcatProperties
<1>3. s[1] = d /\ s[2] = e
  BY <1>1, <1>2
<1>4. <<d, e>> \in Seq(S) /\ Len(<<d, e>>) = 2
  OBVIOUS
<1> HIDE DEF s
<1>5. \A i \in 1..Len(s) : s[i] = <<d, e>>[i]
  BY <1>2, <1>3
<1>6. s = <<d, e>>
  BY <1>2, <1>4, <1>5, SeqEqual
<1>7. QED
  BY <1>6 DEF s

-----------------------------------------------------------------------------
(* The network tab *)

NfOwn(via, m, n) == m = n \/ (m # n /\ via[m] = via[n] /\ via[n] \in NfXhr)

NfFrames(via) ==
  {f \in [type : {"request", "response"}, id : 1..Len(via), of : 1..Len(via), outcome : NfOutcome \cup {NfNone}] :
     NfOwn(via, f.of, f.id) /\ (f.type = "response" => f.outcome # NfNone)}

NfRowSet(via) ==
  {r \in [id : 1..Len(via), known : BOOLEAN, of : 1..Len(via), outcome : NfOutcome \cup {NfNone}] :
     NfOwn(via, r.of, r.id)}

NfFetchSet(via) == [stage : {"asked", "answered", "done"}, frames : Seq(NfFrames(via))]
NfEventSet(via) == NfFrames(via) \cup {NfConnected}

NfDistinct(rows) == \A i, j \in 1..Len(rows) : rows[i].id = rows[j].id => i = j

NfTyped ==
  /\ nfVia \in Seq(NfXhr \cup {"fetch"})
  /\ nfListening \in [NfXhr -> Seq(Nat)]
  /\ nfRunning \subseteq 1..Len(nfVia)

\* An exchange is listened for on its own object, and its object has its listener.
NfListens ==
  \A x \in NfXhr :
    /\ \A i \in 1..Len(nfListening[x]) : nfListening[x][i] \in 1..Len(nfVia) /\ nfVia[nfListening[x][i]] = x
    /\ \A n \in 1..Len(nfVia) : nfVia[n] = x => \E i \in 1..Len(nfListening[x]) : nfListening[x][i] = n

NfFramesOwn ==
  /\ IsFiniteSet(nfCache) /\ nfCache \subseteq NfFrames(nfVia)
  /\ nfEvents \in Seq(NfEventSet(nfVia))
  /\ nfFetches \in Seq(NfFetchSet(nfVia))

NfRowsOwn == nfRows \in Seq(NfRowSet(nfVia)) /\ NfDistinct(nfRows)

NfDropped(via, n) == \E m \in n + 1..Len(via) : via[m] = via[n] /\ via[n] \in NfXhr
NfAnsweredAfter(events, n, i) ==
  \E j \in 1..Len(events) : j > i /\ events[j].type = "response" /\ events[j].id = n
NfOpen(via, running, events, n, i) == n \in running \/ NfDropped(via, n) \/ NfAnsweredAfter(events, n, i)

\* The requests without a response in a list are of P.
NfPendingIn(rows, P) == \A i \in 1..Len(rows) : rows[i].outcome = NfNone => rows[i].id \in P

\* What is pending is open, has its answer under way, or came again after its answer.
NfPending == {n \in 1..Len(nfVia) : NfOpen(nfVia, nfRunning, nfEvents, n, 0)} \cup nfReplayed
NfPendingOpen ==
  /\ \A i \in 1..Len(nfEvents) : nfEvents[i].type = "request" => NfOpen(nfVia, nfRunning, nfEvents, nfEvents[i].id, i)
  /\ NfPendingIn(nfRows, NfPending)

NfInv == NfTyped /\ NfListens /\ NfFramesOwn /\ NfRowsOwn /\ NfPendingOpen

LEMMA NfPutFits ==
  ASSUME NEW S, NEW rows \in Seq(S), NEW row \in S
  PROVE  /\ NfPut(row, rows) \in Seq(S)
         /\ NfPut(row, rows)[1] = row /\ Len(NfPut(row, rows)) \in 1..Len(rows) + 1
         /\ \A i \in 2..Len(NfPut(row, rows)) : i - 1 \in 1..Len(rows) /\ NfPut(row, rows)[i] = rows[i - 1]
<1> DEFINE n == IF Len(rows) < NfMaxRows THEN Len(rows) + 1 ELSE NfMaxRows
           all == <<row>> \o rows
           put == NfPut(row, rows)
<1>1. Len(rows) \in Nat /\ n \in 1..Len(rows) + 1
  BY LenProperties, NfAssumption
<1>2. Len(all) = Len(rows) + 1 /\ all[1] = row /\ all \in Seq(S)
  BY <1>1, OneFits, ConcatProperties
<1>3. \A i \in 2..Len(rows) + 1 : all[i] = rows[i - 1]
  <2>1. <<row>> \in Seq(S) /\ Len(<<row>>) = 1
    BY OneFits
  <2>2. \A i \in 1..1 + Len(rows) : all[i] = IF i <= 1 THEN <<row>>[i] ELSE rows[i - 1]
    BY <2>1, ConcatProperties
  <2>3. QED
    BY <1>1, <2>2
<1> HIDE DEF all
<1>4. put = SubSeq(all, 1, n)
  BY DEF NfPut, all
<1> HIDE DEF n, put
<1>5. \A i \in 1..n : all[i] \in S
  BY <1>1, <1>2, ElementOfSeq
<1>6. put \in Seq(S) /\ Len(put) = n /\ \A i \in 1..n : put[i] = all[i]
  BY <1>1, <1>4, <1>5, SubSeqProperties
<1>7. QED
  BY <1>1, <1>2, <1>3, <1>6 DEF put

LEMMA NfApplyFits ==
  ASSUME NEW via, NEW rows \in Seq(NfRowSet(via)), NfDistinct(rows), NEW f \in NfFrames(via)
  PROVE  NfApply(rows, f) \in Seq(NfRowSet(via)) /\ NfDistinct(NfApply(rows, f))
<1> DEFINE next == NfApply(rows, f)
           put == NfPut(NfRow(f), rows)
           set == [i \in DOMAIN rows |->
                     IF i \in NfIndex(rows, f.id) THEN [rows[i] EXCEPT !.of = f.of, !.outcome = f.outcome]
                     ELSE rows[i]]
<1>1. /\ f.id \in 1..Len(via) /\ f.of \in 1..Len(via) /\ f.outcome \in NfOutcome \cup {NfNone}
      /\ NfOwn(via, f.of, f.id)
  BY DEF NfFrames
<1>2. NfRow(f) \in NfRowSet(via) /\ NfRow(f).id = f.id
  BY <1>1 DEF NfRow, NfRowSet
<1>3. Len(rows) \in Nat /\ DOMAIN rows = 1..Len(rows)
  BY LenProperties
<1>4. CASE NfIndex(rows, f.id) = {}
  <2>1. next = put
    BY <1>4 DEF NfApply
  <2>2. \A i \in 1..Len(rows) : rows[i].id # f.id
    BY <1>3, <1>4 DEF NfIndex
  <2>3. /\ put \in Seq(NfRowSet(via)) /\ put[1] = NfRow(f) /\ Len(put) \in 1..Len(rows) + 1
        /\ \A i \in 2..Len(put) : i - 1 \in 1..Len(rows) /\ put[i] = rows[i - 1]
    <3> HIDE DEF put
    <3>1. QED
      BY <1>2, NfPutFits DEF put
  <2> HIDE DEF put, next
  <2>4. \A i, j \in 1..Len(put) : put[i].id = put[j].id => i = j
    <3> TAKE i, j \in 1..Len(put)
    <3> HAVE put[i].id = put[j].id
    <3>1. CASE i = 1 /\ j # 1
      <4>1. j \in 2..Len(put)
        BY <1>3, <2>3, <3>1
      <4>2. QED
        BY <1>2, <2>2, <2>3, <3>1, <4>1
    <3>2. CASE i # 1 /\ j = 1
      <4>1. i \in 2..Len(put)
        BY <1>3, <2>3, <3>2
      <4>2. QED
        BY <1>2, <2>2, <2>3, <3>2, <4>1
    <3>3. CASE i # 1 /\ j # 1
      <4>1. i \in 2..Len(put) /\ j \in 2..Len(put)
        BY <1>3, <2>3, <3>3
      <4>2. i - 1 = j - 1
        BY <2>3, <4>1, ZenonT(40) DEF NfDistinct
      <4>3. QED
        BY <1>3, <2>3, <4>1, <4>2
    <3>4. QED
      BY <3>1, <3>2, <3>3
  <2>5. QED
    BY <2>1, <2>3, <2>4 DEF NfDistinct, next
<1>5. CASE NfIndex(rows, f.id) # {} /\ f.type = "request"
  BY <1>5 DEF NfApply
<1>6. CASE NfIndex(rows, f.id) # {} /\ f.type # "request"
  <2>1. next = set
    BY <1>6 DEF NfApply
  <2>2. \A i \in 1..Len(rows) : rows[i] \in NfRowSet(via)
    BY ElementOfSeq
  <2>3. ASSUME NEW i \in 1..Len(rows)
        PROVE  set[i] \in NfRowSet(via) /\ set[i].id = rows[i].id
    <3>1. CASE i \in NfIndex(rows, f.id)
      <4>1. rows[i].id = f.id
        BY <3>1 DEF NfIndex
      <4>2. set[i] = [rows[i] EXCEPT !.of = f.of, !.outcome = f.outcome]
        BY <1>3, <3>1
      <4> HIDE DEF set
      <4>3. QED
        BY <1>1, <2>2, <4>1, <4>2 DEF NfRowSet
    <3>2. CASE i \notin NfIndex(rows, f.id)
      BY <1>3, <2>2, <3>2
    <3>3. QED
      BY <3>1, <3>2
  <2>4. set \in [1..Len(rows) -> NfRowSet(via)]
    <3>1. set = [i \in 1..Len(rows) |-> set[i]]
      BY <1>3
    <3> HIDE DEF set
    <3>2. QED
      BY <2>3, <3>1
  <2> HIDE DEF set
  <2>5. set \in Seq(NfRowSet(via)) /\ Len(set) = Len(rows)
    BY <1>3, <2>4, IntervalFits
  <2>6. NfDistinct(set)
    BY <2>3, <2>5 DEF NfDistinct
  <2>7. QED
    BY <2>1, <2>5, <2>6
<1>7. QED
  BY <1>4, <1>5, <1>6

\* A response settles its row; a request only adds one.
LEMMA NfApplyPending ==
  ASSUME NEW via, NEW rows \in Seq(NfRowSet(via)), NEW f \in NfFrames(via),
         NEW i \in 1..Len(NfApply(rows, f)), NfApply(rows, f)[i].outcome = NfNone
  PROVE  \/ f.type = "request" /\ NfApply(rows, f)[i].id = f.id
         \/ \E j \in 1..Len(rows) : /\ rows[j].outcome = NfNone /\ rows[j].id = NfApply(rows, f)[i].id
                                    /\ f.type = "response" => rows[j].id # f.id
<1> DEFINE next == NfApply(rows, f)
           put == NfPut(NfRow(f), rows)
           set == [k \in DOMAIN rows |->
                     IF k \in NfIndex(rows, f.id) THEN [rows[k] EXCEPT !.of = f.of, !.outcome = f.outcome]
                     ELSE rows[k]]
<1>1. /\ f.id \in 1..Len(via) /\ f.of \in 1..Len(via) /\ f.outcome \in NfOutcome \cup {NfNone}
      /\ NfOwn(via, f.of, f.id) /\ f.type \in {"request", "response"}
      /\ f.type = "response" => f.outcome # NfNone
  BY DEF NfFrames
<1>2. NfRow(f) \in NfRowSet(via) /\ NfRow(f).id = f.id /\ NfRow(f).outcome = f.outcome
  BY <1>1 DEF NfRow, NfRowSet
<1>3. Len(rows) \in Nat /\ DOMAIN rows = 1..Len(rows)
  BY LenProperties
<1>4. CASE NfIndex(rows, f.id) = {}
  <2>1. next = put
    BY <1>4 DEF NfApply
  <2>2. \A k \in 1..Len(rows) : rows[k].id # f.id
    BY <1>3, <1>4 DEF NfIndex
  <2>3. /\ put[1] = NfRow(f) /\ Len(put) \in 1..Len(rows) + 1
        /\ \A k \in 2..Len(put) : k - 1 \in 1..Len(rows) /\ put[k] = rows[k - 1]
    <3> HIDE DEF put
    <3>1. QED
      BY <1>2, NfPutFits DEF put
  <2> HIDE DEF put
  <2>4. CASE i = 1
    BY <1>1, <1>2, <2>1, <2>3, <2>4
  <2>5. CASE i # 1
    <3>1. i \in 2..Len(put)
      BY <1>3, <2>1, <2>3, <2>5
    <3>2. i - 1 \in 1..Len(rows) /\ next[i] = rows[i - 1]
      BY <2>1, <2>3, <3>1
    <3>3. QED
      BY <2>2, <3>2
  <2>6. QED
    BY <2>4, <2>5
<1>5. CASE NfIndex(rows, f.id) # {} /\ f.type = "request"
  BY <1>5 DEF NfApply
<1>6. CASE NfIndex(rows, f.id) # {} /\ f.type = "response"
  <2>1. next = set
    BY <1>6 DEF NfApply
  <2>2. set = [k \in 1..Len(rows) |-> set[k]]
    BY <1>3
  <2>3. set \in Seq({set[k] : k \in 1..Len(rows)}) /\ Len(set) = Len(rows)
    <3> HIDE DEF set
    <3> DEFINE R == {set[k] : k \in 1..Len(rows)}
    <3>1. set \in [1..Len(rows) -> R]
      BY <2>2
    <3> HIDE DEF R
    <3>2. set \in Seq(R) /\ Len(set) = Len(rows)
      BY <1>3, <3>1, IntervalFits
    <3>3. QED
      BY <3>2 DEF R
  <2>4. i \in 1..Len(rows) /\ next[i] = set[i]
    BY <2>1, <2>3
  <2>5. rows[i] \in NfRowSet(via)
    BY <2>4, ElementOfSeq
  <2>6. i \notin NfIndex(rows, f.id)
    <3> SUFFICES ASSUME i \in NfIndex(rows, f.id)
                 PROVE  FALSE
      OBVIOUS
    <3>1. set[i] = [rows[i] EXCEPT !.of = f.of, !.outcome = f.outcome]
      BY <1>3, <2>4
    <3> HIDE DEF set
    <3>2. set[i].outcome = f.outcome
      BY <2>5, <3>1 DEF NfRowSet
    <3>3. QED
      BY <1>1, <1>6, <2>4, <3>2
  <2>7. next[i] = rows[i]
    BY <1>3, <2>4, <2>6
  <2>8. QED
    BY <1>3, <2>4, <2>6, <2>7 DEF NfIndex
<1>7. QED
  BY <1>1, <1>4, <1>5, <1>6

LEMMA NfApplyKeepsIn ==
  ASSUME NEW via, NEW rows \in Seq(NfRowSet(via)), NfDistinct(rows), NEW f \in NfFrames(via),
         NEW P, NfPendingIn(rows, P), f.type = "request" => f.id \in P
  PROVE  /\ NfApply(rows, f) \in Seq(NfRowSet(via)) /\ NfDistinct(NfApply(rows, f))
         /\ NfPendingIn(NfApply(rows, f), P)
<1> DEFINE next == NfApply(rows, f)
<1>1. ASSUME NEW i \in 1..Len(next), next[i].outcome = NfNone
      PROVE  next[i].id \in P
  <2>1. \/ f.type = "request" /\ next[i].id = f.id
        \/ \E j \in 1..Len(rows) : rows[j].outcome = NfNone /\ rows[j].id = next[i].id
    BY <1>1, NfApplyPending
  <2> HIDE DEF next
  <2>2. QED
    BY <2>1 DEF NfPendingIn
<1>2. NfPendingIn(next, P)
  <2> HIDE DEF next
  <2>1. QED
    BY <1>1 DEF NfPendingIn
<1>3. QED
  BY <1>2, NfApplyFits

LEMMA NfAppliedFits ==
  ASSUME NEW via, NEW rows \in Seq(NfRowSet(via)), NfDistinct(rows), NEW frames \in Seq(NfFrames(via)),
         NEW P, NfPendingIn(rows, P), \A i \in 1..Len(frames) : frames[i].type = "request" => frames[i].id \in P
  PROVE  /\ NfApplied(rows, frames) \in Seq(NfRowSet(via)) /\ NfDistinct(NfApplied(rows, frames))
         /\ NfPendingIn(NfApplied(rows, frames), P)
<1> DEFINE S == {r \in Seq(NfRowSet(via)) : NfDistinct(r) /\ NfPendingIn(r, P)}
           n == Len(frames)
           before == [i \in 1..n |-> i - 1]
           step == [i \in 1..n |-> [r \in S |-> NfApply(r, frames[i])]]
           after == CHOOSE f : f = [i \in 0..n |-> IF i = 0 THEN rows ELSE NfApply(f[i - 1], frames[i])]
<1>1. n \in Nat /\ \A i \in 1..n : frames[i] \in NfFrames(via) /\ (frames[i].type = "request" => frames[i].id \in P)
  BY LenProperties, ElementOfSeq
<1>2. NfApplied(rows, frames) = after[n]
  BY DEF NfApplied
<1>3. before \in [1..n -> Nat] /\ \A i \in 1..n : before[i] < i /\ before[i] = i - 1
  BY <1>1
<1>4. step \in [1..n -> [S -> S]]
  <2>1. \A i \in 1..n : \A r \in S : NfApply(r, frames[i]) \in S
    BY <1>1, NfApplyKeepsIn
  <2> HIDE DEF n
  <2>2. QED
    BY <2>1
<1>5. \A i \in 1..n : \A r \in S : step[i][r] = NfApply(r, frames[i])
  OBVIOUS
<1> HIDE DEF n, step, before
<1>6. rows \in S
  OBVIOUS
<1> HIDE DEF S
<1>7. PICK f \in [0..n -> S] : f[0] = rows /\ \A i \in 1..n : f[i] = step[i][f[before[i]]]
  <2>1. IsRecursion(S, n, rows, before, step)
    BY <1>1, <1>3, <1>4, <1>6 DEF IsRecursion
  <2>2. QED
    BY ONLY <2>1, RecursionExists
<1>8. ASSUME NEW i \in 1..n
      PROVE  f[i] = NfApply(f[i - 1], frames[i])
  <2>1. f[i - 1] \in S /\ before[i] = i - 1
    BY <1>1, <1>3
  <2>2. QED
    BY <1>5, <1>7, <2>1
<1>9. f = [i \in 0..n |-> IF i = 0 THEN rows ELSE NfApply(f[i - 1], frames[i])]
  <2>1. \A i \in 0..n : f[i] = IF i = 0 THEN rows ELSE NfApply(f[i - 1], frames[i])
    BY <1>1, <1>7, <1>8
  <2>2. f = [i \in 0..n |-> f[i]]
    OBVIOUS
  <2>3. QED
    BY <2>1, <2>2
<1>10. after = [i \in 0..n |-> IF i = 0 THEN rows ELSE NfApply(after[i - 1], frames[i])]
  BY <1>9
<1> HIDE DEF after
<1>11. after[0] \in S
  BY <1>1, <1>6, <1>10
<1>12. \A i \in 1..n : after[i - 1] \in S => after[i] \in S
  <2> TAKE i \in 1..n
  <2> HAVE after[i - 1] \in S
  <2>1. after[i] = NfApply(after[i - 1], frames[i])
    BY <1>1, <1>10
  <2>2. QED
    BY <1>1, <2>1, NfApplyKeepsIn DEF S
<1>13. after[n] \in S
  <2>1. \A i \in 0..n : after[i] \in S
    BY <1>1, <1>11, <1>12, PrefixInduction
  <2>2. QED
    BY <1>1, <2>1
<1>14. QED
  BY <1>2, <1>13 DEF S

\* What fits what has been sent fits when more has been.
LEMMA NfGrows ==
  ASSUME NEW via \in Seq(NfXhr \cup {"fetch"}), NEW x \in NfXhr \cup {"fetch"}
  PROVE  /\ NfFrames(via) \subseteq NfFrames(Append(via, x))
         /\ NfRowSet(via) \subseteq NfRowSet(Append(via, x))
         /\ NfEventSet(via) \subseteq NfEventSet(Append(via, x))
         /\ NfFetchSet(via) \subseteq NfFetchSet(Append(via, x))
<1>1. /\ Len(via) \in Nat /\ Len(Append(via, x)) = Len(via) + 1
      /\ \A n \in 1..Len(via) : n \in 1..Len(Append(via, x)) /\ Append(via, x)[n] = via[n]
  BY LenProperties, AppendProperties
<1> DEFINE next == Append(via, x)
<1> HIDE DEF next
<1>2. \A m, n \in 1..Len(via) : NfOwn(via, m, n) => NfOwn(next, m, n)
  BY <1>1 DEF NfOwn, next
<1>3. NfFrames(via) \subseteq NfFrames(next)
  BY <1>1, <1>2 DEF NfFrames, next
<1>4. NfRowSet(via) \subseteq NfRowSet(next)
  BY <1>1, <1>2 DEF NfRowSet, next
<1>5. Seq(NfFrames(via)) \subseteq Seq(NfFrames(next))
  BY <1>3, SeqMonotonic
<1>6. NfEventSet(via) \subseteq NfEventSet(next) /\ NfFetchSet(via) \subseteq NfFetchSet(next)
  BY <1>3, <1>5 DEF NfEventSet, NfFetchSet
<1>7. QED
  BY <1>3, <1>4, <1>6 DEF next

LEMMA NfEmitFits ==
  ASSUME NEW F, NEW G, F \subseteq G, IsFiniteSet(nfCache), nfCache \subseteq F, nfEvents \in Seq(G),
         NEW frames \in Seq(F), NfEmit(frames)
  PROVE  /\ IsFiniteSet(nfCache') /\ nfCache' \subseteq F /\ nfEvents' \in Seq(G)
         /\ Len(nfEvents') = Len(nfEvents) + Len(frames)
         /\ \A i \in 1..Len(nfEvents) : nfEvents'[i] = nfEvents[i]
         /\ \A i \in 1..Len(frames) : nfEvents'[Len(nfEvents) + i] = frames[i]
<1> DEFINE kept == {f \in nfCache : \A g \in ToSet(frames) : g.type # f.type}
           last == IF frames = << >> THEN {} ELSE {Last(frames)}
<1>1. nfCache' = kept \cup last /\ nfEvents' = nfEvents \o frames
  BY DEF NfEmit
<1>2. IsFiniteSet(kept) /\ kept \subseteq F
  BY FS_Subset
<1>3. IsFiniteSet(last) /\ last \subseteq F
  <2>1. frames # << >> => Last(frames) \in F
    <3>1. frames # << >> => Len(frames) \in 1..Len(frames)
      BY EmptySeq, LenProperties
    <3>2. QED
      BY <3>1, ElementOfSeq DEF Last
  <2>2. QED
    BY <2>1, FS_EmptySet, FS_Singleton
<1>4. IsFiniteSet(nfCache') /\ nfCache' \subseteq F
  <2> HIDE DEF kept, last
  <2>1. QED
    BY <1>1, <1>2, <1>3, FS_Union
<1> HIDE DEF kept, last
<1>5. Len(nfEvents) \in Nat /\ Len(frames) \in Nat /\ frames \in Seq(G)
  BY LenProperties, SeqMonotonic
<1>6. /\ nfEvents' \in Seq(G) /\ Len(nfEvents') = Len(nfEvents) + Len(frames)
      /\ \A i \in 1..Len(nfEvents) + Len(frames) :
           nfEvents'[i] = IF i <= Len(nfEvents) THEN nfEvents[i] ELSE frames[i - Len(nfEvents)]
  BY <1>1, <1>5, ConcatProperties
<1>7. ASSUME NEW i \in 1..Len(frames)
      PROVE  nfEvents'[Len(nfEvents) + i] = frames[i]
  <2> DEFINE j == Len(nfEvents) + i
  <2>1. j \in 1..Len(nfEvents) + Len(frames) /\ ~(j <= Len(nfEvents)) /\ j - Len(nfEvents) = i
    BY <1>5
  <2> HIDE DEF j
  <2>2. nfEvents'[j] = frames[i]
    BY <1>6, <2>1
  <2>3. QED
    BY <2>2 DEF j
<1>8. QED
  BY <1>4, <1>5, <1>6, <1>7

LEMMA NfInvInit == NfInit => NfInv
<1> SUFFICES ASSUME NfInit
             PROVE  NfInv
  OBVIOUS
<1>0. /\ nfVia = << >> /\ nfListening = [x \in NfXhr |-> << >>] /\ nfRunning = {}
      /\ nfCache = {} /\ nfEvents = << >>
      /\ nfFetches = << >> /\ nfRows = << >> /\ nfReplayed = {}
  BY DEF NfInit
<1>1. NfTyped
  <2>1. nfVia \in Seq(NfXhr \cup {"fetch"})
    BY <1>0, EmptySeq
  <2>2. nfListening \in [NfXhr -> Seq(Nat)]
    <3>1. << >> \in Seq(Nat)
      BY EmptySeq
    <3>2. QED
      BY <1>0, <3>1
  <2>3. QED
    BY <1>0, <2>1, <2>2 DEF NfTyped
<1>2. \A S : << >> \in Seq(S) /\ Len(<< >>) = 0
  BY EmptySeq
<1>3. NfListens
  BY <1>0, <1>2 DEF NfListens
<1>4. NfFramesOwn
  BY <1>0, <1>2, FS_EmptySet DEF NfFramesOwn
<1>5. NfRowsOwn
  BY <1>0, <1>2 DEF NfRowsOwn, NfDistinct
<1>6. NfPendingOpen
  BY <1>0, <1>2 DEF NfPendingOpen, NfPendingIn
<1>7. QED
  BY <1>1, <1>3, <1>4, <1>5, <1>6 DEF NfInv

\* A send adds an exchange, and may drop one of the same object.
LEMMA NfSends ==
  ASSUME NfInv, NEW x \in NfXhr \cup {"fetch"}, nfVia' = Append(nfVia, x),
         nfRunning' \subseteq nfRunning \cup {Len(nfVia) + 1}, Len(nfVia) + 1 \in nfRunning',
         \A m \in nfRunning : m \in nfRunning' \/ (nfVia[m] = x /\ x \in NfXhr),
         NfEmit(<<NfRequest(Len(nfVia) + 1)>>), UNCHANGED <<nfFetches, nfRows, nfReplayed>>
  PROVE  /\ Len(nfVia') = Len(nfVia) + 1 /\ nfVia'[Len(nfVia) + 1] = x
         /\ \A m \in 1..Len(nfVia) : nfVia'[m] = nfVia[m]
         /\ nfVia' \in Seq(NfXhr \cup {"fetch"}) /\ nfRunning' \subseteq 1..Len(nfVia')
         /\ NfFramesOwn' /\ NfRowsOwn' /\ NfPendingOpen'
<1> DEFINE n == Len(nfVia) + 1
           F == NfFrames(nfVia')
           G == NfEventSet(nfVia')
           frame == NfRequest(n)
<1>1. /\ NfTyped /\ Len(nfVia) \in Nat
      /\ nfVia' \in Seq(NfXhr \cup {"fetch"}) /\ Len(nfVia') = n /\ nfVia'[n] = x
      /\ \A m \in 1..Len(nfVia) : nfVia'[m] = nfVia[m]
  BY LenProperties, AppendProperties DEF NfInv, NfTyped
<1>2. nfRunning' \subseteq 1..Len(nfVia')
  BY <1>1 DEF NfTyped
<1>3. /\ NfFrames(nfVia) \subseteq F /\ NfRowSet(nfVia) \subseteq NfRowSet(nfVia')
      /\ NfEventSet(nfVia) \subseteq G /\ NfFetchSet(nfVia) \subseteq NfFetchSet(nfVia')
  BY <1>1, NfGrows DEF NfTyped
<1>4. /\ IsFiniteSet(nfCache) /\ nfCache \subseteq F /\ F \subseteq G
      /\ nfEvents \in Seq(G) /\ nfFetches \in Seq(NfFetchSet(nfVia'))
  <2>1. F \subseteq G
    BY DEF NfEventSet
  <2> HIDE DEF F, G
  <2>2. QED
    BY <1>3, <2>1, SeqMonotonic DEF NfInv, NfFramesOwn
<1>5. frame \in F /\ frame.type = "request" /\ frame.id = n
  BY <1>1 DEF NfRequest, NfFrames, NfOwn
<1>6. <<frame>> \in Seq(F) /\ Len(<<frame>>) = 1 /\ <<frame>>[1] = frame
  BY <1>5, OneFits
<1>7. /\ IsFiniteSet(nfCache') /\ nfCache' \subseteq F /\ nfEvents' \in Seq(G)
      /\ Len(nfEvents') = Len(nfEvents) + 1
      /\ \A i \in 1..Len(nfEvents) : nfEvents'[i] = nfEvents[i]
      /\ nfEvents'[Len(nfEvents) + 1] = frame
  <2> HIDE DEF F, G, frame, n
  <2>1. NfEmit(<<frame>>)
    BY DEF frame, n
  <2> DEFINE frames == <<frame>>
  <2>2. frames \in Seq(F) /\ Len(frames) = 1 /\ frames[1] = frame /\ NfEmit(frames)
    BY <1>6, <2>1
  <2> HIDE DEF frames
  <2>3. /\ IsFiniteSet(nfCache') /\ nfCache' \subseteq F /\ nfEvents' \in Seq(G)
        /\ Len(nfEvents') = Len(nfEvents) + Len(frames)
        /\ \A i \in 1..Len(nfEvents) : nfEvents'[i] = nfEvents[i]
        /\ \A i \in 1..Len(frames) : nfEvents'[Len(nfEvents) + i] = frames[i]
    BY ONLY <1>4, <2>2, NfEmitFits
  <2>4. QED
    BY <2>2, <2>3
<1>8. NfFramesOwn'
  BY <1>4, <1>7 DEF NfFramesOwn
<1>9. NfRowsOwn'
  <2>1. nfRows \in Seq(NfRowSet(nfVia')) /\ NfDistinct(nfRows)
    BY <1>3, SeqMonotonic DEF NfInv, NfRowsOwn
  <2>2. QED
    BY <2>1 DEF NfRowsOwn
<1> HIDE DEF F, G, frame
<1>10. Len(nfEvents) \in Nat
  BY <1>4, LenProperties
<1>11. ASSUME NEW k \in 1..Len(nfVia), NEW i, NfOpen(nfVia, nfRunning, nfEvents, k, i)
       PROVE  NfOpen(nfVia', nfRunning', nfEvents', k, i)
  <2>1. CASE k \in nfRunning
    <3>1. CASE k \in nfRunning'
      BY <3>1 DEF NfOpen
    <3>2. CASE nfVia[k] = x /\ x \in NfXhr
      <4>1. n \in k + 1..Len(nfVia') /\ nfVia'[n] = nfVia'[k] /\ nfVia'[k] \in NfXhr
        BY <1>1, <3>2
      <4>2. QED
        BY <4>1 DEF NfOpen, NfDropped
    <3>3. QED
      BY <2>1, <3>1, <3>2
  <2>2. CASE NfDropped(nfVia, k)
    <3>1. PICK m \in k + 1..Len(nfVia) : nfVia[m] = nfVia[k] /\ nfVia[k] \in NfXhr
      BY <2>2 DEF NfDropped
    <3>2. m \in k + 1..Len(nfVia') /\ nfVia'[m] = nfVia'[k] /\ nfVia'[k] \in NfXhr
      BY <1>1, <3>1
    <3>3. QED
      BY <3>2 DEF NfOpen, NfDropped
  <2>3. CASE NfAnsweredAfter(nfEvents, k, i)
    BY <1>7, <1>10, <2>3 DEF NfOpen, NfAnsweredAfter
  <2>4. QED
    BY <1>11, <2>1, <2>2, <2>3 DEF NfOpen
<1>12. NfPendingOpen'
  <2>0. /\ \A i \in 1..Len(nfEvents) : nfEvents[i].type = "request" => NfOpen(nfVia, nfRunning, nfEvents, nfEvents[i].id, i)
        /\ NfPendingIn(nfRows, NfPending)
    BY DEF NfInv, NfPendingOpen
  <2>1. ASSUME NEW i \in 1..Len(nfEvents'), nfEvents'[i].type = "request"
        PROVE  NfOpen(nfVia', nfRunning', nfEvents', nfEvents'[i].id, i)
    <3>1. CASE i = Len(nfEvents) + 1
      BY <1>5, <1>7, <3>1 DEF NfOpen, n
    <3>2. CASE i # Len(nfEvents) + 1
      <4>1. i \in 1..Len(nfEvents) /\ nfEvents'[i] = nfEvents[i]
        BY <1>7, <1>10, <3>2
      <4> DEFINE k == nfEvents[i].id
      <4>2. k \in 1..Len(nfVia)
        <5>1. nfEvents[i] \in NfEventSet(nfVia)
          BY <4>1, ElementOfSeq DEF NfInv, NfFramesOwn
        <5>2. nfEvents[i].type = "request"
          BY <2>1, <4>1
        <5>3. nfEvents[i] \in NfFrames(nfVia)
          BY <5>1, <5>2 DEF NfEventSet, NfConnected
        <5>4. QED
          BY <5>3 DEF NfFrames
      <4>3. NfOpen(nfVia, nfRunning, nfEvents, k, i)
        BY <2>0, <2>1, <4>1
      <4>4. k = nfEvents'[i].id
        BY <4>1
      <4> HIDE DEF k
      <4>5. \A j : j \in 1..Len(nfVia) /\ NfOpen(nfVia, nfRunning, nfEvents, j, i) => NfOpen(nfVia', nfRunning', nfEvents', j, i)
        BY <1>11
      <4>6. QED
        BY <4>2, <4>3, <4>4, <4>5
    <3>3. QED
      BY <3>1, <3>2
  <2>2. NfPending \subseteq NfPending'
    <3> SUFFICES ASSUME NEW k \in NfPending
                 PROVE  k \in NfPending'
      OBVIOUS
    <3>1. CASE k \in nfReplayed
      BY <3>1 DEF NfPending
    <3>2. CASE k \in 1..Len(nfVia) /\ NfOpen(nfVia, nfRunning, nfEvents, k, 0)
      <4>1. k \in 1..Len(nfVia')
        BY <1>1, <3>2
      <4>2. NfOpen(nfVia', nfRunning', nfEvents', k, 0)
        BY <1>11, <3>2
      <4>3. QED
        BY <4>1, <4>2 DEF NfPending
    <3>3. QED
      BY <3>1, <3>2 DEF NfPending
  <2>3. QED
    BY <2>0, <2>1, <2>2 DEF NfPendingOpen, NfPendingIn
<1>13. QED
  BY <1>1, <1>2, <1>8, <1>9, <1>12

\* An exchange that settles is answered for.
LEMMA NfSettles ==
  ASSUME NfInv, NEW n \in nfRunning, NEW frames \in Seq(NfFrames(nfVia)),
         \A i \in 1..Len(frames) : frames[i].type = "response",
         \E i \in 1..Len(frames) : frames[i].id = n,
         nfRunning' = nfRunning \ {n}, NfEmit(frames),
         UNCHANGED <<nfVia, nfListening, nfFetches, nfRows, nfReplayed>>
  PROVE  NfInv'
<1> DEFINE F == NfFrames(nfVia)
           G == NfEventSet(nfVia)
<1>1. /\ IsFiniteSet(nfCache) /\ nfCache \subseteq F /\ F \subseteq G
      /\ nfEvents \in Seq(G) /\ frames \in Seq(F) /\ nfFetches \in Seq(NfFetchSet(nfVia))
  BY DEF NfInv, NfFramesOwn, NfEventSet
<1>2. Len(nfEvents) \in Nat /\ Len(frames) \in Nat
  BY <1>1, LenProperties
<1> HIDE DEF F, G
<1>3. /\ IsFiniteSet(nfCache') /\ nfCache' \subseteq F /\ nfEvents' \in Seq(G)
      /\ Len(nfEvents') = Len(nfEvents) + Len(frames)
      /\ \A i \in 1..Len(nfEvents) : nfEvents'[i] = nfEvents[i]
      /\ \A i \in 1..Len(frames) : nfEvents'[Len(nfEvents) + i] = frames[i]
  BY <1>1, NfEmitFits
<1>4. NfTyped' /\ NfListens'
  BY DEF NfInv, NfTyped, NfListens
<1>5. NfFramesOwn'
  BY <1>1, <1>3 DEF NfFramesOwn, F, G
<1>6. NfRowsOwn'
  BY DEF NfInv, NfRowsOwn
<1>7. ASSUME NEW k, NEW i \in Nat, i <= Len(nfEvents), NfOpen(nfVia, nfRunning, nfEvents, k, i)
      PROVE  NfOpen(nfVia', nfRunning', nfEvents', k, i)
  <2>1. CASE k = n
    <3>1. PICK m \in 1..Len(frames) : frames[m].id = n
      OBVIOUS
    <3> DEFINE j == Len(nfEvents) + m
    <3>2. j \in 1..Len(nfEvents') /\ nfEvents'[j] = frames[m] /\ j > Len(nfEvents)
      BY <1>2, <1>3
    <3>3. j > i
      BY <1>7, <1>2, <3>2
    <3> HIDE DEF j
    <3>4. NfAnsweredAfter(nfEvents', k, i)
      BY <2>1, <3>1, <3>2, <3>3 DEF NfAnsweredAfter
    <3>5. QED
      BY <3>4 DEF NfOpen
  <2>2. CASE k # n /\ k \in nfRunning
    BY <2>2 DEF NfOpen
  <2>3. CASE NfDropped(nfVia, k)
    BY <2>3 DEF NfOpen
  <2>4. CASE NfAnsweredAfter(nfEvents, k, i)
    BY <1>2, <1>3, <2>4 DEF NfOpen, NfAnsweredAfter
  <2>5. QED
    BY <1>7, <2>1, <2>2, <2>3, <2>4 DEF NfOpen
<1>8. NfPendingOpen'
  <2>0. /\ \A i \in 1..Len(nfEvents) :
             nfEvents[i].type = "request" => NfOpen(nfVia, nfRunning, nfEvents, nfEvents[i].id, i)
        /\ NfPendingIn(nfRows, NfPending)
    BY DEF NfInv, NfPendingOpen
  <2>1. ASSUME NEW i \in 1..Len(nfEvents'), nfEvents'[i].type = "request"
        PROVE  NfOpen(nfVia', nfRunning', nfEvents', nfEvents'[i].id, i)
    <3>1. CASE i <= Len(nfEvents)
      <4>1. i \in 1..Len(nfEvents) /\ nfEvents'[i] = nfEvents[i]
        BY <1>2, <1>3, <3>1
      <4> DEFINE k == nfEvents'[i].id
      <4>2. NfOpen(nfVia, nfRunning, nfEvents, k, i) /\ i \in Nat
        BY <2>0, <2>1, <4>1
      <4> HIDE DEF k
      <4>3. NfOpen(nfVia', nfRunning', nfEvents', k, i)
        BY <1>7, <3>1, <4>2
      <4>4. QED
        BY <4>3 DEF k
    <3>2. CASE i > Len(nfEvents)
      <4> DEFINE m == i - Len(nfEvents)
      <4>1. m \in 1..Len(frames) /\ i = Len(nfEvents) + m
        BY <1>2, <1>3, <3>2
      <4> HIDE DEF m
      <4>2. nfEvents'[i] = frames[m]
        BY <1>3, <4>1
      <4>3. QED
        BY <2>1, <4>1, <4>2
    <3>3. QED
      BY <1>2, <1>3, <3>1, <3>2
  <2>2. NfPending \subseteq NfPending'
    <3> SUFFICES ASSUME NEW k \in NfPending
                 PROVE  k \in NfPending'
      OBVIOUS
    <3>1. CASE k \in nfReplayed
      BY <3>1 DEF NfPending
    <3>2. CASE k \in 1..Len(nfVia) /\ NfOpen(nfVia, nfRunning, nfEvents, k, 0)
      <4>1. 0 \in Nat /\ 0 <= Len(nfEvents)
        BY <1>2
      <4>2. NfOpen(nfVia', nfRunning', nfEvents', k, 0)
        BY <1>7, <3>2, <4>1
      <4>3. QED
        BY <3>2, <4>2 DEF NfPending
    <3>3. QED
      BY <3>1, <3>2 DEF NfPending
  <2>3. QED
    BY <2>0, <2>1, <2>2 DEF NfPendingOpen, NfPendingIn
<1>9. QED
  BY <1>4, <1>5, <1>6, <1>8 DEF NfInv

\* What is open stays so when a frame that is not its answer is taken.
LEMMA NfHeadTaken ==
  ASSUME NEW G, nfEvents \in Seq(G), nfEvents # << >>, nfEvents' = Tail(nfEvents), UNCHANGED <<nfVia, nfRunning>>,
         NEW k, NEW i \in Nat, NfOpen(nfVia, nfRunning, nfEvents, k, i),
         i > 0 \/ Head(nfEvents).type # "response" \/ Head(nfEvents).id # k
  PROVE  NfOpen(nfVia', nfRunning', nfEvents', k, IF i = 0 THEN 0 ELSE i - 1)
<1> DEFINE f == Head(nfEvents)
           rest == Tail(nfEvents)
<1>1. /\ f = nfEvents[1] /\ Len(rest) = Len(nfEvents) - 1 /\ Len(nfEvents) \in Nat \ {0}
      /\ \A j \in 1..Len(rest) : rest[j] = nfEvents[j + 1]
  <2>1. nfEvents[1] = f
    OBVIOUS
  <2>2. QED
    BY <2>1, HeadTailProperties, EmptySeq
<1> HIDE DEF f, rest
<1>2. nfEvents' = rest /\ (i > 0 \/ f.type # "response" \/ f.id # k)
  BY DEF f, rest
<1>3. CASE NfAnsweredAfter(nfEvents, k, i)
  <2>1. PICK j \in 1..Len(nfEvents) : j > i /\ nfEvents[j].type = "response" /\ nfEvents[j].id = k
    BY <1>3 DEF NfAnsweredAfter
  <2>2. j # 1
    BY <1>1, <1>2, <2>1
  <2> DEFINE m == j - 1
  <2>3. m \in 1..Len(rest) /\ rest[m] = nfEvents[j] /\ m > IF i = 0 THEN 0 ELSE i - 1
    BY <1>1, <2>1, <2>2
  <2> HIDE DEF m
  <2>4. QED
    BY <1>2, <2>1, <2>3 DEF NfOpen, NfAnsweredAfter
<1>4. CASE ~NfAnsweredAfter(nfEvents, k, i)
  BY <1>4 DEF NfOpen
<1>5. QED
  BY <1>3, <1>4

LEMMA NfInvStep == NfInv /\ [NfNext]_nfVars => NfInv'
<1> SUFFICES ASSUME NfInv, [NfNext]_nfVars
             PROVE  NfInv'
  OBVIOUS
<1>0. /\ NfTyped /\ NfListens /\ NfFramesOwn /\ NfRowsOwn /\ NfPendingOpen
      /\ Len(nfVia) \in Nat
  BY LenProperties DEF NfInv, NfTyped
<1>1. ASSUME NEW x \in NfXhr, NfXhrSend(x)
      PROVE  NfInv'
  <2> DEFINE n == Len(nfVia) + 1
  <2>1. /\ nfVia' = Append(nfVia, x) /\ nfListening' = [nfListening EXCEPT ![x] = Append(@, n)]
        /\ nfRunning' = {m \in nfRunning : nfVia[m] # x} \cup {n}
        /\ NfEmit(<<NfRequest(n)>>) /\ UNCHANGED <<nfFetches, nfRows, nfReplayed>>
    BY <1>1 DEF NfXhrSend, nfPage
  <2>2. /\ Len(nfVia') = n /\ nfVia'[n] = x
        /\ \A m \in 1..Len(nfVia) : nfVia'[m] = nfVia[m]
        /\ nfVia' \in Seq(NfXhr \cup {"fetch"}) /\ nfRunning' \subseteq 1..Len(nfVia')
        /\ NfFramesOwn' /\ NfRowsOwn' /\ NfPendingOpen'
    BY <2>1, NfSends
  <2>3. nfListening[x] \in Seq(Nat) /\ n \in Nat /\ nfListening \in [NfXhr -> Seq(Nat)]
    BY <1>0 DEF NfTyped
  <2>4. /\ nfListening'[x] \in Seq(Nat) /\ Len(nfListening'[x]) = Len(nfListening[x]) + 1
        /\ Len(nfListening[x]) \in Nat
        /\ \A i \in 1..Len(nfListening[x]) : nfListening'[x][i] = nfListening[x][i]
        /\ nfListening'[x][Len(nfListening[x]) + 1] = n
    <3> HIDE DEF n
    <3>1. nfListening'[x] = Append(nfListening[x], n)
      BY <2>1, <2>3
    <3>2. QED
      BY <2>3, <3>1, AppendProperties, LenProperties
  <2>5. \A y \in NfXhr : y # x => nfListening'[y] = nfListening[y]
    BY <2>1, <2>3
  <2>6. NfTyped'
    <3>1. \A y \in NfXhr : nfListening'[y] \in Seq(Nat)
      BY <2>3, <2>4, <2>5
    <3>2. nfListening' = [y \in NfXhr |-> nfListening'[y]]
      BY <2>1, <2>3
    <3>3. nfListening' \in [NfXhr -> Seq(Nat)]
      BY <3>1, <3>2
    <3>4. QED
      BY <2>2, <3>3 DEF NfTyped
  <2>7. NfListens'
    <3> SUFFICES ASSUME NEW y \in NfXhr
                 PROVE  /\ \A i \in 1..Len(nfListening'[y]) :
                             nfListening'[y][i] \in 1..Len(nfVia') /\ nfVia'[nfListening'[y][i]] = y
                        /\ \A m \in 1..Len(nfVia') :
                             nfVia'[m] = y => \E i \in 1..Len(nfListening'[y]) : nfListening'[y][i] = m
      BY DEF NfListens
    <3>0. /\ \A i \in 1..Len(nfListening[y]) :
               nfListening[y][i] \in 1..Len(nfVia) /\ nfVia[nfListening[y][i]] = y
          /\ \A m \in 1..Len(nfVia) : nfVia[m] = y => \E i \in 1..Len(nfListening[y]) : nfListening[y][i] = m
      BY <1>0 DEF NfListens
    <3>1. ASSUME NEW i \in 1..Len(nfListening'[y])
          PROVE  nfListening'[y][i] \in 1..Len(nfVia') /\ nfVia'[nfListening'[y][i]] = y
      <4>1. CASE y = x /\ i = Len(nfListening[x]) + 1
        BY <1>0, <2>2, <2>4, <4>1
      <4>2. CASE ~(y = x /\ i = Len(nfListening[x]) + 1)
        <5>1. i \in 1..Len(nfListening[y]) /\ nfListening'[y][i] = nfListening[y][i]
          BY <2>4, <2>5, <4>2
        <5>2. nfListening[y][i] \in 1..Len(nfVia) /\ nfVia[nfListening[y][i]] = y
          BY <3>0, <5>1
        <5>3. QED
          BY <1>0, <2>2, <5>1, <5>2
      <4>3. QED
        BY <4>1, <4>2
    <3>2. ASSUME NEW m \in 1..Len(nfVia'), nfVia'[m] = y
          PROVE  \E i \in 1..Len(nfListening'[y]) : nfListening'[y][i] = m
      <4>1. CASE m = n
        <5>1. y = x /\ Len(nfListening[x]) + 1 \in 1..Len(nfListening'[y])
          BY <2>2, <2>4, <3>2, <4>1
        <5>2. QED
          BY <2>4, <4>1, <5>1
      <4>2. CASE m # n
        <5>1. m \in 1..Len(nfVia) /\ nfVia[m] = y
          BY <1>0, <2>2, <3>2, <4>2
        <5>2. PICK i \in 1..Len(nfListening[y]) : nfListening[y][i] = m
          BY <3>0, <5>1
        <5>3. i \in 1..Len(nfListening'[y]) /\ nfListening'[y][i] = m
          <6>1. CASE y = x
            BY <2>4, <5>2, <6>1, SMTT(30)
          <6>2. CASE y # x
            BY <2>5, <5>2, <6>2
          <6>3. QED
            BY <6>1, <6>2
        <5>4. QED
          BY <5>3
      <4>3. QED
        BY <4>1, <4>2
    <3>3. QED
      BY <3>1, <3>2
  <2>8. QED
    BY <2>2, <2>6, <2>7 DEF NfInv
<1>2. CASE NfFetchSend
  <2> DEFINE n == Len(nfVia) + 1
  <2>1. /\ nfVia' = Append(nfVia, "fetch") /\ nfRunning' = nfRunning \cup {n}
        /\ NfEmit(<<NfRequest(n)>>) /\ UNCHANGED <<nfListening, nfFetches, nfRows, nfReplayed>>
    BY <1>2 DEF NfFetchSend, nfPage
  <2>2. /\ Len(nfVia') = n /\ nfVia'[n] = "fetch"
        /\ \A m \in 1..Len(nfVia) : nfVia'[m] = nfVia[m]
        /\ nfVia' \in Seq(NfXhr \cup {"fetch"}) /\ nfRunning' \subseteq 1..Len(nfVia')
        /\ NfFramesOwn' /\ NfRowsOwn' /\ NfPendingOpen'
    BY <2>1, NfSends
  <2>3. NfTyped'
    BY <1>0, <2>1, <2>2 DEF NfTyped
  <2>4. NfListens'
    <3> SUFFICES ASSUME NEW y \in NfXhr
                 PROVE  /\ \A i \in 1..Len(nfListening[y]) :
                             nfListening[y][i] \in 1..Len(nfVia') /\ nfVia'[nfListening[y][i]] = y
                        /\ \A m \in 1..Len(nfVia') :
                             nfVia'[m] = y => \E i \in 1..Len(nfListening[y]) : nfListening[y][i] = m
      BY <2>1 DEF NfListens
    <3>1. /\ \A i \in 1..Len(nfListening[y]) :
               nfListening[y][i] \in 1..Len(nfVia) /\ nfVia[nfListening[y][i]] = y
          /\ \A m \in 1..Len(nfVia) : nfVia[m] = y => \E i \in 1..Len(nfListening[y]) : nfListening[y][i] = m
      BY <1>0 DEF NfListens
    <3>2. y # "fetch"
      BY NfAssumption
    <3>3. \A m \in 1..Len(nfVia') : nfVia'[m] = y => m \in 1..Len(nfVia) /\ nfVia[m] = y
      BY <1>0, <2>2, <3>2
    <3>4. \A m \in 1..Len(nfVia) : m \in 1..Len(nfVia') /\ nfVia'[m] = nfVia[m]
      BY <1>0, <2>2
    <3>5. QED
      BY <3>1, <3>3, <3>4
  <2>5. QED
    BY <2>2, <2>3, <2>4 DEF NfInv
<1>3. ASSUME NEW n \in nfRunning, NEW outcome \in NfOutcome, NfXhrSettles(n, outcome)
      PROVE  NfInv'
  <2> DEFINE x == nfVia[n]
             own == nfListening[x]
             frames == [i \in DOMAIN own |-> NfResponse(own[i], n, outcome)]
  <2>1. /\ x \in NfXhr /\ nfRunning' = nfRunning \ {n} /\ NfEmit(frames)
        /\ UNCHANGED <<nfVia, nfListening, nfFetches, nfRows, nfReplayed>>
    BY <1>3 DEF NfXhrSettles, nfPage
  <2>2. own \in Seq(Nat)
    BY <1>0, <2>1 DEF NfTyped
  <2>3. Len(own) \in Nat /\ DOMAIN own = 1..Len(own)
    BY <2>2, LenProperties
  <2>4. n \in 1..Len(nfVia)
    BY <1>0 DEF NfTyped
  <2>5. \A i \in 1..Len(own) : own[i] \in 1..Len(nfVia) /\ nfVia[own[i]] = x
    BY <1>0, <2>1 DEF NfListens
  <2>6. PICK k \in 1..Len(own) : own[k] = n
    BY <1>0, <2>1, <2>4 DEF NfListens
  <2>7. ASSUME NEW i \in 1..Len(own)
        PROVE  frames[i] \in NfFrames(nfVia) /\ frames[i].type = "response" /\ frames[i].id = own[i]
    <3>1. frames[i] = NfResponse(own[i], n, outcome)
      BY <2>3
    <3> HIDE DEF frames, own, x
    <3>2. outcome # NfNone
      BY NfAssumption
    <3>3. NfOwn(nfVia, n, own[i])
      BY <2>1, <2>5 DEF NfOwn, x
    <3>4. QED
      BY <2>4, <2>5, <3>1, <3>2, <3>3 DEF NfFrames, NfResponse
  <2>8. frames \in [1..Len(own) -> NfFrames(nfVia)]
    <3>1. frames = [i \in 1..Len(own) |-> frames[i]]
      BY <2>3
    <3> HIDE DEF frames
    <3>2. QED
      BY <2>7, <3>1
  <2> HIDE DEF frames, own, x
  <2>9. frames \in Seq(NfFrames(nfVia)) /\ Len(frames) = Len(own)
    BY <2>3, <2>8, IntervalFits
  <2>10. /\ \A i \in 1..Len(frames) : frames[i].type = "response"
         /\ \E i \in 1..Len(frames) : frames[i].id = n
    BY <2>6, <2>7, <2>9
  <2>11. QED
    BY <2>1, <2>9, <2>10, NfSettles
<1>4. ASSUME NEW n \in nfRunning, NEW outcome \in NfOutcome, NfFetchSettles(n, outcome)
      PROVE  NfInv'
  <2> DEFINE frame == NfResponse(n, n, outcome)
             frames == <<frame>>
  <2>1. /\ nfRunning' = nfRunning \ {n} /\ NfEmit(frames)
        /\ UNCHANGED <<nfVia, nfListening, nfFetches, nfRows, nfReplayed>>
    BY <1>4 DEF NfFetchSettles, nfPage
  <2>2. n \in 1..Len(nfVia) /\ outcome # NfNone
    BY <1>0, NfAssumption DEF NfTyped
  <2>3. frame \in NfFrames(nfVia) /\ frame.type = "response" /\ frame.id = n
    BY <2>2 DEF NfFrames, NfResponse, NfOwn
  <2>4. frames \in Seq(NfFrames(nfVia)) /\ Len(frames) = 1 /\ frames[1] = frame
    BY <2>3, OneFits
  <2> HIDE DEF frames, frame
  <2>5. /\ \A i \in 1..Len(frames) : frames[i].type = "response"
        /\ \E i \in 1..Len(frames) : frames[i].id = n
    BY <2>3, <2>4
  <2>6. QED
    BY <2>1, <2>4, <2>5, NfSettles
<1>5. CASE NfEventArrives
  <2> DEFINE F == NfFrames(nfVia)
             G == NfEventSet(nfVia)
             f == Head(nfEvents)
             rest == Tail(nfEvents)
             rows == NfApply(nfRows, f)
  <2>1. /\ nfEvents # << >> /\ f # NfConnected /\ nfEvents' = rest /\ nfRows' = rows
        /\ UNCHANGED <<nfVia, nfListening, nfRunning, nfCache, nfFetches, nfReplayed>>
    BY <1>5 DEF NfEventArrives, nfApp
  <2>2. /\ f \in G /\ f = nfEvents[1] /\ rest \in Seq(G) /\ Len(rest) = Len(nfEvents) - 1
        /\ Len(nfEvents) \in Nat \ {0} /\ nfEvents \in Seq(G)
        /\ \A i \in 1..Len(rest) : rest[i] = nfEvents[i + 1]
    <3>1. nfEvents \in Seq(G)
      BY <1>0 DEF NfFramesOwn
    <3> HIDE DEF G
    <3>2. nfEvents[1] = f
      OBVIOUS
    <3>3. QED
      BY <2>1, <3>1, <3>2, HeadTailProperties, EmptySeq
  <2>a. f \in F /\ nfRows \in Seq(NfRowSet(nfVia)) /\ NfDistinct(nfRows)
    <3> HIDE DEF f
    <3>1. QED
      BY <1>0, <2>1, <2>2 DEF NfEventSet, NfRowsOwn
  <2>b. f.type = "request" \/ f.type = "response"
    <3> HIDE DEF f
    <3>1. QED
      BY <2>a DEF NfFrames
  <2> HIDE DEF F, G, f, rest, rows
  <2>3. NfTyped' /\ NfListens'
    BY <1>0, <2>1 DEF NfTyped, NfListens
  <2>4. NfFramesOwn'
    BY <1>0, <2>1, <2>2 DEF NfFramesOwn, G
  <2>6. \A k : \A i \in Nat :
          NfOpen(nfVia, nfRunning, nfEvents, k, i) /\ (i > 0 \/ f.type # "response" \/ f.id # k)
            => NfOpen(nfVia', nfRunning', nfEvents', k, IF i = 0 THEN 0 ELSE i - 1)
    BY <2>1, <2>2, NfHeadTaken DEF f, rest
  <2>7. ASSUME NEW i \in 1..Len(rest), rest[i].type = "request"
        PROVE  NfOpen(nfVia', nfRunning', nfEvents', rest[i].id, i)
    <3> DEFINE j == i + 1
    <3>1. j \in 1..Len(nfEvents) /\ j \in Nat /\ j > 0 /\ rest[i] = nfEvents[j]
          /\ i = IF j = 0 THEN 0 ELSE j - 1
      BY <2>2
    <3> HIDE DEF j
    <3>2. NfOpen(nfVia, nfRunning, nfEvents, rest[i].id, j)
      BY <1>0, <2>7, <3>1 DEF NfPendingOpen
    <3>3. QED
      BY <2>6, <3>1, <3>2
  <2>8. f.type = "request" => f.id \in NfPending'
    <3> SUFFICES ASSUME f.type = "request"
                 PROVE  f.id \in NfPending'
      OBVIOUS
    <3>1. NfOpen(nfVia, nfRunning, nfEvents, f.id, 1) /\ 1 \in Nat
      BY <1>0, <2>2 DEF NfPendingOpen
    <3>2. NfOpen(nfVia', nfRunning', nfEvents', f.id, IF 1 = 0 THEN 0 ELSE 1 - 1)
      BY <2>6, <3>1
    <3>3. f.id \in 1..Len(nfVia')
      BY <2>1, <2>a DEF NfFrames, F
    <3>4. QED
      BY <3>2, <3>3 DEF NfPending
  <2>9. ASSUME NEW k \in NfPending, f.type = "response" => f.id # k
        PROVE  k \in NfPending'
    <3>1. CASE k \in nfReplayed
      BY <2>1, <3>1 DEF NfPending
    <3>2. CASE k \in 1..Len(nfVia) /\ NfOpen(nfVia, nfRunning, nfEvents, k, 0)
      <4>1. NfOpen(nfVia', nfRunning', nfEvents', k, IF 0 = 0 THEN 0 ELSE 0 - 1)
        BY <2>6, <2>9, <3>2
      <4>2. QED
        BY <2>1, <3>2, <4>1 DEF NfPending
    <3>3. QED
      BY <3>1, <3>2 DEF NfPending
  <2>10. rows \in Seq(NfRowSet(nfVia)) /\ NfDistinct(rows)
    BY <2>a, NfApplyFits DEF F, rows
  <2>11. NfPendingIn(rows, NfPending')
    <3> SUFFICES ASSUME NEW i \in 1..Len(rows), rows[i].outcome = NfNone
                 PROVE  rows[i].id \in NfPending'
      BY DEF NfPendingIn
    <3>1. \/ f.type = "request" /\ rows[i].id = f.id
          \/ \E j \in 1..Len(nfRows) : /\ nfRows[j].outcome = NfNone /\ nfRows[j].id = rows[i].id
                                       /\ f.type = "response" => nfRows[j].id # f.id
      BY <2>a, NfApplyPending DEF rows, F
    <3>2. CASE f.type = "request" /\ rows[i].id = f.id
      BY <2>8, <3>2
    <3>3. CASE \E j \in 1..Len(nfRows) : /\ nfRows[j].outcome = NfNone /\ nfRows[j].id = rows[i].id
                                         /\ f.type = "response" => nfRows[j].id # f.id
      <4>1. rows[i].id \in NfPending /\ (f.type = "response" => f.id # rows[i].id)
        BY <1>0, <3>3 DEF NfPendingOpen, NfPendingIn
      <4>2. QED
        BY <2>9, <4>1
    <3>4. QED
      BY <3>1, <3>2, <3>3
  <2>12. NfRowsOwn' /\ NfPendingOpen'
    BY <2>1, <2>7, <2>10, <2>11 DEF NfRowsOwn, NfPendingOpen
  <2>13. QED
    BY <2>3, <2>4, <2>12 DEF NfInv
<1>6. CASE NfReload
  <2>1. /\ nfEvents' = << >> /\ nfRows' = << >> /\ nfFetches' = <<NfFetch("asked", << >>)>>
        /\ UNCHANGED <<nfVia, nfListening, nfRunning, nfCache>>
    BY <1>6 DEF NfReload, nfApp
  <2>2. \A S : << >> \in Seq(S) /\ Len(<< >>) = 0
    BY EmptySeq
  <2>3. NfTyped' /\ NfListens'
    BY <1>0, <2>1 DEF NfTyped, NfListens
  <2>4. NfFramesOwn'
    <3>1. NfFetch("asked", << >>) \in NfFetchSet(nfVia)
      BY <2>2 DEF NfFetch, NfFetchSet
    <3>2. <<NfFetch("asked", << >>)>> \in Seq(NfFetchSet(nfVia))
      BY <3>1, OneFits
    <3>3. QED
      BY <1>0, <2>1, <2>2, <3>2 DEF NfFramesOwn
  <2>5. NfRowsOwn' /\ NfPendingOpen'
    BY <2>1, <2>2 DEF NfRowsOwn, NfDistinct, NfPendingOpen, NfPendingIn
  <2>6. QED
    BY <2>3, <2>4, <2>5 DEF NfInv
<1>7. ASSUME NEW i \in DOMAIN nfFetches, NfServerAnswers(i)
      PROVE  NfInv'
  <2>1. PICK order \in SetToSeqs(nfCache) : nfFetches' = [nfFetches EXCEPT ![i] = NfFetch("answered", order)]
    BY <1>7 DEF NfServerAnswers
  <2>2. UNCHANGED <<nfVia, nfListening, nfRunning, nfCache, nfEvents, nfRows, nfReplayed>>
    BY <1>7 DEF NfServerAnswers, nfApp
  <2>3. order \in Seq(NfFrames(nfVia))
    <3>1. order \in Seq(nfCache)
      BY <1>0, OrdersFit DEF NfFramesOwn
    <3>2. QED
      BY <1>0, <3>1, SeqMonotonic DEF NfFramesOwn
  <2>4. nfFetches' \in Seq(NfFetchSet(nfVia))
    <3>1. NfFetch("answered", order) \in NfFetchSet(nfVia)
      BY <2>3 DEF NfFetch, NfFetchSet
    <3>2. nfFetches \in Seq(NfFetchSet(nfVia)) /\ i \in 1..Len(nfFetches)
      BY <1>0, LenProperties DEF NfFramesOwn
    <3>3. QED
      BY <2>1, <3>1, <3>2, ExceptSeq
  <2>5. NfTyped' /\ NfListens' /\ NfFramesOwn' /\ NfRowsOwn'
    BY <1>0, <2>2, <2>4 DEF NfTyped, NfListens, NfFramesOwn, NfRowsOwn
  <2>6. NfPendingOpen'
    BY <1>0, <2>2 DEF NfPendingOpen, NfPending
  <2>7. QED
    BY <2>5, <2>6 DEF NfInv
<1>8. ASSUME NEW i \in DOMAIN nfFetches, NfHydrate(i)
      PROVE  NfInv'
  <2> DEFINE frames == nfFetches[i].frames
             rows == NfApplied(nfRows, frames)
  <2>1. /\ nfFetches' = [nfFetches EXCEPT ![i] = NfFetch("done", << >>)] /\ nfRows' = rows
        /\ nfReplayed' = nfReplayed \cup {f.id : f \in {g \in {h \in ToSet(frames) : h.type = "request"} : NfTold(g.id)}}
        /\ UNCHANGED <<nfVia, nfListening, nfRunning, nfCache, nfEvents>>
    BY <1>8 DEF NfHydrate, nfApp
  <2>2. nfFetches \in Seq(NfFetchSet(nfVia)) /\ i \in 1..Len(nfFetches) /\ frames \in Seq(NfFrames(nfVia))
    <3>1. nfFetches \in Seq(NfFetchSet(nfVia)) /\ i \in 1..Len(nfFetches)
      BY <1>0, LenProperties DEF NfFramesOwn
    <3>2. nfFetches[i] \in NfFetchSet(nfVia)
      BY <3>1, ElementOfSeq
    <3>3. QED
      BY <3>1, <3>2 DEF NfFetchSet
  <2>3. ASSUME NEW j \in 1..Len(frames), frames[j].type = "request"
        PROVE  frames[j].id \in NfPending'
    <3> DEFINE k == frames[j].id
    <3>1. frames[j] \in NfFrames(nfVia) /\ frames[j] \in ToSet(frames)
      <4> HIDE DEF frames
      <4>1. QED
        BY <2>2, ElementOfSeq, LenProperties DEF ToSet
    <3>2. k \in 1..Len(nfVia)
      BY <3>1 DEF NfFrames
    <3>3. CASE NfTold(k)
      <4> HIDE DEF frames
      <4>1. k \in nfReplayed'
        BY <2>1, <2>3, <3>1, <3>3
      <4>2. QED
        BY <4>1 DEF NfPending
    <3>4. CASE ~NfTold(k)
      <4>1. k \in nfRunning \/ \E m \in DOMAIN nfEvents : nfEvents[m].type = "response" /\ nfEvents[m].id = k
        BY <3>4 DEF NfTold
      <4>2. DOMAIN nfEvents = 1..Len(nfEvents) /\ Len(nfEvents) \in Nat
        BY <1>0, LenProperties DEF NfFramesOwn
      <4> HIDE DEF k
      <4>3. k \in nfRunning \/ NfAnsweredAfter(nfEvents, k, 0)
        BY <4>1, <4>2 DEF NfAnsweredAfter
      <4>4. NfOpen(nfVia', nfRunning', nfEvents', k, 0) /\ k \in 1..Len(nfVia')
        BY <2>1, <3>2, <4>3 DEF NfOpen
      <4>5. QED
        BY <4>4 DEF NfPending, k
    <3>5. QED
      BY <3>3, <3>4
  <2>4. NfPendingIn(nfRows, NfPending')
    <3>1. NfPending \subseteq NfPending'
      BY <2>1 DEF NfPending
    <3>2. QED
      BY <1>0, <3>1 DEF NfPendingOpen, NfPendingIn
  <2> HIDE DEF frames
  <2>5. rows \in Seq(NfRowSet(nfVia)) /\ NfDistinct(rows) /\ NfPendingIn(rows, NfPending')
    <3> DEFINE Q == NfPending'
    <3>1. /\ nfRows \in Seq(NfRowSet(nfVia)) /\ NfDistinct(nfRows) /\ NfPendingIn(nfRows, Q)
          /\ \A j \in 1..Len(frames) : frames[j].type = "request" => frames[j].id \in Q
      BY <1>0, <2>3, <2>4 DEF NfRowsOwn
    <3> HIDE DEF Q
    <3>2. rows \in Seq(NfRowSet(nfVia)) /\ NfDistinct(rows) /\ NfPendingIn(rows, Q)
      BY ONLY <2>2, <3>1, NfAppliedFits DEF rows
    <3>3. QED
      BY <3>2 DEF Q
  <2> HIDE DEF rows
  <2>6. nfFetches' \in Seq(NfFetchSet(nfVia))
    <3>1. NfFetch("done", << >>) \in NfFetchSet(nfVia)
      BY EmptySeq DEF NfFetch, NfFetchSet
    <3>2. QED
      BY <2>1, <2>2, <3>1, ExceptSeq
  <2>7. NfTyped' /\ NfListens' /\ NfFramesOwn' /\ NfRowsOwn'
    BY <1>0, <2>1, <2>5, <2>6 DEF NfTyped, NfListens, NfFramesOwn, NfRowsOwn
  <2>8. NfPendingOpen'
    BY <1>0, <2>1, <2>5 DEF NfPendingOpen
  <2>9. QED
    BY <2>7, <2>8 DEF NfInv
<1>9. CASE NfClear
  <2>1. nfRows' = << >> /\ UNCHANGED <<nfVia, nfListening, nfRunning, nfCache, nfEvents, nfFetches, nfReplayed>>
    BY <1>9 DEF NfClear, nfApp
  <2>2. << >> \in Seq(NfRowSet(nfVia)) /\ Len(<< >>) = 0
    BY EmptySeq
  <2>3. NfTyped' /\ NfListens' /\ NfFramesOwn' /\ NfRowsOwn'
    BY <1>0, <2>1, <2>2 DEF NfTyped, NfListens, NfFramesOwn, NfRowsOwn, NfDistinct
  <2>4. NfPendingOpen'
    BY <1>0, <2>1, <2>2 DEF NfPendingOpen, NfPendingIn
  <2>5. QED
    BY <2>3, <2>4 DEF NfInv
<1>10. CASE NfConnects
  <2> DEFINE G == NfEventSet(nfVia)
  <2>1. /\ nfEvents' = Append(nfEvents, NfConnected)
        /\ UNCHANGED <<nfVia, nfListening, nfRunning, nfCache, nfFetches, nfRows, nfReplayed>>
    BY <1>10 DEF NfConnects, nfApp
  <2>2. nfEvents \in Seq(G) /\ NfConnected \in G /\ NfConnected.type = "connected"
    BY <1>0 DEF NfFramesOwn, NfEventSet, NfConnected
  <2>3. Len(nfEvents) \in Nat
    BY <2>2, LenProperties
  <2>4. /\ nfEvents' \in Seq(G) /\ Len(nfEvents') = Len(nfEvents) + 1
        /\ \A i \in 1..Len(nfEvents) : nfEvents'[i] = nfEvents[i]
        /\ nfEvents'[Len(nfEvents) + 1] = NfConnected
    <3> HIDE DEF G
    <3>1. QED
      BY <2>1, <2>2, AppendProperties
  <2>5. NfTyped' /\ NfListens' /\ NfFramesOwn' /\ NfRowsOwn'
    BY <1>0, <2>1, <2>4 DEF NfTyped, NfListens, NfFramesOwn, NfRowsOwn
  <2>6. \A k, i : NfOpen(nfVia, nfRunning, nfEvents, k, i) => NfOpen(nfVia', nfRunning', nfEvents', k, i)
    BY <2>1, <2>3, <2>4 DEF NfOpen, NfAnsweredAfter
  <2>7. ASSUME NEW i \in 1..Len(nfEvents'), nfEvents'[i].type = "request"
        PROVE  NfOpen(nfVia', nfRunning', nfEvents', nfEvents'[i].id, i)
    <3>1. i # Len(nfEvents) + 1
      BY <2>2, <2>4, <2>7
    <3>2. i \in 1..Len(nfEvents) /\ nfEvents'[i] = nfEvents[i]
      BY <2>3, <2>4, <3>1
    <3>3. NfOpen(nfVia, nfRunning, nfEvents, nfEvents[i].id, i)
      BY <1>0, <2>7, <3>2 DEF NfPendingOpen
    <3>4. QED
      BY <2>6, <3>2, <3>3
  <2>8. NfPending \subseteq NfPending'
    BY <2>1, <2>6 DEF NfPending
  <2>9. NfPendingOpen'
    BY <1>0, <2>1, <2>7, <2>8 DEF NfPendingOpen, NfPendingIn
  <2>10. QED
    BY <2>5, <2>9 DEF NfInv
<1>11. CASE NfConnectArrives
  <2> DEFINE G == NfEventSet(nfVia)
             f == Head(nfEvents)
             rest == Tail(nfEvents)
  <2>1. /\ nfEvents # << >> /\ f = NfConnected /\ nfEvents' = rest
        /\ nfFetches' = Append(nfFetches, NfFetch("asked", << >>))
        /\ UNCHANGED <<nfVia, nfListening, nfRunning, nfCache, nfRows, nfReplayed>>
    BY <1>11 DEF NfConnectArrives, nfApp
  <2>2. /\ rest \in Seq(G) /\ Len(rest) = Len(nfEvents) - 1
        /\ Len(nfEvents) \in Nat \ {0} /\ nfEvents \in Seq(G)
        /\ \A i \in 1..Len(rest) : rest[i] = nfEvents[i + 1]
    <3>1. nfEvents \in Seq(G)
      BY <1>0 DEF NfFramesOwn
    <3> HIDE DEF G
    <3>2. QED
      BY <2>1, <3>1, HeadTailProperties, EmptySeq
  <2>3. f.type # "response"
    BY <2>1 DEF NfConnected
  <2> HIDE DEF G, f, rest
  <2>4. \A k : \A i \in Nat : NfOpen(nfVia, nfRunning, nfEvents, k, i)
                                => NfOpen(nfVia', nfRunning', nfEvents', k, IF i = 0 THEN 0 ELSE i - 1)
    BY <2>1, <2>2, <2>3, NfHeadTaken DEF f, rest
  <2>5. ASSUME NEW i \in 1..Len(rest), rest[i].type = "request"
        PROVE  NfOpen(nfVia', nfRunning', nfEvents', rest[i].id, i)
    <3> DEFINE j == i + 1
    <3>1. j \in 1..Len(nfEvents) /\ j \in Nat /\ rest[i] = nfEvents[j] /\ i = IF j = 0 THEN 0 ELSE j - 1
      BY <2>2
    <3> HIDE DEF j
    <3>2. NfOpen(nfVia, nfRunning, nfEvents, rest[i].id, j)
      BY <1>0, <2>5, <3>1 DEF NfPendingOpen
    <3>3. QED
      BY <2>4, <3>1, <3>2
  <2>6. NfPending \subseteq NfPending'
    <3>1. \A k : NfOpen(nfVia, nfRunning, nfEvents, k, 0) => NfOpen(nfVia', nfRunning', nfEvents', k, 0)
      BY <2>4
    <3>2. QED
      BY <2>1, <3>1 DEF NfPending
  <2>7. nfFetches' \in Seq(NfFetchSet(nfVia))
    <3>1. NfFetch("asked", << >>) \in NfFetchSet(nfVia)
      BY EmptySeq DEF NfFetch, NfFetchSet
    <3>2. nfFetches \in Seq(NfFetchSet(nfVia))
      BY <1>0 DEF NfFramesOwn
    <3>3. QED
      BY <2>1, <3>1, <3>2, AppendProperties
  <2>8. NfTyped' /\ NfListens' /\ NfFramesOwn' /\ NfRowsOwn'
    BY <1>0, <2>1, <2>2, <2>7 DEF NfTyped, NfListens, NfFramesOwn, NfRowsOwn, G
  <2>9. NfPendingOpen'
    BY <1>0, <2>1, <2>5, <2>6 DEF NfPendingOpen, NfPendingIn
  <2>10. QED
    BY <2>8, <2>9 DEF NfInv
<1>12. CASE UNCHANGED nfVars
  <2>1. UNCHANGED <<nfVia, nfListening, nfRunning, nfCache, nfEvents, nfFetches, nfRows, nfReplayed>>
    BY <1>12 DEF nfVars, nfApp, nfPage
  <2>2. QED
    BY <1>0, <2>1 DEF NfInv, NfTyped, NfListens, NfFramesOwn, NfRowsOwn, NfPendingOpen, NfPending
<1>13. QED
  BY <1>1, <1>2, <1>3, <1>4, <1>5, <1>6, <1>7, <1>8, <1>9, <1>10, <1>11, <1>12 DEF NfNext

\* connection.ts, "the same request shows up twice": whatever is sent again on one
\* XMLHttpRequest, replayed to a new, filled or cleared page, or pushed out of the list, an
\* exchange has one row, with its own outcome unless the app used the object of it for another;
\* and with nothing on the way, a row that says pending is of an exchange that runs, was dropped
\* by a later open() on its object, or was replayed after the page had been told its end.
THEOREM RowsAreHonest == NfSpec => []NfRowsHonest
<1>1. NfInv => NfRowsHonest
  <2> SUFFICES ASSUME NfInv
               PROVE  NfRowsHonest
    OBVIOUS
  <2>1. /\ nfRows \in Seq(NfRowSet(nfVia)) /\ NfDistinct(nfRows) /\ DOMAIN nfRows = 1..Len(nfRows)
        /\ NfPendingOpen
    BY LenProperties DEF NfInv, NfRowsOwn
  <2>2. \A i \in 1..Len(nfRows) : nfRows[i] \in NfRowSet(nfVia)
    BY <2>1, ElementOfSeq
  <2>3. \A i, j \in DOMAIN nfRows : nfRows[i].id = nfRows[j].id => i = j
    BY <2>1 DEF NfDistinct
  <2>4. \A i \in DOMAIN nfRows : nfRows[i].of = nfRows[i].id \/ NfReused(nfRows[i].of, nfRows[i].id)
    BY <2>1, <2>2 DEF NfRowSet, NfOwn, NfReused
  <2>5. ASSUME NfSettled, NEW row \in NfFiltered(nfRows, {"pending"})
        PROVE  NfStillOpen(row.id) \/ row.id \in nfReplayed
    <3>1. PICK i \in DOMAIN nfRows : row = nfRows[i] /\ NfBucket(row) \in {"pending"}
      BY DEF NfFiltered
    <3>2. row \in NfRowSet(nfVia)
      BY <2>1, <2>2, <3>1
    <3>3. row.outcome = NfNone
      <4>1. row.outcome \in NfOutcomes \/ row.outcome = NfNone
        BY <3>2, NfAssumption DEF NfRowSet
      <4>2. QED
        BY <3>1, <4>1 DEF NfBucket, NfOutcomes
    <3>4. nfEvents = << >>
      BY <2>5 DEF NfSettled
    <3>5. row.id \in NfPending
      BY <2>1, <3>1, <3>3 DEF NfPendingOpen, NfPendingIn
    <3>6. ~NfAnsweredAfter(nfEvents, row.id, 0)
      BY <3>4, EmptySeq DEF NfAnsweredAfter
    <3>7. CASE row.id \in nfRunning \/ row.id \in nfReplayed
      BY <3>7 DEF NfStillOpen
    <3>8. CASE NfDropped(nfVia, row.id)
      <4>1. PICK m \in row.id + 1..Len(nfVia) : nfVia[m] = nfVia[row.id] /\ nfVia[row.id] \in NfXhr
        BY <3>8 DEF NfDropped
      <4>2. row.id \in Nat
        BY <3>2 DEF NfRowSet
      <4>3. m # row.id
        BY <4>1, <4>2
      <4>4. QED
        BY <4>1, <4>3 DEF NfReused, NfStillOpen
    <3>9. QED
      BY <3>5, <3>6, <3>7, <3>8 DEF NfOpen, NfPending
  <2>6. QED
    BY <2>3, <2>4, <2>5 DEF NfRowsHonest
<1>2. QED
  BY <1>1, NfInvInit, NfInvStep, PTL DEF NfSpec

-----------------------------------------------------------------------------
(* The navigation tab *)

NvTransit(f) == f.type = "nav/transition"
NvLive == {f \in ToSet(nvEvents) : f # NvConnected}
NvFetched == UNION {ToSet(nvFetches[i].frames) : i \in 1..Len(nvFetches)}
NvKnown == NvLive \cup nvCache \cup NvFetched

\* Transitions have numbers, and a number is of one route.
NvKeyed(known, sent) ==
  /\ \A f \in known : f.type \in {"nav/state", "nav/transition"}
  /\ \A f \in known : NvTransit(f) => f.n \in 1..sent
  /\ \A f, g \in known : NvTransit(f) /\ NvTransit(g) /\ f.n = g.n => f.key = g.key

\* What is counted is counted once, and the graph has the key of the last of it.
NvSound(shown, known, sent) ==
  /\ "last" \in DOMAIN shown.graph
  /\ DOMAIN shown.counted \subseteq 1..sent
  /\ \A m \in DOMAIN shown.counted : shown.counted[m] \in {0, 1}
  /\ \A f \in known :
       NvTransit(f) /\ f.n \in DOMAIN shown.counted /\ (\A m \in DOMAIN shown.counted : m <= f.n)
         => f.key = shown.graph.last

NvOnePerType(frames) ==
  /\ \A f \in frames : f.type \in {"nav/state", "nav/transition"}
  /\ \A f, g \in frames : f.type = g.type => f = g

NvOrdered(frames) ==
  \A i, j \in 1..Len(frames) : i < j /\ NvTransit(frames[i]) /\ NvTransit(frames[j]) => frames[i].n < frames[j].n

NvTyped == nvSent \in Nat /\ (\E S : nvEvents \in Seq(S))

NvFetchFits(f) == (\E S : f.frames \in Seq(S)) /\ NvOnePerType(ToSet(f.frames))
NvFetchesFit == (\E S : nvFetches \in Seq(S)) /\ \A i \in 1..Len(nvFetches) : NvFetchFits(nvFetches[i])

NvFramesFit ==
  /\ NvKeyed(NvKnown, nvSent)
  /\ NvOnePerType(nvCache) /\ NvFetchesFit
  /\ NvOrdered(nvEvents)

\* Unless the replay crossed, what is still to come is not older than what is counted.
NvGraphSound ==
  ~nvCrossed =>
    /\ NvSound(NvShown, NvKnown, nvSent)
    /\ \A i \in 1..Len(nvEvents) : NvTransit(nvEvents[i]) => \A m \in DOMAIN nvApplied : m <= nvEvents[i].n

NvInv == NvTyped /\ NvFramesFit /\ NvGraphSound

\* A frame that is not older than what is counted is counted, or is the last that was.
LEMMA NvStepSound ==
  ASSUME NEW known, NEW sent \in Nat, NvKeyed(known, sent), NEW shown, NvSound(shown, known, sent),
         NEW f \in known, f.type \in {"nav/state", "nav/transition"},
         NvTransit(f) => \A m \in DOMAIN shown.counted : m <= f.n
  PROVE  /\ NvSound(NvStep(shown, f), known, sent)
         /\ DOMAIN NvStep(shown, f).counted \subseteq
              DOMAIN shown.counted \cup (IF NvTransit(f) THEN {f.n} ELSE {})
<1> DEFINE g == shown.graph
           counted == shown.counted
           next == NvStep(shown, f)
<1>1. CASE ~NvTransit(f)
  <2>1. next.counted = counted /\ next.graph = NvApplyState(g, f)
    BY <1>1 DEF NvStep, NvApply, NvTransit
  <2>2. "last" \in DOMAIN g
    BY DEF NvSound
  <2> HIDE DEF g, next, counted
  <2>3. DOMAIN NvApplyState(g, f) = DOMAIN g /\ NvApplyState(g, f).last = g.last
    BY <2>2 DEF NvApplyState
  <2>4. NvSound(next, known, sent)
    BY <2>1, <2>2, <2>3 DEF NvSound, g, counted
  <2>5. QED
    BY <2>1, <2>4 DEF next, counted
<1>2. CASE NvTransit(f) /\ f.key = g.last
  <2>1. next.counted = counted /\ next.graph = g
    BY <1>2 DEF NvStep, NvApply, NvApplyTransition, NvIsReplay, NvTransit
  <2>2. QED
    BY <2>1 DEF NvSound
<1>3. CASE NvTransit(f) /\ f.key # g.last
  <2>1. next.counted = NvCount(counted, f.n) /\ next.graph = NvApplyTransition(g, f)
    BY <1>3 DEF NvStep, NvApply, NvIsReplay, NvTransit
  <2>2. f.n \notin DOMAIN counted
    BY <1>3 DEF NvSound
  <2>3. "last" \in DOMAIN next.graph /\ next.graph.last = f.key
    BY <1>3, <2>1 DEF NvApplyTransition, NvIsReplay
  <2>4. f.n \in 1..sent /\ DOMAIN counted \subseteq 1..sent
        /\ \A m \in DOMAIN counted : counted[m] \in {0, 1} /\ m <= f.n
    BY <1>3 DEF NvKeyed, NvSound
  <2> HIDE DEF g, next, counted
  <2>5. DOMAIN next.counted = DOMAIN counted \cup {f.n}
    BY <2>1 DEF NvCount, NvEntered
  <2>6. \A m \in DOMAIN next.counted : next.counted[m] \in {0, 1}
    <3>1. next.counted[f.n] = 1
      BY <2>1, <2>2 DEF NvCount, NvEntered
    <3>2. \A m \in DOMAIN counted : next.counted[m] = counted[m]
      BY <2>1, <2>2 DEF NvCount, NvEntered
    <3>3. QED
      BY <2>4, <2>5, <3>1, <3>2
  <2>7. ASSUME NEW h \in known, NvTransit(h), h.n \in DOMAIN next.counted,
               \A m \in DOMAIN next.counted : m <= h.n
        PROVE  h.key = next.graph.last
    <3>1. f.n <= h.n /\ h.n <= f.n
      BY <2>4, <2>5, <2>7
    <3>2. h.n = f.n
      BY <2>4, <2>5, <2>7, <3>1
    <3>3. QED
      BY <1>3, <2>3, <2>7, <3>2 DEF NvKeyed
  <2>8. NvSound(next, known, sent)
    BY <2>3, <2>4, <2>5, <2>6, <2>7 DEF NvSound
  <2>9. QED
    BY <1>3, <2>5, <2>8 DEF next, counted
<1>4. QED
  BY <1>1, <1>2, <1>3

\* A report is of one state at most, and of one transition, the next.
LEMMA NvFramesOne ==
  ASSUME NEW last, NEW stack, NEW attaching \in BOOLEAN
  PROVE  /\ \E S : NvFrames(last, stack, attaching) \in Seq(S)
         /\ Len(NvTransitionFrame(last, stack)) \in {0, 1}
         /\ \A i \in 1..Len(NvFrames(last, stack, attaching)) :
              /\ NvFrames(last, stack, attaching)[i].type \in {"nav/state", "nav/transition"}
              /\ NvTransit(NvFrames(last, stack, attaching)[i]) =>
                   /\ NvFrames(last, stack, attaching)[i].n = nvSent + 1
                   /\ Len(NvTransitionFrame(last, stack)) = 1
         /\ \A i, j \in 1..Len(NvFrames(last, stack, attaching)) :
              NvFrames(last, stack, attaching)[i].type = NvFrames(last, stack, attaching)[j].type => i = j
<1> DEFINE frames == NvFrames(last, stack, attaching)
           T == NvTransitionFrame(last, stack)
<1>1. PICK s : NvStateFrame(stack) = <<s>> /\ s.type = "nav/state"
  <2> DEFINE u == [type |-> "nav/state", names |-> [i \in DOMAIN stack |-> stack[i].name],
                   active |-> Last(stack).name]
  <2>1. NvStateFrame(stack) = <<u>> /\ u.type = "nav/state"
    BY DEF NvStateFrame
  <2> HIDE DEF u
  <2>2. QED
    BY <2>1
<1>2. PICK t : (T = << >> \/ T = <<t>>) /\ t.type = "nav/transition" /\ t.n = nvSent + 1
  <2> DEFINE u == [type |-> "nav/transition", from |-> IF last = NvNone THEN NvNone ELSE last.name,
                   to |-> Last(stack).name, key |-> NvKey(Last(stack)), n |-> nvSent + 1]
  <2>1. (T = << >> \/ T = <<u>>) /\ u.type = "nav/transition" /\ u.n = nvSent + 1
    BY DEF NvTransitionFrame
  <2> HIDE DEF u, T
  <2>2. QED
    BY <2>1
<1>3. frames = <<s>> \o T \/ frames = T \/ frames = T \o <<s>>
  BY <1>1 DEF NvFrames
<1> HIDE DEF frames, T
<1>4. \/ frames = <<s>> \/ frames = << >>
      \/ T = <<t>> /\ (frames = <<s, t>> \/ frames = <<t>> \/ frames = <<t, s>>)
  <2>1. /\ <<s>> \o << >> = <<s>> /\ << >> \o <<s>> = <<s>>
        /\ <<s>> \o <<t>> = <<s, t>> /\ <<t>> \o <<s>> = <<t, s>>
    BY PairJoined, OneJoined
  <2>2. QED
    BY <1>2, <1>3, <2>1
<1>5. frames \in Seq({s, t})
  <2>1. << >> \in Seq({s, t}) /\ <<s>> \in Seq({s, t}) /\ <<t>> \in Seq({s, t})
    BY EmptySeq, OneFits
  <2>2. <<s, t>> \in Seq({s, t}) /\ <<t, s>> \in Seq({s, t})
    OBVIOUS
  <2>3. QED
    BY <1>4, <2>1, <2>2
<1>6. Len(T) \in {0, 1} /\ (T = <<t>> => Len(T) = 1)
  BY <1>2
<1>7. \A i \in 1..Len(frames) : frames[i] \in {s, t} /\ (frames[i] = t => T = <<t>>)
  BY <1>1, <1>2, <1>4
<1>8. \A i, j \in 1..Len(frames) : frames[i].type = frames[j].type => i = j
  BY <1>1, <1>2, <1>4
<1>9. /\ \E S : frames \in Seq(S)
      /\ Len(T) \in {0, 1}
      /\ \A i \in 1..Len(frames) : /\ frames[i].type \in {"nav/state", "nav/transition"}
                                   /\ NvTransit(frames[i]) => frames[i].n = nvSent + 1 /\ Len(T) = 1
  BY <1>1, <1>2, <1>5, <1>6, <1>7 DEF NvTransit
<1>10. QED
  BY <1>8, <1>9 DEF frames, T

LEMMA ToSetIs ==
  ASSUME NEW S, NEW s \in Seq(S)
  PROVE  ToSet(s) = {s[i] : i \in 1..Len(s)}
<1>1. DOMAIN s = 1..Len(s)
  BY LenProperties
<1>2. QED
  BY <1>1 DEF ToSet

\* One frame of a type at most: two frames at most.
LEMMA NvFinite ==
  ASSUME NEW T, NvOnePerType(T)
  PROVE  IsFiniteSet(T)
<1>1. \E s, t : T \subseteq {s, t}
  <2> DEFINE s == CHOOSE f \in T : f.type = "nav/state"
             t == CHOOSE f \in T : f.type = "nav/transition"
  <2>1. ASSUME NEW f \in T
        PROVE  f \in {s, t}
    <3>1. CASE f.type = "nav/state"
      <4>1. s \in T /\ s.type = "nav/state"
        BY <3>1
      <4>2. QED
        BY <3>1, <4>1 DEF NvOnePerType
    <3>2. CASE f.type = "nav/transition"
      <4>1. t \in T /\ t.type = "nav/transition"
        BY <3>2
      <4>2. QED
        BY <3>2, <4>1 DEF NvOnePerType
    <3>3. QED
      BY <3>1, <3>2 DEF NvOnePerType
  <2> HIDE DEF s, t
  <2>2. QED
    BY <2>1
<1>2. PICK s, t : T \subseteq {s, t}
  BY <1>1
<1>3. IsFiniteSet({s} \cup {t})
  BY FS_Singleton, FS_AddElement
<1>4. T \subseteq {s} \cup {t}
  BY <1>2
<1>5. QED
  BY <1>3, <1>4, FS_Subset

LEMMA NvFetchPut ==
  ASSUME NvFetchesFit, NEW i \in DOMAIN nvFetches, NEW f, NvFetchFits(f), nvFetches' = [nvFetches EXCEPT ![i] = f]
  PROVE  NvFetchesFit' /\ NvFetched' \subseteq NvFetched \cup ToSet(f.frames)
<1>1. PICK S : nvFetches \in Seq(S)
  BY DEF NvFetchesFit
<1> DEFINE T == S \cup {f}
<1>2. nvFetches \in Seq(T) /\ f \in T
  BY <1>1, SeqMonotonic
<1> HIDE DEF T
<1>3. i \in 1..Len(nvFetches)
  BY <1>1, LenProperties
<1>4. /\ nvFetches' \in Seq(T) /\ Len(nvFetches') = Len(nvFetches)
      /\ \A j \in 1..Len(nvFetches) : nvFetches'[j] = IF j = i THEN f ELSE nvFetches[j]
  BY <1>2, <1>3, ExceptSeq
<1>5. NvFetchesFit'
  <2>1. \A j \in 1..Len(nvFetches') : NvFetchFits(nvFetches'[j])
    BY <1>4 DEF NvFetchesFit
  <2>2. QED
    BY <1>4, <2>1 DEF NvFetchesFit
<1>6. \A j \in 1..Len(nvFetches') : ToSet(nvFetches'[j].frames) \subseteq NvFetched \cup ToSet(f.frames)
  BY <1>4 DEF NvFetched
<1>7. QED
  BY <1>5, <1>6 DEF NvFetched

LEMMA NvFetchAdd ==
  ASSUME NvFetchesFit, NEW f, NvFetchFits(f), nvFetches' = Append(nvFetches, f)
  PROVE  NvFetchesFit' /\ NvFetched' \subseteq NvFetched \cup ToSet(f.frames)
<1>1. PICK S : nvFetches \in Seq(S)
  BY DEF NvFetchesFit
<1> DEFINE T == S \cup {f}
<1>2. nvFetches \in Seq(T) /\ f \in T
  BY <1>1, SeqMonotonic
<1> HIDE DEF T
<1>3. Len(nvFetches) \in Nat
  BY <1>1, LenProperties
<1>4. /\ nvFetches' \in Seq(T) /\ Len(nvFetches') = Len(nvFetches) + 1
      /\ \A j \in 1..Len(nvFetches) : nvFetches'[j] = nvFetches[j]
      /\ nvFetches'[Len(nvFetches) + 1] = f
  BY <1>2, AppendProperties
<1>5. \A j \in 1..Len(nvFetches') : nvFetches'[j] = f \/ (j \in 1..Len(nvFetches) /\ nvFetches'[j] = nvFetches[j])
  BY <1>3, <1>4
<1>6. NvFetchesFit'
  <2>1. \A j \in 1..Len(nvFetches') : NvFetchFits(nvFetches'[j])
    BY <1>5 DEF NvFetchesFit
  <2>2. QED
    BY <1>4, <2>1 DEF NvFetchesFit
<1>7. \A j \in 1..Len(nvFetches') : ToSet(nvFetches'[j].frames) \subseteq NvFetched \cup ToSet(f.frames)
  BY <1>5 DEF NvFetched
<1>8. QED
  BY <1>6, <1>7 DEF NvFetched

\* A call that has no frames, yet or any more.
LEMMA NvFetchBlank ==
  ASSUME NEW stage
  PROVE  NvFetchFits(NvFetch(stage, << >>)) /\ ToSet(NvFetch(stage, << >>).frames) = {}
<1>1. NvFetch(stage, << >>).frames = << >>
  BY DEF NvFetch
<1>2. << >> \in Seq({}) /\ ToSet(<< >>) = {}
  BY EmptySeq DEF ToSet
<1> DEFINE f == NvFetch(stage, << >>)
<1> HIDE DEF f
<1>3. f.frames = << >> => NvFetchFits(f) /\ ToSet(f.frames) = {}
  BY <1>2 DEF NvFetchFits, NvOnePerType
<1>4. QED
  BY <1>1, <1>3 DEF f

LEMMA NvInvInit == NvInit => NvInv
<1> SUFFICES ASSUME NvInit
             PROVE  NvInv
  OBVIOUS
<1>0. /\ nvSent = 0 /\ nvEvents = << >> /\ nvCache = {} /\ nvFetches = << >>
      /\ nvApplied = << >> /\ nvGraph = NvEmpty
  BY DEF NvInit
<1>1. << >> \in Seq({}) /\ Len(<< >>) = 0 /\ ToSet(<< >>) = {} /\ DOMAIN << >> = {} /\ 1..0 = {}
  BY EmptySeq DEF ToSet
<1>2. NvKnown = {}
  BY <1>0, <1>1 DEF NvKnown, NvLive, NvFetched
<1>3. NvTyped
  BY <1>0, <1>1 DEF NvTyped
<1>4. NvFramesFit
  BY <1>0, <1>1, <1>2 DEF NvFramesFit, NvFetchesFit, NvKeyed, NvOnePerType, NvOrdered
<1>5. NvGraphSound
  BY <1>0, <1>1, <1>2 DEF NvGraphSound, NvSound, NvShown, NvEmpty
<1>6. QED
  BY <1>3, <1>4, <1>5 DEF NvInv

LEMMA NvReportFits ==
  ASSUME NvInv, NEW last, NEW stack, NEW attaching \in BOOLEAN, NvReport(last, stack, attaching)
  PROVE  NvInv'
<1> DEFINE frames == NvFrames(last, stack, attaching)
           T == NvTransitionFrame(last, stack)
           known == NvLive \cup nvCache \cup NvFetched
<1>1. /\ nvSent' = nvSent + Len(T) /\ nvEvents' = nvEvents \o frames
      /\ nvCache' = {f \in nvCache : \A g \in ToSet(frames) : g.type # f.type} \cup ToSet(frames)
      /\ UNCHANGED <<nvFetches, nvGraph, nvApplied, nvCrossed>>
  BY DEF NvReport, nvPage
<1>2. /\ \E S : frames \in Seq(S)
      /\ Len(T) \in {0, 1}
      /\ \A i \in 1..Len(frames) : /\ frames[i].type \in {"nav/state", "nav/transition"}
                                   /\ NvTransit(frames[i]) => frames[i].n = nvSent + 1 /\ Len(T) = 1
      /\ \A i, j \in 1..Len(frames) : frames[i].type = frames[j].type => i = j
  BY NvFramesOne
<1> HIDE DEF frames, T
<1>3. PICK S : nvEvents \in Seq(S) /\ frames \in Seq(S)
  <2>1. PICK A : nvEvents \in Seq(A)
    BY DEF NvInv, NvTyped
  <2>2. PICK B : frames \in Seq(B)
    BY <1>2
  <2>3. nvEvents \in Seq(A \cup B) /\ frames \in Seq(A \cup B)
    BY <2>1, <2>2, SeqMonotonic
  <2>4. QED
    BY <2>3
<1> DEFINE L == Len(nvEvents)
<1>4. /\ L \in Nat /\ Len(frames) \in Nat /\ nvSent \in Nat /\ nvSent' \in nvSent..nvSent + 1
  <2>1. L \in Nat /\ Len(frames) \in Nat
    BY <1>3, LenProperties
  <2>2. nvSent \in Nat
    BY DEF NvInv, NvTyped
  <2>3. nvSent' = nvSent \/ nvSent' = nvSent + 1
    <3> DEFINE l == Len(T)
    <3>1. l \in {0, 1} /\ nvSent' = nvSent + l
      BY <1>1, <1>2
    <3> HIDE DEF l
    <3>2. QED
      BY ONLY <2>2, <3>1
  <2>4. QED
    BY <2>1, <2>2, <2>3
<1>5. /\ nvEvents' \in Seq(S) /\ Len(nvEvents') = L + Len(frames)
      /\ \A i \in 1..L + Len(frames) : nvEvents'[i] = IF i <= L THEN nvEvents[i] ELSE frames[i - L]
  BY <1>1, <1>3, ConcatProperties
<1> HIDE DEF L
<1>6. ToSet(frames) = {frames[i] : i \in 1..Len(frames)}
  BY <1>3, ToSetIs
<1>7. \A f \in ToSet(frames) : NvTransit(f) => f.n = nvSent + 1 /\ nvSent' = nvSent + 1
  BY <1>1, <1>2, <1>6
<1>8. NvOnePerType(ToSet(frames))
  BY <1>2, <1>6 DEF NvOnePerType
<1>9. NvKnown' \subseteq known \cup ToSet(frames)
  <2>1. ToSet(nvEvents') \subseteq ToSet(nvEvents) \cup ToSet(frames)
    <3>1. /\ ToSet(nvEvents') = {nvEvents'[i] : i \in 1..Len(nvEvents')}
          /\ ToSet(nvEvents) = {nvEvents[i] : i \in 1..L}
      BY <1>3, <1>5, ToSetIs DEF L
    <3>2. ASSUME NEW i \in 1..Len(nvEvents')
          PROVE  nvEvents'[i] \in ToSet(nvEvents) \cup ToSet(frames)
      <4>1. CASE i <= L
        BY <1>4, <1>5, <3>1, <4>1
      <4>2. CASE i > L
        <5>1. i - L \in 1..Len(frames) /\ nvEvents'[i] = frames[i - L]
          BY <1>4, <1>5, <4>2
        <5>2. QED
          BY <1>6, <5>1
      <4>3. QED
        BY <1>4, <1>5, <4>1, <4>2
    <3>3. QED
      BY <3>1, <3>2
  <2>2. QED
    BY <1>1, <2>1 DEF NvKnown, NvLive, NvFetched
<1>10. \A f \in known : NvTransit(f) => f.n \in 1..nvSent
  BY DEF NvInv, NvFramesFit, NvKnown, NvKeyed
<1>11. NvKeyed(known, nvSent)
  BY DEF NvInv, NvFramesFit, NvKnown
<1> HIDE DEF known
<1>12. NvKeyed(NvKnown', nvSent')
  <2>1. \A f \in known \cup ToSet(frames) : NvTransit(f) => f.n \in 1..nvSent'
    BY <1>4, <1>7, <1>10
  <2>2. ASSUME NEW f \in known \cup ToSet(frames), NEW g \in known \cup ToSet(frames),
               NvTransit(f), NvTransit(g), f.n = g.n
        PROVE  f.key = g.key
    <3>1. CASE f \in known /\ g \in known
      BY <1>11, <2>2, <3>1 DEF NvKeyed
    <3>2. CASE f \in ToSet(frames) /\ g \in ToSet(frames)
      BY <1>8, <2>2, <3>2 DEF NvOnePerType, NvTransit
    <3>3. CASE f \in known /\ g \in ToSet(frames)
      BY <1>4, <1>7, <1>10, <2>2, <3>3
    <3>4. CASE f \in ToSet(frames) /\ g \in known
      BY <1>4, <1>7, <1>10, <2>2, <3>4
    <3>5. QED
      BY <2>2, <3>1, <3>2, <3>3, <3>4
  <2>3. \A f \in known \cup ToSet(frames) : f.type \in {"nav/state", "nav/transition"}
    BY <1>8, <1>11 DEF NvKeyed, NvOnePerType
  <2>4. QED
    BY <1>9, <2>1, <2>2, <2>3 DEF NvKeyed
<1>13. NvOnePerType(nvCache')
  <2>1. NvOnePerType(nvCache)
    BY DEF NvInv, NvFramesFit
  <2>2. QED
    BY <1>1, <1>8, <2>1 DEF NvOnePerType
<1>14. NvOrdered(nvEvents')
  <2> SUFFICES ASSUME NEW i \in 1..Len(nvEvents'), NEW j \in 1..Len(nvEvents'), i < j,
                      NvTransit(nvEvents'[i]), NvTransit(nvEvents'[j])
               PROVE  nvEvents'[i].n < nvEvents'[j].n
    BY DEF NvOrdered
  <2>1. CASE j <= L
    <3>1. i \in 1..L /\ j \in 1..L /\ nvEvents'[i] = nvEvents[i] /\ nvEvents'[j] = nvEvents[j]
      BY <1>4, <1>5, <2>1
    <3>2. NvOrdered(nvEvents)
      BY DEF NvInv, NvFramesFit
    <3>3. QED
      BY <3>1, <3>2 DEF NvOrdered, L
  <2>2. CASE i <= L /\ j > L
    <3> DEFINE k == j - L
    <3>1. i \in 1..L /\ nvEvents'[i] = nvEvents[i] /\ k \in 1..Len(frames) /\ nvEvents'[j] = frames[k]
      BY <1>4, <1>5, <2>2
    <3>2. nvEvents[i] \in known
      <4>1. nvEvents[i] \in ToSet(nvEvents) /\ nvEvents[i] # NvConnected
        BY <1>3, <3>1, ToSetIs DEF L, NvTransit, NvConnected
      <4>2. QED
        BY <4>1 DEF known, NvLive
    <3>3. frames[k].n = nvSent + 1
      BY <1>2, <3>1
    <3>4. QED
      BY <1>4, <1>10, <3>1, <3>2, <3>3
  <2>3. CASE i > L
    <3> DEFINE k == j - L
               m == i - L
    <3>1. /\ k \in 1..Len(frames) /\ nvEvents'[j] = frames[k]
          /\ m \in 1..Len(frames) /\ nvEvents'[i] = frames[m] /\ m # k
      BY <1>4, <1>5, <2>3
    <3> HIDE DEF k, m
    <3>2. frames[m].type = frames[k].type
      BY <3>1 DEF NvTransit
    <3>3. QED
      BY <1>2, <3>1, <3>2
  <2>4. QED
    BY <1>4, <1>5, <2>1, <2>2, <2>3
<1>15. NvFramesFit'
  <2>1. NvFetchesFit'
    BY <1>1 DEF NvInv, NvFramesFit, NvFetchesFit
  <2>2. QED
    BY <1>12, <1>13, <1>14, <2>1 DEF NvFramesFit
<1>16. NvTyped'
  BY <1>1, <1>4, <1>5 DEF NvInv, NvTyped
<1>17. NvGraphSound'
  <2> SUFFICES ASSUME ~nvCrossed'
               PROVE  NvGraphSound'
    BY DEF NvGraphSound
  <2>1. /\ NvSound(NvShown, known, nvSent)
        /\ \A i \in 1..L : NvTransit(nvEvents[i]) => \A m \in DOMAIN nvApplied : m <= nvEvents[i].n
    BY <1>1 DEF NvInv, NvGraphSound, NvKnown, known, L
  <2>2. NvShown' = NvShown /\ NvShown.counted = nvApplied /\ nvApplied' = nvApplied
    BY <1>1 DEF NvShown
  <2>3. DOMAIN nvApplied \subseteq 1..nvSent
    BY <2>1, <2>2 DEF NvSound
  <2>4. NvSound(NvShown, NvKnown', nvSent')
    <3>1. \A f \in ToSet(frames) : NvTransit(f) => f.n \notin DOMAIN nvApplied
      BY <1>4, <1>7, <2>3
    <3>2. DOMAIN nvApplied \subseteq 1..nvSent'
      BY <1>4, <2>3
    <3>3. QED
      BY <1>9, <2>1, <2>2, <3>1, <3>2 DEF NvSound
  <2>5. ASSUME NEW i \in 1..Len(nvEvents'), NvTransit(nvEvents'[i]), NEW m \in DOMAIN nvApplied
        PROVE  m <= nvEvents'[i].n
    <3>1. CASE i <= L
      BY <1>4, <1>5, <2>1, <2>5, <3>1
    <3>2. CASE i > L
      <4> DEFINE k == i - L
      <4>1. k \in 1..Len(frames) /\ nvEvents'[i] = frames[k]
        BY <1>4, <1>5, <3>2
      <4>2. frames[k].n = nvSent + 1
        BY <1>2, <2>5, <4>1
      <4>3. QED
        BY <1>4, <2>3, <4>1, <4>2
    <3>3. QED
      BY <1>4, <1>5, <3>1, <3>2
  <2>6. QED
    BY <2>2, <2>4, <2>5 DEF NvGraphSound
<1>18. QED
  BY <1>15, <1>16, <1>17 DEF NvInv

IsStepping(f, shown, frames, n) == f = [i \in 0..n |-> IF i = 0 THEN shown ELSE NvStep(f[i - 1], frames[i])]

\* The function by which NvStepped is defined does exist.
LEMMA SteppingDefined ==
  ASSUME NEW shown, NEW frames, NEW m \in Nat
  PROVE  \E f : IsStepping(f, shown, frames, m)
<1> DEFINE Is(n, f) == f = [i \in 0..n |-> IF i = 0 THEN shown ELSE NvStep(f[i - 1], frames[i])]
           P == {n \in Nat : \E f : Is(n, f)}
<1>1. 0 \in P
  <2> DEFINE f == [i \in 0..0 |-> shown]
  <2>1. Is(0, f)
    OBVIOUS
  <2>2. QED
    BY <2>1
<1>2. ASSUME NEW n \in Nat, n \in P
      PROVE  n + 1 \in P
  <2>1. PICK f : Is(n, f)
    BY <1>2
  <2> DEFINE g == [i \in 0..n + 1 |-> IF i = n + 1 THEN NvStep(f[n], frames[n + 1]) ELSE f[i]]
  <2>2. ASSUME NEW i \in 0..n + 1
        PROVE  g[i] = IF i = 0 THEN shown ELSE NvStep(g[i - 1], frames[i])
    <3>1. CASE i = 0
      BY <2>1, <3>1
    <3>2. CASE i # 0
      <4>1. i - 1 \in 0..n + 1 /\ i - 1 # n + 1 /\ g[i - 1] = f[i - 1]
        BY <3>2
      <4>2. CASE i = n + 1
        BY <3>2, <4>1, <4>2
      <4>3. CASE i # n + 1
        <5>1. i \in 0..n /\ g[i] = f[i]
          BY <4>3
        <5>2. f[i] = NvStep(f[i - 1], frames[i])
          BY <2>1, <3>2, <5>1
        <5>3. QED
          BY <3>2, <4>1, <5>1, <5>2
      <4>4. QED
        BY <4>2, <4>3
    <3>3. QED
      BY <3>1, <3>2
  <2>3. Is(n + 1, g)
    BY <2>2
  <2> HIDE DEF Is, g
  <2>4. QED
    BY <2>3
<1> HIDE DEF Is
<1>3. Nat \subseteq P
  BY <1>1, <1>2, SetInduction
<1>4. QED
  BY <1>3 DEF Is, IsStepping

\* A replay that does not cross adds its one transition.
LEMMA NvHydrateSound ==
  ASSUME NEW known, NEW sent \in Nat, NvKeyed(known, sent), NEW shown, NvSound(shown, known, sent),
         NEW S, NEW frames \in Seq(S), ToSet(frames) \subseteq known, NvOnePerType(ToSet(frames)),
         \A f \in NvTransitions(frames) : \A m \in DOMAIN shown.counted : m <= f.n,
         NEW after, IsStepping(after, shown, frames, Len(frames))
  PROVE  /\ NvSound(after[Len(frames)], known, sent)
         /\ DOMAIN after[Len(frames)].counted \subseteq
              DOMAIN shown.counted \cup {f.n : f \in NvTransitions(frames)}
<1> DEFINE n == Len(frames)
           ids == {f.n : f \in NvTransitions(frames)}
           Fit(s) == NvSound(s, known, sent) /\ DOMAIN s.counted \subseteq DOMAIN shown.counted \cup ids
           P == {i \in Nat : i <= n => Fit(after[i])}
<1>1. n \in Nat /\ ToSet(frames) = {frames[i] : i \in 1..n}
  BY LenProperties, ToSetIs
<1>2. \A f, g \in NvTransitions(frames) : f = g
  BY DEF NvTransitions, NvOnePerType
<1>3. ASSUME NEW s, Fit(s), NEW f \in ToSet(frames)
      PROVE  Fit(NvStep(s, f))
  <2>1. NvTransit(f) <=> f \in NvTransitions(frames)
    BY DEF NvTransit, NvTransitions
  <2>2. NvTransit(f) => f.n \in 1..sent /\ f.n \in ids
    BY <2>1 DEF NvKeyed
  <2>3. NvTransit(f) => \A m \in DOMAIN s.counted : m <= f.n
    BY <1>2, <1>3, <2>1, <2>2
  <2>4. f \in known /\ f.type \in {"nav/state", "nav/transition"}
    BY DEF NvOnePerType
  <2> HIDE DEF ids
  <2>5. /\ NvSound(NvStep(s, f), known, sent)
        /\ DOMAIN NvStep(s, f).counted \subseteq DOMAIN s.counted \cup (IF NvTransit(f) THEN {f.n} ELSE {})
    BY <1>3, <2>3, <2>4, NvStepSound
  <2>6. QED
    BY <1>3, <2>2, <2>5
<1>4. after = [i \in 0..n |-> IF i = 0 THEN shown ELSE NvStep(after[i - 1], frames[i])]
  BY DEF IsStepping
<1>5. Fit(shown)
  OBVIOUS
<1> HIDE DEF n, Fit, ids
<1>6. 0 \in P
  <2>1. after[0] = shown
    BY <1>1, <1>4
  <2>2. QED
    BY <1>5, <2>1
<1>7. ASSUME NEW i \in Nat, i \in P
      PROVE  i + 1 \in P
  <2>1. SUFFICES ASSUME i + 1 <= n
                 PROVE  Fit(after[i + 1])
    OBVIOUS
  <2> DEFINE j == i + 1
  <2>2. Fit(after[i]) /\ j \in 1..n /\ j \in 0..n /\ j # 0 /\ j - 1 = i
    BY <1>1, <1>7, <2>1
  <2> HIDE DEF j
  <2>3. after[j] = NvStep(after[i], frames[j])
    BY <1>4, <2>2
  <2>4. Fit(after[j])
    BY <1>1, <1>3, <2>2, <2>3
  <2>5. QED
    BY <2>4 DEF j
<1>8. Nat \subseteq P
  <2> HIDE DEF P
  <2>1. QED
    BY <1>6, <1>7, SetInduction
<1>9. Fit(after[n])
  BY <1>1, <1>8
<1>10. QED
  BY <1>9 DEF Fit, ids, n

\* With fewer frames known, and none older than what is counted, the graph is as sound.
LEMMA NvFewer ==
  ASSUME NvInv, NvKnown' \subseteq NvKnown, nvSent' = nvSent
  PROVE  NvKeyed(NvKnown', nvSent')
  BY DEF NvInv, NvFramesFit, NvKeyed

LEMMA NvInvStep == NvInv /\ [NvNext]_nvVars => NvInv'
<1> SUFFICES ASSUME NvInv, [NvNext]_nvVars
             PROVE  NvInv'
  OBVIOUS
<1>0. /\ NvTyped /\ NvFramesFit /\ NvGraphSound
      /\ nvSent \in Nat
      /\ NvKeyed(NvKnown, nvSent) /\ NvOnePerType(nvCache) /\ NvFetchesFit
      /\ NvOrdered(nvEvents)
  BY DEF NvInv, NvTyped, NvFramesFit
<1>e. /\ \A S : << >> \in Seq(S)
      /\ Len(<< >>) = 0 /\ ToSet(<< >>) = {} /\ DOMAIN << >> = {}
  BY EmptySeq DEF ToSet
<1>1. CASE NvAttach
  BY <1>1, NvReportFits DEF NvAttach
<1>2. ASSUME NEW s \in NvScreen, NvPush(s)
      PROVE  NvInv'
  <2>1. \E stack : NvReport(nvLast, stack, FALSE)
    BY <1>2 DEF NvPush, NvMove
  <2>2. QED
    BY <2>1, NvReportFits
<1>3. CASE NvPop
  BY <1>3, NvReportFits DEF NvPop, NvMove
<1>4. CASE NvEventArrives
  <2> DEFINE f == Head(nvEvents)
             rest == Tail(nvEvents)
             next == NvStep(NvShown, f)
  <2>1. /\ nvEvents # << >> /\ f # NvConnected /\ nvEvents' = rest /\ nvGraph' = next.graph /\ nvApplied' = next.counted
        /\ UNCHANGED <<nvSent, nvCache, nvFetches, nvCrossed>>
    BY <1>4 DEF NvEventArrives, NvShow, nvApp
  <2>2. PICK S : nvEvents \in Seq(S)
    BY <1>0 DEF NvTyped
  <2>3. /\ f = nvEvents[1] /\ rest \in Seq(S) /\ Len(rest) = Len(nvEvents) - 1
        /\ Len(nvEvents) \in Nat \ {0}
        /\ \A i \in 1..Len(rest) : rest[i] = nvEvents[i + 1]
    <3>1. f = nvEvents[1]
      OBVIOUS
    <3>2. QED
      BY <2>1, <2>2, <3>1, HeadTailProperties, EmptySeq
  <2> HIDE DEF f, rest, next
  <2>4. ToSet(nvEvents) = {nvEvents[i] : i \in 1..Len(nvEvents)} /\ ToSet(rest) = {rest[i] : i \in 1..Len(rest)}
    BY <2>2, <2>3, ToSetIs
  <2>5. f \in ToSet(nvEvents) /\ ToSet(rest) \subseteq ToSet(nvEvents)
    <3>1. f \in ToSet(nvEvents)
      BY <2>3, <2>4
    <3>2. ASSUME NEW i \in 1..Len(rest)
          PROVE  rest[i] \in ToSet(nvEvents)
      <4>1. i + 1 \in 1..Len(nvEvents) /\ rest[i] = nvEvents[i + 1]
        BY <2>3
      <4>2. QED
        BY <2>4, <4>1
    <3>3. QED
      BY <2>4, <3>1, <3>2
  <2>6. NvKnown' \subseteq NvKnown
    BY <2>1, <2>5 DEF NvKnown, NvLive, NvFetched
  <2>7. NvKeyed(NvKnown', nvSent')
    BY <2>1, <2>6, NvFewer
  <2>8. NvOrdered(rest)
    <3> SUFFICES ASSUME NEW i \in 1..Len(rest), NEW j \in 1..Len(rest), i < j,
                        NvTransit(rest[i]), NvTransit(rest[j])
                 PROVE  rest[i].n < rest[j].n
      BY DEF NvOrdered
    <3> DEFINE k == i + 1
               m == j + 1
    <3>1. k \in 1..Len(nvEvents) /\ m \in 1..Len(nvEvents) /\ k < m /\ rest[i] = nvEvents[k] /\ rest[j] = nvEvents[m]
      BY <2>3
    <3> HIDE DEF k, m
    <3>2. QED
      BY <1>0, <3>1 DEF NvOrdered
  <2>9. NvFramesFit'
    BY <1>0, <2>1, <2>7, <2>8 DEF NvFramesFit, NvFetchesFit
  <2>10. NvTyped'
    BY <1>0, <2>1, <2>3 DEF NvTyped
  <2>11. NvGraphSound'
    <3> SUFFICES ASSUME ~nvCrossed'
                 PROVE  NvGraphSound'
      BY DEF NvGraphSound
    <3>1. /\ NvSound(NvShown, NvKnown, nvSent)
          /\ \A i \in 1..Len(nvEvents) :
               NvTransit(nvEvents[i]) => \A m \in DOMAIN nvApplied : m <= nvEvents[i].n
      BY <1>0, <2>1 DEF NvGraphSound
    <3>2. NvShown.counted = nvApplied /\ NvShown' = [graph |-> next.graph, counted |-> next.counted]
      BY <2>1 DEF NvShown
    <3>3. f \in NvKnown
      BY <2>1, <2>5 DEF NvKnown, NvLive
    <3>4. f.type \in {"nav/state", "nav/transition"}
      BY <1>0, <3>3 DEF NvKeyed
    <3>5. NvTransit(f) => \A m \in DOMAIN NvShown.counted : m <= f.n
      BY <2>3, <3>1, <3>2
    <3>6. /\ NvSound(next, NvKnown, nvSent)
          /\ DOMAIN next.counted \subseteq DOMAIN nvApplied \cup (IF NvTransit(f) THEN {f.n} ELSE {})
      BY <1>0, <3>1, <3>2, <3>3, <3>4, <3>5, NvStepSound DEF next
    <3>7. NvSound(NvShown', NvKnown', nvSent')
      BY <2>1, <2>6, <3>2, <3>6 DEF NvSound
    <3>8. ASSUME NEW i \in 1..Len(rest), NvTransit(rest[i]), NEW m \in DOMAIN next.counted
          PROVE  m <= rest[i].n
      <4> DEFINE k == i + 1
      <4>1. k \in 1..Len(nvEvents) /\ 1 < k /\ 1 \in 1..Len(nvEvents) /\ rest[i] = nvEvents[k]
        BY <2>3
      <4> HIDE DEF k
      <4>2. nvEvents[k].n \in 1..nvSent /\ (NvTransit(f) => f.n \in 1..nvSent)
        <5>1. nvEvents[k] \in ToSet(nvEvents) /\ nvEvents[k] # NvConnected
          BY <2>4, <3>8, <4>1 DEF NvTransit, NvConnected
        <5>2. nvEvents[k] \in NvKnown
          BY <5>1 DEF NvKnown, NvLive
        <5>3. QED
          BY <1>0, <3>3, <3>8, <4>1, <5>2 DEF NvKeyed
      <4>3. CASE m \in DOMAIN nvApplied
        BY <3>1, <3>8, <4>1, <4>3
      <4>4. CASE m \notin DOMAIN nvApplied
        <5>1. NvTransit(f) /\ m = f.n
          BY <3>6, <3>8, <4>4
        <5>2. f.n < nvEvents[k].n
          BY <1>0, <2>3, <3>8, <4>1, <5>1 DEF NvOrdered
        <5>3. QED
          BY <4>1, <4>2, <5>1, <5>2
      <4>5. QED
        BY <4>3, <4>4
    <3>9. QED
      BY <2>1, <3>7, <3>8 DEF NvGraphSound
  <2>12. QED
    BY <2>9, <2>10, <2>11 DEF NvInv
<1>5. CASE NvReload
  <2>1. /\ nvEvents' = << >> /\ nvFetches' = <<NvFetch("asked", << >>)>> /\ nvGraph' = NvEmpty /\ nvApplied' = << >>
        /\ UNCHANGED <<nvSent, nvCache>>
    BY <1>5 DEF NvReload, nvApp
  <2>2. NvFetchesFit' /\ NvFetched' = {}
    <3> DEFINE f == NvFetch("asked", << >>)
               fetches == <<f>>
    <3>1. NvFetchFits(f) /\ ToSet(f.frames) = {}
      BY NvFetchBlank
    <3> HIDE DEF f
    <3>2. fetches \in Seq({f}) /\ Len(fetches) = 1 /\ fetches[1] = f
      BY OneFits
    <3>3. nvFetches' = fetches
      BY <2>1 DEF f
    <3> HIDE DEF fetches
    <3>4. \A i \in 1..Len(fetches) : i = 1
      BY <3>2
    <3>5. QED
      BY <3>1, <3>2, <3>3, <3>4 DEF NvFetchesFit, NvFetched
  <2>3. NvKnown' \subseteq NvKnown
    BY <1>e, <2>1, <2>2 DEF NvKnown, NvLive
  <2>4. NvKeyed(NvKnown', nvSent')
    BY <2>1, <2>3, NvFewer
  <2>5. NvTyped' /\ NvFramesFit'
    BY <1>0, <1>e, <2>1, <2>2, <2>4 DEF NvTyped, NvFramesFit, NvOrdered
  <2>6. NvGraphSound'
    BY <1>e, <2>1 DEF NvGraphSound, NvSound, NvShown, NvEmpty
  <2>7. QED
    BY <2>5, <2>6 DEF NvInv
<1>6. ASSUME NEW i \in DOMAIN nvFetches, NvServerAnswers(i)
      PROVE  NvInv'
  <2>1. PICK order \in SetToSeqs(nvCache) : nvFetches' = [nvFetches EXCEPT ![i] = NvFetch("answered", order)]
    BY <1>6 DEF NvServerAnswers
  <2>2. UNCHANGED <<nvSent, nvCache, nvEvents, nvGraph, nvApplied, nvCrossed>>
    BY <1>6 DEF NvServerAnswers, nvApp, nvPage
  <2>3. order \in Seq(nvCache)
    BY <1>0, NvFinite, OrdersFit
  <2>4. ToSet(order) \subseteq nvCache
    BY <2>3, ToSetIs, ElementOfSeq
  <2>5. NvFetchFits(NvFetch("answered", order)) /\ NvFetch("answered", order).frames = order
    <3>1. NvOnePerType(ToSet(order))
      BY <1>0, <2>4 DEF NvOnePerType
    <3>2. QED
      BY <2>3, <3>1 DEF NvFetchFits, NvFetch
  <2>6. NvFetchesFit' /\ NvFetched' \subseteq NvFetched \cup ToSet(order)
    <3> DEFINE f == NvFetch("answered", order)
    <3>1. NvFetchFits(f) /\ f.frames = order /\ nvFetches' = [nvFetches EXCEPT ![i] = f]
      BY <2>1, <2>5
    <3> HIDE DEF f
    <3>2. QED
      BY <1>0, <3>1, NvFetchPut
  <2>7. NvKnown' \subseteq NvKnown
    BY <2>2, <2>4, <2>6 DEF NvKnown, NvLive
  <2>8. NvKeyed(NvKnown', nvSent')
    BY <2>2, <2>7, NvFewer
  <2>9. NvTyped' /\ NvFramesFit'
    BY <1>0, <2>2, <2>6, <2>8 DEF NvTyped, NvFramesFit
  <2>10. NvGraphSound'
    BY <1>0, <2>2, <2>7 DEF NvGraphSound, NvSound, NvShown
  <2>11. QED
    BY <2>9, <2>10 DEF NvInv
<1>7. ASSUME NEW k \in DOMAIN nvFetches, NvHydrate(k)
      PROVE  NvInv'
  <2> DEFINE frames == nvFetches[k].frames
             n == Len(frames)
             after == CHOOSE f : f = [i \in 0..n |-> IF i = 0 THEN NvShown ELSE NvStep(f[i - 1], frames[i])]
             next == after[n]
  <2>1. /\ nvFetches' = [nvFetches EXCEPT ![k] = NvFetch("done", << >>)]
        /\ nvGraph' = next.graph /\ nvApplied' = next.counted
        /\ nvCrossed' = (nvCrossed \/ NvCrosses(NvTransitions(frames)))
        /\ UNCHANGED <<nvSent, nvCache, nvEvents>>
    BY <1>7 DEF NvHydrate, NvStepped, NvShow, nvApp
  <2>a. k \in 1..Len(nvFetches) /\ NvFetchFits(nvFetches[k])
    <3>1. PICK F : nvFetches \in Seq(F)
      BY <1>0 DEF NvFetchesFit
    <3>2. QED
      BY <1>0, <3>1, LenProperties DEF NvFetchesFit
  <2>2. PICK S : frames \in Seq(S)
    BY <2>a DEF NvFetchFits
  <2>3. n \in Nat
    BY <2>2, LenProperties
  <2>4. IsStepping(after, NvShown, frames, n)
    <3> HIDE DEF n, frames
    <3>1. PICK f : IsStepping(f, NvShown, frames, n)
      BY <2>3, SteppingDefined
    <3>2. f = [i \in 0..n |-> IF i = 0 THEN NvShown ELSE NvStep(f[i - 1], frames[i])]
      BY <3>1 DEF IsStepping
    <3>3. after = [i \in 0..n |-> IF i = 0 THEN NvShown ELSE NvStep(after[i - 1], frames[i])]
      BY <3>2
    <3>4. QED
      BY <3>3 DEF IsStepping
  <2> HIDE DEF after
  <2>b. NvFetchesFit' /\ NvFetched' \subseteq NvFetched
    <3> DEFINE f == NvFetch("done", << >>)
    <3>1. NvFetchFits(f) /\ ToSet(f.frames) = {} /\ nvFetches' = [nvFetches EXCEPT ![k] = f]
      BY <2>1, NvFetchBlank
    <3> HIDE DEF f
    <3>2. NvFetchesFit' /\ NvFetched' \subseteq NvFetched \cup ToSet(f.frames)
      BY <1>0, <3>1, NvFetchPut
    <3>3. QED
      BY <3>1, <3>2
  <2>5. NvKnown' \subseteq NvKnown
    BY <2>1, <2>b DEF NvKnown, NvLive
  <2>6. NvKeyed(NvKnown', nvSent')
    BY <2>1, <2>5, NvFewer
  <2>7. NvTyped' /\ NvFramesFit'
    BY <1>0, <2>1, <2>b, <2>6 DEF NvTyped, NvFramesFit
  <2>8. NvGraphSound'
    <3> SUFFICES ASSUME ~nvCrossed'
                 PROVE  NvGraphSound'
      BY DEF NvGraphSound
    <3>1. /\ ~nvCrossed /\ ~NvCrosses(NvTransitions(frames))
          /\ NvSound(NvShown, NvKnown, nvSent)
          /\ \A i \in 1..Len(nvEvents) :
               NvTransit(nvEvents[i]) => \A m \in DOMAIN nvApplied : m <= nvEvents[i].n
      BY <1>0, <2>1 DEF NvGraphSound
    <3>2. NvShown.counted = nvApplied /\ DOMAIN nvApplied \subseteq 1..nvSent
      BY <3>1 DEF NvShown, NvSound
    <3>3. ToSet(frames) \subseteq NvKnown
      BY <2>a DEF NvKnown, NvFetched
    <3>4. \A f \in NvTransitions(frames) : f.n \in 1..nvSent
      BY <1>0, <3>3 DEF NvTransitions, NvKeyed, NvTransit
    <3>5. \A f \in NvTransitions(frames) : \A m \in DOMAIN NvShown.counted : m <= f.n
      <4>1. \A f \in NvTransitions(frames) : \A m \in DOMAIN nvApplied : ~(m > f.n)
        BY <3>1 DEF NvCrosses
      <4>2. QED
        BY <3>2, <3>4, <4>1
    <3>6. /\ NvSound(next, NvKnown, nvSent)
          /\ DOMAIN next.counted \subseteq DOMAIN nvApplied \cup {f.n : f \in NvTransitions(frames)}
      <4> HIDE DEF frames
      <4>1. NvOnePerType(ToSet(frames))
        BY <2>a DEF frames, NvFetchFits
      <4>2. QED
        BY <1>0, <2>2, <2>4, <3>1, <3>2, <3>3, <3>5, <4>1, NvHydrateSound
    <3>7. NvShown' = [graph |-> next.graph, counted |-> next.counted]
      BY <2>1 DEF NvShown
    <3> HIDE DEF next
    <3>8. NvSound(NvShown', NvKnown', nvSent')
      BY <2>1, <2>5, <3>6, <3>7 DEF NvSound
    <3>9. ASSUME NEW i \in 1..Len(nvEvents), NvTransit(nvEvents[i]), NEW m \in DOMAIN next.counted
          PROVE  m <= nvEvents[i].n
      <4>1. PICK E : nvEvents \in Seq(E)
        BY <1>0 DEF NvTyped
      <4>2. nvEvents[i] \in ToSet(nvEvents) /\ nvEvents[i] # NvConnected
        BY <3>9, <4>1, ToSetIs DEF NvTransit, NvConnected
      <4>3. nvEvents[i] \in NvTransitions(nvEvents) /\ nvEvents[i].n \in 1..nvSent
        BY <1>0, <3>9, <4>2 DEF NvTransitions, NvTransit, NvKeyed, NvKnown, NvLive
      <4>4. CASE m \in DOMAIN nvApplied
        BY <3>1, <3>9, <4>4
      <4>5. CASE m \notin DOMAIN nvApplied
        <5>1. PICK f \in NvTransitions(frames) : m = f.n
          BY <3>6, <3>9, <4>5
        <5>2. ~(f.n > nvEvents[i].n)
          BY <3>1, <4>3 DEF NvCrosses
        <5>3. QED
          BY <3>4, <4>3, <5>1, <5>2
      <4>6. QED
        BY <4>4, <4>5
    <3>10. QED
      BY <2>1, <3>8, <3>9 DEF NvGraphSound
  <2>9. QED
    BY <2>7, <2>8 DEF NvInv
<1>8. CASE NvClear
  <2>1. /\ nvGraph' = NvEmpty /\ nvApplied' = << >>
        /\ UNCHANGED <<nvSent, nvCache, nvEvents, nvFetches, nvCrossed>>
    BY <1>8 DEF NvClear, nvApp, nvLink
  <2>2. NvKnown' = NvKnown
    BY <2>1 DEF NvKnown, NvLive, NvFetched
  <2>3. NvTyped' /\ NvFramesFit'
    BY <1>0, <2>1, <2>2 DEF NvTyped, NvFramesFit, NvFetchesFit
  <2>4. NvGraphSound'
    BY <1>e, <2>1 DEF NvGraphSound, NvSound, NvShown, NvEmpty
  <2>5. QED
    BY <2>3, <2>4 DEF NvInv
<1>9. CASE NvConnects
  <2>1. /\ nvEvents' = Append(nvEvents, NvConnected)
        /\ UNCHANGED <<nvSent, nvCache, nvFetches, nvGraph, nvApplied, nvCrossed>>
    BY <1>9 DEF NvConnects, nvApp
  <2>2. PICK S : nvEvents \in Seq(S)
    BY <1>0 DEF NvTyped
  <2> DEFINE T == S \cup {NvConnected}
  <2>3. nvEvents \in Seq(T) /\ NvConnected \in T
    BY <2>2, SeqMonotonic
  <2> HIDE DEF T
  <2>4. /\ nvEvents' \in Seq(T) /\ Len(nvEvents') = Len(nvEvents) + 1 /\ Len(nvEvents) \in Nat
        /\ \A i \in 1..Len(nvEvents) : nvEvents'[i] = nvEvents[i]
        /\ nvEvents'[Len(nvEvents) + 1] = NvConnected
    BY <2>1, <2>3, AppendProperties, LenProperties
  <2>5. \A i \in 1..Len(nvEvents') : NvTransit(nvEvents'[i]) => i \in 1..Len(nvEvents) /\ nvEvents'[i] = nvEvents[i]
    <3>1. ~NvTransit(NvConnected)
      BY DEF NvTransit, NvConnected
    <3>2. \A i \in 1..Len(nvEvents') : i = Len(nvEvents) + 1 \/ i \in 1..Len(nvEvents)
      BY <2>4
    <3>3. QED
      BY <2>4, <3>1, <3>2
  <2>6. NvKnown' \subseteq NvKnown
    <3>1. /\ ToSet(nvEvents') = {nvEvents'[i] : i \in 1..Len(nvEvents')}
          /\ ToSet(nvEvents) = {nvEvents[i] : i \in 1..Len(nvEvents)}
      BY <2>2, <2>4, ToSetIs
    <3>2. \A i \in 1..Len(nvEvents') : nvEvents'[i] = NvConnected \/ nvEvents'[i] \in ToSet(nvEvents)
      <4>1. \A i \in 1..Len(nvEvents') : i = Len(nvEvents) + 1 \/ i \in 1..Len(nvEvents)
        BY <2>4
      <4>2. QED
        BY <2>4, <3>1, <4>1
    <3>3. QED
      BY <2>1, <3>1, <3>2 DEF NvKnown, NvLive, NvFetched
  <2>7. NvKeyed(NvKnown', nvSent')
    BY <2>1, <2>6, NvFewer
  <2>8. NvOrdered(nvEvents')
    BY <1>0, <2>5 DEF NvOrdered
  <2>9. NvTyped' /\ NvFramesFit'
    BY <1>0, <2>1, <2>4, <2>7, <2>8 DEF NvTyped, NvFramesFit, NvFetchesFit
  <2>10. NvGraphSound'
    BY <1>0, <2>1, <2>5, <2>6 DEF NvGraphSound, NvSound, NvShown
  <2>11. QED
    BY <2>9, <2>10 DEF NvInv
<1>10. CASE NvConnectArrives
  <2> DEFINE rest == Tail(nvEvents)
  <2>1. /\ nvEvents # << >> /\ nvEvents' = rest
        /\ nvFetches' = Append(nvFetches, NvFetch("asked", << >>))
        /\ UNCHANGED <<nvSent, nvCache, nvGraph, nvApplied, nvCrossed>>
    BY <1>10 DEF NvConnectArrives, nvApp, nvPage
  <2>2. PICK S : nvEvents \in Seq(S)
    BY <1>0 DEF NvTyped
  <2>3. /\ rest \in Seq(S) /\ Len(rest) = Len(nvEvents) - 1 /\ Len(nvEvents) \in Nat \ {0}
        /\ \A i \in 1..Len(rest) : rest[i] = nvEvents[i + 1]
    BY <2>1, <2>2, HeadTailProperties, EmptySeq
  <2> HIDE DEF rest
  <2>4. \A i \in 1..Len(rest) : i + 1 \in 1..Len(nvEvents) /\ rest[i] = nvEvents[i + 1]
    BY <2>3
  <2>5. ToSet(rest) \subseteq ToSet(nvEvents)
    BY <2>2, <2>3, <2>4, ToSetIs
  <2>6. NvFetchesFit' /\ NvFetched' \subseteq NvFetched
    <3> DEFINE f == NvFetch("asked", << >>)
    <3>1. NvFetchFits(f) /\ ToSet(f.frames) = {} /\ nvFetches' = Append(nvFetches, f)
      BY <2>1, NvFetchBlank
    <3> HIDE DEF f
    <3>2. NvFetchesFit' /\ NvFetched' \subseteq NvFetched \cup ToSet(f.frames)
      BY <1>0, <3>1, NvFetchAdd
    <3>3. QED
      BY <3>1, <3>2
  <2>7. NvKnown' \subseteq NvKnown
    BY <2>1, <2>5, <2>6 DEF NvKnown, NvLive
  <2>8. NvKeyed(NvKnown', nvSent')
    BY <2>1, <2>7, NvFewer
  <2>9. NvOrdered(rest)
    <3> SUFFICES ASSUME NEW i \in 1..Len(rest), NEW j \in 1..Len(rest), i < j,
                        NvTransit(rest[i]), NvTransit(rest[j])
                 PROVE  rest[i].n < rest[j].n
      BY DEF NvOrdered
    <3> DEFINE k == i + 1
               m == j + 1
    <3>1. k \in 1..Len(nvEvents) /\ m \in 1..Len(nvEvents) /\ k < m /\ rest[i] = nvEvents[k] /\ rest[j] = nvEvents[m]
      BY <2>3
    <3> HIDE DEF k, m
    <3>2. QED
      BY <1>0, <3>1 DEF NvOrdered
  <2>10. NvTyped' /\ NvFramesFit'
    BY <1>0, <2>1, <2>3, <2>6, <2>8, <2>9 DEF NvTyped, NvFramesFit
  <2>11. NvGraphSound'
    BY <1>0, <2>1, <2>4, <2>7 DEF NvGraphSound, NvSound, NvShown
  <2>12. QED
    BY <2>10, <2>11 DEF NvInv
<1>11. CASE UNCHANGED nvVars
  <2>1. UNCHANGED <<nvSent, nvCache, nvEvents, nvFetches, nvGraph, nvApplied, nvCrossed>>
    BY <1>11 DEF nvVars, nvApp, nvLink, nvPage
  <2>2. NvKnown' = NvKnown /\ NvShown' = NvShown
    BY <2>1 DEF NvKnown, NvLive, NvFetched, NvShown
  <2>3. QED
    BY <1>0, <2>1, <2>2 DEF NvInv, NvTyped, NvFramesFit, NvFetchesFit, NvGraphSound
<1>12. QED
  BY <1>1, <1>2, <1>3, <1>4, <1>5, <1>6, <1>7, <1>8, <1>9, <1>10, <1>11 DEF NvNext

\* NavGraph.lastAppliedRouteKey, "without this guard, that replay would double-count":
\* whatever the app's moves, remounts of the hook, reconnects, reloads of the page, the page the
\* cache is replayed onto and the order it is replayed in, and clears, the graph counts a transition once at most, as long as
\* no replay and live transition have overtaken each other.
THEOREM TransitionsCountedOnce == NvSpec => []NvCountedOnce
<1>1. NvInv => NvCountedOnce
  <2> SUFFICES ASSUME NvInv, ~nvCrossed, NEW n \in DOMAIN nvApplied
               PROVE  nvApplied[n] <= 1
    BY DEF NvCountedOnce
  <2>1. nvApplied[n] \in {0, 1}
    BY DEF NvInv, NvGraphSound, NvSound, NvShown
  <2>2. QED
    BY <2>1
<1>2. QED
  BY <1>1, NvInvInit, NvInvStep, PTL DEF NvSpec

-----------------------------------------------------------------------------
(* The stores of a state manager *)

StWhole == stKind \notin StSlices
StView(s) == [label |-> StNone, state |-> s]
StViews == {StNone} \cup {StView(s) : s \in StStates}
StPatches == UNION {[D -> StValue \cup {StMarker}] : D \in SUBSET StField}
StFrameSet == {StInitFrame(StNone, s) : s \in StStates} \cup {StActionFrame(p) : p \in StPatches}

\* The copies the desktop goes through on the frames under way.
StTrail(t, view, wire) ==
  /\ t \in [0..Len(wire) -> StViews] /\ t[0] = view
  /\ \A i \in 1..Len(wire) : t[i] = StApply(t[i - 1], wire[i])

StTyped ==
  /\ stKind \in StKinds /\ stLost \in BOOLEAN
  /\ stApp \in [StField -> StValue \cup {StAction}]
  /\ stPrev \in StStates \cup {StNone}
  /\ stWrites \in Seq([StField -> StValue])
  /\ StWhole => stView \in StViews /\ stWire \in Seq(StFrameSet)

StTold == stPrev # StNone => \A f \in StField \ stSilent : stPrev[f] = StSerialize(stApp)[f]

StFollows ==
  StWhole =>
    /\ stLost => \A i \in 1..Len(stWire) : stWire[i].type # "init"
    /\ stPrev # StNone /\ ~stLost =>
         \E t : StTrail(t, stView, stWire) /\ t[Len(stWire)] = StView(stPrev)

StInv == StTyped /\ StTold /\ StFollows

LEMMA StApplyFits ==
  ASSUME NEW view \in StViews, NEW frame \in StFrameSet
  PROVE  StApply(view, frame) \in StViews
<1>1. CASE \E s \in StStates : frame = StInitFrame(StNone, s)
  BY <1>1 DEF StInitFrame, StApply, StViews, StView
<1>2. CASE view = StNone /\ \E p \in StPatches : frame = StActionFrame(p)
  BY <1>2 DEF StActionFrame, StApply, StViews
<1>3. CASE view # StNone /\ \E p \in StPatches : frame = StActionFrame(p)
  <2>1. PICK p \in StPatches : frame.type = "action" /\ frame.patch = p
    BY <1>3 DEF StActionFrame
  <2>2. PICK s \in StStates : view = StView(s)
    BY <1>3 DEF StViews
  <2>3. PICK D \in SUBSET StField : p \in [D -> StValue \cup {StMarker}]
    BY DEF StPatches
  <2>4. StRoot \notin DOMAIN p
    BY <2>3, StAssumption
  <2>5. StApply(view, frame) = StView(StPatched(s, p))
    BY <1>3, <2>1, <2>2, <2>4 DEF StApply, StView
  <2>6. StPatched(s, p) \in StStates
    BY <2>3 DEF StPatched, StStates
  <2>7. QED
    BY <2>5, <2>6 DEF StViews
<1>4. QED
  BY <1>1, <1>2, <1>3 DEF StFrameSet

\* An init makes the copy whatever it was; a change puts what it names over it.
LEMMA StApplyInit ==
  ASSUME NEW view, NEW frame \in StFrameSet, frame.type = "init"
  PROVE  \E s \in StStates : frame = StInitFrame(StNone, s) /\ StApply(view, frame) = StView(s)
<1>1. PICK s \in StStates : frame = StInitFrame(StNone, s)
  BY DEF StFrameSet, StActionFrame
<1>2. StApply(view, frame) = StView(s)
  BY <1>1 DEF StApply, StInitFrame, StView
<1>3. QED
  BY <1>1, <1>2

LEMMA StApplyAction ==
  ASSUME NEW s \in StStates, NEW p \in StPatches
  PROVE  StApply(StView(s), StActionFrame(p)) = StView(StPatched(s, p))
<1>1. PICK D \in SUBSET StField : p \in [D -> StValue \cup {StMarker}]
  BY DEF StPatches
<1>2. StRoot \notin DOMAIN p
  BY <1>1, StAssumption
<1>3. StView(s) # StNone
  BY StAssumption DEF StView
<1>4. QED
  BY <1>2, <1>3 DEF StApply, StActionFrame, StView

LEMMA StTrailExists ==
  ASSUME NEW view \in StViews, NEW wire \in Seq(StFrameSet)
  PROVE  \E t : StTrail(t, view, wire)
<1> DEFINE S == StViews
           n == Len(wire)
           before == [i \in 1..n |-> i - 1]
           step == [i \in 1..n |-> [v \in S |-> StApply(v, wire[i])]]
<1>1. n \in Nat /\ \A i \in 1..n : wire[i] \in StFrameSet
  BY LenProperties, ElementOfSeq
<1>2. before \in [1..n -> Nat] /\ \A i \in 1..n : before[i] < i /\ before[i] = i - 1
  BY <1>1
<1>3. step \in [1..n -> [S -> S]]
  <2>1. \A i \in 1..n : \A v \in S : StApply(v, wire[i]) \in S
    BY <1>1, StApplyFits
  <2> HIDE DEF n, S
  <2>2. QED
    BY <2>1
<1>4. \A i \in 1..n : \A v \in S : step[i][v] = StApply(v, wire[i])
  OBVIOUS
<1> HIDE DEF n, step, before, S
<1>5. IsRecursion(S, n, view, before, step)
  BY <1>1, <1>2, <1>3 DEF IsRecursion, S
<1>6. PICK t \in [0..n -> S] : t[0] = view /\ \A i \in 1..n : t[i] = step[i][t[before[i]]]
  BY ONLY <1>5, RecursionExists
<1>7. ASSUME NEW i \in 1..n
      PROVE  t[i] = StApply(t[i - 1], wire[i])
  <2>1. t[i - 1] \in S /\ before[i] = i - 1
    BY <1>1, <1>2
  <2>2. QED
    BY <1>4, <1>6, <2>1
<1>8. StTrail(t, view, wire)
  BY <1>6, <1>7 DEF StTrail, n, S
<1>9. QED
  BY <1>8

\* A frame more at the end.
LEMMA StTrailOn ==
  ASSUME NEW view, NEW wire \in Seq(StFrameSet), NEW t, StTrail(t, view, wire), NEW frame \in StFrameSet
  PROVE  \E u : /\ StTrail(u, view, wire \o <<frame>>)
                /\ u[Len(wire \o <<frame>>)] = StApply(t[Len(wire)], frame)
<1> DEFINE n == Len(wire)
           more == wire \o <<frame>>
           q == n + 1
           u == [i \in 0..q |-> IF i = q THEN StApply(t[n], frame) ELSE t[i]]
<1>1. n \in Nat /\ n \in 0..n
  BY LenProperties
<1>2. Len(more) = q /\ more[q] = frame /\ \A i \in 1..n : more[i] = wire[i]
  <2> HIDE DEF more
  <2>1. <<frame>> \in Seq(StFrameSet) /\ Len(<<frame>>) = 1 /\ <<frame>>[1] = frame
    BY OneFits
  <2>2. Len(more) = n + 1 /\ \A i \in 1..n + 1 : more[i] = IF i <= n THEN wire[i] ELSE <<frame>>[i - n]
    BY <2>1, ConcatProperties DEF more
  <2>3. q \in 1..n + 1 /\ ~(q <= n) /\ q - n = 1
    BY <1>1
  <2>4. QED
    BY <1>1, <2>1, <2>2, <2>3
<1> HIDE DEF more
<1>3. /\ t \in [0..n -> StViews] /\ t[0] = view
      /\ \A i \in 1..n : t[i] = StApply(t[i - 1], wire[i])
  BY DEF StTrail
<1>4. StApply(t[n], frame) \in StViews
  BY <1>1, <1>3, StApplyFits
<1>5. u \in [0..q -> StViews] /\ u[0] = view
  BY <1>1, <1>3, <1>4
<1>6. ASSUME NEW i \in 1..q
      PROVE  u[i] = StApply(u[i - 1], more[i])
  <2>1. i - 1 \in 0..n /\ i \in 0..q /\ u[i - 1] = t[i - 1]
    BY <1>1
  <2>2. CASE i = q
    BY <1>1, <1>2, <2>1, <2>2
  <2>3. CASE i # q
    <3>1. i \in 1..n /\ u[i] = t[i]
      BY <1>1, <2>1, <2>3
    <3>2. QED
      BY <1>2, <1>3, <2>1, <3>1
  <2>4. QED
    BY <2>2, <2>3
<1>7. u[q] = StApply(t[n], frame)
  BY <1>1
<1> HIDE DEF u, q
<1>8. StTrail(u, view, more)
  BY <1>2, <1>5, <1>6 DEF StTrail
<1>9. QED
  BY <1>2, <1>7, <1>8 DEF more

\* The first frame arrives.
LEMMA StTrailHead ==
  ASSUME NEW view, NEW wire \in Seq(StFrameSet), wire # << >>, NEW t, StTrail(t, view, wire)
  PROVE  \E u : /\ StTrail(u, StApply(view, Head(wire)), Tail(wire))
                /\ u[Len(Tail(wire))] = t[Len(wire)]
<1> DEFINE n == Len(wire)
           rest == Tail(wire)
           m == Len(rest)
           u == [i \in 0..m |-> t[i + 1]]
<1>1. n \in Nat \ {0} /\ m = n - 1 /\ Head(wire) = wire[1] /\ \A i \in 1..m : rest[i] = wire[i + 1]
  BY HeadTailProperties, EmptySeq
<1>2. /\ t \in [0..n -> StViews] /\ t[0] = view
      /\ \A i \in 1..n : t[i] = StApply(t[i - 1], wire[i])
  BY DEF StTrail
<1> HIDE DEF n, rest, m
<1>3. u \in [0..m -> StViews] /\ u[m] = t[n]
  BY <1>1, <1>2
<1>4. u[0] = StApply(view, Head(wire))
  BY <1>1, <1>2
<1>5. ASSUME NEW i \in 1..m
      PROVE  u[i] = StApply(u[i - 1], rest[i])
  <2> DEFINE j == i + 1
  <2>1. j \in 1..n /\ j - 1 = i /\ u[i] = t[j] /\ u[i - 1] = t[i] /\ rest[i] = wire[j]
    BY <1>1
  <2> HIDE DEF j, u
  <2>2. QED
    BY <1>2, <2>1
<1> HIDE DEF u
<1>6. StTrail(u, StApply(view, Head(wire)), rest)
  BY <1>3, <1>4, <1>5 DEF StTrail, m
<1>7. QED
  BY <1>3, <1>6 DEF n, m, rest

\* The first frame is lost, but an init comes after it.
LEMMA StTrailDrop ==
  ASSUME NEW view \in StViews, NEW wire \in Seq(StFrameSet), wire # << >>, NEW t, StTrail(t, view, wire),
         NEW k \in 1..Len(Tail(wire)), Tail(wire)[k].type = "init"
  PROVE  \E u : StTrail(u, view, Tail(wire)) /\ u[Len(Tail(wire))] = t[Len(wire)]
<1> DEFINE n == Len(wire)
           rest == Tail(wire)
           m == Len(rest)
<1>1. /\ n \in Nat \ {0} /\ m = n - 1 /\ rest \in Seq(StFrameSet) /\ k \in 1..m
      /\ \A i \in 1..m : rest[i] = wire[i + 1]
  BY HeadTailProperties, EmptySeq
<1>2. /\ t \in [0..n -> StViews] /\ t[0] = view
      /\ \A i \in 1..n : t[i] = StApply(t[i - 1], wire[i])
  BY DEF StTrail
<1>3. PICK u : StTrail(u, view, rest)
  BY <1>1, StTrailExists
<1>4. \A i \in 1..m : u[i] = StApply(u[i - 1], rest[i])
  BY <1>3 DEF StTrail
<1>5. rest[k].type = "init"
  OBVIOUS
<1> HIDE DEF n, rest, m
<1>6. \A i \in 1..m : t[i + 1] = StApply(t[i], rest[i])
  <2> TAKE i \in 1..m
  <2> DEFINE j == i + 1
  <2>1. j \in 1..n /\ j - 1 = i /\ rest[i] = wire[j]
    <3>1. rest[i] = wire[i + 1]
      BY <1>1
    <3>2. n \in Nat /\ m = n - 1 /\ i \in 1..m
      BY <1>1
    <3>3. i + 1 \in 1..n /\ (i + 1) - 1 = i
      BY <3>2
    <3>4. QED
      BY <3>1, <3>3
  <2> HIDE DEF j
  <2>2. t[j] = StApply(t[i], rest[i])
    BY <1>2, <2>1
  <2>3. QED
    BY <2>2 DEF j
<1> DEFINE l == m - k
           f == [i \in 0..l |-> u[k + i]]
           g == [i \in 0..l |-> t[k + i + 1]]
<1>7. l \in Nat
  BY <1>1
<1>8. f[0] = g[0]
  <2>1. rest[k] \in StFrameSet
    BY <1>1, ElementOfSeq
  <2>2. PICK s \in StStates : rest[k] = StInitFrame(StNone, s)
    BY <1>5, <2>1, StApplyInit
  <2>3. \A v : StApply(v, rest[k]) = StView(s)
    BY <2>2 DEF StApply, StInitFrame, StView
  <2>4. u[k] = StView(s) /\ t[k + 1] = StView(s)
    BY <1>1, <1>4, <1>6, <2>3
  <2>5. f[0] = u[k] /\ g[0] = t[k + 1]
    BY <1>1, <1>7
  <2>6. QED
    BY <2>4, <2>5
<1>9. ASSUME NEW i \in 1..l, f[i - 1] = g[i - 1]
      PROVE  f[i] = g[i]
  <2> DEFINE j == k + i
  <2>1. j \in 1..m /\ f[i] = u[j] /\ g[i] = t[j + 1] /\ f[i - 1] = u[j - 1] /\ g[i - 1] = t[j]
    <3>1. k + i \in 1..m /\ i \in 0..l /\ i - 1 \in 0..l /\ k + (i - 1) = j - 1 /\ k + (i - 1) + 1 = j
      <4>1. m \in Nat /\ k \in 1..m /\ l = m - k
        BY <1>1
      <4>2. i \in 1..l /\ l \in Nat /\ j = k + i
        BY <1>7
      <4> HIDE DEF l, j
      <4>3. k \in Int /\ i \in Int /\ 1 <= k /\ k <= m /\ 1 <= i /\ i <= m - k
        BY <4>1, <4>2
      <4>4. k + i \in 1..m
        BY <4>1, <4>3
      <4>5. QED
        BY <4>2, <4>3, <4>4
    <3>2. QED
      BY <3>1
  <2> HIDE DEF j, f, g
  <2>2. QED
    BY <1>4, <1>6, <1>9, <2>1
<1>10. f[l] = g[l]
  <2> HIDE DEF f, g, l
  <2>1. AgreeStepwise(l, f, g)
    BY <1>8, <1>9 DEF AgreeStepwise
  <2>2. \A i \in 0..l : f[i] = g[i]
    BY <1>7, <2>1, PrefixEqual
  <2>3. QED
    BY <1>7, <2>2
<1>11. u[m] = t[n]
  <2>1. f[l] = u[m] /\ g[l] = t[n]
    <3>1. l \in 0..l /\ k + l = m /\ k + l + 1 = n
      BY <1>1, <1>7
    <3>2. QED
      BY <3>1
  <2>2. QED
    BY <1>10, <2>1
<1>12. QED
  BY <1>3, <1>11 DEF m, n, rest

\* What the desktop shows in the end is the end of the trail.
LEMMA StShownIs ==
  ASSUME NEW t, StTrail(t, stView, stWire), stWire \in Seq(StFrameSet)
  PROVE  StShown = t[Len(stWire)]
<1> DEFINE n == Len(stWire)
           after == CHOOSE f : f = [i \in 0..n |-> IF i = 0 THEN stView ELSE StApply(f[i - 1], stWire[i])]
<1>1. n \in Nat
  BY LenProperties
<1>2. StShown = after[n]
  BY DEF StShown
<1>3. /\ t \in [0..n -> StViews] /\ t[0] = stView
      /\ \A i \in 1..n : t[i] = StApply(t[i - 1], stWire[i])
  BY DEF StTrail
<1> HIDE DEF n
<1>4. t = [i \in 0..n |-> IF i = 0 THEN stView ELSE StApply(t[i - 1], stWire[i])]
  <2>1. \A i \in 0..n : t[i] = IF i = 0 THEN stView ELSE StApply(t[i - 1], stWire[i])
    BY <1>1, <1>3
  <2>2. t = [i \in 0..n |-> t[i]]
    BY <1>3
  <2>3. QED
    BY <2>1, <2>2
<1>5. after = [i \in 0..n |-> IF i = 0 THEN stView ELSE StApply(after[i - 1], stWire[i])]
  BY <1>4
<1> HIDE DEF after
<1>6. after[0] = t[0]
  BY <1>1, <1>3, <1>5
<1>7. ASSUME NEW i \in 1..n, after[i - 1] = t[i - 1]
      PROVE  after[i] = t[i]
  <2>1. after[i] = StApply(after[i - 1], stWire[i])
    BY <1>1, <1>5
  <2>2. QED
    BY <1>3, <1>7, <2>1
<1>8. \A i \in 0..n : after[i] = t[i]
  <2>1. AgreeStepwise(n, after, t)
    BY <1>6, <1>7 DEF AgreeStepwise
  <2>2. QED
    BY <1>1, <2>1, PrefixEqual
<1>9. QED
  BY <1>1, <1>2, <1>8 DEF n

\* An init at the end makes the copy the state it carries; a change puts itself over it.
LEMMA StInitSent ==
  ASSUME NEW view \in StViews, NEW wire \in Seq(StFrameSet), NEW s \in StStates
  PROVE  LET more == wire \o <<StInitFrame(StNone, s)>>
         IN /\ more \in Seq(StFrameSet)
            /\ \E u : StTrail(u, view, more) /\ u[Len(more)] = StView(s)
<1> DEFINE frame == StInitFrame(StNone, s)
<1>1. frame \in StFrameSet
  BY DEF StFrameSet
<1>2. \A v : StApply(v, frame) = StView(s)
  BY DEF StApply, StInitFrame, StView
<1> HIDE DEF frame
<1>3. PICK t : StTrail(t, view, wire)
  BY StTrailExists
<1>4. \E u : StTrail(u, view, wire \o <<frame>>) /\ u[Len(wire \o <<frame>>)] = StApply(t[Len(wire)], frame)
  BY <1>1, <1>3, StTrailOn
<1>5. wire \o <<frame>> \in Seq(StFrameSet)
  BY <1>1
<1>6. QED
  BY <1>2, <1>4, <1>5 DEF frame

LEMMA StActionSent ==
  ASSUME NEW wire \in Seq(StFrameSet), NEW p \in StPatches
  PROVE  LET more == wire \o <<StActionFrame(p)>>
         IN /\ more \in Seq(StFrameSet)
            /\ (\A i \in 1..Len(wire) : wire[i].type # "init") =>
                 \A i \in 1..Len(more) : more[i].type # "init"
            /\ \A view, t, s : StTrail(t, view, wire) /\ s \in StStates /\ t[Len(wire)] = StView(s) =>
                 \E u : StTrail(u, view, more) /\ u[Len(more)] = StView(StPatched(s, p))
<1> DEFINE frame == StActionFrame(p)
           more == wire \o <<frame>>
<1>1. frame \in StFrameSet /\ frame.type = "action"
  BY DEF StFrameSet, StActionFrame
<1>2. \A s \in StStates : StApply(StView(s), frame) = StView(StPatched(s, p))
  BY StApplyAction
<1> HIDE DEF frame
<1>3. more \in Seq(StFrameSet)
  BY <1>1
<1>4. Len(wire) \in Nat /\ Len(more) = Len(wire) + 1
      /\ \A i \in 1..Len(wire) + 1 : more[i] = IF i <= Len(wire) THEN wire[i] ELSE <<frame>>[i - Len(wire)]
  <2>1. <<frame>> \in Seq(StFrameSet) /\ Len(<<frame>>) = 1
    BY <1>1, OneFits
  <2>2. QED
    BY <2>1, ConcatProperties, LenProperties
<1>5. <<frame>>[1] = frame
  OBVIOUS
<1>6. ASSUME \A i \in 1..Len(wire) : wire[i].type # "init"
      PROVE  \A i \in 1..Len(more) : more[i].type # "init"
  <2> HIDE DEF more
  <2> SUFFICES ASSUME NEW i \in 1..Len(more)
               PROVE  more[i].type # "init"
    OBVIOUS
  <2>1. CASE i \in 1..Len(wire)
    BY <1>4, <1>6, <2>1
  <2>2. CASE i = Len(wire) + 1
    <3>1. i - Len(wire) = 1 /\ ~(i <= Len(wire)) /\ i \in 1..Len(wire) + 1
      BY <1>4, <2>2
    <3>2. more[i] = frame
      BY <1>4, <1>5, <3>1
    <3>3. QED
      BY <1>1, <3>2
  <2>3. QED
    BY <1>4, <2>1, <2>2
<1>7. ASSUME NEW view, NEW t, NEW s, StTrail(t, view, wire), s \in StStates, t[Len(wire)] = StView(s)
      PROVE  \E u : StTrail(u, view, more) /\ u[Len(more)] = StView(StPatched(s, p))
  <2>1. \E u : StTrail(u, view, more) /\ u[Len(more)] = StApply(t[Len(wire)], frame)
    BY <1>1, <1>7, StTrailOn
  <2>2. QED
    BY <1>2, <1>7, <2>1
<1>8. QED
  BY <1>3, <1>6, <1>7 DEF frame

\* The difference of two states, put over the first, is the second.
LEMMA StDifference ==
  ASSUME NEW prev \in StStates, NEW next \in StStates
  PROVE  LET p == [f \in StChanged(prev, next) |-> next[f]]
         IN p \in StPatches /\ StPatched(prev, p) = next
<1> DEFINE D == StChanged(prev, next)
           p == [f \in D |-> next[f]]
<1>1. D \in SUBSET StField /\ \A f \in StField \ D : prev[f] = next[f]
  BY DEF StChanged, StStates
<1>2. prev \in [StField -> StValue \cup {StMarker}] /\ next \in [StField -> StValue \cup {StMarker}]
  BY DEF StStates
<1> HIDE DEF D
<1>3. p \in [D -> StValue \cup {StMarker}]
  BY <1>1, <1>2
<1>4. DOMAIN p \cup DOMAIN prev = StField
  BY <1>1, <1>2
<1>5. StPatched(prev, p) = [f \in StField |-> IF f \in D THEN next[f] ELSE prev[f]]
  BY <1>1, <1>2, <1>4 DEF StPatched
<1>6. StPatched(prev, p) = next
  BY <1>1, <1>2, <1>5
<1>7. QED
  BY <1>1, <1>3, <1>6 DEF StPatches, D

LEMMA StSerializeFits ==
  ASSUME NEW app \in [StField -> StValue \cup {StAction}]
  PROVE  StSerialize(app) \in StStates
BY DEF StSerialize, StStates

LEMMA StReportFits ==
  ASSUME StInv, NEW app \in [StField -> StValue \cup {StAction}], StReport(app),
         stKind' = stKind, stView' = stView
  PROVE  /\ StWhole => stWire' \in Seq(StFrameSet)
         /\ StTold'
         /\ StFollows'
<1> DEFINE next == StSerialize(app)
<1>1. next \in StStates
  BY StSerializeFits
<1>2. /\ stPrev' = next /\ stApp' = app /\ stWire' = stWire \o StFrames(stPrev, next)
      /\ stLost' = (stLost /\ stPrev # StNone)
  BY DEF StReport
<1>3. StTold'
  BY <1>2 DEF StTold
<1>4. stPrev \in StStates \cup {StNone} /\ (StWhole => stView \in StViews /\ stWire \in Seq(StFrameSet))
  BY DEF StInv, StTyped
<1> HIDE DEF next
<1> SUFFICES ASSUME StWhole
             PROVE  stWire' \in Seq(StFrameSet) /\ StFollows'
  <2>1. StWhole' = StWhole
    BY DEF StWhole
  <2>2. QED
    BY <1>3, <2>1 DEF StFollows
<1>5. stView \in StViews /\ stWire \in Seq(StFrameSet)
  BY <1>4
<1>6. CASE stPrev = StNone
  <2>1. stWire' = stWire \o <<StInitFrame(StNone, next)>> /\ stLost' = FALSE
    BY <1>2, <1>6 DEF StFrames, StInits, StWhole
  <2> DEFINE more == stWire \o <<StInitFrame(StNone, next)>>
  <2>2. more \in Seq(StFrameSet) /\ \E u : StTrail(u, stView, more) /\ u[Len(more)] = StView(next)
    BY <1>1, <1>5, StInitSent
  <2>3. stWire' = more
    BY <2>1
  <2> HIDE DEF more
  <2>4. QED
    BY <1>2, <2>1, <2>2, <2>3 DEF StFollows
<1>7. CASE stPrev # StNone /\ StChanged(stPrev, next) = {}
  <2>1. StFrames(stPrev, next) = << >>
    BY <1>7 DEF StFrames
  <2>2. stWire' = stWire /\ stLost' = stLost
    <3>1. stWire \o << >> = stWire
      BY <1>5, ConcatEmptySeq
    <3>2. QED
      BY <1>2, <1>7, <2>1, <3>1 DEF StInv, StTyped
  <2>3. stPrev = next
    BY <1>1, <1>4, <1>7 DEF StChanged, StStates
  <2>4. StFollows
    BY DEF StInv
  <2>5. QED
    BY <1>2, <1>5, <2>2, <2>3, <2>4 DEF StFollows
<1>8. CASE stPrev # StNone /\ StChanged(stPrev, next) # {}
  <2> DEFINE p == [f \in StChanged(stPrev, next) |-> next[f]]
  <2>1. stPrev \in StStates /\ p \in StPatches /\ StPatched(stPrev, p) = next
    BY <1>1, <1>4, <1>8, StDifference
  <2>2. stWire' = stWire \o <<StActionFrame(p)>>
    BY <1>2, <1>8 DEF StFrames, StWhole
  <2>3. stLost' => stLost
    BY <1>2
  <2>5. stLost => stLost'
    BY <1>2, <1>8
  <2> HIDE DEF p
  <2> DEFINE more == stWire \o <<StActionFrame(p)>>
  <2>4. /\ more \in Seq(StFrameSet)
        /\ (\A i \in 1..Len(stWire) : stWire[i].type # "init") =>
             \A i \in 1..Len(more) : more[i].type # "init"
        /\ \A view, t, s : StTrail(t, view, stWire) /\ s \in StStates /\ t[Len(stWire)] = StView(s) =>
             \E u : StTrail(u, view, more) /\ u[Len(more)] = StView(StPatched(s, p))
    BY <1>5, <2>1, StActionSent
  <2>6. stWire' = more
    BY <2>2
  <2> HIDE DEF more
  <2>7. stLost => \A i \in 1..Len(stWire) : stWire[i].type # "init"
    BY DEF StInv, StFollows
  <2>8. ASSUME ~stLost
        PROVE  \E u : StTrail(u, stView, more) /\ u[Len(more)] = StView(next)
    <3>1. PICK t : StTrail(t, stView, stWire) /\ t[Len(stWire)] = StView(stPrev)
      BY <1>8, <2>8 DEF StInv, StFollows
    <3>2. QED
      BY <2>1, <2>4, <3>1
  <2>9. QED
    BY <1>2, <2>3, <2>5, <2>4, <2>6, <2>7, <2>8 DEF StFollows
<1>9. QED
  BY <1>6, <1>7, <1>8

LEMMA StCreateFits ==
  ASSUME StInv, NEW app \in [StField -> StValue \cup {StAction}], StCreate(app, stWire, stLost),
         stKind' = stKind, stView' = stView, stWrites' = stWrites
  PROVE  StInv'
<1> DEFINE next == StSerialize(app)
<1>1. next \in StStates
  BY StSerializeFits
<1>2. StTold'
  BY DEF StCreate, StTold
<1>3. /\ stKind \in StKinds /\ stLost \in BOOLEAN /\ stWrites \in Seq([StField -> StValue])
      /\ StWhole => stView \in StViews /\ stWire \in Seq(StFrameSet)
      /\ StWhole' = StWhole
  BY DEF StInv, StTyped, StWhole
<1>4. CASE stKind \in StLazy
  <2>1. /\ stApp' = app /\ stPrev' = StNone /\ stWire' = stWire \o << >> /\ stLost' = stLost
    BY <1>3, <1>4 DEF StCreate
  <2>2. StWhole => stWire' = stWire
    BY <1>3, <2>1, ConcatEmptySeq
  <2>3. StTyped'
    BY <1>3, <2>1, <2>2 DEF StTyped
  <2>4. StFollows'
    BY <1>3, <2>1, <2>2 DEF StFollows, StInv
  <2>5. QED
    BY <1>2, <2>3, <2>4 DEF StInv
<1>5. CASE stKind \notin StLazy
  <2>1. /\ stApp' = app /\ stPrev' = next /\ stLost' = FALSE /\ stWire' = stWire \o StInits(next)
    BY <1>5 DEF StCreate
  <2> HIDE DEF next
  <2> DEFINE more == stWire \o <<StInitFrame(StNone, next)>>
  <2>2. StWhole => stWire' = more
    BY <2>1 DEF StInits, StWhole
  <2>3. StWhole => more \in Seq(StFrameSet) /\ \E u : StTrail(u, stView, more) /\ u[Len(more)] = StView(next)
    BY <1>1, <1>3, StInitSent
  <2> HIDE DEF more
  <2>4. StTyped'
    BY <1>1, <1>3, <2>1, <2>2, <2>3 DEF StTyped
  <2>5. StFollows'
    BY <1>3, <2>1, <2>2, <2>3 DEF StFollows
  <2>6. QED
    BY <1>2, <2>4, <2>5 DEF StInv
<1>6. QED
  BY <1>4, <1>5

LEMMA StInvInit == StInit => StInv
<1> SUFFICES ASSUME StInit
             PROVE  StInv
  OBVIOUS
<1>1. PICK actions \in SUBSET StField :
        LET app == [f \in StField |-> IF f \in actions THEN StAction ELSE StFresh]
            eager == stKind \notin StLazy
        IN /\ stApp = app
           /\ stPrev = IF eager THEN StSerialize(app) ELSE StNone
           /\ stWire = IF eager THEN StInits(StSerialize(app)) ELSE << >>
  BY DEF StInit
<1> DEFINE next == StSerialize(stApp)
<1>2. StFresh \in StValue
  BY StAssumption DEF StFresh
<1>3. stApp \in [StField -> StValue \cup {StAction}]
  BY <1>1, <1>2
<1>4. next \in StStates
  BY <1>3, StSerializeFits
<1>5. stKind \in StKinds /\ stLost = FALSE /\ stView = StNone /\ stWrites = << >>
  BY StAssumption DEF StInit
<1>6. stPrev = (IF stKind \notin StLazy THEN next ELSE StNone)
      /\ stWire = (IF stKind \notin StLazy THEN StInits(next) ELSE << >>)
  BY <1>1
<1>7. StTold
  BY <1>6 DEF StTold
<1> HIDE DEF next
<1>8. stView \in StViews /\ << >> \in Seq(StFrameSet)
  BY <1>5 DEF StViews
<1>11. stWrites \in Seq([StField -> StValue])
  BY <1>5
<1>9. CASE stKind \in StLazy
  <2>1. stWire = << >> /\ stPrev = StNone
    BY <1>6, <1>9
  <2>2. StTyped
    BY <1>3, <1>5, <1>8, <2>1, <1>11 DEF StTyped
  <2>3. StFollows
    BY <1>5, <2>1 DEF StFollows
  <2>4. QED
    BY <1>7, <2>2, <2>3 DEF StInv
<1>10. CASE stKind \notin StLazy
  <2>1. << >> \o <<StInitFrame(StNone, next)>> = <<StInitFrame(StNone, next)>>
    <3>1. StInitFrame(StNone, next) \in StFrameSet
      BY <1>4 DEF StFrameSet
    <3>2. <<StInitFrame(StNone, next)>> \in Seq(StFrameSet)
      BY <3>1, OneFits
    <3>3. QED
      BY <3>2, ConcatEmptySeq
  <2>2. StWhole => stWire = << >> \o <<StInitFrame(StNone, next)>>
    BY <1>6, <1>10, <2>1 DEF StInits, StWhole
  <2> DEFINE more == << >> \o <<StInitFrame(StNone, next)>>
  <2>3. more \in Seq(StFrameSet) /\ \E u : StTrail(u, stView, more) /\ u[Len(more)] = StView(next)
    BY <1>4, <1>8, StInitSent
  <2>4. StWhole => stWire = more
    BY <2>2
  <2>5. stPrev = next
    BY <1>6, <1>10
  <2> HIDE DEF more
  <2>6. StTyped
    BY <1>3, <1>4, <1>5, <1>8, <1>11, <2>3, <2>4, <2>5 DEF StTyped
  <2>7. StFollows
    BY <1>5, <2>3, <2>4, <2>5 DEF StFollows
  <2>8. QED
    BY <1>7, <2>6, <2>7 DEF StInv
<1>12. QED
  BY <1>9, <1>10

LEMMA StInvStep == StInv /\ [StNext]_stVars => StInv'
<1> SUFFICES ASSUME StInv, [StNext]_stVars
             PROVE  StInv'
  OBVIOUS
<1>1. /\ stKind \in StKinds /\ stLost \in BOOLEAN
      /\ stApp \in [StField -> StValue \cup {StAction}] /\ stPrev \in StStates \cup {StNone}
      /\ stWrites \in Seq([StField -> StValue])
      /\ StWhole => stView \in StViews /\ stWire \in Seq(StFrameSet)
  BY DEF StInv, StTyped
<1>2. StTold /\ StFollows
  BY DEF StInv
<1>3. stKind' = stKind => StWhole' = StWhole
  BY DEF StWhole
<1>4. CASE StAttachAgain
  <2> DEFINE app == [f \in StField |-> IF stApp[f] = StAction THEN StAction ELSE StFresh]
  <2>1. app \in [StField -> StValue \cup {StAction}]
    BY StAssumption DEF StFresh
  <2>2. StCreate(app, stWire, stLost) /\ stKind' = stKind /\ stView' = stView /\ stWrites' = stWrites
    BY <1>4 DEF StAttachAgain
  <2> HIDE DEF app
  <2>3. QED
    BY <2>1, <2>2, StCreateFits
<1>5. ASSUME NEW app \in [StField -> StValue \cup {StAction}], StReport(app),
             stKind' = stKind, stView' = stView, stWrites' \in Seq([StField -> StValue])
      PROVE  StInv'
  <2>1. (StWhole => stWire' \in Seq(StFrameSet)) /\ StTold' /\ StFollows'
    BY <1>5, StReportFits
  <2>2. StSerialize(app) \in StStates
    BY <1>5, StSerializeFits
  <2>3. stApp' = app /\ stPrev' = StSerialize(app) /\ stLost' \in BOOLEAN
    BY <1>5, <1>1 DEF StReport
  <2>4. StTyped'
    BY <1>1, <1>3, <1>5, <2>1, <2>2, <2>3 DEF StTyped
  <2>5. QED
    BY <2>1, <2>4 DEF StInv
<1>6. ASSUME NEW f \in StField, NEW v \in StValue, StChange(f, v)
      PROVE  StInv'
  <2> DEFINE app == [stApp EXCEPT ![f] = v]
  <2>1. app \in [StField -> StValue \cup {StAction}]
    BY <1>1
  <2>2. StReport(app) /\ stKind' = stKind /\ stView' = stView /\ stWrites' = stWrites
    BY <1>6 DEF StChange
  <2> HIDE DEF app
  <2>3. QED
    BY <1>1, <1>5, <2>1, <2>2
<1>7. ASSUME NEW f \in StField, NEW v \in StValue, StSetState(f, v)
      PROVE  StInv'
  <2>1. /\ stApp' = [stApp EXCEPT ![f] = v] /\ stSilent' = stSilent \cup {f}
        /\ UNCHANGED <<stKind, stPrev, stWire, stLost, stView, stWrites>>
    BY <1>7 DEF StSetState
  <2>2. stApp' \in [StField -> StValue \cup {StAction}]
    BY <1>1, <2>1
  <2>3. StTyped'
    BY <1>1, <1>3, <2>1, <2>2 DEF StTyped
  <2>4. \A g \in StField \ stSilent' : g \in StField \ stSilent /\ stApp'[g] = stApp[g]
    BY <1>1, <2>1
  <2>5. \A g \in StField \ stSilent' : StSerialize(stApp')[g] = StSerialize(stApp)[g]
    BY <2>4 DEF StSerialize
  <2>6. StTold'
    BY <1>2, <2>1, <2>4, <2>5 DEF StTold
  <2>7. StFollows'
    BY <1>2, <1>3, <2>1 DEF StFollows
  <2>8. QED
    BY <2>3, <2>6, <2>7 DEF StInv
<1>8. CASE StArrives
  <2>1. /\ stWire # << >> /\ stWire' = Tail(stWire) /\ stView' = StApply(stView, Head(stWire))
        /\ UNCHANGED <<stKind, stApp, stPrev, stSilent, stLost, stWrites>>
    BY <1>8 DEF StArrives
  <2>2. StTold'
    BY <1>2, <2>1 DEF StTold, StSerialize
  <2>3. ASSUME StWhole
        PROVE  /\ stWire' \in Seq(StFrameSet) /\ stView' \in StViews
               /\ \A i \in 1..Len(stWire') : i + 1 \in 1..Len(stWire) /\ stWire'[i] = stWire[i + 1]
    <3>1. stWire \in Seq(StFrameSet) /\ stView \in StViews
      BY <1>1, <2>3
    <3>2. Tail(stWire) \in Seq(StFrameSet) /\ Head(stWire) \in StFrameSet /\ Len(stWire) \in Nat \ {0}
          /\ Len(Tail(stWire)) = Len(stWire) - 1
          /\ \A i \in 1..Len(Tail(stWire)) : Tail(stWire)[i] = stWire[i + 1]
      BY <2>1, <3>1, HeadTailProperties, EmptySeq
    <3>3. StApply(stView, Head(stWire)) \in StViews
      BY <3>1, <3>2, StApplyFits
    <3>4. QED
      BY <2>1, <3>2, <3>3
  <2>4. StTyped'
    BY <1>1, <1>3, <2>1, <2>3 DEF StTyped
  <2>5. ASSUME StWhole, stPrev # StNone, ~stLost
        PROVE  \E t : StTrail(t, stView', stWire') /\ t[Len(stWire')] = StView(stPrev)
    <3>1. PICK t : StTrail(t, stView, stWire) /\ t[Len(stWire)] = StView(stPrev)
      BY <1>2, <2>5 DEF StFollows
    <3>2. stWire \in Seq(StFrameSet) /\ stWire # << >>
      BY <1>1, <2>1, <2>5
    <3>3. PICK u : StTrail(u, StApply(stView, Head(stWire)), Tail(stWire)) /\ u[Len(Tail(stWire))] = t[Len(stWire)]
      BY <3>1, <3>2, StTrailHead
    <3>4. QED
      BY <2>1, <3>1, <3>3
  <2>6. ASSUME StWhole, stLost
        PROVE  \A i \in 1..Len(stWire') : stWire'[i].type # "init"
    BY <1>2, <2>3, <2>6 DEF StFollows
  <2>7. StFollows'
    BY <1>3, <2>1, <2>5, <2>6 DEF StFollows
  <2>8. QED
    BY <2>2, <2>4, <2>7 DEF StInv
<1>9. CASE StDrop
  <2>1. /\ stWire # << >> /\ stWire' = Tail(stWire)
        /\ stLost' = \A i \in DOMAIN Tail(stWire) : Tail(stWire)[i].type # "init"
        /\ UNCHANGED <<stKind, stApp, stPrev, stSilent, stView, stWrites>>
    BY <1>9 DEF StDrop
  <2>2. StTold'
    BY <1>2, <2>1 DEF StTold, StSerialize
  <2>3. ASSUME StWhole
        PROVE  /\ stWire \in Seq(StFrameSet) /\ Tail(stWire) \in Seq(StFrameSet) /\ stView \in StViews
               /\ DOMAIN Tail(stWire) = 1..Len(Tail(stWire))
               /\ \A i \in 1..Len(Tail(stWire)) : i + 1 \in 1..Len(stWire) /\ Tail(stWire)[i] = stWire[i + 1]
    <3>1. stWire \in Seq(StFrameSet) /\ stView \in StViews
      BY <1>1, <2>3
    <3>2. Tail(stWire) \in Seq(StFrameSet) /\ Len(stWire) \in Nat \ {0}
          /\ Len(Tail(stWire)) = Len(stWire) - 1
          /\ \A i \in 1..Len(Tail(stWire)) : Tail(stWire)[i] = stWire[i + 1]
      BY <2>1, <3>1, HeadTailProperties, EmptySeq
    <3>3. DOMAIN Tail(stWire) = 1..Len(Tail(stWire))
      BY <3>2, LenProperties
    <3>4. QED
      BY <3>1, <3>2, <3>3
  <2>4. StTyped'
    BY <1>1, <1>3, <2>1, <2>3 DEF StTyped
  <2>5. ASSUME StWhole, stPrev # StNone, ~stLost'
        PROVE  \E t : StTrail(t, stView, Tail(stWire)) /\ t[Len(Tail(stWire))] = StView(stPrev)
    <3>1. PICK k \in 1..Len(Tail(stWire)) : Tail(stWire)[k].type = "init"
      BY <2>1, <2>3, <2>5
    <3>2. ~stLost
      <4>1. k + 1 \in 1..Len(stWire) /\ stWire[k + 1].type = "init"
        BY <2>3, <2>5, <3>1
      <4>2. QED
        BY <1>2, <2>5, <4>1 DEF StFollows
    <3>3. PICK t : StTrail(t, stView, stWire) /\ t[Len(stWire)] = StView(stPrev)
      BY <1>2, <2>5, <3>2 DEF StFollows
    <3>4. PICK u : StTrail(u, stView, Tail(stWire)) /\ u[Len(Tail(stWire))] = t[Len(stWire)]
      BY <2>1, <2>3, <2>5, <3>1, <3>3, StTrailDrop
    <3>5. QED
      BY <3>3, <3>4
  <2>6. ASSUME StWhole, stLost'
        PROVE  \A i \in 1..Len(Tail(stWire)) : Tail(stWire)[i].type # "init"
    BY <2>1, <2>3, <2>6
  <2>7. StFollows'
    BY <1>3, <2>1, <2>5, <2>6 DEF StFollows
  <2>8. QED
    BY <2>2, <2>4, <2>7 DEF StInv
<1>10. ASSUME NEW f \in StField, NEW v \in StValue, StEdit(f, v)
       PROVE  StInv'
  <2> DEFINE state == [stView.state EXCEPT ![f] = v]
  <2>1. /\ stKind = "zustand" /\ stView # StNone
        /\ stWrites' = IF StTruncated(state) THEN stWrites ELSE Append(stWrites, state)
        /\ UNCHANGED <<stKind, stApp, stPrev, stSilent, stWire, stLost, stView>>
    BY <1>10 DEF StEdit
  <2>2. StWhole
    BY <2>1 DEF StWhole, StSlices
  <2>3. PICK s \in StStates : stView = StView(s)
    BY <1>1, <2>1, <2>2 DEF StViews
  <2>4. state \in [StField -> StValue \cup {StMarker}]
    BY <2>3 DEF StView, StStates
  <2> HIDE DEF state
  <2>5. ~StTruncated(state) => state \in [StField -> StValue]
    BY <2>4 DEF StTruncated
  <2>6. stWrites' \in Seq([StField -> StValue])
    BY <1>1, <2>1, <2>5
  <2>7. StTyped'
    BY <1>1, <1>3, <2>1, <2>6 DEF StTyped
  <2>8. StTold'
    BY <1>2, <2>1 DEF StTold, StSerialize
  <2>9. StFollows'
    BY <1>2, <1>3, <2>1 DEF StFollows
  <2>10. QED
    BY <2>7, <2>8, <2>9 DEF StInv
<1>11. CASE StWriteArrives
  <2> DEFINE app == StPatched(stApp, Head(stWrites))
  <2>1. StReport(app) /\ stKind' = stKind /\ stView' = stView /\ stWrites # << >> /\ stWrites' = Tail(stWrites)
    BY <1>11 DEF StWriteArrives
  <2>2. Head(stWrites) \in [StField -> StValue] /\ Tail(stWrites) \in Seq([StField -> StValue])
    BY <1>1, <2>1, HeadTailProperties
  <2>3. app \in [StField -> StValue \cup {StAction}]
    BY <1>1, <2>2 DEF StPatched
  <2> HIDE DEF app
  <2>4. QED
    BY <1>5, <2>1, <2>2, <2>3
<1>12. CASE UNCHANGED stVars
  <2>1. UNCHANGED <<stKind, stApp, stPrev, stSilent, stWire, stLost, stView, stWrites>>
    BY <1>12 DEF stVars
  <2>2. StTyped'
    BY <1>1, <1>3, <2>1 DEF StTyped
  <2>3. StTold'
    BY <1>2, <2>1 DEF StTold, StSerialize
  <2>4. StFollows'
    BY <1>2, <1>3, <2>1 DEF StFollows
  <2>5. QED
    BY <2>2, <2>3, <2>4 DEF StInv
<1>13. QED
  BY <1>4, <1>6, <1>7, <1>8, <1>9, <1>10, <1>11, <1>12 DEF StNext

\* However the app's changes, the edits the desktop sends, a second creation of the store and
\* frames lost by the transport interleave, the state the desktop keeps of a store is, once
\* the frames under way have arrived and unless one was lost after the last state/init, the
\* one the adapter serialised last; that one is the app's, but for fields set behind the
\* adapter's back; and no edit puts the wire's stand-in for a function into the store.
THEOREM CopyIsTheStore == StSpec => []StMirrorFollows
<1>1. StInv => StMirrorFollows
  <2> SUFFICES ASSUME StInv
               PROVE  StMirrorFollows
    OBVIOUS
  <2>1. stPrev # StNone => \A f \in StField \ stSilent : stPrev[f] = StSerialize(stApp)[f]
    BY DEF StInv, StTold
  <2>2. ASSUME stKind \notin StSlices, stPrev # StNone, ~stLost
        PROVE  StShown # StNone /\ StShown.state = stPrev
    <3>1. stWire \in Seq(StFrameSet) /\ stPrev \in StStates
      BY <2>2 DEF StInv, StTyped, StWhole
    <3>2. PICK t : StTrail(t, stView, stWire) /\ t[Len(stWire)] = StView(stPrev)
      BY <2>2 DEF StInv, StFollows, StWhole
    <3>3. StShown = StView(stPrev)
      BY <3>1, <3>2, StShownIs
    <3>4. StView(stPrev) # StNone /\ StView(stPrev).state = stPrev
      BY <3>1, StAssumption DEF StView
    <3>5. QED
      BY <3>3, <3>4
  <2>3. \A f \in StField : stApp[f] # StMarker
    BY StAssumption DEF StInv, StTyped
  <2>4. QED
    BY <2>1, <2>2, <2>3 DEF StMirrorFollows
<1>2. QED
  BY <1>1, StInvInit, StInvStep, PTL DEF StSpec

-----------------------------------------------------------------------------
(* Values *)

\* The paths that lead to a path.
LEMMA VaUpTo ==
  ASSUME NEW S, NEW q \in Seq(S), NEW n \in 0..Len(q)
  PROVE  /\ SubSeq(q, 1, n) \in Seq(S) /\ Len(SubSeq(q, 1, n)) = n
         /\ \A i \in 1..n : SubSeq(q, 1, n)[i] = q[i]
         /\ \A m \in 0..n : SubSeq(SubSeq(q, 1, n), 1, m) = SubSeq(q, 1, m)
         /\ n > 0 => Front(SubSeq(q, 1, n)) = SubSeq(q, 1, n - 1)
         /\ SubSeq(q, 1, Len(q)) = q /\ SubSeq(q, 1, 0) = << >>
<1>1. Len(q) \in Nat /\ n \in Nat
  OBVIOUS
<1>2. SubSeq(q, 1, n) \in Seq(S) /\ Len(SubSeq(q, 1, n)) = n
  BY <1>1
<1>3. \A i \in 1..n : SubSeq(q, 1, n)[i] = q[i]
  BY <1>1, <1>2
<1>4. ASSUME NEW m \in 0..n
      PROVE  SubSeq(SubSeq(q, 1, n), 1, m) = SubSeq(q, 1, m)
  <2> DEFINE s == SubSeq(q, 1, n)
             u == SubSeq(s, 1, m)
             v == SubSeq(q, 1, m)
  <2>1. m \in Nat /\ m \in 0..Len(q) /\ s \in Seq(S) /\ Len(s) = n
    BY <1>1, <1>2
  <2>2. v \in Seq(S) /\ Len(v) = m /\ \A i \in 1..m : v[i] = q[i]
    BY <1>1, <2>1
  <2>3. \A i \in 1..m : i \in 1..n /\ s[i] = q[i]
    BY <1>1, <1>3
  <2> HIDE DEF s
  <2>4. u \in Seq(S) /\ Len(u) = m /\ \A i \in 1..m : u[i] = s[i]
    BY <1>1, <2>1
  <2> HIDE DEF u, v
  <2>5. u = v
    BY <2>2, <2>3, <2>4
  <2>6. QED
    BY <2>5 DEF u, v, s
<1>5. n > 0 => Front(SubSeq(q, 1, n)) = SubSeq(q, 1, n - 1)
  BY <1>1, <1>2, <1>4 DEF Front
<1>6. SubSeq(q, 1, Len(q)) = q /\ SubSeq(q, 1, 0) = << >>
  BY <1>1, SubSeqFull, SubSeqEmpty
<1>7. QED
  BY <1>2, <1>3, <1>4, <1>5, <1>6

LEMMA VaPrefixIs ==
  ASSUME NEW S, NEW p \in Seq(S), NEW q \in Seq(S)
  PROVE  IsPrefix(p, q) <=> (Len(p) <= Len(q) /\ p = SubSeq(q, 1, Len(p)))
BY SubSeqFull DEF IsPrefix

LEMMA VaFront ==
  ASSUME NEW S, NEW q \in Seq(S), q # << >>
  PROVE  /\ Front(q) \in Seq(S) /\ Len(q) \in Nat \ {0} /\ Len(Front(q)) = Len(q) - 1
         /\ Front(q) = SubSeq(q, 1, Len(q) - 1)
         /\ Last(q) \in S /\ q = Append(Front(q), Last(q))
<1>1. Len(q) \in Nat \ {0}
  OBVIOUS
<1>2. Len(q) - 1 \in 0..Len(q)
  BY <1>1
<1>3. /\ SubSeq(q, 1, Len(q) - 1) \in Seq(S) /\ Len(SubSeq(q, 1, Len(q) - 1)) = Len(q) - 1
      /\ \A i \in 1..Len(q) - 1 : SubSeq(q, 1, Len(q) - 1)[i] = q[i]
  BY <1>2, VaUpTo
<1> DEFINE f == SubSeq(q, 1, Len(q) - 1)
<1>4. Front(q) = f /\ Last(q) = q[Len(q)] /\ q[Len(q)] \in S
  BY <1>1 DEF Front, Last
<1> HIDE DEF f
<1>5. f \in Seq(S) /\ Len(f) = Len(q) - 1 /\ \A i \in 1..Len(q) - 1 : f[i] = q[i]
  BY <1>3 DEF f
<1> DEFINE a == Append(f, q[Len(q)])
<1>6. a \in Seq(S) /\ Len(a) = Len(q) /\ (\A i \in 1..Len(q) - 1 : a[i] = f[i]) /\ a[Len(q)] = q[Len(q)]
  BY <1>1, <1>4, <1>5
<1> HIDE DEF a
<1>7. \A i \in 1..Len(q) : a[i] = q[i]
  BY <1>1, <1>5, <1>6
<1>8. a = q
  BY <1>6, <1>7
<1>9. QED
  BY <1>1, <1>4, <1>5, <1>8 DEF f, a

\* What is put at a path, and what stood there.
LEMMA VaRest ==
  ASSUME NEW S, NEW p \in Seq(S), NEW q \in Seq(S), IsPrefix(p, q)
  PROVE  /\ SubSeq(q, Len(p) + 1, Len(q)) \in Seq(S)
         /\ p \o SubSeq(q, Len(p) + 1, Len(q)) = q
<1>1. Len(p) \in Nat /\ Len(q) \in Nat /\ Len(p) <= Len(q) /\ p = SubSeq(q, 1, Len(p))
  BY VaPrefixIs
<1> DEFINE r == SubSeq(q, Len(p) + 1, Len(q))
<1>2. /\ r \in Seq(S) /\ Len(r) = Len(q) - Len(p)
      /\ \A i \in 1..Len(q) - Len(p) : r[i] = q[Len(p) + i]
  BY <1>1
<1>3. \A i \in 1..Len(p) : p[i] = q[i]
  BY <1>1, VaUpTo
<1> HIDE DEF r
<1> DEFINE c == p \o r
<1>4. /\ c \in Seq(S) /\ Len(c) = Len(p) + Len(r)
      /\ \A i \in 1..Len(p) + Len(r) : c[i] = IF i <= Len(p) THEN p[i] ELSE r[i - Len(p)]
  BY <1>1, <1>2, ConcatProperties
<1> HIDE DEF c
<1>5. Len(c) = Len(q)
  BY <1>1, <1>2, <1>4
<1>6. ASSUME NEW i \in 1..Len(q)
      PROVE  c[i] = q[i]
  <2>1. CASE i <= Len(p)
    BY <1>1, <1>2, <1>3, <1>4, <2>1
  <2>2. CASE ~(i <= Len(p))
    <3>1. i - Len(p) \in 1..Len(q) - Len(p) /\ Len(p) + (i - Len(p)) = i
      BY <1>1, <2>2
    <3>2. r[i - Len(p)] = q[i]
      BY <1>2, <3>1
    <3>3. i \in 1..Len(p) + Len(r)
      BY <1>1, <1>2
    <3>4. QED
      BY <1>4, <2>2, <3>2, <3>3
  <2>3. QED
    BY <2>1, <2>2
<1>7. c = q
  BY <1>4, <1>5, <1>6
<1>8. QED
  BY <1>2, <1>7 DEF c, r

LEMMA VaJoined ==
  ASSUME NEW S, NEW p \in Seq(S), NEW r \in Seq(S)
  PROVE  /\ p \o r \in Seq(S) /\ IsPrefix(p, p \o r)
         /\ SubSeq(p \o r, Len(p) + 1, Len(p \o r)) = r
<1> DEFINE c == p \o r
<1>1. /\ c \in Seq(S) /\ Len(c) = Len(p) + Len(r)
      /\ \A i \in 1..Len(p) + Len(r) : c[i] = IF i <= Len(p) THEN p[i] ELSE r[i - Len(p)]
      /\ Len(p) \in Nat /\ Len(r) \in Nat
  BY ConcatProperties
<1> HIDE DEF c
<1>2. Len(p) \in 0..Len(c)
  BY <1>1
<1>3. p = SubSeq(c, 1, Len(p))
  <2> DEFINE u == SubSeq(c, 1, Len(p))
  <2>1. u \in Seq(S) /\ Len(u) = Len(p) /\ \A i \in 1..Len(p) : u[i] = c[i]
    BY <1>1, <1>2, VaUpTo
  <2>2. \A i \in 1..Len(p) : c[i] = p[i]
    <3> TAKE i \in 1..Len(p)
    <3>1. i \in 1..Len(p) + Len(r) /\ i <= Len(p)
      BY <1>1
    <3>2. QED
      BY <1>1, <3>1
  <2> HIDE DEF u
  <2>3. p = u
    BY <2>1, <2>2
  <2>4. QED
    BY <2>3 DEF u
<1>4. IsPrefix(p, c)
  BY <1>1, <1>2, <1>3, VaPrefixIs
<1>5. SubSeq(c, Len(p) + 1, Len(c)) = r
  <2> DEFINE u == SubSeq(c, Len(p) + 1, Len(c))
  <2>1. u \in Seq(S) /\ Len(u) = Len(r) /\ \A i \in 1..Len(r) : u[i] = c[Len(p) + i]
    BY <1>1
  <2>2. \A i \in 1..Len(r) : c[Len(p) + i] = r[i]
    BY <1>1
  <2> HIDE DEF u
  <2>3. u = r
    BY <2>1, <2>2
  <2>4. QED
    BY <2>3 DEF u
<1>6. QED
  BY <1>1, <1>4, <1>5 DEF c

-----------------------------------------------------------------------------
VaSegment == ToSet(VaKeys) \cup {"__spyglass_truncated", "originalType"}

VaContainers == {VaObject, VaArray}

\* A tree: every part but the root is below a container, and the items of an array are at
\* the first of the indices.
VaIsTree(t) ==
  /\ t = [p \in DOMAIN t |-> t[p]]
  /\ IsFiniteSet(DOMAIN t) /\ DOMAIN t \in SUBSET Seq(VaSegment) /\ << >> \in DOMAIN t
  /\ \A p \in DOMAIN t : p # << >> => Front(p) \in DOMAIN t /\ t[Front(p)] \in VaContainers
  /\ \A p \in DOMAIN t : t[p] = VaArray =>
       \E n \in 0..Len(VaKeys) : VaChildren(t, p) = {Append(p, VaKeys[i]) : i \in 1..n}

LEMMA VaLabels == VaObject # VaArray
<1>1. VaObject[1] = "object" /\ VaArray[1] = "array"
  BY DEF VaObject, VaArray
<1>2. QED
  BY <1>1

\* What is above a part of a tree is part of it, and a container.
LEMMA VaAbove ==
  ASSUME NEW t, VaIsTree(t), NEW p \in DOMAIN t, NEW n \in 0..Len(p)
  PROVE  SubSeq(p, 1, n) \in DOMAIN t /\ (n < Len(p) => t[SubSeq(p, 1, n)] \in VaContainers)
<1>1. p \in Seq(VaSegment) /\ Len(p) \in Nat
  BY DEF VaIsTree
<1> DEFINE P == {m \in Nat : m <= Len(p) => SubSeq(p, 1, Len(p) - m) \in DOMAIN t}
<1>2. 0 \in P
  <2>1. Len(p) - 0 = Len(p) /\ SubSeq(p, 1, Len(p)) = p
    BY <1>1, SubSeqFull
  <2>2. QED
    BY <2>1
<1>3. \A m \in 1..Len(p) : SubSeq(p, 1, m) \in Seq(VaSegment) /\ SubSeq(p, 1, m) # << >> /\ Front(SubSeq(p, 1, m)) = SubSeq(p, 1, m - 1)
  <2> TAKE m \in 1..Len(p)
  <2>1. m \in 0..Len(p) /\ m > 0
    BY <1>1
  <2>2. SubSeq(p, 1, m) \in Seq(VaSegment) /\ Len(SubSeq(p, 1, m)) = m /\ Front(SubSeq(p, 1, m)) = SubSeq(p, 1, m - 1)
    BY <1>1, <2>1, VaUpTo
  <2>3. QED
    BY <2>1, <2>2
<1>4. ASSUME NEW m \in Nat, m \in P
      PROVE  m + 1 \in P
  <2>1. SUFFICES ASSUME m + 1 <= Len(p)
                 PROVE  SubSeq(p, 1, Len(p) - (m + 1)) \in DOMAIN t
    OBVIOUS
  <2> DEFINE k == Len(p) - m
  <2>2. k \in 1..Len(p) /\ Len(p) - (m + 1) = k - 1 /\ SubSeq(p, 1, k) \in DOMAIN t
    BY <1>1, <1>4, <2>1
  <2> HIDE DEF k
  <2>3. SubSeq(p, 1, k - 1) \in DOMAIN t
    BY <1>3, <2>2 DEF VaIsTree
  <2>4. QED
    BY <2>2, <2>3
<1>5. Nat \subseteq P
  <2> HIDE DEF P
  <2>1. QED
    BY <1>2, <1>4, SetInduction
<1>6. \A m \in 0..Len(p) : SubSeq(p, 1, m) \in DOMAIN t
  <2> TAKE m \in 0..Len(p)
  <2>1. Len(p) - m \in Nat /\ Len(p) - m <= Len(p) /\ Len(p) - (Len(p) - m) = m
    BY <1>1
  <2>2. QED
    BY <1>5, <2>1
<1>7. ASSUME n < Len(p)
      PROVE  t[SubSeq(p, 1, n)] \in VaContainers
  <2> DEFINE k == n + 1
  <2>1. k \in 1..Len(p) /\ k \in 0..Len(p) /\ k - 1 = n
    BY <1>1, <1>7
  <2> HIDE DEF k
  <2>2. SubSeq(p, 1, k) \in DOMAIN t /\ SubSeq(p, 1, k) # << >> /\ Front(SubSeq(p, 1, k)) = SubSeq(p, 1, n)
    BY <1>3, <1>6, <2>1
  <2>3. QED
    BY <2>2 DEF VaIsTree
<1>8. QED
  BY <1>6, <1>7

\* Below what is no container there is nothing.
LEMMA VaBelow ==
  ASSUME NEW t, VaIsTree(t), NEW q \in DOMAIN t, NEW n \in 0..Len(q) - 1
  PROVE  /\ SubSeq(q, 1, n) \in DOMAIN t /\ t[SubSeq(q, 1, n)] \in VaContainers
         /\ SubSeq(q, 1, n + 1) \in VaChildren(t, SubSeq(q, 1, n))
<1>1. q \in Seq(VaSegment) /\ Len(q) \in Nat
  BY DEF VaIsTree
<1>2. n \in 0..Len(q) /\ n + 1 \in 0..Len(q) /\ n < Len(q) /\ n + 1 > 0 /\ (n + 1) - 1 = n
  BY <1>1
<1>3. SubSeq(q, 1, n) \in DOMAIN t /\ t[SubSeq(q, 1, n)] \in VaContainers
  BY <1>2, VaAbove
<1>4. SubSeq(q, 1, n + 1) \in DOMAIN t
  BY <1>2, VaAbove
<1>5. Len(SubSeq(q, 1, n + 1)) = n + 1 /\ Front(SubSeq(q, 1, n + 1)) = SubSeq(q, 1, (n + 1) - 1)
  BY <1>1, <1>2, VaUpTo
<1>6. SubSeq(q, 1, n + 1) # << >>
  BY <1>2, <1>5
<1>7. QED
  BY <1>2, <1>3, <1>4, <1>5, <1>6 DEF VaChildren

\* Two arrays of a length have items at the same indices.
LEMMA VaSameItems ==
  ASSUME VaAssumption, NEW prev, NEW next, VaIsTree(prev), VaIsTree(next),
         NEW p \in DOMAIN prev \cap DOMAIN next, VaDiffArrays(prev, next, p)
  PROVE  VaChildren(prev, p) = VaChildren(next, p)
<1>1. PICK m \in 0..Len(VaKeys) : VaChildren(prev, p) = {Append(p, VaKeys[i]) : i \in 1..m}
  BY DEF VaIsTree, VaDiffArrays
<1>2. PICK n \in 0..Len(VaKeys) : VaChildren(next, p) = {Append(p, VaKeys[i]) : i \in 1..n}
  BY DEF VaIsTree, VaDiffArrays
<1>3. p \in Seq(VaSegment)
  BY DEF VaIsTree
<1>4. VaKeys \in Seq(ToSet(VaKeys)) /\ Len(VaKeys) \in Nat /\ DOMAIN VaKeys = 1..Len(VaKeys)
  BY DEF VaAssumption
<1>5. ASSUME NEW k \in 0..Len(VaKeys)
      PROVE  Cardinality({Append(p, VaKeys[i]) : i \in 1..k}) = k
  <2> DEFINE N == 1..k
             T == {Append(p, VaKeys[i]) : i \in N}
             f == [i \in N |-> Append(p, VaKeys[i])]
  <2>0. k \in Nat /\ N \subseteq DOMAIN VaKeys
    BY <1>4
  <2>1. k \in Nat /\ N \subseteq DOMAIN VaKeys /\ IsFiniteSet(N) /\ Cardinality(N) = k
    BY <2>0, FS_Interval
  <2> HIDE DEF N
  <2>2. ASSUME NEW i \in N, NEW j \in N, Append(p, VaKeys[i]) = Append(p, VaKeys[j])
        PROVE  i = j
    <3>1. VaKeys[i] \in VaSegment /\ VaKeys[j] \in VaSegment
      BY <2>1 DEF VaSegment, ToSet
    <3>2. VaKeys[i] = VaKeys[j]
      BY <1>3, <2>2, <3>1, AppendInjective
    <3>3. QED
      BY <2>1, <3>2 DEF VaAssumption, IsInjective
  <2>3. f \in Bijection(N, T)
    BY <2>2 DEF Bijection, Injection, Surjection, IsInjective
  <2> HIDE DEF T, f
  <2>4. IsFiniteSet(T) /\ Cardinality(T) = Cardinality(N)
    BY <2>1, <2>3, FS_Bijection DEF ExistsBijection
  <2>5. QED
    BY <2>1, <2>4 DEF T, N
<1>6. m = n
  BY <1>1, <1>2, <1>5 DEF VaDiffArrays
<1>7. QED
  BY <1>1, <1>2, <1>6

-----------------------------------------------------------------------------
\* What an operation of a diff is, and where.
LEMMA VaDiffIs ==
  ASSUME NEW prev, NEW next, VaIsTree(prev), VaIsTree(next), NEW op \in VaDiff(prev, next)
  PROVE  /\ op = VaOp(op.op, op.path, op.value) /\ op.path \in DOMAIN prev \cup DOMAIN next
         /\ \/ /\ op.op = "remove" /\ op.path # << >> /\ op.path \in DOMAIN prev /\ op.path \notin DOMAIN next
               /\ prev[Front(op.path)] = VaObject
            \/ /\ op.op = "add" /\ op.path # << >> /\ op.path \in DOMAIN next /\ op.path \notin DOMAIN prev
               /\ prev[Front(op.path)] = VaObject /\ op.value = VaPart(next, op.path)
            \/ /\ op.op = "replace" /\ op.path \in DOMAIN prev /\ op.path \in DOMAIN next
               /\ ~VaGoesOn(prev, next, op.path) /\ op.value = VaPart(next, op.path)
         /\ \A n \in 0..Len(op.path) - 1 :
              /\ SubSeq(op.path, 1, n) \in DOMAIN prev \cap DOMAIN next
              /\ VaGoesOn(prev, next, SubSeq(op.path, 1, n))
<1> DEFINE at(p) == CASE prev[p] = VaObject /\ next[p] = VaObject -> VaDiffObjects(prev, next, p)
                      [] VaDiffArrays(prev, next, p) -> {}
                      [] prev[p] = next[p] /\ prev[p] \notin {VaObject, VaArray} -> {}
                      [] OTHER -> {VaOp("replace", p, VaPart(next, p))}
<1>1. PICK p \in VaCompared(prev, next) : op \in at(p)
  BY DEF VaDiff
<1>2. /\ p \in DOMAIN prev /\ p \in DOMAIN next /\ p \in Seq(VaSegment) /\ Len(p) \in Nat
      /\ \A n \in 0..Len(p) - 1 : VaGoesOn(prev, next, SubSeq(p, 1, n))
  BY DEF VaCompared, VaIsTree
<1>3. \A n \in 0..Len(p) - 1 : SubSeq(p, 1, n) \in DOMAIN prev \cap DOMAIN next
  <2> TAKE n \in 0..Len(p) - 1
  <2>1. n \in 0..Len(p)
    BY <1>2
  <2>2. QED
    BY <1>2, <2>1, VaAbove
<1>4. CASE prev[p] = VaObject /\ next[p] = VaObject
  <2>1. op \in VaDiffObjects(prev, next, p)
    BY <1>1, <1>4
  <2>2. VaGoesOn(prev, next, p)
    BY <1>4 DEF VaGoesOn
  <2>3. ASSUME NEW q, q \in VaChildren(prev, p) \cup VaChildren(next, p)
        PROVE  /\ q # << >> /\ Front(q) = p /\ q \in DOMAIN prev \cup DOMAIN next
               /\ \A n \in 0..Len(q) - 1 :
                    /\ SubSeq(q, 1, n) \in DOMAIN prev \cap DOMAIN next
                    /\ VaGoesOn(prev, next, SubSeq(q, 1, n))
    <3>1. q # << >> /\ Front(q) = p /\ q \in DOMAIN prev \cup DOMAIN next /\ q \in Seq(VaSegment)
      BY <2>3 DEF VaChildren, VaIsTree
    <3>2. Len(q) \in Nat \ {0} /\ Len(p) = Len(q) - 1 /\ p = SubSeq(q, 1, Len(q) - 1)
      BY <3>1, VaFront
    <3>3. ASSUME NEW n \in 0..Len(q) - 1
          PROVE  /\ SubSeq(q, 1, n) \in DOMAIN prev \cap DOMAIN next
                 /\ VaGoesOn(prev, next, SubSeq(q, 1, n))
      <4>1. CASE n = Len(q) - 1
        BY <1>2, <2>2, <3>2, <4>1
      <4>2. CASE n # Len(q) - 1
        <5>1. n \in 0..Len(p) - 1 /\ n \in 0..Len(q) - 1 /\ Len(q) - 1 \in 0..Len(q)
          BY <3>2, <4>2
        <5>2. SubSeq(SubSeq(q, 1, Len(q) - 1), 1, n) = SubSeq(q, 1, n)
          BY <3>1, <5>1, VaUpTo
        <5>3. QED
          BY <1>2, <1>3, <3>2, <5>1, <5>2
      <4>3. QED
        BY <4>1, <4>2
    <3>4. QED
      BY <3>1, <3>3
  <2>4. CASE \E q \in VaChildren(prev, p) \ DOMAIN next : op = VaOp("remove", q, VaNode(VaPrimitive("none"), << >>))
    <3> DEFINE none == VaNode(VaPrimitive("none"), << >>)
    <3> HIDE DEF none
    <3>1. PICK q \in VaChildren(prev, p) \ DOMAIN next : op = VaOp("remove", q, none)
      BY <2>4 DEF none
    <3>2. op.op = "remove" /\ op.path = q /\ op.value = none
      BY <3>1 DEF VaOp
    <3>3. q \in DOMAIN prev /\ q \notin DOMAIN next
      BY DEF VaChildren
    <3>4. QED
      BY <1>4, <2>3, <3>1, <3>2, <3>3
  <2>5. CASE \E q \in VaChildren(next, p) \ DOMAIN prev : op = VaOp("add", q, VaPart(next, q))
    <3>1. PICK q \in VaChildren(next, p) \ DOMAIN prev : op = VaOp("add", q, VaPart(next, q))
      BY <2>5
    <3>2. op.op = "add" /\ op.path = q /\ op.value = VaPart(next, q)
      BY <3>1 DEF VaOp
    <3>3. q \in DOMAIN next /\ q \notin DOMAIN prev
      BY DEF VaChildren
    <3>4. QED
      BY <1>4, <2>3, <3>1, <3>2, <3>3
  <2>6. QED
    BY <2>1, <2>4, <2>5 DEF VaDiffObjects
<1>5. CASE ~(prev[p] = VaObject /\ next[p] = VaObject)
  <2>1. ~VaDiffArrays(prev, next, p) /\ op = VaOp("replace", p, VaPart(next, p))
    BY <1>1, <1>5
  <2>2. op.op = "replace" /\ op.path = p /\ op.value = VaPart(next, p)
    BY <2>1 DEF VaOp
  <2>3. ~VaGoesOn(prev, next, p)
    BY <1>5, <2>1 DEF VaGoesOn
  <2>4. QED
    BY <1>2, <1>3, <2>1, <2>2, <2>3
<1>6. QED
  BY <1>4, <1>5

LEMMA VaDiffPath ==
  ASSUME NEW prev, NEW next, VaIsTree(prev), VaIsTree(next), NEW op \in VaDiff(prev, next)
  PROVE  op.path \in Seq(VaSegment) /\ Len(op.path) \in Nat
<1>1. op.path \in DOMAIN prev \cup DOMAIN next
  BY VaDiffIs
<1>2. op.path \in Seq(VaSegment)
  BY <1>1 DEF VaIsTree
<1>3. QED
  BY <1>2

\* No operation of a diff is about a part of what another one is about.
LEMMA VaApart ==
  ASSUME NEW prev, NEW next, VaIsTree(prev), VaIsTree(next),
         NEW op \in VaDiff(prev, next), NEW po \in VaDiff(prev, next), IsPrefix(po.path, op.path)
  PROVE  po.path = op.path
<1>1. op.path \in Seq(VaSegment) /\ po.path \in Seq(VaSegment)
  BY VaDiffIs DEF VaIsTree
<1>2. Len(po.path) <= Len(op.path) /\ po.path = SubSeq(op.path, 1, Len(po.path))
  BY <1>1, VaPrefixIs
<1>3. Len(op.path) \in Nat /\ Len(po.path) \in Nat
  BY <1>1
<1>4. CASE Len(po.path) = Len(op.path)
  BY <1>1, <1>2, <1>4, SubSeqFull
<1>5. CASE Len(po.path) < Len(op.path)
  <2>1. Len(po.path) \in 0..Len(op.path) - 1
    BY <1>3, <1>5
  <2>2. po.path \in DOMAIN prev \cap DOMAIN next /\ VaGoesOn(prev, next, po.path)
    <3>1. \A n \in 0..Len(op.path) - 1 :
            /\ SubSeq(op.path, 1, n) \in DOMAIN prev \cap DOMAIN next
            /\ VaGoesOn(prev, next, SubSeq(op.path, 1, n))
      BY VaDiffIs
    <3>2. QED
      BY <1>2, <2>1, <3>1
  <2>3. QED
    BY <2>2, VaDiffIs
<1>6. QED
  BY <1>2, <1>3, <1>4, <1>5

VaTouched(done, q) == \E op \in done : IsPrefix(op.path, q)

\* What no operation is about is the same on both sides.
LEMMA VaUntouched ==
  ASSUME VaAssumption, NEW prev, NEW next, VaIsTree(prev), VaIsTree(next),
         NEW q \in DOMAIN prev \cup DOMAIN next, ~VaTouched(VaDiff(prev, next), q)
  PROVE  q \in DOMAIN prev /\ q \in DOMAIN next /\ prev[q] = next[q]
<1> DEFINE at(p) == CASE prev[p] = VaObject /\ next[p] = VaObject -> VaDiffObjects(prev, next, p)
                      [] VaDiffArrays(prev, next, p) -> {}
                      [] prev[p] = next[p] /\ prev[p] \notin {VaObject, VaArray} -> {}
                      [] OTHER -> {VaOp("replace", p, VaPart(next, p))}
           C == VaCompared(prev, next)
<1>1. q \in Seq(VaSegment) /\ Len(q) \in Nat
  BY DEF VaIsTree
<1>2. ASSUME NEW p, p \in Seq(VaSegment), p \in {o.path : o \in VaDiff(prev, next)}
      PROVE  ~IsPrefix(p, q)
  BY <1>2 DEF VaTouched
<1>3. \A p \in C : at(p) \subseteq VaDiff(prev, next)
  BY DEF VaDiff
<1>4. C \subseteq Seq(VaSegment) /\ C \subseteq DOMAIN prev /\ C \subseteq DOMAIN next
  BY DEF VaCompared, VaIsTree
<1>5. ASSUME NEW p \in C, IsPrefix(p, q)
      PROVE  VaGoesOn(prev, next, p) \/ (prev[p] = next[p] /\ prev[p] \notin VaContainers)
  <2> SUFFICES ASSUME ~VaGoesOn(prev, next, p), ~(prev[p] = next[p] /\ prev[p] \notin VaContainers)
               PROVE  FALSE
    OBVIOUS
  <2>1. at(p) = {VaOp("replace", p, VaPart(next, p))}
    BY DEF VaGoesOn, VaContainers
  <2> HIDE DEF at
  <2>2. VaOp("replace", p, VaPart(next, p)) \in VaDiff(prev, next)
    BY <1>3, <2>1
  <2>3. VaOp("replace", p, VaPart(next, p)).path = p
    BY DEF VaOp
  <2>4. QED
    BY <1>5, <2>2, <2>3 DEF VaTouched
<1> DEFINE P == {n \in Nat : n <= Len(q) => SubSeq(q, 1, n) \in C}
<1>6. 0 \in P
  <2>1. SubSeq(q, 1, 0) = << >> /\ Len(<< >>) = 0
    BY <1>1, SubSeqEmpty
  <2>2. << >> \in C
    BY <2>1 DEF VaCompared, VaIsTree
  <2>3. QED
    BY <2>1, <2>2
<1>7. ASSUME NEW n \in Nat, n \in P
      PROVE  n + 1 \in P
  <2>1. SUFFICES ASSUME n + 1 <= Len(q)
                 PROVE  SubSeq(q, 1, n + 1) \in C
    OBVIOUS
  <2> DEFINE p == SubSeq(q, 1, n)
             c == SubSeq(q, 1, n + 1)
  <2>2. n \in 0..Len(q) - 1 /\ n \in 0..Len(q) /\ n + 1 \in 0..Len(q) /\ n <= Len(q) /\ n \in 0..n + 1 /\ n + 1 > 0
    BY <1>1, <2>1
  <2>3. p \in C
    BY <1>7, <2>2
  <2>4. /\ Len(p) = n /\ Len(c) = n + 1 /\ p \in Seq(VaSegment) /\ c \in Seq(VaSegment)
        /\ \A m \in 0..n : SubSeq(c, 1, m) = SubSeq(q, 1, m)
        /\ \A m \in 0..n : SubSeq(p, 1, m) = SubSeq(q, 1, m)
    <3>1. \A m \in 0..n + 1 : SubSeq(c, 1, m) = SubSeq(q, 1, m)
      BY <1>1, <2>2, VaUpTo
    <3>2. Len(p) = n /\ Len(c) = n + 1 /\ p \in Seq(VaSegment) /\ c \in Seq(VaSegment)
      BY <1>1, <2>2, VaUpTo
    <3>3. \A m \in 0..n : SubSeq(p, 1, m) = SubSeq(q, 1, m)
      BY <1>1, <2>2, VaUpTo
    <3>4. \A m \in 0..n : m \in 0..n + 1
      BY <2>2
    <3> HIDE DEF p, c
    <3>5. QED
      BY <3>1, <3>2, <3>3, <3>4
  <2>5. IsPrefix(p, q) /\ IsPrefix(c, q)
    BY <1>1, <2>1, <2>2, <2>4, VaPrefixIs
  <2>6. \/ c \in VaChildren(prev, p) /\ prev[p] \in VaContainers
        \/ c \in VaChildren(next, p) /\ next[p] \in VaContainers
    BY <2>2, VaBelow
  <2> HIDE DEF p, c
  <2>7. VaGoesOn(prev, next, p)
    BY <1>5, <2>3, <2>5, <2>6
  <2>8. c \in DOMAIN prev /\ c \in DOMAIN next
    <3>1. CASE prev[p] = VaObject /\ next[p] = VaObject
      <4>1. VaDiffObjects(prev, next, p) \subseteq VaDiff(prev, next)
        <5>1. at(p) = VaDiffObjects(prev, next, p)
          BY <3>1, VaLabels DEF VaDiffArrays
        <5> HIDE DEF at
        <5>2. QED
          BY <1>3, <2>3, <5>1
      <4>2. ASSUME c \in VaChildren(prev, p) \ DOMAIN next
            PROVE  FALSE
        <5> DEFINE o == VaOp("remove", c, VaNode(VaPrimitive("none"), << >>))
        <5>1. o \in VaDiff(prev, next)
          BY <4>1, <4>2 DEF VaDiffObjects
        <5>2. o.path = c
          BY DEF VaOp
        <5> HIDE DEF o
        <5>3. QED
          BY <2>5, <5>1, <5>2 DEF VaTouched
      <4>3. ASSUME c \in VaChildren(next, p) \ DOMAIN prev
            PROVE  FALSE
        <5> DEFINE o == VaOp("add", c, VaPart(next, c))
        <5>1. o \in VaDiff(prev, next)
          BY <4>1, <4>3 DEF VaDiffObjects
        <5>2. o.path = c
          BY DEF VaOp
        <5> HIDE DEF o
        <5>3. QED
          BY <2>5, <5>1, <5>2 DEF VaTouched
      <4>4. QED
        BY <2>6, <4>2, <4>3 DEF VaChildren
    <3>2. CASE VaDiffArrays(prev, next, p)
      <4>1. VaChildren(prev, p) = VaChildren(next, p)
        BY <1>4, <2>3, <3>2, VaSameItems
      <4>2. QED
        BY <2>6, <4>1 DEF VaChildren
    <3>3. QED
      BY <2>7, <3>1, <3>2 DEF VaGoesOn
  <2>9. \A m \in 0..Len(c) - 1 : VaGoesOn(prev, next, SubSeq(c, 1, m))
    <3> TAKE m \in 0..Len(c) - 1
    <3>1. m \in 0..n
      BY <2>2, <2>4
    <3>2. CASE m = n
      BY <2>4, <2>7, <3>1, <3>2, SubSeqFull
    <3>3. CASE m # n
      <4>1. m \in 0..Len(p) - 1
        BY <2>2, <2>4, <3>1, <3>3
      <4>2. VaGoesOn(prev, next, SubSeq(p, 1, m))
        BY <2>3, <4>1 DEF VaCompared
      <4>3. QED
        BY <2>4, <3>1, <4>2
    <3>4. QED
      BY <3>2, <3>3
  <2>10. QED
    BY <2>8, <2>9 DEF VaCompared, c
<1>8. Nat \subseteq P
  <2> HIDE DEF P
  <2>1. QED
    BY <1>6, <1>7, SetInduction
<1>9. q \in C
  <2>1. Len(q) \in P /\ Len(q) <= Len(q)
    BY <1>1, <1>8
  <2>2. SubSeq(q, 1, Len(q)) = q
    BY <1>1, SubSeqFull
  <2> HIDE DEF C
  <2>3. QED
    BY <2>1, <2>2
<1>10. IsPrefix(q, q)
  BY <1>1, VaPrefixIs, SubSeqFull
<1>11. VaGoesOn(prev, next, q) => prev[q] = next[q]
  BY DEF VaGoesOn, VaDiffArrays
<1>12. QED
  BY <1>4, <1>5, <1>9, <1>10, <1>11

-----------------------------------------------------------------------------
\* The part of a tree below a path, put at that path, is that part again.
LEMMA VaPartPut ==
  ASSUME NEW t, VaIsTree(t), NEW p \in Seq(VaSegment)
  PROVE  /\ {p \o r : r \in DOMAIN VaPart(t, p)} = {q \in DOMAIN t : IsPrefix(p, q)}
         /\ \A q \in DOMAIN t : IsPrefix(p, q) => VaPart(t, p)[SubSeq(q, Len(p) + 1, Len(q))] = t[q]
<1> DEFINE rest(q) == SubSeq(q, Len(p) + 1, Len(q))
           below == {q \in DOMAIN t : IsPrefix(p, q)}
           D == {rest(q) : q \in below}
<1>1. VaPart(t, p) = [q \in D |-> t[p \o q]]
  BY DEF VaPart
<1>2. ASSUME NEW q \in below
      PROVE  rest(q) \in D /\ p \o rest(q) = q
  <2>1. q \in Seq(VaSegment) /\ IsPrefix(p, q)
    BY DEF VaIsTree
  <2>2. QED
    BY <2>1, VaRest
<1> HIDE DEF rest, below
<1>3. {p \o r : r \in D} = below
  BY <1>2
<1>4. \A q \in below : VaPart(t, p)[rest(q)] = t[q]
  <2> HIDE DEF D
  <2>1. QED
    BY <1>1, <1>2
<1>5. DOMAIN VaPart(t, p) = D
  BY <1>1
<1> HIDE DEF D
<1>6. {p \o r : r \in DOMAIN VaPart(t, p)} = below
  BY <1>3, <1>5
<1>7. QED
  BY <1>4, <1>6 DEF below, rest

\* The copy when some operations of the diff have been applied.
VaMixed(prev, next, done) ==
  [q \in {q \in DOMAIN prev : ~VaTouched(done, q)} \cup {q \in DOMAIN next : VaTouched(done, q)} |->
     IF VaTouched(done, q) THEN next[q] ELSE prev[q]]

LEMMA VaMixedNone ==
  ASSUME NEW prev, NEW next, VaIsTree(prev)
  PROVE  VaMixed(prev, next, {}) = prev
<1>1. \A q : ~VaTouched({}, q)
  BY DEF VaTouched
<1> DEFINE m == VaMixed(prev, next, {})
<1>2. m = [q \in DOMAIN prev |-> prev[q]]
  BY <1>1 DEF VaMixed
<1>3. QED
  BY <1>2 DEF VaIsTree

LEMMA VaMixedAll ==
  ASSUME VaAssumption, NEW prev, NEW next, VaIsTree(prev), VaIsTree(next)
  PROVE  VaMixed(prev, next, VaDiff(prev, next)) = next
<1> DEFINE d == VaDiff(prev, next)
           D == {q \in DOMAIN prev : ~VaTouched(d, q)} \cup {q \in DOMAIN next : VaTouched(d, q)}
<1>1. \A q \in DOMAIN prev \cup DOMAIN next : ~VaTouched(d, q) => q \in DOMAIN prev /\ q \in DOMAIN next /\ prev[q] = next[q]
  BY VaUntouched
<1>2. VaMixed(prev, next, d) = [q \in D |-> IF VaTouched(d, q) THEN next[q] ELSE prev[q]]
  BY DEF VaMixed
<1> HIDE DEF d
<1>3. D = DOMAIN next
  BY <1>1
<1>4. \A q \in D : (IF VaTouched(d, q) THEN next[q] ELSE prev[q]) = next[q]
  BY <1>1
<1> HIDE DEF D
<1>5. VaMixed(prev, next, d) = [q \in DOMAIN next |-> next[q]]
  BY <1>2, <1>3, <1>4
<1>6. QED
  BY <1>5 DEF VaIsTree, d

\* What is above the path of an operation is in the copy what it was before.
LEMMA VaAboveMixed ==
  ASSUME NEW prev, NEW next, VaIsTree(prev), VaIsTree(next),
         NEW done \in SUBSET VaDiff(prev, next), NEW op \in VaDiff(prev, next), NEW n \in 0..Len(op.path) - 1
  PROVE  /\ SubSeq(op.path, 1, n) \in DOMAIN prev /\ SubSeq(op.path, 1, n) \in DOMAIN VaMixed(prev, next, done)
         /\ VaMixed(prev, next, done)[SubSeq(op.path, 1, n)] = prev[SubSeq(op.path, 1, n)]
         /\ prev[SubSeq(op.path, 1, n)] \in VaContainers /\ ~IsPrefix(op.path, SubSeq(op.path, 1, n))
<1> DEFINE p == op.path
           a == SubSeq(p, 1, n)
<1>1. p \in Seq(VaSegment) /\ Len(p) \in Nat
  BY VaDiffPath
<1>2. \A k \in 0..Len(op.path) - 1 :
              /\ SubSeq(op.path, 1, k) \in DOMAIN prev \cap DOMAIN next
              /\ VaGoesOn(prev, next, SubSeq(op.path, 1, k))
  BY VaDiffIs
<1>3. a \in DOMAIN prev /\ VaGoesOn(prev, next, a)
  BY <1>2
<1>4. a \in Seq(VaSegment) /\ Len(a) = n /\ n < Len(p) /\ n \in Nat
      /\ \A k \in 0..n : SubSeq(a, 1, k) = SubSeq(p, 1, k)
  <2>1. n \in 0..Len(p) /\ n < Len(p) /\ n \in Nat
    BY <1>1
  <2>2. QED
    BY <1>1, <2>1, VaUpTo
<1> HIDE DEF a, p
<1>5. ~IsPrefix(p, a)
  BY <1>1, <1>4, VaPrefixIs
<1>6. ASSUME NEW po \in VaDiff(prev, next), IsPrefix(po.path, a)
      PROVE  FALSE
  <2>1. po.path \in Seq(VaSegment)
    BY VaDiffIs DEF VaIsTree
  <2>2. Len(po.path) \in 0..n /\ po.path = SubSeq(p, 1, Len(po.path))
    <3>1. Len(po.path) \in Nat /\ Len(po.path) <= Len(a) /\ po.path = SubSeq(a, 1, Len(po.path))
      BY <1>4, <1>6, <2>1, VaPrefixIs
    <3>2. Len(po.path) \in 0..n
      BY <1>4, <3>1
    <3>3. QED
      BY <1>4, <3>1, <3>2
  <2>3. IsPrefix(po.path, p)
    BY <1>1, <1>4, <2>1, <2>2, VaPrefixIs
  <2>4. po.path = p
    BY <2>3, VaApart DEF p
  <2>5. QED
    BY <1>4, <2>2, <2>4
<1>7. ~VaTouched(done, a)
  BY <1>6 DEF VaTouched
<1>8. a \in DOMAIN VaMixed(prev, next, done) /\ VaMixed(prev, next, done)[a] = prev[a]
  BY <1>3, <1>7 DEF VaMixed
<1>9. prev[a] \in VaContainers
  BY <1>3 DEF VaGoesOn, VaDiffArrays, VaContainers
<1>10. QED
  BY <1>3, <1>5, <1>8, <1>9 DEF a, p

\* The copy takes an operation of the diff, one after the others, at its place.
LEMMA VaTakes ==
  ASSUME NEW prev, NEW next, VaIsTree(prev), VaIsTree(next),
         NEW done \in SUBSET VaDiff(prev, next), NEW op \in VaDiff(prev, next)
  PROVE  /\ ~VaRefuses(VaMixed(prev, next, done), op)
         /\ ~(op.op = "remove" /\ op.path # << >> /\ VaIsArray(VaMixed(prev, next, done), Front(op.path)))
<1> DEFINE p == op.path
           m == VaMixed(prev, next, done)
<1> HIDE DEF m
<1>1. p \in Seq(VaSegment) /\ Len(p) \in Nat
  BY VaDiffPath
<1>2. \A n \in 0..Len(p) - 1 : SubSeq(p, 1, n) \in DOMAIN m /\ m[SubSeq(p, 1, n)] = prev[SubSeq(p, 1, n)]
  BY VaAboveMixed DEF m
<1>3. p # << >> => Front(p) \in DOMAIN m /\ m[Front(p)] = prev[Front(p)]
  <2> SUFFICES ASSUME p # << >>
               PROVE  Front(p) \in DOMAIN m /\ m[Front(p)] = prev[Front(p)]
    OBVIOUS
  <2> HIDE DEF p
  <2>1. Len(p) - 1 \in 0..Len(p) - 1 /\ Front(p) = SubSeq(p, 1, Len(p) - 1)
    BY <1>1, VaFront
  <2>2. QED
    BY <1>2, <2>1
<1>4. op.op # "replace" => prev[Front(p)] = VaObject /\ p # << >>
  BY VaDiffIs
<1>5. op.op = "replace" => p \in DOMAIN m
  <2>1. op.op = "replace" => p \in DOMAIN prev /\ p \in DOMAIN next
    BY VaDiffIs
  <2>2. QED
    BY <2>1 DEF m, VaMixed
<1>6. ASSUME NEW n \in 1..Len(p), VaIsArray(m, Front(SubSeq(p, 1, n))), SubSeq(p, 1, n) \notin DOMAIN m
      PROVE  FALSE
  <2> HIDE DEF p
  <2>1. n = Len(p)
    <3>1. n \in 0..Len(p) - 1 \/ n = Len(p)
      BY <1>1
    <3>2. QED
      BY <1>2, <1>6, <3>1
  <2>2. SubSeq(p, 1, n) = p
    BY <1>1, <2>1, SubSeqFull
  <2>3. op.op # "replace"
    BY <1>5, <1>6, <2>2
  <2>4. QED
    BY <1>3, <1>4, <1>6, <2>2, <2>3, VaLabels DEF VaIsArray
<1>7. ~VaRefuses(m, op)
  BY <1>6 DEF VaRefuses
<1>8. ~(op.op = "remove" /\ p # << >> /\ VaIsArray(m, Front(p)))
  BY <1>3, <1>4, VaLabels DEF VaIsArray
<1>9. QED
  BY <1>7, <1>8 DEF m

LEMMA VaMixedStep ==
  ASSUME NEW prev, NEW next, VaIsTree(prev), VaIsTree(next),
         NEW done \in SUBSET VaDiff(prev, next), NEW op \in VaDiff(prev, next)
  PROVE  VaSetAtPath(VaMixed(prev, next, done), op) = VaMixed(prev, next, done \cup {op})
<1> DEFINE p == op.path
           m == VaMixed(prev, next, done)
           w == VaMixed(prev, next, done \cup {op})
           above == {SubSeq(p, 1, n) : n \in 0..Len(p) - 1}
           kept == {q \in DOMAIN m : ~IsPrefix(p, q)}
           put == IF op.op = "remove" THEN {} ELSE {p \o q : q \in DOMAIN op.value}
           rest(q) == SubSeq(q, Len(p) + 1, Len(q))
           val(q) == IF q \in put THEN op.value[rest(q)]
                     ELSE IF q \in above /\ ~VaIsArray(m, q) THEN VaObject ELSE m[q]
<1>1. VaSetAtPath(m, op) = [q \in kept \cup above \cup put |-> val(q)]
  <2>1. ~VaRefuses(m, op) /\ ~(op.op = "remove" /\ p # << >> /\ VaIsArray(m, Front(p)))
    BY VaTakes
  <2> HIDE DEF m
  <2>2. QED
    BY <2>1 DEF VaSetAtPath
<1>2. p \in Seq(VaSegment) /\ Len(p) \in Nat
  BY VaDiffPath
<1>3. \A a \in above : a \in DOMAIN prev /\ a \in DOMAIN m /\ m[a] = prev[a] /\ prev[a] \in VaContainers /\ ~IsPrefix(p, a)
  <2> SUFFICES ASSUME NEW n \in 0..Len(op.path) - 1, NEW a, a = SubSeq(op.path, 1, n)
               PROVE  a \in DOMAIN prev /\ a \in DOMAIN m /\ m[a] = prev[a] /\ prev[a] \in VaContainers /\ ~IsPrefix(p, a)
    OBVIOUS
  <2>1. /\ SubSeq(op.path, 1, n) \in DOMAIN prev /\ SubSeq(op.path, 1, n) \in DOMAIN VaMixed(prev, next, done)
        /\ VaMixed(prev, next, done)[SubSeq(op.path, 1, n)] = prev[SubSeq(op.path, 1, n)]
        /\ prev[SubSeq(op.path, 1, n)] \in VaContainers /\ ~IsPrefix(op.path, SubSeq(op.path, 1, n))
    <3> HIDE DEF m, w, above, kept, put, p
    <3>1. QED
      BY VaAboveMixed
  <2>2. QED
    BY <2>1
<1>4. /\ put = {q \in DOMAIN next : IsPrefix(p, q)}
      /\ \A q \in put : op.value[rest(q)] = next[q]
  <2>1. CASE op.op = "remove"
    <3>1. p \notin DOMAIN next
      BY <2>1, VaDiffIs
    <3>2. ASSUME NEW q \in DOMAIN next, IsPrefix(p, q)
          PROVE  FALSE
      <4>1. q \in Seq(VaSegment)
        BY DEF VaIsTree
      <4>2. Len(p) \in 0..Len(q) /\ p = SubSeq(q, 1, Len(p))
        BY <1>2, <3>2, <4>1, VaPrefixIs
      <4>3. p \in DOMAIN next
        BY <4>2, VaAbove
      <4>4. QED
        BY <3>1, <4>3
    <3>3. QED
      BY <2>1, <3>2
  <2>2. CASE op.op # "remove"
    <3>1. op.value = VaPart(next, p)
      BY <2>2, VaDiffIs
    <3>2. /\ {p \o r : r \in DOMAIN VaPart(next, p)} = {q \in DOMAIN next : IsPrefix(p, q)}
          /\ \A q \in DOMAIN next : IsPrefix(p, q) => VaPart(next, p)[rest(q)] = next[q]
      BY <1>2, VaPartPut
    <3> HIDE DEF p, rest
    <3>3. put = {q \in DOMAIN next : IsPrefix(p, q)}
      BY <2>2, <3>1, <3>2
    <3>4. QED
      BY <3>1, <3>2, <3>3
  <2>3. QED
    BY <2>1, <2>2
<1>5. \A q : VaTouched(done \cup {op}, q) <=> VaTouched(done, q) \/ IsPrefix(p, q)
  BY DEF VaTouched
<1> DEFINE D == {q \in DOMAIN prev : ~VaTouched(done, q)} \cup {q \in DOMAIN next : VaTouched(done, q)}
           E == {q \in DOMAIN prev : ~VaTouched(done \cup {op}, q)} \cup {q \in DOMAIN next : VaTouched(done \cup {op}, q)}
<1>6. DOMAIN m = D /\ \A q \in D : m[q] = IF VaTouched(done, q) THEN next[q] ELSE prev[q]
  BY DEF VaMixed
<1>7. w = [q \in E |-> IF VaTouched(done \cup {op}, q) THEN next[q] ELSE prev[q]]
  BY DEF VaMixed
<1> HIDE DEF p, m, w, above, put, rest
<1>8. kept \cup above \cup put = E
  BY <1>3, <1>4, <1>5, <1>6
<1>9. ASSUME NEW q \in E
      PROVE  val(q) = IF VaTouched(done \cup {op}, q) THEN next[q] ELSE prev[q]
  <2>1. CASE q \in put
    BY <1>4, <1>5, <2>1
  <2>2. CASE q \notin put
    <3>1. q \in DOMAIN m /\ ~IsPrefix(p, q)
      BY <1>3, <1>8, <2>2
    <3>2. val(q) = m[q]
      <4>1. CASE q \in above /\ ~VaIsArray(m, q)
        BY <1>3, <2>2, <3>1, <4>1 DEF VaIsArray, VaContainers
      <4>2. CASE ~(q \in above /\ ~VaIsArray(m, q))
        BY <2>2, <4>2
      <4>3. QED
        BY <4>1, <4>2
    <3> HIDE DEF val
    <3>3. QED
      BY <1>5, <1>6, <3>1, <3>2
  <2>3. QED
    BY <2>1, <2>2
<1> HIDE DEF E, val, kept
<1>10. VaSetAtPath(m, op) = w
  BY <1>1, <1>7, <1>8, <1>9
<1>11. QED
  BY <1>10 DEF m, w

-----------------------------------------------------------------------------
\* A removal carries no value.
LEMMA VaRemovalIs ==
  ASSUME NEW prev, NEW next, NEW op \in VaDiff(prev, next), op.op = "remove"
  PROVE  op.value = VaNode(VaPrimitive("none"), << >>)
<1> DEFINE none == VaNode(VaPrimitive("none"), << >>)
           at(p) == CASE prev[p] = VaObject /\ next[p] = VaObject -> VaDiffObjects(prev, next, p)
                      [] VaDiffArrays(prev, next, p) -> {}
                      [] prev[p] = next[p] /\ prev[p] \notin {VaObject, VaArray} -> {}
                      [] OTHER -> {VaOp("replace", p, VaPart(next, p))}
<1>1. PICK p \in VaCompared(prev, next) : op \in at(p)
  BY DEF VaDiff
<1>2. CASE prev[p] = VaObject /\ next[p] = VaObject
  <2>1. at(p) = VaDiffObjects(prev, next, p)
    BY <1>2, VaLabels DEF VaDiffArrays
  <2> HIDE DEF at
  <2>2. CASE \E q \in VaChildren(prev, p) \ DOMAIN next : op = VaOp("remove", q, none)
    <3> HIDE DEF none
    <3>1. op.value = none
      BY <2>2 DEF VaOp
    <3>2. QED
      BY <3>1 DEF none
  <2>3. CASE \E q \in VaChildren(next, p) \ DOMAIN prev : op = VaOp("add", q, VaPart(next, q))
    <3>1. op.op = "add"
      BY <2>3 DEF VaOp
    <3>2. QED
      BY <3>1
  <2>4. QED
    BY <1>1, <2>1, <2>2, <2>3 DEF VaDiffObjects
<1>3. CASE ~(prev[p] = VaObject /\ next[p] = VaObject)
  <2>1. at(p) \subseteq {VaOp("replace", p, VaPart(next, p))}
    BY <1>3, VaLabels DEF VaDiffArrays
  <2> HIDE DEF at
  <2>2. op.op = "replace"
    BY <1>1, <2>1 DEF VaOp
  <2>3. QED
    BY <2>2
<1>4. QED
  BY <1>2, <1>3

\* A diff has an operation for a path at most, and so is finite.
LEMMA VaDiffFinite ==
  ASSUME NEW prev, NEW next, VaIsTree(prev), VaIsTree(next)
  PROVE  IsFiniteSet(VaDiff(prev, next))
<1> DEFINE D == VaDiff(prev, next)
           P == DOMAIN prev \cup DOMAIN next
           here == {o.path : o \in D}
           f == [p \in here |-> CHOOSE o \in D : o.path = p]
<1>1. IsFiniteSet(P)
  BY FS_Union DEF VaIsTree
<1>2. here \subseteq P
  BY VaDiffIs
<1>3. IsFiniteSet(here)
  BY <1>1, <1>2, FS_Subset
<1>4. ASSUME NEW o \in D, NEW u \in D, o.path = u.path
      PROVE  o = u
  <2>1. o = VaOp(o.op, o.path, o.value) /\ u = VaOp(u.op, u.path, u.value)
    BY VaDiffIs
  <2>2. \/ /\ o.op = "remove" /\ o.path \in DOMAIN prev /\ o.path \notin DOMAIN next
        \/ o.op = "add" /\ o.path \in DOMAIN next /\ o.path \notin DOMAIN prev /\ o.value = VaPart(next, o.path)
        \/ o.op = "replace" /\ o.path \in DOMAIN prev /\ o.path \in DOMAIN next /\ o.value = VaPart(next, o.path)
    BY VaDiffIs
  <2>3. \/ /\ u.op = "remove" /\ u.path \in DOMAIN prev /\ u.path \notin DOMAIN next
        \/ u.op = "add" /\ u.path \in DOMAIN next /\ u.path \notin DOMAIN prev /\ u.value = VaPart(next, u.path)
        \/ u.op = "replace" /\ u.path \in DOMAIN prev /\ u.path \in DOMAIN next /\ u.value = VaPart(next, u.path)
    BY VaDiffIs
  <2>4. o.op = u.op /\ (o.op # "remove" => o.value = u.value)
    BY <1>4, <2>2, <2>3
  <2>5. o.op = "remove" => o.value = u.value
    BY <2>4, VaRemovalIs
  <2>6. QED
    BY <1>4, <2>1, <2>4, <2>5
<1>5. f \in Surjection(here, D)
  <2> HIDE DEF D
  <2>1. \A o \in D : f[o.path] = o /\ o.path \in here
    BY <1>4
  <2>2. f \in [here -> D]
    OBVIOUS
  <2> HIDE DEF f, here
  <2>3. QED
    BY <2>1, <2>2 DEF Surjection
<1>6. QED
  BY <1>3, <1>5, FS_Surjection

IsVaResult(f, tree, ops, n) == f = [i \in 0..n |-> IF i = 0 THEN tree ELSE VaSetAtPath(f[i - 1], ops[i])]

\* The function by which VaApplyPatch is defined does exist.
LEMMA VaResultDefined ==
  ASSUME NEW tree, NEW ops, NEW m \in Nat
  PROVE  \E f : IsVaResult(f, tree, ops, m)
<1> DEFINE P == {n \in Nat : \E f : IsVaResult(f, tree, ops, n)}
<1>1. 0 \in P
  <2> DEFINE f == [i \in 0..0 |-> tree]
  <2>1. IsVaResult(f, tree, ops, 0)
    BY DEF IsVaResult
  <2>2. QED
    BY <2>1
<1>2. ASSUME NEW n \in Nat, n \in P
      PROVE  n + 1 \in P
  <2>1. PICK f : IsVaResult(f, tree, ops, n)
    BY <1>2
  <2> DEFINE g == [i \in 0..n + 1 |-> IF i = n + 1 THEN VaSetAtPath(f[n], ops[n + 1]) ELSE f[i]]
  <2>2. ASSUME NEW i \in 0..n + 1
        PROVE  g[i] = IF i = 0 THEN tree ELSE VaSetAtPath(g[i - 1], ops[i])
    <3>1. CASE i = 0
      BY <2>1, <3>1 DEF IsVaResult
    <3>2. CASE i # 0
      <4>1. i - 1 \in 0..n + 1 /\ i - 1 # n + 1 /\ g[i - 1] = f[i - 1]
        BY <3>2
      <4>2. CASE i = n + 1
        BY <3>2, <4>1, <4>2
      <4>3. CASE i # n + 1
        <5>1. i \in 0..n /\ g[i] = f[i]
          BY <4>3
        <5>2. f[i] = VaSetAtPath(f[i - 1], ops[i])
          BY <2>1, <3>2, <5>1 DEF IsVaResult
        <5>3. QED
          BY <3>2, <4>1, <5>1, <5>2
      <4>4. QED
        BY <4>2, <4>3
    <3>3. QED
      BY <3>1, <3>2
  <2>3. IsVaResult(g, tree, ops, n + 1)
    BY <2>2 DEF IsVaResult
  <2> HIDE DEF g
  <2>4. QED
    BY <2>3
<1> HIDE DEF P
<1>3. Nat \subseteq P
  BY <1>1, <1>2, SetInduction
<1>4. QED
  BY <1>3 DEF P

\* diffValues and applyPatch: the patch between two trees, its operations in whatever order,
\* turns the first into the second.
THEOREM PatchesAreExact ==
  ASSUME VaAssumption, NEW prev, NEW next, VaIsTree(prev), VaIsTree(next),
         NEW ops \in SetToSeqs(VaDiff(prev, next))
  PROVE  VaApplyPatch(prev, ops) = next
<1> DEFINE D == VaDiff(prev, next)
           n == Cardinality(D)
           f == CHOOSE f : f = [i \in 0..n |-> IF i = 0 THEN prev ELSE VaSetAtPath(f[i - 1], ops[i])]
           done(i) == {ops[j] : j \in 1..i}
<1>1. IsFiniteSet(D) /\ n \in Nat
  BY VaDiffFinite, FS_CardinalityType
<1> HIDE DEF n, D
<1>2. ops \in [1..n -> D] /\ \A i, j \in 1..n : i # j => ops[i] # ops[j]
  BY DEF SetToSeqs, n, D
<1>3. Len(ops) = n
  BY <1>1, <1>2, IntervalFits
<1>4. done(n) = D
  <2> DEFINE N == 1..n
             T == {ops[j] : j \in N}
  <2>1. IsFiniteSet(N) /\ Cardinality(N) = n
    BY <1>1, FS_Interval
  <2>2. ops \in Bijection(N, T)
    BY <1>2 DEF Bijection, Injection, Surjection, IsInjective
  <2>3. T \subseteq D
    BY <1>2
  <2> HIDE DEF N, T
  <2>4. Cardinality(T) = Cardinality(D)
    BY <2>1, <2>2, FS_Bijection DEF ExistsBijection, n
  <2>5. T = D
    BY <1>1, <2>3, <2>4, FS_Subset
  <2>6. QED
    BY <2>5 DEF T, N
<1>5. f = [i \in 0..n |-> IF i = 0 THEN prev ELSE VaSetAtPath(f[i - 1], ops[i])]
  <2>1. PICK g : IsVaResult(g, prev, ops, n)
    BY <1>1, VaResultDefined
  <2>2. QED
    BY <2>1 DEF IsVaResult
<1>6. VaApplyPatch(prev, ops) = f[n]
  BY <1>3 DEF VaApplyPatch
<1> HIDE DEF f
<1> DEFINE P == {i \in Nat : i <= n => f[i] = VaMixed(prev, next, done(i))}
<1>7. 0 \in P
  <2>1. done(0) = {}
    OBVIOUS
  <2>2. f[0] = prev
    BY <1>1, <1>5
  <2> HIDE DEF done
  <2>3. QED
    BY <2>1, <2>2, VaMixedNone
<1>8. ASSUME NEW i \in Nat, i \in P
      PROVE  i + 1 \in P
  <2>1. SUFFICES ASSUME i + 1 <= n
                 PROVE  f[i + 1] = VaMixed(prev, next, done(i + 1))
    OBVIOUS
  <2>2. i + 1 \in 0..n /\ i + 1 \in 1..n /\ i + 1 # 0 /\ (i + 1) - 1 = i /\ i <= n
    BY <1>1, <2>1
  <2>3. f[i + 1] = VaSetAtPath(f[i], ops[i + 1]) /\ f[i] = VaMixed(prev, next, done(i))
    BY <1>5, <1>8, <2>2
  <2>4. done(i + 1) = done(i) \cup {ops[i + 1]}
    <3>1. 1..i + 1 = 1..i \cup {i + 1}
      OBVIOUS
    <3>2. QED
      BY <3>1
  <2>5. done(i) \in SUBSET D /\ ops[i + 1] \in D
    <3>1. \A j \in 1..i : j \in 1..n
      BY <1>1, <2>2
    <3>2. QED
      BY <1>2, <2>2, <3>1
  <2> DEFINE o == ops[i + 1]
             d == done(i)
  <2> HIDE DEF o, d
  <2>6. o \in VaDiff(prev, next) /\ d \in SUBSET VaDiff(prev, next)
    BY <2>5 DEF D, o, d
  <2>7. VaSetAtPath(VaMixed(prev, next, d), o) = VaMixed(prev, next, d \cup {o})
    BY <2>6, VaMixedStep
  <2> HIDE DEF done
  <2>8. QED
    BY <2>3, <2>4, <2>7 DEF o, d
<1>9. Nat \subseteq P
  <2> HIDE DEF P
  <2>1. QED
    BY <1>7, <1>8, SetInduction
<1>10. f[n] = VaMixed(prev, next, D)
  <2> HIDE DEF done
  <2>1. QED
    BY <1>1, <1>4, <1>9
<1>11. QED
  BY <1>6, <1>10, VaMixedAll DEF D

-----------------------------------------------------------------------------
\* Trees from trees.

\* A path one segment further down.
VaDown(k, q) == <<k>> \o q

LEMMA VaUnder ==
  ASSUME NEW S, NEW k \in S, NEW q \in Seq(S)
  PROVE  /\ VaDown(k, q) \in Seq(S) /\ VaDown(k, q) # << >> /\ Len(VaDown(k, q)) = Len(q) + 1 /\ Len(q) \in Nat
         /\ Head(VaDown(k, q)) = k /\ Tail(VaDown(k, q)) = q
         /\ \A n \in 0..Len(q) : SubSeq(VaDown(k, q), 1, n + 1) = VaDown(k, SubSeq(q, 1, n))
         /\ q = << >> => Front(VaDown(k, q)) = << >>
         /\ q # << >> => Front(VaDown(k, q)) = VaDown(k, Front(q))
         /\ \A x \in S : Append(VaDown(k, q), x) = VaDown(k, Append(q, x))
<1> DEFINE one == <<k>>
           c == one \o q
<1>1. one \in Seq(S) /\ Len(one) = 1 /\ one[1] = k /\ Len(q) \in Nat
  OBVIOUS
<1> HIDE DEF one
<1>2. /\ c \in Seq(S) /\ Len(c) = 1 + Len(q) /\ Len(q) \in Nat
      /\ \A i \in 1..1 + Len(q) : c[i] = IF i <= 1 THEN one[i] ELSE q[i - 1]
  <2>1. /\ c \in Seq(S) /\ Len(c) = Len(one) + Len(q) /\ Len(q) \in Nat
        /\ \A i \in 1..Len(one) + Len(q) : c[i] = IF i <= Len(one) THEN one[i] ELSE q[i - Len(one)]
    <3>1. /\ one \o q \in Seq(S) /\ Len(one \o q) = Len(one) + Len(q)
          /\ \A i \in 1..Len(one) + Len(q) : (one \o q)[i] = IF i <= Len(one) THEN one[i] ELSE q[i - Len(one)]
      BY <1>1, ConcatProperties
    <3>2. QED
      BY <1>1, <3>1
  <2> HIDE DEF c
  <2>2. QED
    BY <1>1, <2>1
<1> HIDE DEF c
<1>3. c # << >> /\ c[1] = k /\ Len(c) = Len(q) + 1 /\ \A i \in 1..Len(q) : c[i + 1] = q[i]
  <2>1. \A i \in 1..Len(q) : i + 1 \in 1..1 + Len(q) /\ ~(i + 1 <= 1) /\ (i + 1) - 1 = i
    BY <1>2
  <2>2. 1 \in 1..1 + Len(q)
    BY <1>2
  <2>3. QED
    BY <1>1, <1>2, <2>1, <2>2
<1>4. Head(c) = k
  BY <1>2, <1>3
<1>5. Tail(c) = q
  <2>1. Tail(c) \in Seq(S) /\ Len(Tail(c)) = Len(q) /\ \A i \in 1..Len(q) : Tail(c)[i] = c[i + 1]
    <3>1. Tail(c) \in Seq(S) /\ Len(Tail(c)) = Len(c) - 1 /\ \A i \in 1..Len(Tail(c)) : Tail(c)[i] = c[i + 1]
      BY <1>2, <1>3, HeadTailProperties
    <3>2. Len(c) - 1 = Len(q)
      BY <1>2, <1>3
    <3>3. QED
      BY <3>1, <3>2
  <2>2. \A i \in 1..Len(Tail(c)) : Tail(c)[i] = q[i]
    BY <1>3, <2>1
  <2>3. QED
    BY <2>1, <2>2, SeqEqual
<1>6. \A d, e \in Seq(S) : Len(d) = Len(e) /\ (\A i \in 1..Len(d) : d[i] = e[i]) => d = e
  BY SeqEqual
<1>7. ASSUME NEW n \in 0..Len(q)
      PROVE  SubSeq(c, 1, n + 1) = one \o SubSeq(q, 1, n)
  <2> DEFINE u == SubSeq(q, 1, n)
             v == SubSeq(c, 1, n + 1)
             w == one \o u
  <2>1. n \in Nat /\ n + 1 \in 0..Len(c)
    BY <1>2, <1>3
  <2>2. u \in Seq(S) /\ Len(u) = n /\ \A i \in 1..n : u[i] = q[i]
    BY VaUpTo
  <2>3. v \in Seq(S) /\ Len(v) = n + 1 /\ \A i \in 1..n + 1 : v[i] = c[i]
    BY <1>2, <2>1, VaUpTo
  <2> HIDE DEF u, v
  <2>4. w \in Seq(S) /\ Len(w) = 1 + n /\ \A i \in 1..1 + n : w[i] = IF i <= 1 THEN one[i] ELSE u[i - 1]
    <3>1. /\ w \in Seq(S) /\ Len(w) = Len(one) + Len(u)
          /\ \A i \in 1..Len(one) + Len(u) : w[i] = IF i <= Len(one) THEN one[i] ELSE u[i - Len(one)]
      BY <1>1, <2>2, ConcatProperties
    <3> HIDE DEF w
    <3>2. QED
      BY <1>1, <2>2, <3>1
  <2> HIDE DEF w
  <2>5. ASSUME NEW i \in 1..n + 1
        PROVE  v[i] = w[i]
    <3>1. CASE i = 1
      BY <1>1, <1>3, <2>1, <2>3, <2>4, <3>1
    <3>2. CASE i # 1
      <4> DEFINE j == i - 1
      <4>1. j \in 1..n /\ j \in 1..Len(q) /\ i = j + 1 /\ ~(i <= 1) /\ i \in 1..1 + n
        BY <1>2, <2>1, <3>2
      <4>2. w[i] = u[j]
        BY <2>4, <4>1
      <4> HIDE DEF j
      <4>3. QED
        BY <1>3, <2>2, <2>3, <4>1, <4>2
    <3>3. QED
      BY <3>1, <3>2
  <2>6. Len(v) = Len(w)
    BY <2>1, <2>3, <2>4
  <2>7. v = w
    BY <1>6, <2>3, <2>4, <2>5, <2>6
  <2>8. QED
    BY <2>7 DEF u, v, w
<1>8. (q = << >> => Front(c) = << >>) /\ (q # << >> => Front(c) = one \o Front(q))
  <2>1. Front(c) = SubSeq(c, 1, Len(q))
    <3>1. Front(c) = SubSeq(c, 1, Len(c) - 1)
      BY <1>2, <1>3, VaFront
    <3>2. Len(c) - 1 = Len(q)
      BY <1>2
    <3>3. QED
      BY <3>1, <3>2
  <2>2. CASE q = << >>
    BY <1>2, <2>1, <2>2, SubSeqEmpty
  <2>3. CASE q # << >>
    <3> DEFINE m == Len(q) - 1
    <3>1. m \in 0..Len(q) /\ m + 1 = Len(q) /\ Front(q) = SubSeq(q, 1, m)
      BY <2>3, VaFront
    <3> HIDE DEF m
    <3>2. SubSeq(c, 1, m + 1) = one \o SubSeq(q, 1, m)
      BY <1>7, <3>1
    <3>3. QED
      BY <2>1, <2>3, <3>1, <3>2
  <2>4. QED
    BY <2>2, <2>3
<1>9. ASSUME NEW x \in S
      PROVE  Append(c, x) = one \o Append(q, x)
  <2> DEFINE u == Append(q, x)
             v == Append(c, x)
             w == one \o u
  <2>1. u \in Seq(S) /\ Len(u) = Len(q) + 1 /\ (\A i \in 1..Len(q) : u[i] = q[i]) /\ u[Len(q) + 1] = x
    BY AppendProperties
  <2>2. v \in Seq(S) /\ Len(v) = Len(c) + 1 /\ (\A i \in 1..Len(c) : v[i] = c[i]) /\ v[Len(c) + 1] = x
    BY <1>2, AppendProperties
  <2> HIDE DEF u, v
  <2>3. w \in Seq(S) /\ Len(w) = 1 + Len(u) /\ \A i \in 1..1 + Len(u) : w[i] = IF i <= 1 THEN one[i] ELSE u[i - 1]
    <3>1. /\ w \in Seq(S) /\ Len(w) = Len(one) + Len(u)
          /\ \A i \in 1..Len(one) + Len(u) : w[i] = IF i <= Len(one) THEN one[i] ELSE u[i - Len(one)]
      BY <1>1, <2>1, ConcatProperties
    <3> HIDE DEF w
    <3>2. QED
      BY <1>1, <2>1, <3>1
  <2> HIDE DEF w
  <2>4. ASSUME NEW i \in 1..Len(v)
        PROVE  v[i] = w[i]
    <3>1. CASE i = 1
      BY <1>1, <1>2, <1>3, <2>1, <2>2, <2>3, <3>1
    <3>2. CASE i # 1
      <4> DEFINE j == i - 1
      <4>1. j \in 1..Len(q) + 1 /\ i = j + 1 /\ ~(i <= 1) /\ i \in 1..1 + Len(u)
        BY <1>2, <1>3, <2>1, <2>2, <3>2
      <4>2. w[i] = u[j]
        BY <2>3, <4>1
      <4> HIDE DEF j
      <4>3. CASE j = Len(q) + 1
        <5>1. i = Len(c) + 1
          BY <1>2, <1>3, <4>1, <4>3
        <5>2. QED
          BY <2>1, <2>2, <4>2, <4>3, <5>1
      <4>4. CASE j # Len(q) + 1
        <5>1. j \in 1..Len(q) /\ i \in 1..Len(c)
          BY <1>2, <1>3, <4>1, <4>4
        <5>2. QED
          BY <1>3, <2>1, <2>2, <4>1, <4>2, <5>1
      <4>5. QED
        BY <4>3, <4>4
    <3>3. QED
      BY <3>1, <3>2
  <2>5. Len(v) = Len(w)
    BY <1>2, <1>3, <2>1, <2>2, <2>3
  <2>6. v = w
    BY <1>6, <2>2, <2>3, <2>4, <2>5
  <2>7. QED
    BY <2>6 DEF u, v, w
<1>10. QED
  BY <1>2, <1>3, <1>4, <1>5, <1>7, <1>8, <1>9 DEF c, one, VaDown

\* Finitely many finite sets have finitely many members between them.
LEMMA FiniteUnion ==
  ASSUME NEW T, IsFiniteSet(T), \A x \in T : IsFiniteSet(x)
  PROVE  IsFiniteSet(UNION T)
<1> DEFINE All(U) == \A x \in U : IsFiniteSet(x)
           P == {n \in Nat : \A U : IsFiniteSet(U) /\ Cardinality(U) = n /\ All(U) => IsFiniteSet(UNION U)}
<1>1. 0 \in P
  <2>1. \A U : IsFiniteSet(U) /\ Cardinality(U) = 0 => UNION U = {}
    BY FS_EmptySet
  <2>2. QED
    BY <2>1, FS_EmptySet
<1>2. ASSUME NEW n \in Nat, n \in P
      PROVE  n + 1 \in P
  <2> SUFFICES ASSUME NEW U, IsFiniteSet(U), Cardinality(U) = n + 1, All(U)
               PROVE  IsFiniteSet(UNION U)
    OBVIOUS
  <2>1. U # {}
    BY FS_EmptySet
  <2>2. PICK x \in U : TRUE
    BY <2>1
  <2> DEFINE V == U \ {x}
  <2>3. IsFiniteSet(V) /\ Cardinality(V) = n
    <3>1. IsFiniteSet(U \ {x}) /\ Cardinality(U \ {x}) = IF x \in U THEN Cardinality(U) - 1 ELSE Cardinality(U)
      BY FS_RemoveElement
    <3>2. (n + 1) - 1 = n
      OBVIOUS
    <3>3. QED
      BY <2>2, <3>1, <3>2
  <2>4. IsFiniteSet(x) /\ All(V) /\ UNION U = x \cup UNION V
    BY <2>2
  <2> HIDE DEF V, All
  <2>5. IsFiniteSet(UNION V)
    BY <1>2, <2>3, <2>4
  <2>6. QED
    BY <2>4, <2>5, FS_Union
<1>3. Nat \subseteq P
  <2> HIDE DEF P
  <2>1. QED
    BY <1>1, <1>2, SetInduction
<1>4. Cardinality(T) \in Nat
  BY FS_CardinalityType
<1>5. QED
  BY <1>3, <1>4

\* A tree as the walk leaves it when depth is left away from MAX_SERIALIZE_DEPTH: no object
\* is further down, and what is stands below a marker.
VaGood(t, left) ==
  /\ VaIsTree(t)
  /\ \A p \in DOMAIN t : t[p] \in VaContainers => Len(p) <= left
  /\ \A p \in DOMAIN t : Len(p) > left => \E n \in 0..Len(p) - 1 : VaIsTruncated(t, SubSeq(p, 1, n))

\* The parts of a node are its root and those of its fields.
VaHasParts(t, label, of) ==
  /\ t = [p \in DOMAIN t |-> t[p]] /\ << >> \in DOMAIN t /\ t[<< >>] = label
  /\ DOMAIN t = {<< >>} \cup UNION {{VaDown(k, q) : q \in DOMAIN of[k]} : k \in DOMAIN of}
  /\ \A k \in DOMAIN of : \A q \in DOMAIN of[k] : VaDown(k, q) \in DOMAIN t /\ t[VaDown(k, q)] = of[k][q]
  /\ \A p \in DOMAIN t : p = << >> \/ \E k \in DOMAIN of : \E q \in DOMAIN of[k] : p = VaDown(k, q)

LEMMA VaNodeIs ==
  ASSUME NEW label, NEW of, DOMAIN of \subseteq VaSegment,
         \A k \in DOMAIN of : DOMAIN of[k] \subseteq Seq(VaSegment)
  PROVE  VaHasParts(VaNode(label, of), label, of)
<1> DEFINE D == {<< >>} \cup UNION {{VaDown(k, q) : q \in DOMAIN of[k]} : k \in DOMAIN of}
           t == VaNode(label, of)
<1>1. t = [p \in D |-> IF p = << >> THEN label ELSE of[Head(p)][Tail(p)]]
  BY DEF VaNode, VaDown
<1>2. << >> \in D
  OBVIOUS
<1>3. ASSUME NEW k \in DOMAIN of, NEW q \in DOMAIN of[k]
      PROVE  VaDown(k, q) \in D /\ VaDown(k, q) # << >> /\ Head(VaDown(k, q)) = k /\ Tail(VaDown(k, q)) = q
  <2>1. k \in VaSegment /\ q \in Seq(VaSegment)
    OBVIOUS
  <2>2. VaDown(k, q) # << >> /\ Head(VaDown(k, q)) = k /\ Tail(VaDown(k, q)) = q
    BY <2>1, VaUnder
  <2>3. QED
    BY <2>2
<1>4. \A p \in D : p = << >> \/ \E k \in DOMAIN of : \E q \in DOMAIN of[k] : p = VaDown(k, q)
  OBVIOUS
<1> DEFINE E == D
<1>5. E = D
  OBVIOUS
<1> HIDE DEF t, E
<1>6. t = [p \in E |-> IF p = << >> THEN label ELSE of[Head(p)][Tail(p)]]
  BY <1>1, <1>5
<1>7. DOMAIN t = E /\ t = [p \in DOMAIN t |-> t[p]]
  BY <1>6
<1>8. t[<< >>] = label
  BY <1>2, <1>5, <1>6
<1>9. \A k \in DOMAIN of : \A q \in DOMAIN of[k] : VaDown(k, q) \in DOMAIN t /\ t[VaDown(k, q)] = of[k][q]
  <2> TAKE k \in DOMAIN of
  <2> TAKE q \in DOMAIN of[k]
  <2> DEFINE p == VaDown(k, q)
  <2>1. p \in E /\ p # << >> /\ Head(p) = k /\ Tail(p) = q
    BY <1>3, <1>5
  <2> HIDE DEF p
  <2>2. p \in DOMAIN t /\ t[p] = of[k][q]
    BY <1>6, <2>1
  <2>3. QED
    BY <2>2 DEF p
<1>10. QED
  <2>1. VaHasParts(t, label, of)
    BY <1>2, <1>4, <1>5, <1>7, <1>8, <1>9 DEF VaHasParts
  <2>2. QED
    BY <2>1 DEF t

LEMMA VaPrimitiveLabel ==
  ASSUME NEW v
  PROVE  VaPrimitive(v) \notin VaContainers
<1>1. Len(VaPrimitive(v)) = 2 /\ Len(VaObject) = 1 /\ Len(VaArray) = 1
  BY DEF VaPrimitive, VaObject, VaArray
<1>2. QED
  BY <1>1 DEF VaContainers

\* A primitive is a tree of one part.
LEMMA VaLeafGood ==
  ASSUME NEW v, NEW left \in Nat
  PROVE  /\ VaGood(VaNode(VaPrimitive(v), << >>), left)
         /\ DOMAIN VaNode(VaPrimitive(v), << >>) = {<< >>}
         /\ VaNode(VaPrimitive(v), << >>)[<< >>] = VaPrimitive(v)
<1> DEFINE label == VaPrimitive(v)
           t == VaNode(label, << >>)
           none == << >>
<1>1. DOMAIN none = {}
  OBVIOUS
<1> HIDE DEF none, label
<1>2. DOMAIN VaNode(label, none) = {<< >>} \cup UNION {{VaDown(k, q) : q \in DOMAIN none[k]} : k \in DOMAIN none}
  BY DEF VaNode, VaDown
<1>3. DOMAIN VaNode(label, none) = {<< >>} /\ VaNode(label, none)[<< >>] = label
      /\ VaNode(label, none) = [p \in DOMAIN VaNode(label, none) |-> VaNode(label, none)[p]]
  <2>1. DOMAIN VaNode(label, none) = {<< >>}
    BY <1>1, <1>2
  <2>2. VaNode(label, none)[<< >>] = label
    BY DEF VaNode, VaDown
  <2>3. VaNode(label, none) = [p \in DOMAIN VaNode(label, none) |-> VaNode(label, none)[p]]
    BY DEF VaNode, VaDown
  <2>4. QED
    BY <2>1, <2>2, <2>3
<1>4. DOMAIN t = {<< >>} /\ t[<< >>] = label /\ t = [p \in DOMAIN t |-> t[p]]
  BY <1>3 DEF none
<1>5. label \notin VaContainers
  BY VaPrimitiveLabel DEF label
<1> HIDE DEF t
<1>6. VaIsTree(t)
  <2>1. IsFiniteSet({<< >>}) /\ << >> \in Seq(VaSegment)
    BY FS_Singleton
  <2>2. IsFiniteSet(DOMAIN t) /\ DOMAIN t \in SUBSET Seq(VaSegment)
    BY <1>4, <2>1
  <2>3. QED
    BY <1>4, <1>5, <2>2 DEF VaIsTree, VaContainers
<1>7. \A p \in DOMAIN t : Len(p) = 0
  BY <1>4
<1>8. VaGood(t, left)
  BY <1>4, <1>5, <1>6, <1>7 DEF VaGood
<1>9. QED
  BY <1>4, <1>8 DEF t, label

\* What is below a field of a node is below its place in that field.
LEMMA VaChildrenUnder ==
  ASSUME NEW label, NEW of, DOMAIN of \subseteq VaSegment, \A k \in DOMAIN of : VaIsTree(of[k])
  PROVE  /\ VaChildren(VaNode(label, of), << >>) = {<<k>> : k \in DOMAIN of}
         /\ \A k \in DOMAIN of : \A q \in DOMAIN of[k] :
              VaChildren(VaNode(label, of), VaDown(k, q)) = {VaDown(k, c) : c \in VaChildren(of[k], q)}
<1> DEFINE t == VaNode(label, of)
<1>1. \A k \in DOMAIN of : k \in VaSegment /\ DOMAIN of[k] \subseteq Seq(VaSegment) /\ << >> \in DOMAIN of[k]
  BY DEF VaIsTree
<1>2. /\ << >> \in DOMAIN t
      /\ \A k \in DOMAIN of : \A q \in DOMAIN of[k] : VaDown(k, q) \in DOMAIN t /\ t[VaDown(k, q)] = of[k][q]
      /\ \A p \in DOMAIN t : p = << >> \/ \E k \in DOMAIN of : \E q \in DOMAIN of[k] : p = VaDown(k, q)
  <2>1. \A k \in DOMAIN of : DOMAIN of[k] \subseteq Seq(VaSegment)
    BY <1>1
  <2>2. QED
    <3>1. VaHasParts(VaNode(label, of), label, of)
      BY <2>1, VaNodeIs
    <3> HIDE DEF t
    <3>2. VaHasParts(t, label, of)
      BY <3>1 DEF t
    <3>3. QED
      BY <3>2 DEF VaHasParts
<1>3. ASSUME NEW k \in DOMAIN of, NEW q \in DOMAIN of[k]
      PROVE  /\ VaDown(k, q) # << >> /\ Head(VaDown(k, q)) = k /\ Tail(VaDown(k, q)) = q
             /\ q = << >> => Front(VaDown(k, q)) = << >>
             /\ q # << >> => Front(VaDown(k, q)) = VaDown(k, Front(q))
             /\ q # << >> => Front(q) \in DOMAIN of[k]
             /\ q # << >> => VaDown(k, Front(q)) # << >> /\ Head(VaDown(k, Front(q))) = k /\ Tail(VaDown(k, Front(q))) = Front(q)
  <2>1. k \in VaSegment /\ q \in Seq(VaSegment)
    BY <1>1
  <2>2. q # << >> => Front(q) \in DOMAIN of[k] /\ Front(q) \in Seq(VaSegment)
    BY <1>1 DEF VaIsTree
  <2>3. /\ VaDown(k, q) # << >> /\ Head(VaDown(k, q)) = k /\ Tail(VaDown(k, q)) = q
        /\ q = << >> => Front(VaDown(k, q)) = << >>
        /\ q # << >> => Front(VaDown(k, q)) = VaDown(k, Front(q))
    BY <2>1, VaUnder
  <2> DEFINE f == Front(q)
  <2> HIDE DEF f
  <2>4. f \in Seq(VaSegment) => VaDown(k, f) # << >> /\ Head(VaDown(k, f)) = k /\ Tail(VaDown(k, f)) = f
    BY <2>1, VaUnder
  <2>5. QED
    BY <2>2, <2>3, <2>4 DEF f
<1> HIDE DEF t
<1>4. \A k \in DOMAIN of : VaDown(k, << >>) = <<k>>
  BY DEF VaDown
<1>5. ASSUME NEW k \in DOMAIN of
      PROVE  <<k>> \in VaChildren(t, << >>)
  <2>1. << >> \in DOMAIN of[k] /\ VaDown(k, << >>) = <<k>>
    BY <1>1, <1>4
  <2>2. <<k>> \in DOMAIN t /\ <<k>> # << >> /\ Front(<<k>>) = << >>
    BY <1>2, <1>3, <2>1
  <2>3. QED
    BY <2>2 DEF VaChildren
<1>6. ASSUME NEW c \in VaChildren(t, << >>)
      PROVE  \E k \in DOMAIN of : c = <<k>>
  <2>1. c \in DOMAIN t /\ c # << >> /\ Front(c) = << >>
    BY DEF VaChildren
  <2>2. PICK k \in DOMAIN of : \E q \in DOMAIN of[k] : c = VaDown(k, q)
    BY <1>2, <2>1
  <2>3. PICK q \in DOMAIN of[k] : c = VaDown(k, q)
    BY <2>2
  <2>4. q = << >>
    BY <1>3, <2>1, <2>3
  <2>5. QED
    BY <1>4, <2>3, <2>4
<1>7. VaChildren(t, << >>) = {<<k>> : k \in DOMAIN of}
  BY <1>5, <1>6
<1>8. ASSUME NEW k \in DOMAIN of, NEW q \in DOMAIN of[k]
      PROVE  VaChildren(t, VaDown(k, q)) = {VaDown(k, c) : c \in VaChildren(of[k], q)}
  <2>1. ASSUME NEW c \in VaChildren(of[k], q)
        PROVE  VaDown(k, c) \in VaChildren(t, VaDown(k, q))
    <3>1. c \in DOMAIN of[k] /\ c # << >> /\ Front(c) = q
      BY DEF VaChildren
    <3>2. VaDown(k, c) \in DOMAIN t /\ VaDown(k, c) # << >> /\ Front(VaDown(k, c)) = VaDown(k, q)
      BY <1>2, <1>3, <3>1
    <3>3. QED
      BY <3>2 DEF VaChildren
  <2>2. ASSUME NEW d \in VaChildren(t, VaDown(k, q))
        PROVE  \E c \in VaChildren(of[k], q) : d = VaDown(k, c)
    <3>1. d \in DOMAIN t /\ d # << >> /\ Front(d) = VaDown(k, q)
      BY DEF VaChildren
    <3>2. PICK x \in DOMAIN of : \E c \in DOMAIN of[x] : d = VaDown(x, c)
      BY <1>2, <3>1
    <3>3. PICK c \in DOMAIN of[x] : d = VaDown(x, c)
      BY <3>2
    <3>4. c # << >>
      BY <1>3, <3>1, <3>3
    <3>5. VaDown(x, Front(c)) = VaDown(k, q)
      BY <1>3, <3>1, <3>3, <3>4
    <3>6. x = k /\ Front(c) = q
      <4>1. Head(VaDown(x, Front(c))) = x /\ Tail(VaDown(x, Front(c))) = Front(c)
        BY <1>3, <3>4
      <4>2. Head(VaDown(k, q)) = k /\ Tail(VaDown(k, q)) = q
        BY <1>3
      <4>3. QED
        BY <3>5, <4>1, <4>2
    <3>7. QED
      BY <3>3, <3>4, <3>6 DEF VaChildren
  <2>3. QED
    BY <2>1, <2>2
<1>9. QED
  BY <1>7, <1>8 DEF t

\* A node with trees for its fields is a tree.
LEMMA VaNodeTree ==
  ASSUME NEW label \in VaContainers, NEW of, IsFiniteSet(DOMAIN of), DOMAIN of \subseteq VaSegment,
         \A k \in DOMAIN of : VaIsTree(of[k]),
         label = VaArray => \E n \in 0..Len(VaKeys) : DOMAIN of = {VaKeys[i] : i \in 1..n},
         Len(VaKeys) \in Nat, \A i \in 1..Len(VaKeys) : VaKeys[i] \in VaSegment
  PROVE  VaIsTree(VaNode(label, of))
<1> DEFINE t == VaNode(label, of)
           K == DOMAIN of
           part(k) == {VaDown(k, q) : q \in DOMAIN of[k]}
<1>1. \A k \in K : k \in VaSegment /\ DOMAIN of[k] \subseteq Seq(VaSegment) /\ << >> \in DOMAIN of[k] /\ IsFiniteSet(DOMAIN of[k])
  BY DEF VaIsTree
<1>2. /\ t = [p \in DOMAIN t |-> t[p]] /\ << >> \in DOMAIN t /\ t[<< >>] = label
      /\ DOMAIN t = {<< >>} \cup UNION {part(k) : k \in K}
      /\ \A k \in K : \A q \in DOMAIN of[k] : VaDown(k, q) \in DOMAIN t /\ t[VaDown(k, q)] = of[k][q]
      /\ \A p \in DOMAIN t : p = << >> \/ \E k \in K : \E q \in DOMAIN of[k] : p = VaDown(k, q)
  <2>1. \A k \in DOMAIN of : DOMAIN of[k] \subseteq Seq(VaSegment)
    BY <1>1
  <2>2. QED
    <3>1. VaHasParts(VaNode(label, of), label, of)
      BY <2>1, VaNodeIs
    <3> HIDE DEF t
    <3>2. VaHasParts(t, label, of)
      BY <3>1 DEF t
    <3>3. QED
      BY <3>2 DEF VaHasParts
<1>3. /\ VaChildren(t, << >>) = {<<k>> : k \in K}
      /\ \A k \in K : \A q \in DOMAIN of[k] : VaChildren(t, VaDown(k, q)) = {VaDown(k, c) : c \in VaChildren(of[k], q)}
  BY VaChildrenUnder
<1> HIDE DEF t
<1>4. IsFiniteSet(DOMAIN t)
  <2>1. ASSUME NEW k \in K
        PROVE  IsFiniteSet(part(k))
    <3> DEFINE f == [q \in DOMAIN of[k] |-> VaDown(k, q)]
    <3>1. f \in Surjection(DOMAIN of[k], part(k))
      BY DEF Surjection
    <3> HIDE DEF f, part
    <3>2. QED
      BY <1>1, <3>1, FS_Surjection
  <2> DEFINE T == {part(k) : k \in K}
             g == [k \in K |-> part(k)]
  <2> HIDE DEF part
  <2>2. g \in Surjection(K, T)
    BY DEF Surjection
  <2>3. \A x \in T : IsFiniteSet(x)
    BY <2>1
  <2> HIDE DEF g, T
  <2>4. IsFiniteSet(T)
    BY <2>2, FS_Surjection
  <2>5. IsFiniteSet(UNION T)
    BY <2>3, <2>4, FiniteUnion
  <2>6. IsFiniteSet({<< >>} \cup UNION T)
    BY <2>5, FS_Singleton, FS_Union
  <2>7. QED
    BY <1>2, <2>6 DEF T
<1> HIDE DEF part
<1>5. ASSUME NEW k \in K, NEW q \in DOMAIN of[k]
      PROVE  /\ VaDown(k, q) \in Seq(VaSegment) /\ q \in Seq(VaSegment)
             /\ q = << >> => Front(VaDown(k, q)) = << >>
             /\ q # << >> => Front(VaDown(k, q)) = VaDown(k, Front(q))
             /\ \A x \in VaSegment : Append(VaDown(k, q), x) = VaDown(k, Append(q, x))
  <2>1. k \in VaSegment /\ q \in Seq(VaSegment)
    BY <1>1
  <2>2. QED
    BY <2>1, VaUnder
<1>6. DOMAIN t \in SUBSET Seq(VaSegment)
  <2>1. \A p \in DOMAIN t : p \in Seq(VaSegment)
    <3> TAKE p \in DOMAIN t
    <3>1. << >> \in Seq(VaSegment)
      OBVIOUS
    <3>2. \A k \in K : \A q \in DOMAIN of[k] : VaDown(k, q) \in Seq(VaSegment)
      BY <1>5
    <3>3. p = << >> \/ \E k \in K : \E q \in DOMAIN of[k] : p = VaDown(k, q)
      BY <1>2
    <3> HIDE DEF K
    <3>4. QED
      BY <3>1, <3>2, <3>3
  <2>2. QED
    BY <2>1
<1>7. ASSUME NEW p \in DOMAIN t, p # << >>
      PROVE  Front(p) \in DOMAIN t /\ t[Front(p)] \in VaContainers
  <2>1. PICK k \in K : \E q \in DOMAIN of[k] : p = VaDown(k, q)
    BY <1>2, <1>7
  <2>2. PICK q \in DOMAIN of[k] : p = VaDown(k, q)
    BY <2>1
  <2>3. CASE q = << >>
    BY <1>2, <1>5, <2>2, <2>3
  <2>4. CASE q # << >>
    <3>1. Front(q) \in DOMAIN of[k] /\ of[k][Front(q)] \in VaContainers
      BY <2>4 DEF VaIsTree
    <3> DEFINE f == Front(q)
    <3> HIDE DEF f
    <3>2. f \in DOMAIN of[k] /\ of[k][f] \in VaContainers
      BY <3>1 DEF f
    <3>3. VaDown(k, f) \in DOMAIN t /\ t[VaDown(k, f)] = of[k][f]
      BY <1>2, <3>2
    <3>4. Front(p) = VaDown(k, f)
      BY <1>5, <2>2, <2>4 DEF f
    <3>5. QED
      BY <3>2, <3>3, <3>4
  <2>5. QED
    BY <2>3, <2>4
<1>8. ASSUME NEW p \in DOMAIN t, t[p] = VaArray
      PROVE  \E n \in 0..Len(VaKeys) : VaChildren(t, p) = {Append(p, VaKeys[i]) : i \in 1..n}
  <2>1. CASE p = << >>
    <3>1. PICK n \in 0..Len(VaKeys) : K = {VaKeys[i] : i \in 1..n}
      BY <1>2, <1>8, <2>1
    <3>2. \A i \in 1..n : Append(<< >>, VaKeys[i]) = <<VaKeys[i]>>
      OBVIOUS
    <3>3. {<<k>> : k \in K} = {<<VaKeys[i]>> : i \in 1..n}
      BY <3>1
    <3>4. {<<VaKeys[i]>> : i \in 1..n} = {Append(<< >>, VaKeys[i]) : i \in 1..n}
      BY <3>2
    <3>5. QED
      BY <1>3, <2>1, <3>3, <3>4
  <2>2. CASE p # << >>
    <3>1. PICK k \in K : \E q \in DOMAIN of[k] : p = VaDown(k, q)
      BY <1>2, <2>2
    <3>2. PICK q \in DOMAIN of[k] : p = VaDown(k, q)
      BY <3>1
    <3>3. of[k][q] = VaArray
      BY <1>2, <1>8, <3>2
    <3>4. PICK n \in 0..Len(VaKeys) : VaChildren(of[k], q) = {Append(q, VaKeys[i]) : i \in 1..n}
      BY <3>3 DEF VaIsTree
    <3>5. \A i \in 1..n : Append(p, VaKeys[i]) = VaDown(k, Append(q, VaKeys[i]))
      <4> TAKE i \in 1..n
      <4>1. i \in 1..Len(VaKeys)
        OBVIOUS
      <4>2. VaKeys[i] \in VaSegment
        BY <4>1
      <4>3. QED
        BY <1>5, <3>2, <4>2
    <3>6. VaChildren(t, p) = {VaDown(k, c) : c \in VaChildren(of[k], q)}
      BY <1>3, <3>2
    <3>7. {VaDown(k, c) : c \in VaChildren(of[k], q)} = {VaDown(k, Append(q, VaKeys[i])) : i \in 1..n}
      BY <3>4
    <3>8. {VaDown(k, Append(q, VaKeys[i])) : i \in 1..n} = {Append(p, VaKeys[i]) : i \in 1..n}
      BY <3>5
    <3>9. QED
      BY <3>6, <3>7, <3>8
  <2>3. QED
    BY <2>1, <2>2
<1>9. VaIsTree(t)
  BY <1>2, <1>4, <1>6, <1>7, <1>8 DEF VaIsTree
<1>10. QED
  BY <1>9 DEF t

\* Its fields being as the walk leaves them a level further down, a node is as it leaves it.
LEMMA VaNodeGood ==
  ASSUME NEW label \in VaContainers, NEW of, IsFiniteSet(DOMAIN of), DOMAIN of \subseteq VaSegment,
         NEW left \in Nat, \A k \in DOMAIN of : VaGood(of[k], left),
         label = VaArray => \E n \in 0..Len(VaKeys) : DOMAIN of = {VaKeys[i] : i \in 1..n},
         Len(VaKeys) \in Nat, \A i \in 1..Len(VaKeys) : VaKeys[i] \in VaSegment
  PROVE  VaGood(VaNode(label, of), left + 1)
<1> DEFINE t == VaNode(label, of)
<1>1. \A k \in DOMAIN of : VaIsTree(of[k])
  BY DEF VaGood
<1>2. VaIsTree(t)
  BY <1>1, VaNodeTree
<1>3. VaHasParts(t, label, of)
  <2>1. \A k \in DOMAIN of : DOMAIN of[k] \subseteq Seq(VaSegment)
    BY <1>1 DEF VaIsTree
  <2>2. QED
    BY <2>1, VaNodeIs
<1> HIDE DEF t
<1>4. ASSUME NEW p \in DOMAIN t, p # << >>
      PROVE  \E k \in DOMAIN of : \E q \in DOMAIN of[k] :
               /\ p = VaDown(k, q) /\ t[p] = of[k][q] /\ k \in VaSegment /\ q \in Seq(VaSegment)
               /\ Len(q) \in Nat /\ Len(p) = Len(q) + 1
  <2>1. PICK k \in DOMAIN of : \E q \in DOMAIN of[k] : p = VaDown(k, q)
    BY <1>3, <1>4 DEF VaHasParts
  <2>2. PICK q \in DOMAIN of[k] : p = VaDown(k, q)
    BY <2>1
  <2>3. k \in VaSegment /\ q \in Seq(VaSegment)
    BY <1>1 DEF VaIsTree
  <2>4. Len(q) \in Nat /\ Len(p) = Len(q) + 1
    BY <2>2, <2>3, VaUnder
  <2>5. t[p] = of[k][q]
    BY <1>3, <2>2 DEF VaHasParts
  <2>6. QED
    BY <2>2, <2>3, <2>4, <2>5
<1>5. ASSUME NEW p \in DOMAIN t, t[p] \in VaContainers
      PROVE  Len(p) <= left + 1
  <2>1. CASE p = << >>
    <3>1. Len(p) = 0
      BY <2>1
    <3>2. QED
      BY <3>1
  <2>2. CASE p # << >>
    <3>0. PICK k \in DOMAIN of : \E q \in DOMAIN of[k] : t[p] = of[k][q] /\ Len(q) \in Nat /\ Len(p) = Len(q) + 1
      BY <1>4, <2>2
    <3>1. PICK q \in DOMAIN of[k] : t[p] = of[k][q] /\ Len(q) \in Nat /\ Len(p) = Len(q) + 1
      BY <3>0
    <3>2. Len(q) <= left
      BY <1>5, <3>1 DEF VaGood
    <3>3. QED
      BY <3>1, <3>2
  <2>3. QED
    BY <2>1, <2>2
<1>6. ASSUME NEW p \in DOMAIN t, Len(p) > left + 1
      PROVE  \E n \in 0..Len(p) - 1 : VaIsTruncated(t, SubSeq(p, 1, n))
  <2>1. p # << >>
    <3>1. Len(<< >>) = 0
      OBVIOUS
    <3>2. QED
      BY <1>6, <3>1
  <2>0. PICK k \in DOMAIN of : \E q \in DOMAIN of[k] :
          /\ p = VaDown(k, q) /\ k \in VaSegment /\ q \in Seq(VaSegment)
          /\ Len(q) \in Nat /\ Len(p) = Len(q) + 1
    BY <1>4, <2>1
  <2>2. PICK q \in DOMAIN of[k] :
          /\ p = VaDown(k, q) /\ k \in VaSegment /\ q \in Seq(VaSegment)
          /\ Len(q) \in Nat /\ Len(p) = Len(q) + 1
    BY <2>0
  <2>3. Len(q) > left
    BY <1>6, <2>2
  <2>4. PICK n \in 0..Len(q) - 1 : VaIsTruncated(of[k], SubSeq(q, 1, n))
    BY <2>3 DEF VaGood
  <2> DEFINE a == SubSeq(q, 1, n)
             b == SubSeq(p, 1, n + 1)
             c == Append(a, "__spyglass_truncated")
  <2>5. n \in 0..Len(q) /\ n + 1 \in 0..Len(p) - 1 /\ n < Len(q)
    BY <2>2
  <2>6. a \in DOMAIN of[k] /\ a \in Seq(VaSegment)
    <3>1. VaIsTree(of[k])
      BY <1>1
    <3>2. a \in DOMAIN of[k]
      BY <2>5, <3>1, VaAbove
    <3>3. QED
      BY <3>1, <3>2 DEF VaIsTree
  <2>7. b = VaDown(k, a)
    <3>1. SubSeq(VaDown(k, q), 1, n + 1) = VaDown(k, SubSeq(q, 1, n))
      <4>1. k \in VaSegment /\ q \in Seq(VaSegment) /\ n \in 0..Len(q)
        BY <2>2, <2>5
      <4>2. \A i \in 0..Len(q) : SubSeq(VaDown(k, q), 1, i + 1) = VaDown(k, SubSeq(q, 1, i))
        BY <4>1, VaUnder
      <4>3. QED
        BY <4>1, <4>2
    <3>2. QED
      BY <2>2, <3>1
  <2>8. Append(b, "__spyglass_truncated") = VaDown(k, c)
    <3>1. "__spyglass_truncated" \in VaSegment
      BY DEF VaSegment
    <3> HIDE DEF a, b
    <3>2. k \in VaSegment /\ a \in Seq(VaSegment)
      BY <2>2, <2>6
    <3>3. \A x \in VaSegment : Append(VaDown(k, a), x) = VaDown(k, Append(a, x))
      BY <3>2, VaUnder
    <3>4. QED
      BY <2>7, <3>1, <3>3
  <2> HIDE DEF a, b, c
  <2>9. of[k][a] = VaObject /\ c \in DOMAIN of[k] /\ of[k][c] = VaPrimitive("true")
    BY <2>4 DEF VaIsTruncated, a, c
  <2>10. /\ t[b] = VaObject /\ Append(b, "__spyglass_truncated") \in DOMAIN t
         /\ t[Append(b, "__spyglass_truncated")] = VaPrimitive("true")
    <3>1. \A x \in DOMAIN of[k] : VaDown(k, x) \in DOMAIN t /\ t[VaDown(k, x)] = of[k][x]
      BY <1>3 DEF VaHasParts
    <3>2. QED
      BY <2>6, <2>7, <2>8, <2>9, <3>1
  <2>11. VaIsTruncated(t, b)
    BY <2>10 DEF VaIsTruncated
  <2>12. QED
    BY <2>5, <2>11 DEF b
<1>7. VaGood(t, left + 1)
  BY <1>2, <1>5, <1>6 DEF VaGood
<1>8. QED
  BY <1>7 DEF t

\* A marker may stand at any depth.
LEMMA VaTruncatedGood ==
  ASSUME NEW type, NEW left \in Nat, Len(VaKeys) \in Nat, \A i \in 1..Len(VaKeys) : VaKeys[i] \in VaSegment
  PROVE  VaGood(VaTruncated(type), left)
<1> DEFINE K == {"__spyglass_truncated", "originalType"}
           v(k) == IF k = "originalType" THEN type ELSE "true"
           of == [k \in K |-> VaNode(VaPrimitive(v(k)), << >>)]
           t == VaNode(VaObject, of)
<1>1. VaTruncated(type) = t
  BY DEF VaTruncated
<1>2. DOMAIN of = K /\ K \subseteq VaSegment
  BY DEF VaSegment
<1>3. IsFiniteSet(K)
  <2> DEFINE A == {"__spyglass_truncated"}
             B == {"originalType"}
  <2>1. K = A \cup B
    OBVIOUS
  <2>2. IsFiniteSet(A) /\ IsFiniteSet(B)
    BY FS_Singleton
  <2> HIDE DEF A, B
  <2>3. QED
    BY <2>1, <2>2, FS_Union
<1>4. \A k \in K : /\ VaGood(of[k], 0) /\ DOMAIN of[k] = {<< >>} /\ of[k][<< >>] \notin VaContainers
  <2> TAKE k \in K
  <2> DEFINE u == v(k)
  <2>1. of[k] = VaNode(VaPrimitive(u), << >>)
    OBVIOUS
  <2> HIDE DEF u
  <2>2. VaGood(VaNode(VaPrimitive(u), << >>), 0) /\ DOMAIN VaNode(VaPrimitive(u), << >>) = {<< >>}
        /\ VaNode(VaPrimitive(u), << >>)[<< >>] = VaPrimitive(u)
    BY VaLeafGood
  <2>3. QED
    BY <2>1, <2>2, VaPrimitiveLabel
<1> HIDE DEF of
<1>5. VaObject \in VaContainers /\ VaObject # VaArray
  BY VaLabels DEF VaContainers
<1>6. VaGood(t, 0 + 1)
  <2>1. IsFiniteSet(DOMAIN of) /\ DOMAIN of \subseteq VaSegment /\ \A k \in DOMAIN of : VaGood(of[k], 0)
    BY <1>2, <1>3, <1>4
  <2>2. 0 \in Nat
    OBVIOUS
  <2>3. QED
    BY <1>5, <2>1, <2>2, VaNodeGood
<1>7. VaHasParts(t, VaObject, of)
  <2>1. \A k \in DOMAIN of : DOMAIN of[k] \subseteq Seq(VaSegment)
    BY <1>2, <1>4 DEF VaGood, VaIsTree
  <2>2. QED
    BY <1>2, <2>1, VaNodeIs
<1> HIDE DEF t
<1>8. VaIsTree(t)
  BY <1>6 DEF VaGood
<1>9. ASSUME NEW p \in DOMAIN t, t[p] \in VaContainers
      PROVE  p = << >>
  <2> SUFFICES ASSUME NEW k \in DOMAIN of, NEW q \in DOMAIN of[k], p = VaDown(k, q)
               PROVE  FALSE
    BY <1>7 DEF VaHasParts
  <2>1. t[p] = of[k][q] /\ q = << >>
    BY <1>2, <1>4, <1>7 DEF VaHasParts
  <2>2. QED
    BY <1>2, <1>4, <1>9, <2>1
<1>10. VaIsTruncated(t, << >>)
  <2> DEFINE s == "__spyglass_truncated"
  <2>1. s \in DOMAIN of /\ << >> \in DOMAIN of[s]
    BY <1>2, <1>4
  <2>2. VaDown(s, << >>) \in DOMAIN t /\ t[VaDown(s, << >>)] = VaPrimitive("true")
    <3>1. t[VaDown(s, << >>)] = of[s][<< >>] /\ VaDown(s, << >>) \in DOMAIN t
      BY <1>7, <2>1 DEF VaHasParts
    <3>2. of[s] = VaNode(VaPrimitive("true"), << >>)
      BY DEF of
    <3>3. VaNode(VaPrimitive("true"), << >>)[<< >>] = VaPrimitive("true")
      BY VaLeafGood, 0 \in Nat
    <3>4. QED
      BY <3>1, <3>2, <3>3
  <2>3. VaDown(s, << >>) = Append(<< >>, s)
    BY DEF VaDown
  <2>4. t[<< >>] = VaObject
    BY <1>7 DEF VaHasParts
  <2>5. QED
    BY <2>2, <2>3, <2>4 DEF VaIsTruncated
<1>11. ASSUME NEW p \in DOMAIN t, Len(p) > left
      PROVE  \E n \in 0..Len(p) - 1 : VaIsTruncated(t, SubSeq(p, 1, n))
  <2>1. p \in Seq(VaSegment) /\ Len(p) \in Nat
    BY <1>8 DEF VaIsTree
  <2>2. 0 \in 0..Len(p) - 1
    BY <1>11, <2>1
  <2>3. SubSeq(p, 1, 0) = << >>
    BY <2>1, SubSeqEmpty
  <2>4. QED
    BY <1>10, <2>2, <2>3
<1>12. VaGood(t, left)
  <2>1. \A p \in DOMAIN t : t[p] \in VaContainers => Len(p) <= left
    BY <1>9
  <2>2. QED
    BY <1>8, <1>11, <2>1 DEF VaGood
<1>13. QED
  BY <1>1, <1>12 DEF t

-----------------------------------------------------------------------------
\* safeSerialize.

VaHeapFits ==
  /\ vaKind \in [VaIds -> {"object", "array", "map"}] /\ DOMAIN vaHeap = VaIds
  /\ \A id \in VaIds : /\ DOMAIN vaHeap[id] \subseteq ToSet(VaKeys)
                       /\ \A k \in DOMAIN vaHeap[id] : vaHeap[id][k] \in VaValues

\* What is walked comes back as the walk leaves it, with a set of objects.
VaFits(w, left) == VaGood(w.tree, left) /\ w.seen \in SUBSET VaIds

LEMMA VaKeysFit ==
  ASSUME VaAssumption
  PROVE  /\ Len(VaKeys) \in Nat /\ DOMAIN VaKeys = 1..Len(VaKeys)
         /\ ToSet(VaKeys) = {VaKeys[i] : i \in 1..Len(VaKeys)} /\ IsFiniteSet(ToSet(VaKeys))
         /\ \A i \in 1..Len(VaKeys) : VaKeys[i] \in VaSegment
<1>1. Len(VaKeys) \in Nat /\ DOMAIN VaKeys = 1..Len(VaKeys)
  BY DEF VaAssumption
<1>2. ToSet(VaKeys) = {VaKeys[i] : i \in 1..Len(VaKeys)}
  BY <1>1 DEF ToSet
<1>3. IsFiniteSet(ToSet(VaKeys))
  <2> DEFINE N == 1..Len(VaKeys)
             T == {VaKeys[i] : i \in N}
             f == [i \in N |-> VaKeys[i]]
  <2>1. IsFiniteSet(N)
    BY <1>1, FS_Interval
  <2>2. f \in Surjection(N, T)
    BY DEF Surjection
  <2> HIDE DEF N, T, f
  <2>3. IsFiniteSet(T)
    BY <2>1, <2>2, FS_Surjection
  <2>4. QED
    BY <1>2, <2>3 DEF T, N
<1>4. QED
  BY <1>1, <1>2, <1>3 DEF VaSegment

\* The fields that are walked are fields, those of an array the first of its indices.
LEMMA VaFieldsAre ==
  ASSUME VaAssumption, NEW id \in VaIds
  PROVE  /\ VaFields(id) \subseteq ToSet(VaKeys) /\ VaFields(id) \subseteq DOMAIN vaHeap[id]
         /\ vaKind[id] = "array" => \E n \in 0..Len(VaKeys) : VaFields(id) = {VaKeys[i] : i \in 1..n}
<1> DEFINE L == Len(VaKeys)
           has(j) == VaKeys[j] \in DOMAIN vaHeap[id]
<1>1. L \in Nat /\ DOMAIN VaKeys = 1..L /\ ToSet(VaKeys) = {VaKeys[i] : i \in 1..L}
  BY VaKeysFit
<1>2. VaFields(id) = {VaKeys[i] : i \in {i \in 1..L : \A j \in 1..i : vaKind[id] = "array" \/ j = i => has(j)}}
  BY <1>1 DEF VaFields
<1> HIDE DEF L, has
<1>3. VaFields(id) \subseteq ToSet(VaKeys) /\ VaFields(id) \subseteq DOMAIN vaHeap[id]
  <2> SUFFICES ASSUME NEW i \in 1..L, \A j \in 1..i : vaKind[id] = "array" \/ j = i => has(j)
               PROVE  VaKeys[i] \in ToSet(VaKeys) /\ VaKeys[i] \in DOMAIN vaHeap[id]
    BY <1>2
  <2>1. i \in 1..i
    BY <1>1
  <2>2. has(i)
    BY <2>1
  <2>3. QED
    BY <1>1, <2>2 DEF has
<1>4. ASSUME vaKind[id] = "array"
      PROVE  \E n \in 0..L : VaFields(id) = {VaKeys[i] : i \in 1..n}
  <2> DEFINE T == {i \in 1..L : ~has(i)}
             I == {i \in 1..L : \A j \in 1..i : has(j)}
  <2>1. VaFields(id) = {VaKeys[i] : i \in I}
    BY <1>2, <1>4
  <2>2. CASE T = {}
    <3>1. I = 1..L
      BY <1>1, <2>2
    <3>2. L \in 0..L
      BY <1>1
    <3> HIDE DEF I
    <3>3. QED
      BY <2>1, <3>1, <3>2
  <2>3. CASE T # {}
    <3>1. T \in SUBSET Nat
      BY <1>1
    <3> HIDE DEF T
    <3>2. PICK m \in T : \A x \in T : ~(x < m)
      BY <2>3, <3>1, LeastNatural
    <3> DEFINE n == m - 1
    <3>3. m \in 1..L /\ ~has(m) /\ n \in 0..L
      BY <1>1, <3>2 DEF T
    <3>4. \A i \in 1..n : i \in I
      <4> SUFFICES ASSUME NEW i \in 1..n, NEW j \in 1..i
                   PROVE  has(j) /\ i \in 1..L
        OBVIOUS
      <4>1. j \in 1..L /\ j < m /\ i \in 1..L
        BY <1>1, <3>3
      <4>2. QED
        BY <3>2, <4>1 DEF T
    <3>5. \A i \in I : i \in 1..n
      <4> TAKE i \in I
      <4>1. ~(m \in 1..i)
        BY <3>3
      <4>2. QED
        BY <1>1, <3>3, <4>1
    <3>6. I = 1..n
      BY <3>4, <3>5
    <3> HIDE DEF I, n
    <3>7. QED
      BY <2>1, <3>3, <3>6
  <2>4. QED
    BY <2>2, <2>3
<1>5. QED
  BY <1>3, <1>4 DEF L

\* One field more.
VaWalkField(below, id, i, done) ==
  LET k == VaKeys[i]
      w == below[vaHeap[id][k]][done.seen]
  IN IF k \notin VaFields(id) THEN done
     ELSE [of |-> [x \in DOMAIN done.of \cup {k} |-> IF x = k THEN w.tree ELSE done.of[x]],
           seen |-> w.seen]

IsVaWalked(f, below, id, seen, n) ==
  f = [i \in 0..n |-> IF i = 0 THEN [of |-> << >>, seen |-> seen] ELSE VaWalkField(below, id, i, f[i - 1])]

LEMMA VaWalkedDefined ==
  ASSUME NEW below, NEW id, NEW seen, NEW m \in Nat
  PROVE  \E f : IsVaWalked(f, below, id, seen, m)
<1> DEFINE base == [of |-> << >>, seen |-> seen]
           P == {n \in Nat : \E f : IsVaWalked(f, below, id, seen, n)}
<1>1. 0 \in P
  <2> DEFINE f == [i \in 0..0 |-> base]
  <2>1. IsVaWalked(f, below, id, seen, 0)
    BY DEF IsVaWalked
  <2>2. QED
    BY <2>1
<1>2. ASSUME NEW n \in Nat, n \in P
      PROVE  n + 1 \in P
  <2>1. PICK f : IsVaWalked(f, below, id, seen, n)
    BY <1>2
  <2> DEFINE g == [i \in 0..n + 1 |-> IF i = n + 1 THEN VaWalkField(below, id, n + 1, f[n]) ELSE f[i]]
  <2>2. ASSUME NEW i \in 0..n + 1
        PROVE  g[i] = IF i = 0 THEN base ELSE VaWalkField(below, id, i, g[i - 1])
    <3>1. CASE i = 0
      BY <2>1, <3>1 DEF IsVaWalked
    <3>2. CASE i # 0
      <4>1. i - 1 \in 0..n + 1 /\ i - 1 # n + 1 /\ g[i - 1] = f[i - 1]
        BY <3>2
      <4>2. CASE i = n + 1
        BY <3>2, <4>1, <4>2
      <4>3. CASE i # n + 1
        <5>1. i \in 0..n /\ g[i] = f[i]
          BY <4>3
        <5>2. f[i] = VaWalkField(below, id, i, f[i - 1])
          BY <2>1, <3>2, <5>1 DEF IsVaWalked
        <5>3. QED
          BY <3>2, <4>1, <5>1, <5>2
      <4>4. QED
        BY <4>2, <4>3
    <3>3. QED
      BY <3>1, <3>2
  <2>3. IsVaWalked(g, below, id, seen, n + 1)
    BY <2>2 DEF IsVaWalked
  <2> HIDE DEF g
  <2>4. QED
    BY <2>3
<1> HIDE DEF P
<1>3. Nat \subseteq P
  BY <1>1, <1>2, SetInduction
<1>4. QED
  BY <1>3 DEF P

\* The fields of an object, walked one after the other, are trees, and what is seen grows
\* to a set of objects.
LEMMA VaFieldsGood ==
  ASSUME VaAssumption, VaHeapFits, NEW id \in VaIds, NEW seen \in SUBSET VaIds, NEW below, NEW left,
         \A v \in VaValues : \A s \in SUBSET VaIds : VaFits(below[v][s], left)
  PROVE  /\ VaWalkFields(below, id, seen).seen \in SUBSET VaIds
         /\ DOMAIN VaWalkFields(below, id, seen).of = VaFields(id)
         /\ \A k \in VaFields(id) : VaGood(VaWalkFields(below, id, seen).of[k], left)
<1> DEFINE L == Len(VaKeys)
           base == [of |-> << >>, seen |-> seen]
           f == CHOOSE f : f = [i \in 0..L |-> IF i = 0 THEN base ELSE VaWalkField(below, id, i, f[i - 1])]
           upTo(i) == {VaKeys[j] : j \in 1..i}
           good(r, i) == /\ r.seen \in SUBSET VaIds /\ DOMAIN r.of = VaFields(id) \cap upTo(i)
                         /\ \A k \in DOMAIN r.of : VaGood(r.of[k], left)
<1>1. L \in Nat /\ ToSet(VaKeys) = upTo(L)
  BY VaKeysFit
<1>2. /\ VaFields(id) \subseteq ToSet(VaKeys) /\ VaFields(id) \subseteq DOMAIN vaHeap[id]
      /\ \A k \in VaFields(id) : vaHeap[id][k] \in VaValues
  BY VaFieldsAre DEF VaHeapFits
<1>3. f = [i \in 0..L |-> IF i = 0 THEN base ELSE VaWalkField(below, id, i, f[i - 1])]
  <2>1. PICK g : IsVaWalked(g, below, id, seen, L)
    BY <1>1, VaWalkedDefined
  <2>2. QED
    BY <2>1 DEF IsVaWalked
<1>4. VaWalkFields(below, id, seen) = f[L]
  BY DEF VaWalkFields, VaWalkField
<1> HIDE DEF f, L
<1> DEFINE P == {i \in Nat : i <= L => good(f[i], i)}
<1>5. 0 \in P
  <2>1. f[0] = base
    BY <1>1, <1>3
  <2>2. base.seen = seen /\ DOMAIN base.of = {}
    OBVIOUS
  <2>3. upTo(0) = {}
    OBVIOUS
  <2> HIDE DEF base, upTo
  <2>4. good(f[0], 0)
    BY <2>1, <2>2, <2>3
  <2>5. QED
    BY <2>4
<1>6. ASSUME NEW n \in Nat, n \in P
      PROVE  n + 1 \in P
  <2> SUFFICES ASSUME n + 1 <= L
               PROVE  good(f[n + 1], n + 1)
    OBVIOUS
  <2> DEFINE i == n + 1
             done == f[n]
             k == VaKeys[i]
             w == below[vaHeap[id][k]][done.seen]
  <2>1. f[i] = VaWalkField(below, id, i, done) /\ good(done, n)
    <3>1. i \in 0..L /\ i # 0 /\ i - 1 = n /\ n <= L
      BY <1>1
    <3>2. QED
      BY <1>3, <1>6, <3>1
  <2>2. upTo(i) = upTo(n) \cup {k}
    <3>1. 1..i = 1..n \cup {i}
      OBVIOUS
    <3> HIDE DEF i
    <3>2. QED
      BY <3>1
  <2> HIDE DEF i, done, upTo
  <2>3. CASE k \notin VaFields(id)
    <3>1. f[i] = done
      BY <2>1, <2>3 DEF VaWalkField
    <3> HIDE DEF k
    <3>2. VaFields(id) \cap upTo(i) = VaFields(id) \cap upTo(n)
      BY <2>2, <2>3
    <3>3. QED
      BY <2>1, <3>1, <3>2 DEF i
  <2>4. CASE k \in VaFields(id)
    <3> DEFINE of == [x \in DOMAIN done.of \cup {k} |-> IF x = k THEN w.tree ELSE done.of[x]]
    <3>1. f[i] = [of |-> of, seen |-> w.seen]
      BY <2>1, <2>4 DEF VaWalkField
    <3>2. VaFits(w, left)
      BY <1>2, <2>1, <2>4
    <3> HIDE DEF k, w
    <3>3. DOMAIN of = VaFields(id) \cap upTo(i)
      BY <2>1, <2>2, <2>4
    <3>4. \A x \in DOMAIN of : VaGood(of[x], left)
      BY <2>1, <3>2 DEF VaFits
    <3> HIDE DEF of
    <3>5. f[i].of = of /\ f[i].seen = w.seen
      BY <3>1
    <3>6. good(f[i], i)
      BY <3>2, <3>3, <3>4, <3>5 DEF VaFits
    <3>7. QED
      BY <3>6 DEF i
  <2>5. QED
    BY <2>3, <2>4
<1>7. Nat \subseteq P
  <2> HIDE DEF P
  <2>1. QED
    BY <1>5, <1>6, SetInduction
<1>8. good(f[L], L)
  <2> HIDE DEF good
  <2>1. QED
    BY <1>1, <1>7
<1>9. VaFields(id) \cap upTo(L) = VaFields(id)
  BY <1>1, <1>2
<1> HIDE DEF upTo
<1>10. QED
  BY <1>4, <1>8, <1>9

LEMMA VaWalkOneGood ==
  ASSUME VaAssumption, VaHeapFits, NEW v \in VaValues, NEW seen \in SUBSET VaIds, NEW left \in Nat, NEW below,
         left > 0 => \A u \in VaValues : \A s \in SUBSET VaIds : VaFits(below[u][s], left - 1)
  PROVE  VaFits(VaWalkOne(below, left, v, seen), left)
<1> DEFINE r == VaWalkOne(below, left, v, seen)
<1>1. /\ Len(VaKeys) \in Nat /\ ToSet(VaKeys) \subseteq VaSegment /\ IsFiniteSet(ToSet(VaKeys))
      /\ \A i \in 1..Len(VaKeys) : VaKeys[i] \in VaSegment
  BY VaKeysFit DEF VaSegment
<1>2. \A type : VaGood(VaTruncated(type), left)
  BY <1>1, VaTruncatedGood
<1>3. CASE v = VaFunction
  <2>1. r = [tree |-> VaTruncated("function"), seen |-> seen]
    BY <1>3 DEF VaWalkOne, VaAssumption
  <2>2. r.tree = VaTruncated("function") /\ r.seen = seen
    BY <2>1
  <2>3. QED
    BY <1>2, <2>2 DEF VaFits
<1>4. CASE v \in VaLeaf
  <2>1. r = [tree |-> VaNode(VaPrimitive(v), << >>), seen |-> seen]
    BY <1>4 DEF VaWalkOne, VaAssumption
  <2>2. r.tree = VaNode(VaPrimitive(v), << >>) /\ r.seen = seen
    BY <2>1
  <2>3. VaGood(VaNode(VaPrimitive(v), << >>), left)
    BY VaLeafGood
  <2>4. QED
    BY <2>2, <2>3 DEF VaFits
<1>5. CASE v \in VaIds
  <2>1. CASE VaStops(v, seen, left)
    <3> DEFINE type == IF left = 0 THEN "max-depth-exceeded" ELSE "circular-reference"
    <3>1. r = [tree |-> VaTruncated(type), seen |-> seen]
      BY <1>5, <2>1 DEF VaWalkOne, VaAssumption
    <3> HIDE DEF type
    <3>2. r.tree = VaTruncated(type) /\ r.seen = seen
      BY <3>1
    <3>3. QED
      BY <1>2, <3>2 DEF VaFits
  <2>2. CASE ~VaStops(v, seen, left) /\ vaKind[v] = "map"
    <3>1. r = [tree |-> VaTruncated("Map"), seen |-> seen \cup {v}]
      BY <1>5, <2>2 DEF VaWalkOne, VaAssumption
    <3>2. r.tree = VaTruncated("Map") /\ r.seen = seen \cup {v}
      BY <3>1
    <3>3. QED
      BY <1>2, <1>5, <3>2 DEF VaFits
  <2>3. CASE ~VaStops(v, seen, left) /\ vaKind[v] # "map"
    <3> DEFINE label == IF vaKind[v] = "array" THEN VaArray ELSE VaObject
               fields == VaWalkFields(below, v, seen \cup {v})
               of == fields.of
    <3>1. r = [tree |-> VaNode(label, of), seen |-> fields.seen]
      BY <1>5, <2>3 DEF VaWalkOne, VaAssumption
    <3>2. left > 0 /\ left - 1 \in Nat /\ (left - 1) + 1 = left /\ seen \cup {v} \in SUBSET VaIds
      BY <1>5, <2>3 DEF VaStops
    <3>3. \A u \in VaValues : \A s \in SUBSET VaIds : VaFits(below[u][s], left - 1)
      BY <3>2
    <3>4. /\ fields.seen \in SUBSET VaIds /\ DOMAIN of = VaFields(v)
          /\ \A k \in DOMAIN of : VaGood(of[k], left - 1)
      <4> DEFINE s == seen \cup {v}
                 d == left - 1
      <4>1. s \in SUBSET VaIds /\ \A u \in VaValues : \A x \in SUBSET VaIds : VaFits(below[u][x], d)
        BY <3>2, <3>3
      <4> HIDE DEF s, d
      <4>2. /\ VaWalkFields(below, v, s).seen \in SUBSET VaIds
            /\ DOMAIN VaWalkFields(below, v, s).of = VaFields(v)
            /\ \A k \in VaFields(v) : VaGood(VaWalkFields(below, v, s).of[k], d)
        BY <1>5, <4>1, VaFieldsGood
      <4>3. QED
        BY <4>2 DEF s, d
    <3>5. label \in VaContainers /\ (label = VaArray => vaKind[v] = "array")
      BY VaLabels DEF VaContainers
    <3> HIDE DEF fields, label
    <3>6. r.tree = VaNode(label, of) /\ r.seen = fields.seen
      BY <3>1
    <3> HIDE DEF of
    <3>7. IsFiniteSet(DOMAIN of) /\ DOMAIN of \subseteq VaSegment
      <4>1. DOMAIN of \in SUBSET ToSet(VaKeys)
        BY <1>5, <3>4, VaFieldsAre
      <4>2. QED
        BY <1>1, <4>1, FS_Subset
    <3>8. label = VaArray => \E n \in 0..Len(VaKeys) : DOMAIN of = {VaKeys[i] : i \in 1..n}
      BY <1>5, <3>4, <3>5, VaFieldsAre
    <3> DEFINE m == left - 1
    <3>9. m \in Nat /\ m + 1 = left /\ \A k \in DOMAIN of : VaGood(of[k], m)
      BY <3>2, <3>4
    <3> HIDE DEF m
    <3>10. VaGood(VaNode(label, of), m + 1)
      BY <1>1, <3>5, <3>7, <3>8, <3>9, VaNodeGood
    <3>11. QED
      BY <3>4, <3>6, <3>9, <3>10 DEF VaFits
  <2>4. QED
    BY <2>1, <2>2, <2>3
<1>6. QED
  BY <1>3, <1>4, <1>5 DEF VaValues

IsVaWalk(f, n) ==
  f = [left \in 0..n |-> [v \in VaValues |-> [seen \in SUBSET VaIds |->
         VaWalkOne(IF left = 0 THEN << >> ELSE f[left - 1], left, v, seen)]]]

LEMMA VaWalkDefined ==
  ASSUME NEW m \in Nat
  PROVE  \E f : IsVaWalk(f, m)
<1> DEFINE level(below, left) == [v \in VaValues |-> [seen \in SUBSET VaIds |-> VaWalkOne(below, left, v, seen)]]
           P == {n \in Nat : \E f : IsVaWalk(f, n)}
<1>0. \A f, n : IsVaWalk(f, n) <=> f = [left \in 0..n |-> level(IF left = 0 THEN << >> ELSE f[left - 1], left)]
  BY DEF IsVaWalk
<1> HIDE DEF level
<1>1. 0 \in P
  <2> DEFINE f == [left \in 0..0 |-> level(<< >>, 0)]
  <2>1. f = [left \in 0..0 |-> level(IF left = 0 THEN << >> ELSE f[left - 1], left)]
    OBVIOUS
  <2> HIDE DEF f
  <2>2. IsVaWalk(f, 0)
    BY <1>0, <2>1
  <2>3. QED
    BY <2>2
<1>2. ASSUME NEW n \in Nat, n \in P
      PROVE  n + 1 \in P
  <2>1. PICK f : IsVaWalk(f, n)
    BY <1>2
  <2>2. f = [left \in 0..n |-> level(IF left = 0 THEN << >> ELSE f[left - 1], left)]
    BY <1>0, <2>1
  <2> DEFINE g == [i \in 0..n + 1 |-> IF i = n + 1 THEN level(f[n], n + 1) ELSE f[i]]
  <2>3. ASSUME NEW i \in 0..n + 1
        PROVE  g[i] = level(IF i = 0 THEN << >> ELSE g[i - 1], i)
    <3>1. CASE i = 0
      BY <2>2, <3>1
    <3>2. CASE i # 0
      <4>1. i - 1 \in 0..n + 1 /\ i - 1 # n + 1 /\ g[i - 1] = f[i - 1]
        BY <3>2
      <4>2. CASE i = n + 1
        BY <3>2, <4>1, <4>2
      <4>3. CASE i # n + 1
        <5>1. i \in 0..n /\ g[i] = f[i]
          BY <4>3
        <5>2. f[i] = level(f[i - 1], i)
          BY <2>2, <3>2, <5>1
        <5>3. QED
          BY <3>2, <4>1, <5>1, <5>2
      <4>4. QED
        BY <4>2, <4>3
    <3>3. QED
      BY <3>1, <3>2
  <2>4. g = [left \in 0..n + 1 |-> level(IF left = 0 THEN << >> ELSE g[left - 1], left)]
    BY <2>3
  <2> HIDE DEF g
  <2>5. IsVaWalk(g, n + 1)
    BY <1>0, <2>4
  <2>6. QED
    BY <2>5
<1> HIDE DEF P
<1>3. Nat \subseteq P
  BY <1>1, <1>2, SetInduction
<1>4. QED
  BY <1>3 DEF P

\* What is sent is a tree, nowhere deeper than MAX_SERIALIZE_DEPTH outside its markers.
LEMMA VaSerializeGood ==
  ASSUME VaAssumption, VaHeapFits
  PROVE  VaGood(VaSerialize, VaMaxDepth)
<1> DEFINE M == VaMaxDepth
           f == CHOOSE f : f = [left \in 0..M |-> [v \in VaValues |-> [seen \in SUBSET VaIds |->
                                 VaWalkOne(IF left = 0 THEN << >> ELSE f[left - 1], left, v, seen)]]]
           all(n) == \A v \in VaValues : \A s \in SUBSET VaIds : VaFits(f[n][v][s], n)
           P == {n \in Nat : n <= M => all(n)}
<1>1. M \in Nat /\ VaRoot \in VaValues /\ {} \in SUBSET VaIds
  BY DEF VaAssumption, VaValues
<1>2. f = [left \in 0..M |-> [v \in VaValues |-> [seen \in SUBSET VaIds |->
             VaWalkOne(IF left = 0 THEN << >> ELSE f[left - 1], left, v, seen)]]]
  <2>1. PICK g : IsVaWalk(g, M)
    BY <1>1, VaWalkDefined
  <2>2. QED
    BY <2>1 DEF IsVaWalk
<1>3. VaSerialize = f[M][VaRoot][{}].tree
  BY DEF VaSerialize, VaWalk
<1> HIDE DEF f, M
<1>4. \A n \in 0..M : \A v \in VaValues : \A s \in SUBSET VaIds :
        f[n][v][s] = VaWalkOne(IF n = 0 THEN << >> ELSE f[n - 1], n, v, s)
  <2> TAKE n \in 0..M
  <2> DEFINE below == IF n = 0 THEN << >> ELSE f[n - 1]
  <2>1. f[n] = [v \in VaValues |-> [s \in SUBSET VaIds |-> VaWalkOne(below, n, v, s)]]
    BY <1>2
  <2> HIDE DEF below
  <2>2. \A v \in VaValues : \A s \in SUBSET VaIds : f[n][v][s] = VaWalkOne(below, n, v, s)
    BY <2>1
  <2>3. QED
    BY <2>2 DEF below
<1>5. 0 \in P
  <2> SUFFICES ASSUME NEW v \in VaValues, NEW s \in SUBSET VaIds
               PROVE  VaFits(f[0][v][s], 0)
    OBVIOUS
  <2> DEFINE none == << >>
  <2>1. f[0][v][s] = VaWalkOne(none, 0, v, s)
    BY <1>1, <1>4
  <2> HIDE DEF none
  <2>2. VaFits(VaWalkOne(none, 0, v, s), 0)
    BY VaWalkOneGood
  <2>3. QED
    BY <2>1, <2>2
<1>6. ASSUME NEW n \in Nat, n \in P
      PROVE  n + 1 \in P
  <2> SUFFICES ASSUME n + 1 <= M, NEW v \in VaValues, NEW s \in SUBSET VaIds
               PROVE  VaFits(f[n + 1][v][s], n + 1)
    OBVIOUS
  <2> DEFINE i == n + 1
             below == f[n]
  <2>1. i \in 0..M /\ i \in Nat /\ i # 0 /\ i > 0 /\ i - 1 = n /\ n <= M
    BY <1>1
  <2> HIDE DEF i
  <2>2. f[i][v][s] = VaWalkOne(below, i, v, s)
    BY <1>4, <2>1
  <2>3. all(n)
    BY <1>6, <2>1
  <2> HIDE DEF below
  <2>4. \A u \in VaValues : \A x \in SUBSET VaIds : VaFits(below[u][x], i - 1)
    BY <2>1, <2>3 DEF below
  <2>5. VaFits(VaWalkOne(below, i, v, s), i)
    BY <2>1, <2>4, VaWalkOneGood
  <2>6. QED
    BY <2>2, <2>5 DEF i
<1>7. Nat \subseteq P
  <2> HIDE DEF P
  <2>1. QED
    BY <1>5, <1>6, SetInduction
<1>8. all(M)
  BY <1>1, <1>7
<1>9. VaFits(f[M][VaRoot][{}], M)
  BY <1>1, <1>8
<1>10. QED
  BY <1>3, <1>9 DEF VaFits, M

-----------------------------------------------------------------------------
\* The copy is what the adapter sent or compared last, and that a tree as safeSerialize
\* makes them.
VaInv == VaHeapFits /\ VaGood(vaPrev, VaMaxDepth) /\ vaMirror = vaPrev

LEMMA VaInvInit ==
  ASSUME VaInit, VaAssumption
  PROVE  VaInv
<1>1. VaHeapFits
  BY DEF VaInit, VaHeapFits
<1>2. QED
  BY <1>1, VaSerializeGood DEF VaInit, VaInv

LEMMA VaInvStep ==
  ASSUME VaInv, [VaNext]_vaVars, VaAssumption
  PROVE  VaInv'
<1>1. ASSUME NEW id \in VaIds, NEW k \in ToSet(VaKeys), NEW v \in VaValues \cup {VaDeleted}, VaSetField(id, k, v)
      PROVE  VaInv'
  <2> DEFINE fields == IF v = VaDeleted THEN [x \in DOMAIN vaHeap[id] \ {k} |-> vaHeap[id][x]]
                       ELSE [x \in DOMAIN vaHeap[id] \cup {k} |-> IF x = k THEN v ELSE vaHeap[id][x]]
  <2>1. vaHeap' = [vaHeap EXCEPT ![id] = fields]
    BY <1>1 DEF VaSetField
  <2>2. DOMAIN fields \subseteq ToSet(VaKeys) /\ \A x \in DOMAIN fields : fields[x] \in VaValues
    <3>1. DOMAIN vaHeap[id] \subseteq ToSet(VaKeys) /\ \A x \in DOMAIN vaHeap[id] : vaHeap[id][x] \in VaValues
      BY DEF VaInv, VaHeapFits
    <3>2. CASE v = VaDeleted
      BY <3>1, <3>2
    <3>3. CASE v # VaDeleted
      BY <3>1, <3>3
    <3>4. QED
      BY <3>2, <3>3
  <2> HIDE DEF fields
  <2>3. VaHeapFits'
    BY <1>1, <2>1, <2>2 DEF VaSetField, VaInv, VaHeapFits
  <2>4. VaGood(vaPrev, VaMaxDepth)' /\ vaMirror' = vaPrev'
    BY <1>1 DEF VaSetField, VaInv, VaGood, VaIsTree, VaChildren, VaIsTruncated
  <2>5. QED
    BY <2>3, <2>4 DEF VaInv
<1>2. ASSUME VaReport
      PROVE  VaInv'
  <2> DEFINE next == VaSerialize
  <2>1. vaPrev' = next /\ \E ops \in SetToSeqs(VaDiff(vaPrev, next)) : vaMirror' = VaApplyPatch(vaMirror, ops)
    BY <1>2 DEF VaReport
  <2>2. VaGood(next, VaMaxDepth)
    BY VaSerializeGood DEF VaInv
  <2> HIDE DEF next
  <2>3. VaIsTree(vaPrev) /\ VaIsTree(next) /\ vaMirror = vaPrev
    BY <2>2 DEF VaInv, VaGood
  <2>4. PICK ops \in SetToSeqs(VaDiff(vaPrev, next)) : vaMirror' = VaApplyPatch(vaPrev, ops)
    BY <2>1, <2>3
  <2>5. vaMirror' = next
    BY <2>3, <2>4, PatchesAreExact
  <2>6. VaHeapFits'
    BY <1>2 DEF VaReport, VaInv, VaHeapFits
  <2>7. VaGood(vaPrev, VaMaxDepth)'
    BY <2>1, <2>2 DEF VaGood, VaIsTree, VaChildren, VaIsTruncated
  <2>8. QED
    BY <2>1, <2>5, <2>6, <2>7 DEF VaInv
<1>3. ASSUME UNCHANGED vaVars
      PROVE  VaInv'
  BY <1>3 DEF vaVars, VaInv, VaHeapFits, VaGood, VaIsTree, VaChildren, VaIsTruncated
<1>4. QED
  BY <1>1, <1>2, <1>3 DEF VaNext

LEMMA VaInvRoundTrip ==
  ASSUME VaInv, VaAssumption
  PROVE  VaRoundTrip
<1>1. VaGood(vaMirror, VaMaxDepth) /\ vaMirror = vaPrev /\ VaMaxDepth \in Nat
  BY DEF VaInv, VaAssumption
<1>2. ASSUME NEW p \in DOMAIN vaMirror, \A n \in 0..Len(p) - 1 : ~VaIsTruncated(vaMirror, SubSeq(p, 1, n))
      PROVE  Len(p) <= VaMaxDepth
  <2>1. Len(p) \in Nat
    BY <1>1 DEF VaGood, VaIsTree
  <2>2. ~(Len(p) > VaMaxDepth)
    BY <1>1, <1>2 DEF VaGood
  <2>3. QED
    BY <1>1, <2>1, <2>2
<1>3. ASSUME NEW p \in DOMAIN vaMirror, VaIsTruncated(vaMirror, p)
      PROVE  VaContainsTruncated(vaMirror)
  <2>1. vaMirror[p] \in VaContainers
    BY <1>3 DEF VaIsTruncated, VaContainers
  <2>2. Len(p) <= VaMaxDepth
    BY <1>1, <2>1 DEF VaGood
  <2>3. QED
    BY <1>3, <2>2 DEF VaContainsTruncated
<1>4. QED
  BY <1>1, <1>2, <1>3 DEF VaRoundTrip

\* protocol.test.ts, "round-trips: applying diffValues(prev, next) to prev reproduces next":
\* whatever the app's objects point at, whatever the bounds and in whatever order the
\* operations of a diff come, the desktop's copy is the value the adapter serialised last,
\* no deeper than MAX_SERIALIZE_DEPTH outside markers, each of which containsTruncatedValue
\* finds.
THEOREM CopyIsTheValue == VaSpec => []VaRoundTrip
<1>1. VaInit => VaInv
  BY VaInvInit, VaAssumption
<1>2. VaInv /\ [VaNext]_vaVars => VaInv'
  BY VaInvStep, VaAssumption
<1>3. VaInv => VaRoundTrip
  BY VaInvRoundTrip, VaAssumption
<1>4. QED
  BY <1>1, <1>2, <1>3, PTL DEF VaSpec

-----------------------------------------------------------------------------
\* A value differs from itself nowhere.
LEMMA VaSameNoDiff ==
  ASSUME NEW tree, VaIsTree(tree)
  PROVE  VaDiff(tree, tree) = {}
<1>1. ASSUME NEW p \in VaCompared(tree, tree)
      PROVE  /\ VaDiffObjects(tree, tree, p) = {}
             /\ tree[p] = VaArray => VaDiffArrays(tree, tree, p)
             /\ tree[p] \in {VaObject, VaArray} \/ tree[p] = tree[p]
  <2>1. VaChildren(tree, p) \ DOMAIN tree = {}
    BY DEF VaChildren
  <2>2. QED
    BY <2>1 DEF VaDiffObjects, VaDiffArrays
<1> DEFINE here(p) ==
             CASE tree[p] = VaObject /\ tree[p] = VaObject -> VaDiffObjects(tree, tree, p)
               [] VaDiffArrays(tree, tree, p) -> {}
               [] tree[p] = tree[p] /\ tree[p] \notin {VaObject, VaArray} -> {}
               [] OTHER -> {VaOp("replace", p, VaPart(tree, p))}
<1>2. ASSUME NEW p \in VaCompared(tree, tree)
      PROVE  here(p) = {}
  <2>1. CASE tree[p] = VaObject
    <3>1. ~VaDiffArrays(tree, tree, p)
      BY <2>1, VaLabels DEF VaDiffArrays
    <3>2. QED
      BY <1>1, <2>1, <3>1
  <2>2. CASE tree[p] = VaArray
    BY <1>1, <2>2, VaLabels
  <2>3. CASE tree[p] \notin {VaObject, VaArray}
    <3>1. ~VaDiffArrays(tree, tree, p)
      BY <2>3 DEF VaDiffArrays
    <3>2. QED
      BY <2>3, <3>1
  <2>4. QED
    BY <2>1, <2>2, <2>3
<1>3. VaDiff(tree, tree) = UNION {here(p) : p \in VaCompared(tree, tree)}
  BY DEF VaDiff
<1> HIDE DEF here
<1>4. QED
  BY <1>2, <1>3

\* diffValues returns no operation exactly when there is nothing to tell: two values without
\* a difference are the same to their last part.
LEMMA VaNoDiffIsSame ==
  ASSUME VaAssumption, NEW prev, NEW next, VaIsTree(prev), VaIsTree(next)
  PROVE  VaDiff(prev, next) = {} <=> prev = next
<1>1. ASSUME VaDiff(prev, next) = {}
      PROVE  prev = next
  <2>1. VaMixed(prev, next, VaDiff(prev, next)) = next
    BY VaMixedAll
  <2>2. VaMixed(prev, next, {}) = prev
    BY VaMixedNone
  <2>3. QED
    BY <1>1, <2>1, <2>2
<1>2. QED
  BY <1>1, VaSameNoDiff

\* An adapter whose diff is empty has nothing to tell: at every moment diffValues finds no
\* operation exactly when what the adapter sent last is what safeSerialize makes of the value
\* now, however deep the change and whatever the bounds.
THEOREM SilenceIsNoChange == VaSpec => [](VaDiff(vaPrev, VaSerialize) = {} <=> vaPrev = VaSerialize)
<1>1. VaInit => VaInv
  BY VaInvInit, VaAssumption
<1>2. VaInv /\ [VaNext]_vaVars => VaInv'
  BY VaInvStep, VaAssumption
<1>3. VaInv => (VaDiff(vaPrev, VaSerialize) = {} <=> vaPrev = VaSerialize)
  <2> SUFFICES ASSUME VaInv
               PROVE  VaDiff(vaPrev, VaSerialize) = {} <=> vaPrev = VaSerialize
    OBVIOUS
  <2>1. VaIsTree(vaPrev)
    BY DEF VaInv, VaGood
  <2>2. VaGood(VaSerialize, VaMaxDepth)
    BY VaSerializeGood, VaAssumption DEF VaInv
  <2>3. VaIsTree(VaSerialize)
    BY <2>2 DEF VaGood
  <2>4. QED
    BY <2>1, <2>3, VaNoDiffIsSame, VaAssumption
<1>4. QED
  BY <1>1, <1>2, <1>3, PTL DEF VaSpec

\* A patch is a step to the value of this moment and to no other: the copy changes only when
\* an adapter reports, and then it becomes what safeSerialize makes of the value then, not a
\* state between two values and not one of before.
THEOREM CopyMovesToTheValue == VaSpec => [][vaMirror' = VaSerialize /\ vaPrev' = VaSerialize]_vaMirror
<1>1. VaInit => VaInv
  BY VaInvInit, VaAssumption
<1>2. VaInv /\ [VaNext]_vaVars => VaInv'
  BY VaInvStep, VaAssumption
<1>3. VaInv /\ VaInv' /\ [VaNext]_vaVars => [vaMirror' = VaSerialize /\ vaPrev' = VaSerialize]_vaMirror
  BY DEF VaInv, VaNext, VaSetField, VaReport, vaVars
<1>4. QED
  BY <1>1, <1>2, <1>3, PTL DEF VaSpec

=============================================================================
