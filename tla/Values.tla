-------------------------------- MODULE Values --------------------------------
(***************************************************************************)
(* What happens to a value between the app and the desktop: safeSerialize, *)
(* diffValues, and applyPatch on the copy.                                 *)
(*                                                                         *)
(* The app's value is a heap of objects that point at each other; what is  *)
(* sent is a tree, a function from the paths of its parts to what is       *)
(* there.  A path is the sequence of its segments: escapePointer and       *)
(* unescapePointer undo each other, so joining them loses nothing but the  *)
(* difference between the root and a key that is the empty string.  The    *)
(* keys of VaKeys are in the order Object.keys gives them, the i-th is     *)
(* also the i-th index of an array, and none is one of UNSAFE_KEYS.        *)
(***************************************************************************)
EXTENDS Naturals, Sequences, SequencesExt, FiniteSets

CONSTANTS
  VaKeys,      \* the keys of an object and the indices of an array, in their order
  VaIds,       \* objects of the app
  VaRoot,      \* the one that is reported
  VaLeaf,      \* primitives
  VaFunction,  \* a function, as a field of an object
  VaDeleted,   \* for a field that is taken away
  VaMaxDepth,  \* MAX_SERIALIZE_DEPTH
  VaMaxSteps   \* bound of the model: changes of the app

ASSUME VaAssumption ==
  /\ VaRoot \in VaIds /\ IsFiniteSet(VaIds) /\ VaMaxDepth \in Nat
  /\ VaKeys \in Seq(ToSet(VaKeys)) /\ IsInjective(VaKeys)
  /\ VaFunction \notin VaLeaf \cup VaIds /\ VaLeaf \cap VaIds = {}

VARIABLES
  vaKind,  \* object -> "object", "array" or "map"
  vaHeap,  \* object -> its fields: a partial map from keys to leaves, functions and objects
  vaPrev,  \* prevState: the tree the adapter sent or compared last
  vaMirror, \* the desktop's copy
  vaSteps  \* model bound

vaVars == <<vaKind, vaHeap, vaPrev, vaMirror, vaSteps>>

VaValues == VaLeaf \cup {VaFunction} \cup VaIds

VaObject == <<"object">>
VaArray == <<"array">>
VaPrimitive(v) == <<"leaf", v>>

\* What is there, and below it the trees of its fields.
VaNode(label, of) ==
  [p \in {<< >>} \cup UNION {{<<k>> \o q : q \in DOMAIN of[k]} : k \in DOMAIN of} |->
     IF p = << >> THEN label ELSE of[Head(p)][Tail(p)]]

\* A TruncatedValue is an object like any other until isTruncatedValue looks at it.
VaTruncated(type) ==
  VaNode(VaObject, [k \in {"__spyglass_truncated", "originalType"} |->
                      VaNode(VaPrimitive(IF k = "originalType" THEN type ELSE "true"), << >>)])

VaIsTruncated(tree, p) ==
  LET mark == Append(p, "__spyglass_truncated")
  IN tree[p] = VaObject /\ mark \in DOMAIN tree /\ tree[mark] = VaPrimitive("true")

\* The fields of an object; an array has those of its indices up to the first gap.
VaFields(id) ==
  {VaKeys[i] : i \in {i \in DOMAIN VaKeys :
     \A j \in 1..i : vaKind[id] = "array" \/ j = i => VaKeys[j] \in DOMAIN vaHeap[id]}}

\* The fields one after the other, in the order of their keys: walk passes on the set of
\* objects seen, which never shrinks.  below is walk, one level further down.
VaWalkFields(below, id, seen) ==
  LET walked[i \in 0..Len(VaKeys)] ==
        IF i = 0 THEN [of |-> << >>, seen |-> seen]
        ELSE LET done == walked[i - 1]
                 k == VaKeys[i]
                 w == below[vaHeap[id][k]][done.seen]
             IN IF k \notin VaFields(id) THEN done
                ELSE [of |-> [x \in DOMAIN done.of \cup {k} |-> IF x = k THEN w.tree ELSE done.of[x]],
                      seen |-> w.seen]
  IN walked[Len(VaKeys)]

\* walk leaves a marker in the place of what is too deep or has been seen: left is how far
\* depth still is from MAX_SERIALIZE_DEPTH.
VaStops(id, seen, left) == left = 0 \/ id \in seen

\* walk: the tree of a value, and the objects seen by the end of it.
VaWalkOne(below, left, v, seen) ==
  CASE v = VaFunction -> [tree |-> VaTruncated("function"), seen |-> seen]
    [] v \in VaLeaf -> [tree |-> VaNode(VaPrimitive(v), << >>), seen |-> seen]
    [] v \in VaIds /\ VaStops(v, seen, left) ->
         [tree |-> VaTruncated(IF left = 0 THEN "max-depth-exceeded" ELSE "circular-reference"), seen |-> seen]
    [] v \in VaIds /\ ~VaStops(v, seen, left) /\ vaKind[v] = "map" ->
         [tree |-> VaTruncated("Map"), seen |-> seen \cup {v}]
    [] v \in VaIds /\ ~VaStops(v, seen, left) /\ vaKind[v] # "map" ->
         LET fields == VaWalkFields(below, v, seen \cup {v})
         IN [tree |-> VaNode(IF vaKind[v] = "array" THEN VaArray ELSE VaObject, fields.of), seen |-> fields.seen]

VaWalk ==
  LET walk[left \in 0..VaMaxDepth] ==
        [v \in VaValues |-> [seen \in SUBSET VaIds |->
           VaWalkOne(IF left = 0 THEN << >> ELSE walk[left - 1], left, v, seen)]]
  IN walk[VaMaxDepth]

\* safeSerialize of the value that is reported.
VaSerialize == VaWalk[VaRoot][{}].tree

\* containsTruncatedValue looks no deeper than MAX_SERIALIZE_DEPTH.
VaContainsTruncated(tree) == \E p \in DOMAIN tree : Len(p) <= VaMaxDepth /\ VaIsTruncated(tree, p)

VaChildren(tree, p) == {q \in DOMAIN tree \ {<< >>} : Front(q) = p}

\* The part of a tree below a path.
VaPart(tree, p) ==
  [q \in {SubSeq(q, Len(p) + 1, Len(q)) : q \in {q \in DOMAIN tree : IsPrefix(p, q)}} |-> tree[p \o q]]

VaOp(op, path, value) == [op |-> op, path |-> path, value |-> value]

\* diffObjects: removals, and what was added.
VaDiffObjects(prev, next, p) ==
  {VaOp("remove", q, VaNode(VaPrimitive("none"), << >>)) : q \in VaChildren(prev, p) \ DOMAIN next}
    \cup {VaOp("add", q, VaPart(next, q)) : q \in VaChildren(next, p) \ DOMAIN prev}

\* Mutant: arrays are compared index by index whatever their lengths.
MutVaDiffArrays(prev, next, p) == prev[p] = VaArray /\ next[p] = VaArray

\* diffArrays: an array of another length is replaced as a whole.
VaDiffArrays(prev, next, p) ==
  /\ prev[p] = VaArray /\ next[p] = VaArray
  /\ Cardinality(VaChildren(prev, p)) = Cardinality(VaChildren(next, p))

\* diffValues goes on to what two objects, or two arrays of a length, have in common.
VaGoesOn(prev, next, p) == (prev[p] = VaObject /\ next[p] = VaObject) \/ VaDiffArrays(prev, next, p)

VaCompared(prev, next) ==
  {p \in DOMAIN prev \cap DOMAIN next : \A n \in 0..Len(p) - 1 : VaGoesOn(prev, next, SubSeq(p, 1, n))}

\* diffValues: what differs at the paths it gets to.
VaDiff(prev, next) ==
  UNION {CASE prev[p] = VaObject /\ next[p] = VaObject -> VaDiffObjects(prev, next, p)
           [] VaDiffArrays(prev, next, p) -> {}
           [] prev[p] = next[p] /\ prev[p] \notin {VaObject, VaArray} -> {}
           [] OTHER -> {VaOp("replace", p, VaPart(next, p))} : p \in VaCompared(prev, next)}

VaIsArray(tree, p) == p \in DOMAIN tree /\ tree[p] = VaArray

\* An array takes an index up to its length, the last one only where something is put there.
VaRefuses(tree, op) ==
  \E n \in 1..Len(op.path) :
    LET q == SubSeq(op.path, 1, n)
    IN /\ VaIsArray(tree, Front(q)) /\ q \notin DOMAIN tree
       /\ n = Len(op.path) /\ op.op # "remove" =>
            \A i \in DOMAIN VaKeys : VaKeys[i] = Last(q) => i # Cardinality(VaChildren(tree, Front(q))) + 1

\* splice: the items after the one that is taken out move up.
VaSplice(tree, p) ==
  LET index(k) == CHOOSE i \in DOMAIN VaKeys : VaKeys[i] = k
      later == {q \in DOMAIN tree : /\ Len(q) >= Len(p) /\ IsPrefix(Front(p), q)
                                    /\ index(q[Len(p)]) > index(Last(p))}
      up(q) == [q EXCEPT ![Len(p)] = VaKeys[index(@) - 1]]
      kept == {q \in DOMAIN tree : ~IsPrefix(p, q)} \ later
  IN [q \in kept \cup {up(r) : r \in later} |-> IF q \in kept THEN tree[q] ELSE tree[CHOOSE r \in later : up(r) = q]]

\* setAtPath: what is not an object on the way becomes one.
VaSetAtPath(tree, op) ==
  LET p == op.path
      above == {SubSeq(p, 1, n) : n \in 0..Len(p) - 1}
      kept == {q \in DOMAIN tree : ~IsPrefix(p, q)}
      put == IF op.op = "remove" THEN {} ELSE {p \o q : q \in DOMAIN op.value}
  IN CASE VaRefuses(tree, op) -> tree
       [] ~VaRefuses(tree, op) /\ op.op = "remove" /\ p # << >> /\ VaIsArray(tree, Front(p)) -> VaSplice(tree, p)
       [] OTHER ->
            [q \in kept \cup above \cup put |->
               IF q \in put THEN op.value[SubSeq(q, Len(p) + 1, Len(q))]
               ELSE IF q \in above /\ ~VaIsArray(tree, q) THEN VaObject ELSE tree[q]]

\* applyPatch: one operation after the other.
VaApplyPatch(tree, ops) ==
  LET result[i \in 0..Len(ops)] == IF i = 0 THEN tree ELSE VaSetAtPath(result[i - 1], ops[i])
  IN result[Len(ops)]

VaInit ==
  /\ vaKind \in {k \in [VaIds -> {"object", "array", "map"}] : k[VaRoot] = "object"}
  /\ vaHeap = [id \in VaIds |-> << >>]
  /\ vaPrev = VaSerialize /\ vaMirror = vaPrev
  /\ vaSteps = 0

\* The app sets or deletes a field.
VaSetField(id, k, v) ==
  /\ vaSteps < VaMaxSteps /\ vaSteps' = vaSteps + 1
  /\ vaHeap' = [vaHeap EXCEPT ![id] =
       IF v = VaDeleted THEN [x \in DOMAIN @ \ {k} |-> @[x]]
       ELSE [x \in DOMAIN @ \cup {k} |-> IF x = k THEN v ELSE @[x]]]
  /\ UNCHANGED <<vaKind, vaPrev, vaMirror>>

\* An adapter hears of it: a diff from what it saw last is sent and applied.  The order of
\* its operations, which is that of the keys on both sides, is left open.
VaReport ==
  LET next == VaSerialize
      diff == VaDiff(vaPrev, next)
  IN /\ diff # {}
     /\ \E ops \in SetToSeqs(diff) : vaMirror' = VaApplyPatch(vaMirror, ops)
     /\ vaPrev' = next
     /\ UNCHANGED <<vaKind, vaHeap, vaSteps>>

VaNext ==
  \/ \E id \in VaIds, k \in ToSet(VaKeys), v \in VaValues \cup {VaDeleted} : VaSetField(id, k, v)
  \/ VaReport

VaSpec == VaInit /\ [][VaNext]_vaVars
-----------------------------------------------------------------------------

\* protocol.test.ts, "round-trips: applying diffValues(prev, next) to prev reproduces next", for
\* every heap: whatever two values an adapter serialises one after the other, cycles and
\* markers included, the patch between them turns the copy of the first into the second.
\* And, as connection.ts says of containsTruncatedValue, the copy is nowhere deeper than
\* safeSerialize lets a value be, so that no marker in it escapes that walk.
VaRoundTrip ==
  /\ vaMirror = vaPrev
  /\ \A p \in DOMAIN vaMirror :
       (\A n \in 0..Len(p) - 1 : ~VaIsTruncated(vaMirror, SubSeq(p, 1, n))) => Len(p) <= VaMaxDepth
  /\ (\E p \in DOMAIN vaMirror : VaIsTruncated(vaMirror, p)) => VaContainsTruncated(vaMirror)

=============================================================================
