----------------------------- MODULE JsonGraph ------------------------------
(***************************************************************************)
(* The graph a JSON value is shown as: buildJsonGraph, and the rows a user *)
(* opens in JsonGraph while the value goes on changing.  A value is a set  *)
(* of containers: GrHeap maps each to [array, fields], its fields a        *)
(* sequence of [key, child], a child a container or GrLeaf.  A key is the  *)
(* sequence of its dotted parts, so that an id is what pathToId makes.     *)
(***************************************************************************)
EXTENDS Naturals, Sequences, SequencesExt, FiniteSets

CONSTANTS
  GrHeaps,        \* the values that may arrive, each [root, objects]
  GrLeaf, GrNone,
  GrMaxNodes,     \* MAX_NODES
  GrMaxOpen,      \* MAX_ARRAY_ITEMS_OPEN and MAX_OBJECT_KEYS_OPEN
  GrInlineMax,    \* INLINE_ARRAY_MAX_ITEMS
  GrDepth,        \* defaultExpandDepth
  GrMaxArrivals   \* bound of the model

\* What a field holds is a container of the same value; the root shown is one.
ASSUME GrAssumption ==
  /\ GrMaxNodes \in Nat \ {0} /\ GrMaxOpen \in Nat
  /\ \A heap \in GrHeaps :
       /\ heap.root \in DOMAIN heap.objects
       /\ \A o \in DOMAIN heap.objects :
            LET fields == heap.objects[o].fields
            IN /\ fields \in Seq(ToSet(fields))
               /\ \A f \in ToSet(fields) : f.child \in DOMAIN heap.objects \cup {GrLeaf}

VARIABLES grData, grExpanded, grOverflow, grSelection, grArrivals

grVars == <<grData, grExpanded, grOverflow, grSelection, grArrivals>>

GrId(path) == FlattenSeq(path)

GrInline(o) ==
  /\ grData.objects[o].array /\ Len(grData.objects[o].fields) \in 1..GrInlineMax
  /\ \A i \in DOMAIN grData.objects[o].fields : grData.objects[o].fields[i].child = GrLeaf

\* The node being built is not among the nodes, and no longer in the queue.
\* Mutant: what is queued is not counted.
MutGrOverBudget(s) == Len(s.nodes) + 1 >= GrMaxNodes

GrOverBudget(s) == Len(s.nodes) + 1 + Len(s.queue) >= GrMaxNodes

\* One field of the container at the head: its row, and a place in the queue for a child to show.
GrField(s, item, field) ==
  LET path == Append(item.path, field.key)
      row(kind) == [path |-> path, kind |-> kind, id |-> IF kind \in {"collapsed", "child-ref"} THEN GrId(path) ELSE GrNone]
      add(kind) == [s EXCEPT !.rows = Append(@, row(kind))]
  IN CASE field.child = GrLeaf -> add("primitive")
       [] field.child # GrLeaf /\ field.child \in item.ancestors \cup {item.value} -> add("circular")
       [] OTHER ->
            IF GrInline(field.child) THEN add("inline-array")
            ELSE IF (Len(path) > GrDepth /\ GrId(path) \notin grExpanded) \/ GrOverBudget(s)
            THEN [add("collapsed") EXCEPT !.truncated = @ \/ GrOverBudget(s)]
            ELSE [add("child-ref") EXCEPT
                    !.edges = Append(@, [source |-> item.id, target |-> GrId(path)]),
                    !.queue = Append(@, [id |-> GrId(path), path |-> path, value |-> field.child,
                                         ancestors |-> item.ancestors \cup {item.value}])]

\* The fields of a container, in their order.
GrFields(s, item, fields) ==
  LET filled[i \in 0..Len(fields)] == IF i = 0 THEN s ELSE GrField(filled[i - 1], item, fields[i])
  IN filled[Len(fields)]

\* One container: at most GrMaxOpen of its rows, and a row for the rest.
GrVisit(s) ==
  LET item == Head(s.queue)
      fields == grData.objects[item.value].fields
      all == item.id \in grOverflow \/ Len(fields) <= GrMaxOpen
      done == GrFields([s EXCEPT !.queue = Tail(@), !.rows = << >>], item,
                       IF all THEN fields ELSE SubSeq(fields, 1, GrMaxOpen))
      rows == IF all THEN done.rows ELSE Append(done.rows, [path |-> item.path, kind |-> "overflow", id |-> item.id])
  IN IF \E n \in ToSet(s.nodes) : n.id = item.id THEN [s EXCEPT !.queue = Tail(@)]
     ELSE [done EXCEPT !.nodes = Append(@, [id |-> item.id, value |-> item.value, rows |-> rows])]

GrStart ==
  [queue |-> <<[id |-> << >>, path |-> << >>, value |-> grData.root, ancestors |-> {}]>>,
   nodes |-> << >>, edges |-> << >>, rows |-> << >>, truncated |-> FALSE]

\* The loop goes on until the queue is empty, which it is after this many visits: each adds
\* a node to the budget, or finds one that is there and leaves a shorter queue.
GrVisits == (GrMaxNodes + 1) * (GrMaxNodes + 1)

GrGraph ==
  LET built[n \in 0..GrVisits] ==
        IF n = 0 THEN GrStart
        ELSE LET s == built[n - 1] IN IF s.queue = << >> THEN s ELSE GrVisit(s)
  IN built[GrVisits]

GrInit ==
  /\ grData \in GrHeaps /\ grExpanded = {} /\ grOverflow = {} /\ grSelection = GrNone /\ grArrivals = 0

\* The value changes under the view.
GrArrives(data) ==
  /\ grArrivals < GrMaxArrivals /\ data # grData
  /\ grData' = data /\ grArrivals' = grArrivals + 1
  /\ UNCHANGED <<grExpanded, grOverflow, grSelection>>

\* A click on a folded row, on a row for the rest, or on any other.
GrToggleExpand(row) ==
  /\ row.kind = "collapsed"
  /\ grExpanded' = grExpanded \cup {row.id}
  /\ UNCHANGED <<grData, grOverflow, grSelection, grArrivals>>

GrToggleOverflow(row) ==
  /\ row.kind = "overflow"
  /\ grOverflow' = grOverflow \cup {row.id}
  /\ UNCHANGED <<grData, grExpanded, grSelection, grArrivals>>

GrSelectRow(node, row) ==
  /\ row.kind \notin {"collapsed", "overflow"}
  /\ grSelection' = IF row.kind = "child-ref" THEN [node |-> row.id, field |-> GrNone]
                    ELSE [node |-> node.id, field |-> GrId(row.path)]
  /\ UNCHANGED <<grData, grExpanded, grOverflow, grArrivals>>

GrClose ==
  /\ grSelection # GrNone
  /\ grSelection' = GrNone
  /\ UNCHANGED <<grData, grExpanded, grOverflow, grArrivals>>

GrNext ==
  \/ \E data \in GrHeaps : GrArrives(data)
  \/ \E node \in ToSet(GrGraph.nodes) : \E row \in ToSet(node.rows) :
       GrToggleExpand(row) \/ GrToggleOverflow(row) \/ GrSelectRow(node, row)
  \/ GrClose

GrSpec == GrInit /\ [][GrNext]_grVars
-----------------------------------------------------------------------------

\* buildJsonGraph.ts: whatever was opened in earlier values, cycles and shared containers
\* included, the loop ends, the graph keeps to its budget, no node is there twice, a row
\* that refers to a node refers to one that is there, and unless the budget cut it short a
\* container is shown folded only where the user may still open it.
GrWellFormed ==
  LET g == GrGraph
      ids == {n.id : n \in ToSet(g.nodes)}
      rows == UNION {ToSet(n.rows) : n \in ToSet(g.nodes)}
  IN /\ g.queue = << >>
     /\ Len(g.nodes) <= GrMaxNodes /\ Cardinality(ids) = Len(g.nodes)
     /\ ids = {e.target : e \in ToSet(g.edges)} \cup {<< >>}
     /\ \A r \in rows : /\ r.kind = "child-ref" => r.id \in ids
                        /\ r.kind = "collapsed" /\ ~g.truncated => r.id \notin grExpanded /\ Len(r.path) > GrDepth

=============================================================================
