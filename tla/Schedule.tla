------------------------------ MODULE Schedule ------------------------------
(***************************************************************************)
(* The scheduler of remediate/schedule.go over the ordering graph of       *)
(* graph/graph.go: it emits the pending operations in an order that        *)
(* respects the edges, stays in the section it is in when it can, and      *)
(* otherwise follows the baseline key.  When every operation left waits    *)
(* for another one it walks to a cycle and, by policy, refuses the whole   *)
(* plan or drops one edge of the cycle.                                    *)
(*                                                                         *)
(* Operations are numbered from 1 here and from 0 in the code.  A key is   *)
(* the concatenation of the code's level triples, which compares the same  *)
(* way because every level has three components.                           *)
(***************************************************************************)
EXTENDS Integers, Sequences, FiniteSets, SequencesExt

CONSTANTS
    Layouts,  \* the sequences of operations handed to the scheduler
    Policies  \* the cycle policies, remediate.Cycle

VARIABLES
    cycle,    \* the policy of the call, never assigned
    pc,       \* where the scheduling loop is
    ops,      \* the pending operations: [key, secs, ...] records
    derived,  \* history: the edges handed over, before any is dropped
    edges,    \* the edges left, graph.Graph
    indeg,    \* per operation, the count schedule() keeps
    out,      \* the operations emitted so far, in order
    walk      \* findCycle's walk against the edges

vars == <<cycle, pc, ops, derived, edges, indeg, out, walk>>

Ops == DOMAIN ops

\* The pairs AddEdge accepts: it panics on a self-edge or an unknown index.
EdgePairs(S) == {e \in S \X S : e[1] # e[2]}

ASSUME PoliciesAssumption == Policies \subseteq {"Abort", "Break"}

\* Operations in a row, with section paths of a finite length.
Laid(l) ==
    /\ Len(l) \in Nat /\ DOMAIN l = 1..Len(l)
    /\ \A i \in DOMAIN l : Len(l[i].secs) \in Nat

ASSUME LayoutsAssumption == \A l \in Layouts : Laid(l)

-----------------------------------------------------------------------------
(* Keys, sections and the choice of the next operation.                    *)

\* Lexicographic order, a proper prefix first.
KeyLess(a, b) ==
    \E n \in 0..Len(a) :
        /\ n <= Len(b)
        /\ \A m \in 1..n : a[m] = b[m]
        /\ \/ n = Len(a) /\ n < Len(b)
           \/ n < Len(a) /\ n < Len(b) /\ a[n + 1] < b[n + 1]

\* The number of leading sections two section paths share.
Affinity(a, b) ==
    Cardinality({n \in 1..Len(a) :
                    n <= Len(b) /\ SubSeq(a, 1, n) = SubSeq(b, 1, n)})

\* Keys as collect builds them: no two operations have one key, and the keys of
\* a section extend the key of its header, so an operation between two others
\* shares at least as many sections with the first as the second does.
KeysFit(l) ==
    \A i, j, k \in DOMAIN l :
        /\ l[i].key \in Seq(Int)
        /\ i # j => l[i].key # l[j].key
        /\ KeyLess(l[i].key, l[j].key) /\ KeyLess(l[j].key, l[k].key)
            => Affinity(l[k].secs, l[i].secs) <= Affinity(l[j].secs, l[i].secs)

\* Only DeclarationOrderKept needs it.
ASSUME KeysAssumption == \A l \in Layouts : KeysFit(l)

Emitted == ToSet(out)

\* Seeded fault: readiness ignores the last outstanding predecessor.
ReadyOffByOne == {i \in Ops \ Emitted : indeg[i] <= 1}

Ready == {i \in Ops \ Emitted : ~(indeg[i] > 0)}

Stalled == {i \in Ops \ Emitted : indeg[i] > 0}

\* The section path of the operation emitted last.
Stack == IF out = <<>> THEN <<>> ELSE ops[Last(out)].secs

\* Seeded fault: the key alone decides.
BetterByKeyOnly(i, j) ==
    \/ KeyLess(ops[i].key, ops[j].key)
    \/ ops[i].key = ops[j].key /\ i < j

\* Seeded fault: the index breaks an affinity tie before the key does.
BetterByIndex(i, j) ==
    LET ai == Affinity(ops[i].secs, Stack)
        aj == Affinity(ops[j].secs, Stack)
    IN  ai > aj \/ (ai = aj /\ i < j)

Better(i, j) ==
    LET ai == Affinity(ops[i].secs, Stack)
        aj == Affinity(ops[j].secs, Stack)
    IN  \/ ai > aj
        \/ /\ ai = aj
           /\ \/ KeyLess(ops[i].key, ops[j].key)
              \/ ops[i].key = ops[j].key /\ i < j

Best(i) == i \in Ready /\ \A j \in Ready \ {i} : Better(i, j)

-----------------------------------------------------------------------------
(* Cycles.                                                                 *)

\* Seeded fault: operations already emitted are followed too.
StalledPredsAll(i) == {p \in Ops : <<p, i>> \in edges}

StalledPreds(i) == {p \in Stalled : <<p, i>> \in edges}

LowestOf(S, i) == i \in S /\ \A j \in S : i <= j

\* The elements of the walk from the repeated one on, turned to run forward.
CycleFrom(p) ==
    Reverse(SubSeq(walk, CHOOSE k \in DOMAIN walk : walk[k] = p, Len(walk)))

After(c, k) == IF k = Len(c) THEN c[1] ELSE c[k + 1]

\* cmpCycleEdge: the edge leaving c[j] has the greater (from-key, to-key).
EdgeLess(c, i, j) ==
    \/ KeyLess(ops[c[i]].key, ops[c[j]].key)
    \/ /\ ops[c[i]].key = ops[c[j]].key
       /\ KeyLess(ops[After(c, i)].key, ops[After(c, j)].key)

\* The first position of c whose outgoing edge no other edge of c exceeds.
BreakAt(c, k) ==
    /\ k \in DOMAIN c
    /\ \A j \in DOMAIN c : ~EdgeLess(c, k, j)
    /\ \A j \in 1..(k - 1) : EdgeLess(c, j, k)

-----------------------------------------------------------------------------
(* The loop.                                                               *)

\* Seeded fault: the in-degrees count a dropped or emitted source again.
IndegAfterEmitAll(i) ==
    [j \in Ops |-> indeg[j] - (IF <<i, j>> \in derived THEN 1 ELSE 0)]

IndegAfterEmit(i) ==
    [j \in Ops |-> indeg[j] - (IF <<i, j>> \in edges THEN 1 ELSE 0)]

\* Seeded fault: the degrees are counted along the wrong direction.
OutDegrees == [j \in Ops |-> Cardinality({i \in Ops : <<j, i>> \in edges})]

InDegrees == [j \in Ops |-> Cardinality({i \in Ops : <<i, j>> \in edges})]

Init ==
    /\ cycle \in Policies
    /\ pc = "emit"
    /\ ops \in Layouts
    /\ edges \in SUBSET EdgePairs(Ops)
    /\ derived = edges
    /\ indeg = InDegrees
    /\ out = <<>>
    /\ walk = <<>>

Emit(i) ==
    /\ pc = "emit"
    /\ Len(out) < Len(ops)
    /\ Best(i)
    /\ out' = Append(out, i)
    /\ indeg' = IndegAfterEmit(i)
    /\ UNCHANGED <<cycle, pc, ops, derived, edges, walk>>

\* The loop counts what it has emitted.
Finish ==
    /\ pc = "emit"
    /\ ~(Len(out) < Len(ops))
    /\ pc' = "done"
    /\ UNCHANGED <<cycle, ops, derived, edges, indeg, out, walk>>

\* No operation is ready: findCycle starts at the lowest stalled index.
Stall(i) ==
    /\ pc = "emit"
    /\ Len(out) < Len(ops)
    /\ Ready = {}
    /\ LowestOf(Stalled, i)
    /\ pc' = "walk"
    /\ walk' = <<i>>
    /\ UNCHANGED <<cycle, ops, derived, edges, indeg, out>>

\* It follows the lowest stalled predecessor until an operation repeats.
ExtendWalk(p) ==
    /\ pc = "walk"
    /\ LowestOf(StalledPreds(Last(walk)), p)
    /\ p \notin ToSet(walk)
    /\ walk' = Append(walk, p)
    /\ UNCHANGED <<cycle, pc, ops, derived, edges, indeg, out>>

\* Abort: an Error, and no operation is emitted.
AbortOnCycle(p) ==
    /\ pc = "walk"
    /\ LowestOf(StalledPreds(Last(walk)), p)
    /\ p \in ToSet(walk)
    /\ cycle = "Abort"
    /\ pc' = "aborted"
    /\ out' = <<>>
    /\ UNCHANGED <<cycle, ops, derived, edges, indeg, walk>>

\* Seeded fault: the edge is taken against the walk instead of along the cycle.
DroppedEdgeReversed(c, k) == <<After(c, k), c[k]>>

DroppedEdge(c, k) == <<c[k], After(c, k)>>

\* Seeded fault: the edge is reported as dropped and stays.
BreakOnCycleKeepsEdge(p) ==
    /\ pc = "walk"
    /\ LowestOf(StalledPreds(Last(walk)), p)
    /\ p \in ToSet(walk)
    /\ cycle = "Break"
    /\ pc' = "emit"
    /\ walk' = <<>>
    /\ UNCHANGED <<cycle, ops, derived, edges, indeg, out>>

\* Break: a Warning, and the greatest edge of the cycle is removed.
BreakOnCycle(p) ==
    /\ pc = "walk"
    /\ LowestOf(StalledPreds(Last(walk)), p)
    /\ p \in ToSet(walk)
    /\ cycle = "Break"
    /\ \E k \in 1..Len(walk) :
        LET c == CycleFrom(p)
            e == DroppedEdge(c, k)
        IN  /\ BreakAt(c, k)
            /\ edges' = edges \ {e}
            /\ indeg' = [indeg EXCEPT ![e[2]] = @ - 1]
    /\ pc' = "emit"
    /\ walk' = <<>>
    /\ UNCHANGED <<cycle, ops, derived, out>>

\* The call has returned.
Returned ==
    /\ pc \in {"done", "aborted"}
    /\ UNCHANGED vars

Next ==
    \/ \E i \in Ops :
        Emit(i) \/ Stall(i) \/ ExtendWalk(i) \/ AbortOnCycle(i) \/ BreakOnCycle(i)
    \/ Finish
    \/ Returned

\* schedule() is one call on one goroutine: while a step is possible it is taken.
Spec == Init /\ [][Next]_vars /\ WF_vars(Next)

-----------------------------------------------------------------------------
(* Properties.                                                             *)

TypeOK ==
    /\ cycle \in Policies
    /\ pc \in {"emit", "walk", "done", "aborted"}
    /\ Len(ops) \in Nat /\ Ops = 1..Len(ops)
    /\ derived \subseteq EdgePairs(Ops)
    /\ edges \subseteq derived
    /\ indeg \in [Ops -> Int]
    /\ out \in Seq(Ops)
    /\ walk \in Seq(Ops)

Unemitted(j) == {i \in Ops \ Emitted : <<i, j>> \in edges}

\* The maintained in-degree of every operation is the number of its
\* predecessors not yet emitted, whatever was emitted or dropped: schedule()
\* updates it in two places and never recomputes it.
IndegCounts ==
    pc # "aborted" => \A j \in Ops : indeg[j] = Cardinality(Unemitted(j))

\* findCycle indexes pred[cur][0] without a check: while it walks, the
\* operation it stands on has a stalled predecessor, so it cannot panic, and
\* the walk runs backwards along surviving edges of operations that wait.
WalkIsSound ==
    pc = "walk" =>
        /\ walk # <<>>
        /\ Ready = {}
        /\ ToSet(walk) \subseteq Stalled
        /\ \A k, l \in DOMAIN walk : walk[k] = walk[l] => k = l
        /\ \A k \in 1..(Len(walk) - 1) : <<walk[k + 1], walk[k]>> \in edges
        /\ StalledPreds(Last(walk)) # {}

\* Whatever affinity and cycle breaking did, no operation was emitted before
\* one that a surviving edge puts first, and none was emitted twice.
Topological ==
    /\ \A m, n \in DOMAIN out : out[m] = out[n] => m = n
    /\ \A m \in DOMAIN out : \A e \in edges :
        e[2] = out[m] => \E l \in 1..(m - 1) : out[l] = e[1]

\* findCycle is entered, and Abort refuses, only when the derived edges cannot
\* all be kept: some operations all wait for one another.
StallMeansCycle ==
    pc \in {"walk", "aborted"} =>
        \E S \in SUBSET Ops :
            S # {} /\ \A j \in S : \E i \in S : <<i, j>> \in derived

\* "Preserve declaration-rank order when it satisfies every derived edge":
\* if no edge goes against the keys, affinity does not reorder anything.
DeclarationOrderKept ==
    (\A e \in derived : KeyLess(ops[e[1]].key, ops[e[2]].key)) =>
        \A m \in 1..(Len(out) - 1) :
            KeyLess(ops[out[m]].key, ops[out[m + 1]].key)

\* The schedule leaves a section that still has work only because of an edge:
\* an operation of the section emitted later was, at the point the schedule
\* went elsewhere, waiting for one that had not been emitted.
SectionLeftOnlyForEdge ==
    \A b \in 2..Len(out) : \A c \in (b + 1)..Len(out) :
        LET here == ops[out[b - 1]].secs
        IN  Affinity(ops[out[c]].secs, here) > Affinity(ops[out[b]].secs, here)
            => \E e \in derived :
                e[2] = out[c] /\ \A l \in 1..(b - 1) : out[l] # e[1]

\* The loop ends: every pass emits an operation, refuses, or removes an edge.
Terminates == <>(pc \in {"done", "aborted"})

\* The scheduler implements the order it promises.
Order ==
    INSTANCE PlanOrder WITH
        size   <- Len(ops),
        plan   <- out,
        status <- IF pc \in {"emit", "walk"} THEN "ordering" ELSE pc

OrderSpec == Order!Spec
=============================================================================
