----------------------------- MODULE PlanProofs -----------------------------
(***************************************************************************)
(* What the plan of Diff owes to the graph that its derivations build, for *)
(* every schema and every pair of configurations.                          *)
(*                                                                         *)
(* The scheduler's invariant, proved in ScheduleProofs for arbitrary       *)
(* graphs, is carried over to the graph of Diff: the edges handed to the   *)
(* scheduler are exactly those of the five derivations, and it starts on   *)
(* them with nothing emitted (GraphInv).                                   *)
(*                                                                         *)
(* What ScheduleProofs assumes of keys and sections, KeysFit, is proved of *)
(* the plan of Diff: the calls of collect and the operations it emits have *)
(* places that are apart or inside one another (KeyInv), so the keys order *)
(* them as their sections nest (PlanKeysFit).                              *)
(***************************************************************************)
EXTENDS DeviceProofs

\* The scheduler's proofs, about the operations, graph and walk of Diff.
SP == INSTANCE ScheduleProofs WITH Layouts <- {}, Policies <- {"Abort", "Break"}

-----------------------------------------------------------------------------
(* The scheduler inside Diff is the one of ScheduleProofs.                 *)

\* What the loop looks at.
LEMMA SameChoice ==
    /\ SP!Ops = Ops /\ Sched!Ops = Ops
    /\ Sched!Emitted = SP!Emitted
    /\ Sched!Ready = SP!Ready /\ Sched!Stalled = SP!Stalled
    /\ Sched!Stack = SP!Stack
    /\ \A a, b : Sched!KeyLess(a, b) <=> SP!KeyLess(a, b)
    /\ \A a, b : Sched!Affinity(a, b) = SP!Affinity(a, b)
    /\ \A i : Sched!Best(i) <=> SP!Best(i)
    /\ \A S, i : Sched!LowestOf(S, i) <=> SP!LowestOf(S, i)
    /\ \A i : Sched!StalledPreds(i) = SP!StalledPreds(i)
    /\ \A i : Sched!IndegAfterEmit(i) = SP!IndegAfterEmit(i)
    /\ Sched!InDegrees = SP!InDegrees
  <1>1. SP!Ops = Ops /\ Sched!Ops = Ops
    BY DEF SP!Ops, Sched!Ops, Ops
  <1>2. Sched!Emitted = SP!Emitted
    BY DEF Sched!Emitted, SP!Emitted, Sched!ToSet, SP!ToSet
  <1>3. Sched!Ready = SP!Ready /\ Sched!Stalled = SP!Stalled
    BY <1>1, <1>2 DEF Sched!Ready, SP!Ready, Sched!Stalled, SP!Stalled
  <1>4. Sched!Stack = SP!Stack
    BY DEF Sched!Stack, SP!Stack, Sched!Last, SP!Last
  <1>5. \A a, b : Sched!KeyLess(a, b) <=> SP!KeyLess(a, b)
    BY DEF Sched!KeyLess, SP!KeyLess
  <1>6. \A a, b : Sched!Affinity(a, b) = SP!Affinity(a, b)
    BY DEF Sched!Affinity, SP!Affinity, Sched!Cardinality, SP!Cardinality
  <1>7. \A i, j : Sched!Better(i, j) <=> SP!Better(i, j)
    BY <1>4, <1>5, <1>6 DEF Sched!Better, SP!Better
  <1>8. \A i : Sched!Best(i) <=> SP!Best(i)
    BY <1>3, <1>7 DEF Sched!Best, SP!Best
  <1>9. \A S, i : Sched!LowestOf(S, i) <=> SP!LowestOf(S, i)
    BY DEF Sched!LowestOf, SP!LowestOf
  <1>10. \A i : Sched!StalledPreds(i) = SP!StalledPreds(i)
    BY <1>3 DEF Sched!StalledPreds, SP!StalledPreds
  <1>11. \A i : Sched!IndegAfterEmit(i) = SP!IndegAfterEmit(i)
    BY <1>1 DEF Sched!IndegAfterEmit, SP!IndegAfterEmit
  <1>12. Sched!InDegrees = SP!InDegrees
    BY <1>1 DEF Sched!InDegrees, SP!InDegrees, Sched!Cardinality, SP!Cardinality
  <1> QED
    BY <1>1, <1>2, <1>3, <1>4, <1>5, <1>6, <1>8, <1>9, <1>10, <1>11, <1>12

\* Which edge of a cycle goes.
LEMMA SameBreak ==
    /\ \A p : Sched!CycleFrom(p) = SP!CycleFrom(p)
    /\ \A c, k : Sched!After(c, k) = SP!After(c, k)
    /\ \A c, k : Sched!BreakAt(c, k) <=> SP!BreakAt(c, k)
    /\ \A c, k : Sched!DroppedEdge(c, k) = SP!DroppedEdge(c, k)
  <1>1. \A p : Sched!CycleFrom(p) = SP!CycleFrom(p)
    BY DEF Sched!CycleFrom, SP!CycleFrom, Sched!Reverse, SP!Reverse
  <1>2. \A c, k : Sched!After(c, k) = SP!After(c, k)
    BY DEF Sched!After, SP!After
  <1>3. \A c, i, j : Sched!EdgeLess(c, i, j) <=> SP!EdgeLess(c, i, j)
    BY <1>2, SameChoice DEF Sched!EdgeLess, SP!EdgeLess
  <1>4. \A c, k : Sched!BreakAt(c, k) <=> SP!BreakAt(c, k)
    BY <1>3 DEF Sched!BreakAt, SP!BreakAt
  <1>5. \A c, k : Sched!DroppedEdge(c, k) = SP!DroppedEdge(c, k)
    BY <1>2 DEF Sched!DroppedEdge, SP!DroppedEdge
  <1> QED
    BY <1>1, <1>2, <1>4, <1>5

\* The steps of the scheduler are steps of Schedule.
LEMMA SchedulerSteps ==
    ASSUME DiffNext, pc \in {"emit", "walk"}
    PROVE  SP!Next
  <1>1. CASE \E i \in Ops : Sched!Emit(i)
    BY <1>1, SameChoice DEF Sched!Emit, SP!Emit, SP!Next
  <1>2. CASE \E i \in Ops : Sched!Stall(i)
    BY <1>2, SameChoice DEF Sched!Stall, SP!Stall, SP!Next
  <1>3. CASE \E i \in Ops : Sched!ExtendWalk(i)
    <2>1. PICK p \in Ops : Sched!ExtendWalk(p)
      BY <1>3
    <2>2. Sched!Last(walk) = SP!Last(walk) /\ Sched!ToSet(walk) = SP!ToSet(walk)
      BY DEF Sched!Last, SP!Last, Sched!ToSet, SP!ToSet
    <2>3. SP!ExtendWalk(p)
      BY <2>1, <2>2, SameChoice DEF Sched!ExtendWalk, SP!ExtendWalk
    <2> QED
      BY <2>3, SameChoice DEF SP!Next
  <1>4. CASE \E i \in Ops : Sched!BreakOnCycle(i)
    <2>1. PICK p \in Ops : Sched!BreakOnCycle(p)
      BY <1>4
    <2>2. Sched!Last(walk) = SP!Last(walk) /\ Sched!ToSet(walk) = SP!ToSet(walk)
      BY DEF Sched!Last, SP!Last, Sched!ToSet, SP!ToSet
    <2>3. SP!BreakOnCycle(p)
      BY <2>1, <2>2, SameChoice, SameBreak DEF Sched!BreakOnCycle, SP!BreakOnCycle
    <2> QED
      BY <2>3, SameChoice DEF SP!Next
  <1>5. CASE Sched!Finish
    BY <1>5, SameChoice DEF Sched!Finish, SP!Finish, SP!Next
  <1>6. CASE AbortPlan
    <2>1. PICK p \in Ops : Sched!AbortOnCycle(p)
      BY <1>6 DEF AbortPlan
    <2>2. Sched!Last(walk) = SP!Last(walk) /\ Sched!ToSet(walk) = SP!ToSet(walk)
      BY DEF Sched!Last, SP!Last, Sched!ToSet, SP!ToSet
    <2>3. SP!AbortOnCycle(p)
      BY <2>1, <2>2, SameChoice DEF Sched!AbortOnCycle, SP!AbortOnCycle
    <2> QED
      BY <2>3, SameChoice DEF SP!Next
  <1>7. ~Collect /\ ~DeriveEdges /\ ~Materialize
    BY DEF Collect, PairLevel, FindRemoves, DropToggles, AddLine, ModifyLine, DeltaLine,
           ReplaceLine, EnterSection, RefuseIntent, ExpandRemoval, RefuseExpansion,
           RefuseDelete, RemoveLine, CheckBaselineRemovals, Accepted, Facing,
           DeriveEdges, DeriveSlotCleanupEdges, DeriveRefEdges, DeriveMoveEdges,
           DeriveRequireEdges, DeriveExclusionEdges, CountIndegrees, Derive, Materialize
  <1> QED
    BY <1>1, <1>2, <1>3, <1>4, <1>5, <1>6, <1>7 DEF DiffNext, Scheduling

-----------------------------------------------------------------------------
(* The graph.                                                              *)

\* Nothing an edge depends on changes once the operations are collected.
LEMMA EdgesFixed ==
    ASSUME UNCHANGED <<running, intended, baseline, ops>>
    PROVE  /\ CleanupEdges' = CleanupEdges /\ RefEdges' = RefEdges
           /\ MoveEdges' = MoveEdges /\ RequireEdges' = RequireEdges
           /\ ExclusionEdges' = ExclusionEdges /\ EdgePairs' = EdgePairs
  <1>1. Ops' = Ops /\ EdgePairs' = EdgePairs
    BY DEF Ops, EdgePairs
  <1>2. \A side : Conf(side)' = Conf(side)
    BY DEF Conf
  <1>3. \A h : Line(h)' = Line(h)
    BY <1>2 DEF Line
  <1>4. \A h : DefOf(h)' = DefOf(h) /\ Id(h)' = Id(h)
    BY <1>3 DEF DefOf, Id
  <1>5. \A h : Sub(h)' = Sub(h)
    BY <1>2 DEF Sub
  <1>6. \A h : IsKindSlot(h)' = IsKindSlot(h)
    BY <1>4 DEF IsKindSlot
  <1>7. \A i \in Ops : IsCross(ops[i])' = IsCross(ops[i])
    BY <1>4 DEF IsCross, CrossDefinition
  <1>8. \A i \in Ops : /\ Added(ops[i])' = Added(ops[i])
                       /\ Removed(ops[i])' = Removed(ops[i])
    BY <1>7 DEF Added, Removed
  <1>9. \A h : /\ LabelsIn(h)' = LabelsIn(h) /\ Defines(h)' = Defines(h)
               /\ \A type : RelsOf(h, type)' = RelsOf(h, type)
    BY <1>3, <1>4, <1>5 DEF LabelsIn, Defines, RelsOf
  <1>10. \A h : Refs(h)' = Refs(h) /\ Required(h)' = Required(h)
    BY <1>3, <1>9 DEF Refs, Required
  <1>11. \A h : Names(h)' = Names(h)
    BY <1>2, <1>5 DEF Names
  <1>12. Surviving' = Surviving
    BY DEF Surviving
  <1>13. \A i, S : Smallest(i, S)' <=> Smallest(i, S)
    BY DEF Smallest, Earlier, Sched!KeyLess
  <1>14. /\ \A r : Adding(r)' = Adding(r) /\ Removing(r)' = Removing(r)
         /\ \A l : AddingLabel(l)' = AddingLabel(l)
    BY <1>1, <1>8, <1>9 DEF Adding, Removing, AddingLabel
  <1>15. CleanupEdges' = CleanupEdges
    BY <1>1, <1>4, <1>6 DEF CleanupEdges
  <1>16. RefEdges' = RefEdges
    BY <1>1, <1>8, <1>10, <1>13, <1>14 DEF RefEdges, EdgePairs
  <1>17. MoveEdges' = MoveEdges
    BY <1>1, <1>8, <1>11 DEF MoveEdges, EdgePairs
  <1>18. \A i \in Ops : \A l : NeedsLabel(ops[i], l)' <=> NeedsLabel(ops[i], l)
    BY <1>10, <1>12 DEF NeedsLabel
  <1>19. RequireEdges' = RequireEdges
    BY <1>1, <1>8, <1>9, <1>10, <1>12, <1>13, <1>14, <1>18 DEF RequireEdges, EdgePairs
  <1>20. ExclusionEdges' = ExclusionEdges
    BY <1>1, <1>4, <1>8 DEF ExclusionEdges, EdgePairs
  <1> QED
    BY <1>1, <1>15, <1>16, <1>17, <1>19, <1>20

\* Where no edge has been derived yet.
Collecting == {"collect", "cleanup"}

\* The edges derived when Diff stands at pc: one derivation after the other.
DerivedAt(at) ==
    UNION {IF at \notin Collecting THEN CleanupEdges ELSE {},
           IF at \notin Collecting \cup {"refs"} THEN RefEdges ELSE {},
           IF at \notin Collecting \cup {"refs", "moves"} THEN MoveEdges ELSE {},
           IF at \notin Collecting \cup {"refs", "moves", "requires"}
           THEN RequireEdges ELSE {},
           IF at \notin Collecting \cup {"refs", "moves", "requires", "exclusions"}
           THEN ExclusionEdges ELSE {}}

\* The edges of the five derivations.
AllEdges ==
    UNION {CleanupEdges, RefEdges, MoveEdges, RequireEdges, ExclusionEdges}

\* Where Diff has not started the scheduler.
Planning == {"collect", "cleanup", "refs", "moves", "requires", "exclusions", "count"}

\* Where the scheduler has started, or finished.
Planned == {"emit", "walk", "done", "aborted"}

\* The scheduler works on the edges of the derivations and on nothing else.
GraphInv ==
    /\ pc \in Planning \cup Planned
    /\ derived = DerivedAt(pc)
    /\ pc \in Planning => edges = derived /\ out = <<>> /\ walk = <<>>
    /\ pc \in Planned => SP!IInv
    /\ pc = "done" => SP!AllEmitted

\* A step of collect appends to the plan, which has no edges yet.
LEMMA CollectGraph ==
    ASSUME GraphInv, Collect
    PROVE  GraphInv'
  <1>1. /\ pc = "collect" /\ pc' \in {"collect", "cleanup"}
        /\ UNCHANGED <<derived, edges, out, walk>>
    BY DEF Collect, PairLevel, FindRemoves, DropToggles, AddLine, ModifyLine, DeltaLine,
           ReplaceLine, EnterSection, RefuseIntent, ExpandRemoval, RefuseExpansion,
           RefuseDelete, RemoveLine, CheckBaselineRemovals, Accepted, Facing, Process,
           schedVars
  <1>2. derived = {} /\ DerivedAt(pc') = {} /\ DerivedAt(pc)' = {}
    BY <1>1 DEF GraphInv, DerivedAt, Collecting
  <1>3. pc' \in Planning /\ pc' \notin Planned
    BY <1>1 DEF Planning, Planned
  <1> QED
    BY <1>1, <1>2, <1>3 DEF GraphInv, Planning

\* Each derivation adds its edges.
LEMMA DeriveGraph ==
    ASSUME GraphInv, DeriveEdges, ~CountIndegrees
    PROVE  GraphInv'
  <1>1. UNCHANGED <<running, intended, baseline, ops, out, walk>> /\ edges' = derived'
    BY DEF DeriveEdges, DeriveSlotCleanupEdges, DeriveRefEdges, DeriveMoveEdges,
           DeriveRequireEdges, DeriveExclusionEdges, Derive, inputVars
  <1>2. \A at : DerivedAt(at)' = DerivedAt(at)
    BY <1>1, EdgesFixed DEF DerivedAt
  <1>3. /\ pc \in Planning /\ pc' \in Planning /\ pc' \notin Planned /\ pc' # "done"
        /\ derived' = DerivedAt(pc')
    <2>1. CASE DeriveSlotCleanupEdges
      BY <2>1 DEF GraphInv, DeriveSlotCleanupEdges, Derive, DerivedAt, Collecting, Planning, Planned
    <2>2. CASE DeriveRefEdges
      BY <2>2 DEF GraphInv, DeriveRefEdges, Derive, DerivedAt, Collecting, Planning, Planned
    <2>3. CASE DeriveMoveEdges
      BY <2>3 DEF GraphInv, DeriveMoveEdges, Derive, DerivedAt, Collecting, Planning, Planned
    <2>4. CASE DeriveRequireEdges
      BY <2>4 DEF GraphInv, DeriveRequireEdges, Derive, DerivedAt, Collecting, Planning, Planned
    <2>5. CASE DeriveExclusionEdges
      BY <2>5 DEF GraphInv, DeriveExclusionEdges, Derive, DerivedAt, Collecting, Planning, Planned
    <2> QED
      BY <2>1, <2>2, <2>3, <2>4, <2>5 DEF DeriveEdges
  <1>4. DerivedAt(pc)' = DerivedAt(pc')
    BY <1>2
  <1> QED
    BY <1>1, <1>3, <1>4 DEF GraphInv

\* The derivations relate operations of the plan.
LEMMA DerivedPairs == DerivedAt(pc) \subseteq EdgePairs
  BY DEF DerivedAt, CleanupEdges, RefEdges, MoveEdges, RequireEdges, ExclusionEdges

\* What holds wherever the scheduler starts holds where the next step starts it.
LEMMA StartsSound == SP!Start' => SP!IInv'
  <1>1. SP!Start => SP!IInv
    BY SP!StartIInv
  <1> QED
    BY <1>1, PTL

\* The scheduler starts on the finished graph with nothing emitted.
LEMMA CountGraph ==
    ASSUME TypeInv, GraphInv, CountIndegrees
    PROVE  GraphInv'
  <1>1. /\ pc = "count" /\ pc' = "emit" /\ indeg' = Sched!InDegrees
        /\ UNCHANGED <<running, intended, baseline, cycle, ops, derived, edges, out, walk>>
    BY DEF CountIndegrees, inputVars
  <1>2. edges = derived /\ out = <<>> /\ walk = <<>> /\ derived = DerivedAt("count")
    BY <1>1 DEF GraphInv, Planning
  <1>3. DerivedAt("count") = DerivedAt("emit") /\ DerivedAt(pc)' = DerivedAt("emit")
    BY <1>1, EdgesFixed DEF DerivedAt, Collecting
  <1>4. SP!Start'
    <2>1. derived \subseteq SP!EdgePairs(SP!Ops)
      BY <1>1, <1>2, DerivedPairs, SameChoice DEF EdgePairs, SP!EdgePairs
    <2>2. SP!Laid(ops)
      <3>1. IsSeq(ops) /\ \A k \in DOMAIN ops : Len(ops[k].secs) \in Nat
        BY DEF TypeInv, PlanOK
      <3> QED
        BY <3>1 DEF SP!Laid, IsSeq
    <2>3. cycle \in {"Abort", "Break"}
      BY DEF TypeInv, InputsOK
    <2>4. indeg' = SP!InDegrees'
      BY <1>1, SameChoice DEF SP!InDegrees, SP!Ops
    <2>5. SP!Laid(ops)' /\ (derived \subseteq SP!EdgePairs(SP!Ops))'
      BY <1>1, <2>1, <2>2 DEF SP!Laid, SP!EdgePairs, SP!Ops
    <2> QED
      BY <1>1, <1>2, <2>3, <2>4, <2>5 DEF SP!Start
  <1>5. SP!IInv'
    BY <1>4, StartsSound
  <1> QED
    BY <1>1, <1>2, <1>3, <1>5 DEF GraphInv, Planning, Planned

\* Each step of the scheduler.
LEMMA SchedulingGraph ==
    ASSUME GraphInv, DiffNext, pc \in {"emit", "walk"}
    PROVE  GraphInv'
  <1>1. SP!Next
    BY SchedulerSteps
  <1>2. SP!IInv'
    BY <1>1, SP!NextIInv DEF GraphInv, Planned
  <1>3. /\ pc' \in Planned /\ pc' # "collect" /\ pc \in Planned /\ pc # "done"
        /\ UNCHANGED <<running, intended, baseline, ops, derived>>
    BY DEF DiffNext, Collect, PairLevel, FindRemoves, DropToggles, AddLine, ModifyLine,
           DeltaLine, ReplaceLine, EnterSection, RefuseIntent, ExpandRemoval,
           RefuseExpansion, RefuseDelete, RemoveLine, CheckBaselineRemovals, Accepted,
           Facing, DeriveEdges, DeriveSlotCleanupEdges, DeriveRefEdges, DeriveMoveEdges,
           DeriveRequireEdges, DeriveExclusionEdges, CountIndegrees, Derive, Materialize,
           Scheduling, AbortPlan, Sched!Emit, Sched!Stall, Sched!ExtendWalk,
           Sched!BreakOnCycle, Sched!Finish, Sched!AbortOnCycle, inputVars, Planned
  <1>4. SP!AllEmitted'
    <2>1. SP!IInv /\ SP!AllEmitted
      BY <1>3 DEF GraphInv, SP!AllEmitted
    <2> QED
      BY <1>1, <2>1, SP!NextAllEmitted
  <1>5. DerivedAt(pc) = DerivedAt(pc') /\ DerivedAt(pc)' = DerivedAt(pc')
    BY <1>3, EdgesFixed DEF DerivedAt, Collecting, Planned
  <1> QED
    BY <1>2, <1>3, <1>4, <1>5 DEF GraphInv, Planned, Planning

\* What reads the graph only, or nothing at all.
LEMMA StutterGraph ==
    ASSUME GraphInv, UNCHANGED <<running, intended, baseline, cycle, pc, ops, derived, edges,
                                 indeg, out, walk>>
    PROVE  GraphInv'
  <1>1. \A at : DerivedAt(at)' = DerivedAt(at)
    BY EdgesFixed DEF DerivedAt
  <1>2. UNCHANGED SP!vars
    BY DEF SP!vars
  <1>3. SP!IInv => SP!IInv'
    BY <1>2, SP!NextIInv
  <1>4. SP!IInv /\ SP!AllEmitted => SP!AllEmitted'
    BY <1>2, SP!NextAllEmitted
  <1> QED
    BY <1>1, <1>3, <1>4 DEF GraphInv, Planned

\* There is no edge before the first derivation.
LEMMA InitGraph == DeviceInit => GraphInv
  <1> SUFFICES ASSUME DeviceInit PROVE GraphInv
    OBVIOUS
  <1>1. pc = "collect" /\ derived = {} /\ edges = {} /\ out = <<>> /\ walk = <<>>
    BY DEF DeviceInit, Init
  <1> QED
    BY <1>1 DEF GraphInv, DerivedAt, Collecting, Planning, Planned

\* Every step of the device keeps the graph that of the derivations.
LEMMA NextGraph == TypeInv /\ GraphInv /\ [DeviceNext]_<<vars, deviceVars>> => GraphInv'
  <1> SUFFICES ASSUME TypeInv, GraphInv, [DeviceNext]_<<vars, deviceVars>>
               PROVE  GraphInv'
    OBVIOUS
  <1>1. CASE Diff
    <2>1. DiffNext
      BY <1>1 DEF Diff
    <2>2. CASE Collect
      BY <2>2, CollectGraph
    <2>3. CASE DeriveEdges
      BY <2>3, DeriveGraph, CountGraph
    <2>4. CASE Materialize
      BY <2>4, StutterGraph DEF Materialize, inputVars, schedVars
    <2>5. CASE Scheduling \/ AbortPlan
      <3>1. pc \in {"emit", "walk"}
        BY <2>5 DEF Scheduling, AbortPlan, Sched!Emit, Sched!Stall, Sched!ExtendWalk,
                    Sched!BreakOnCycle, Sched!Finish, Sched!AbortOnCycle
      <3> QED
        BY <2>1, <3>1, SchedulingGraph
    <2> QED
      BY <2>1, <2>2, <2>3, <2>4, <2>5 DEF DiffNext
  <1>2. CASE Apply \/ Returned \/ UNCHANGED <<vars, deviceVars>>
    BY <1>2, StutterGraph DEF Apply, Returned, vars, inputVars, schedVars
  <1> QED
    BY <1>1, <1>2 DEF DeviceNext

-----------------------------------------------------------------------------
(* What the graph gives.                                                   *)

\* The types, and the graph that the scheduler works on.
PlanInv == TypeInv /\ GraphInv

\* The graph, the schedule and the artifact of Diff fit together.
THEOREM PlanIsScheduled == DeviceSpec => []PlanInv
  <1>1. DeviceInit => PlanInv
    BY InitTyped, InitGraph DEF PlanInv
  <1>2. PlanInv /\ [DeviceNext]_<<vars, deviceVars>> => PlanInv'
    BY NextTyped, NextGraph DEF PlanInv
  <1> QED
    BY <1>1, <1>2, PTL DEF DeviceSpec

\* A plan that is written out has every operation that was collected, each
\* once: no cycle policy, no dropped edge and no affinity loses or repeats one.
EachOnce ==
    Complete => \A i \in Ops : \E k \in DOMAIN artifact :
        \A l \in DOMAIN artifact : artifact[l].op = i <=> l = k

\* No schedule of Diff drops or repeats an operation (EachOnce).
THEOREM EveryOperationOnce == DeviceSpec => []EachOnce
  <1>1. PlanInv => EachOnce
    <2> SUFFICES ASSUME PlanInv, Complete, NEW i \in Ops
                 PROVE  \E k \in DOMAIN artifact :
                            \A l \in DOMAIN artifact : artifact[l].op = i <=> l = k
      BY DEF EachOnce
    <2>1. /\ DOMAIN artifact = DOMAIN out
          /\ \A k \in DOMAIN artifact : artifact[k].op = out[k]
      BY DEF PlanInv, TypeInv, PlanOK, EntryOK, IsSeq, Complete
    <2>2. /\ \A m, n \in DOMAIN out : out[m] = out[n] => m = n
          /\ i \in SP!Emitted
      BY SameChoice DEF PlanInv, GraphInv, Complete, Planned, SP!IInv, SP!Topological,
                        SP!AllEmitted
    <2>3. PICK k \in DOMAIN out : out[k] = i
      BY <2>2 DEF SP!Emitted, SP!ToSet
    <2> QED
      BY <2>1, <2>2, <2>3
  <1> QED
    BY <1>1, PlanIsScheduled, PTL

\* The device executes operations in the order of the derivations: whatever
\* orders i before j, a reference, a name, a prerequisite, an exclusion or a
\* slot to be cleaned up, j never runs first, unless a cycle was broken.
InDerivedOrder ==
    Complete /\ edges = derived =>
        \A k, l \in DOMAIN artifact :
            <<artifact[l].op, artifact[k].op>> \in AllEdges => l < k

\* The schedule of Diff keeps every derived edge (InDerivedOrder).
THEOREM DerivedOrderExecuted == DeviceSpec => []InDerivedOrder
  <1>1. PlanInv => InDerivedOrder
    <2> SUFFICES ASSUME PlanInv, Complete, edges = derived,
                        NEW k \in DOMAIN artifact, NEW l \in DOMAIN artifact,
                        <<artifact[l].op, artifact[k].op>> \in AllEdges
                 PROVE  l < k
      BY DEF InDerivedOrder
    <2>1. /\ DOMAIN artifact = DOMAIN out
          /\ artifact[k].op = out[k] /\ artifact[l].op = out[l]
      BY DEF PlanInv, TypeInv, PlanOK, EntryOK, IsSeq, Complete
    <2>2. AllEdges = edges
      BY DEF PlanInv, GraphInv, Complete, DerivedAt, Collecting, AllEdges
    <2>3. /\ \A m, n \in DOMAIN out : out[m] = out[n] => m = n
          /\ \A m \in DOMAIN out : \A e \in edges :
                e[2] = out[m] => \E n \in 1..(m - 1) : out[n] = e[1]
      BY DEF PlanInv, GraphInv, Complete, Planned, SP!IInv, SP!Topological
    <2>4. PICK n \in 1..(k - 1) : out[n] = out[l]
      BY <2>1, <2>2, <2>3
    <2>5. k \in 1..Len(out) /\ DOMAIN out = 1..Len(out) /\ Len(out) \in Nat
      BY <2>1 DEF PlanInv, TypeInv, PlanOK
    <2>6. n \in DOMAIN out /\ n < k
      BY <2>5
    <2> QED
      BY <2>1, <2>3, <2>4, <2>6
  <1> QED
    BY <1>1, PlanIsScheduled, PTL

\* A plan is refused only when the derivations themselves cannot all be kept:
\* some of its operations all wait for one another.
RefusedForCycle ==
    pc = "aborted" =>
        \E S \in SUBSET Ops : S # {} /\ \A j \in S : \E i \in S : <<i, j>> \in AllEdges

\* Policy Abort refuses only operations that wait for one another
\* (RefusedForCycle).
THEOREM RefusedOnlyForCycle == DeviceSpec => []RefusedForCycle
  <1>1. PlanInv => RefusedForCycle
    <2> SUFFICES ASSUME PlanInv, pc = "aborted"
                 PROVE  \E S \in SUBSET Ops :
                            S # {} /\ \A j \in S : \E i \in S : <<i, j>> \in AllEdges
      BY DEF RefusedForCycle
    <2>1. derived = AllEdges
      BY DEF PlanInv, GraphInv, DerivedAt, Collecting, AllEdges
    <2> QED
      BY <2>1, SameChoice DEF PlanInv, GraphInv, Planned, SP!IInv, SP!StallMeansCycle
  <1> QED
    BY <1>1, PlanIsScheduled, PTL

-----------------------------------------------------------------------------
(* Spots: where a call or an operation stands, as sections and as key.     *)

\* A call that goes through the lines of a level, not about one of them.
IsLevel(t) == t.call \in {"level", "removes", "toggles"}

\* The place of an operation, by the sections around it and its own line and by
\* its key: one triple of the key for every line of the room.
OpSpot(o) == [room |-> Append(o.secs, o.src), key |-> o.key]

\* A level stands in the section it is the inside of.
Spot(t) == IF IsLevel(t) THEN [room |-> t.secs, key |-> t.key] ELSE OpSpot(t)

\* a and b begin with the same n elements.
Agree(a, b, n) == \A m \in 1..n : a[m] = b[m]

\* A place has three numbers of key for every line of its room.
SpotOK(x) ==
    /\ IsSeq(x.room) /\ x.key \in Seq(Int)
    /\ Len(x.room) \in Nat /\ Len(x.key) = 3 * Len(x.room)

\* x is y or a section around y.
Above(x, y) ==
    Len(x.room) <= Len(y.room) /\ Agree(x.room, y.room, Len(x.room))

\* Two places share a section exactly when their keys share its triples.
Fit(x, y) ==
    \A n \in 0..Len(x.room) :
        n <= Len(y.room) => (Agree(x.room, y.room, n) <=> Agree(x.key, y.key, 3 * n))

\* y is a line in the section x.
Within(x, y) ==
    /\ SpotOK(y) /\ Len(y.room) = Len(x.room) + 1
    /\ Agree(x.room, y.room, Len(x.room)) /\ Agree(x.key, y.key, Len(x.key))

\* y and z are different lines of one section.
Diverge(y, z) ==
    /\ Len(y.room) = Len(z.room)
    /\ ~Agree(y.room, z.room, Len(y.room)) /\ ~Agree(y.key, z.key, Len(y.key))

\* Agreement is an equivalence, and goes down.
LEMMA AgreeLaws ==
    ASSUME NEW a, NEW b, NEW c, NEW m \in Nat, NEW n \in Nat, m <= n
    PROVE  /\ Agree(a, b, n) => Agree(a, b, m) /\ Agree(b, a, n)
           /\ Agree(a, b, n) /\ Agree(b, c, n) => Agree(a, c, n)
           /\ Agree(a, b, n) => (Agree(a, c, n) <=> Agree(b, c, n))
  BY DEF Agree

\* Fitting goes both ways, and everything fits itself.
LEMMA FitSymmetric ==
    ASSUME NEW x, NEW y, SpotOK(x), SpotOK(y)
    PROVE  /\ Fit(x, y) => Fit(y, x)
           /\ Fit(x, x)
  <1>1. Len(x.room) \in Nat /\ Len(y.room) \in Nat
    BY DEF SpotOK
  <1>2. \A a, b, n : Agree(a, b, n) <=> Agree(b, a, n)
    BY DEF Agree
  <1>3. \A a, n : Agree(a, a, n)
    BY DEF Agree
  <1>4. ASSUME Fit(x, y) PROVE Fit(y, x)
    <2> SUFFICES ASSUME NEW n \in 0..Len(y.room), n <= Len(x.room)
                 PROVE  Agree(y.room, x.room, n) <=> Agree(y.key, x.key, 3 * n)
      BY DEF Fit
    <2>1. n \in 0..Len(x.room) /\ n <= Len(y.room)
      BY <1>1
    <2>2. Agree(x.room, y.room, n) <=> Agree(x.key, y.key, 3 * n)
      BY <1>4, <2>1 DEF Fit
    <2> QED
      BY <1>2, <2>2
  <1>5. Fit(x, x)
    BY <1>3 DEF Fit
  <1> QED
    BY <1>4, <1>5

\* What fits x fits the lines in it.
LEMMA WithinFits ==
    ASSUME NEW x, NEW y, NEW z, SpotOK(x), SpotOK(z), Within(x, y), Fit(x, z),
           Above(x, z) => Len(z.room) = Len(x.room)
    PROVE  Fit(y, z) /\ ~Above(y, z)
  <1> DEFINE l == Len(x.room)
  <1>1. /\ l \in Nat /\ Len(z.room) \in Nat /\ Len(y.room) = l + 1
        /\ Len(x.key) = 3 * l
        /\ Agree(x.room, y.room, l) /\ Agree(x.key, y.key, 3 * l)
    BY DEF SpotOK, Within
  <1> HIDE DEF l
  <1>2. ASSUME NEW n \in Nat, n <= l
        PROVE  /\ Agree(y.room, z.room, n) <=> Agree(x.room, z.room, n)
               /\ Agree(y.key, z.key, 3 * n) <=> Agree(x.key, z.key, 3 * n)
    <2>1. 3 * n \in Nat /\ 3 * l \in Nat /\ 3 * n <= 3 * l
      BY <1>1, <1>2
    <2>2. Agree(x.room, y.room, n) /\ Agree(x.key, y.key, 3 * n)
      BY <1>1, <1>2, <2>1, AgreeLaws
    <2> QED
      BY <1>2, <2>1, <2>2, AgreeLaws
  <1>3. Agree(x.room, z.room, l) /\ l <= Len(z.room) => Len(z.room) = l
    BY DEF Above, l
  <1>4. Fit(y, z)
    <2> SUFFICES ASSUME NEW n \in 0..Len(y.room), n <= Len(z.room)
                 PROVE  Agree(y.room, z.room, n) <=> Agree(y.key, z.key, 3 * n)
      BY DEF Fit
    <2>1. n \in Nat /\ (n <= l \/ n = l + 1)
      BY <1>1
    <2>2. CASE n <= l
      <3>1. Agree(x.room, z.room, n) <=> Agree(x.key, z.key, 3 * n)
        <4>1. n \in 0..Len(x.room)
          BY <1>1, <2>1, <2>2 DEF l
        <4> QED
          BY <4>1 DEF Fit
      <3> QED
        BY <1>2, <2>1, <2>2, <3>1
    <2>3. CASE n = l + 1
      <3>1. ~Agree(x.room, z.room, l) /\ l <= Len(z.room)
        BY <1>1, <1>3, <2>3
      <3>2. ~Agree(x.key, z.key, 3 * l)
        <4>1. l \in 0..Len(x.room)
          BY <1>1 DEF l
        <4> QED
          BY <3>1, <4>1 DEF Fit
      <3>3. ~Agree(y.room, z.room, l) /\ ~Agree(y.key, z.key, 3 * l)
        BY <1>1, <1>2, <3>1, <3>2
      <3>4. l <= n /\ 3 * l <= 3 * n /\ 3 * l \in Nat /\ 3 * n \in Nat
        BY <1>1, <2>1, <2>3
      <3> QED
        BY <1>1, <2>1, <3>3, <3>4, AgreeLaws
    <2> QED
      BY <2>1, <2>2, <2>3
  <1>5. ~Above(y, z)
    <2> SUFFICES ASSUME Above(y, z) PROVE FALSE
      OBVIOUS
    <2>1. l + 1 <= Len(z.room) /\ Agree(y.room, z.room, l + 1)
      BY <1>1 DEF Above
    <2>2. Agree(y.room, z.room, l) /\ l <= Len(z.room)
      BY <1>1, <2>1, AgreeLaws
    <2> QED
      BY <1>1, <1>2, <1>3, <2>1, <2>2
  <1> QED
    BY <1>4, <1>5

\* Nothing that is not around x is around the lines in it.
LEMMA NotAboveWithin ==
    ASSUME NEW x, NEW y, NEW z, SpotOK(x), SpotOK(z), Within(x, y),
           ~Above(x, z), ~Above(z, x)
    PROVE  ~Above(z, y)
  <1>1. /\ Len(x.room) \in Nat /\ Len(z.room) \in Nat /\ Len(y.room) = Len(x.room) + 1
        /\ Agree(x.room, y.room, Len(x.room))
    BY DEF SpotOK, Within
  <1> SUFFICES ASSUME Len(z.room) <= Len(x.room) + 1, Agree(z.room, y.room, Len(z.room))
               PROVE  FALSE
    BY <1>1 DEF Above
  <1>2. CASE Len(z.room) <= Len(x.room)
    BY <1>1, <1>2 DEF Above, Agree
  <1>3. CASE Len(z.room) = Len(x.room) + 1
    BY <1>1, <1>3 DEF Above, Agree
  <1> QED
    BY <1>1, <1>2, <1>3

\* Two lines of one section fit.
LEMMA SiblingsFit ==
    ASSUME NEW x, NEW y, NEW z, SpotOK(x), Within(x, y), Within(x, z), Diverge(y, z)
    PROVE  Fit(y, z) /\ ~Above(y, z) /\ y.room # z.room
  <1>1. /\ Len(x.room) \in Nat /\ Len(y.room) = Len(x.room) + 1 /\ Len(z.room) = Len(x.room) + 1
        /\ Len(x.key) = 3 * Len(x.room) /\ Len(y.key) = 3 * (Len(x.room) + 1)
        /\ Agree(x.room, y.room, Len(x.room)) /\ Agree(x.key, y.key, Len(x.key))
        /\ Agree(x.room, z.room, Len(x.room)) /\ Agree(x.key, z.key, Len(x.key))
    BY DEF SpotOK, Within
  <1>2. ~Agree(y.room, z.room, Len(y.room)) /\ ~Agree(y.key, z.key, Len(y.key))
    BY DEF Diverge
  <1>3. Fit(y, z)
    <2> SUFFICES ASSUME NEW n \in 0..Len(y.room), n <= Len(z.room)
                 PROVE  Agree(y.room, z.room, n) <=> Agree(y.key, z.key, 3 * n)
      BY DEF Fit
    <2>1. n \in Nat /\ (n <= Len(x.room) \/ n = Len(x.room) + 1)
      BY <1>1
    <2>2. CASE n <= Len(x.room)
      <3>1. Agree(y.room, z.room, n)
        BY <1>1, <2>1, <2>2 DEF Agree
      <3>2. 3 * n <= Len(x.key) /\ 3 * n \in Nat /\ Len(x.key) \in Nat
        BY <1>1, <2>1, <2>2
      <3>3. Agree(y.key, z.key, 3 * n)
        BY <1>1, <3>2 DEF Agree
      <3> QED
        BY <3>1, <3>3
    <2>3. CASE n = Len(x.room) + 1
      BY <1>1, <1>2, <2>3
    <2> QED
      BY <2>1, <2>2, <2>3
  <1> QED
    BY <1>1, <1>2, <1>3 DEF Above, Agree

-----------------------------------------------------------------------------
(* The places of the worklist and of the plan.                             *)

\* Calls that wait are for places of which none is around another.
Apart(s) ==
    /\ \A k \in DOMAIN s : SpotOK(Spot(s[k]))
    /\ \A j, k \in DOMAIN s :
        j # k => Fit(Spot(s[j]), Spot(s[k])) /\ ~Above(Spot(s[j]), Spot(s[k]))

\* Operations have places of their own.
Placed(l) ==
    /\ \A i \in DOMAIN l : SpotOK(OpSpot(l[i]))
    /\ \A i, j \in DOMAIN l :
        i # j => Fit(OpSpot(l[i]), OpSpot(l[j])) /\ OpSpot(l[i]).room # OpSpot(l[j]).room

\* A call that waits is not for a place where there is an operation, unless it
\* is the inside of the section whose header the operation reissues.
Free(t, o) ==
    /\ Fit(Spot(t), OpSpot(o))
    /\ Above(Spot(t), OpSpot(o)) =>
        IsLevel(t) /\ Len(OpSpot(o).room) = Len(Spot(t).room)

\* Every call and operation has a place that fits all others.
PlacesInv ==
    /\ Apart(todo)
    /\ Placed(ops)
    /\ \A k \in DOMAIN todo : \A i \in DOMAIN ops : Free(todo[k], ops[i])

\* What a step puts in the place of a call: calls for different lines in it,
\* or the level inside it.
Splits(t, cs) ==
    /\ \A k \in DOMAIN cs : Within(Spot(t), Spot(cs[k]))
    /\ \A j, k \in DOMAIN cs : j # k => Diverge(Spot(cs[j]), Spot(cs[k]))

\* A call that is replaced by a level at its own place.
Stays(t, cs) == DOMAIN cs = {1} /\ Spot(cs[1]) = Spot(t) /\ IsLevel(cs[1])

\* The calls that replace the head come first, the others follow.
LEMMA ReplaceHead ==
    ASSUME NEW X, NEW s \in Seq(X), s # <<>>, NEW cs \in Seq(X),
           NEW k \in DOMAIN (cs \o Tail(s))
    PROVE  \/ k \in DOMAIN cs /\ (cs \o Tail(s))[k] = cs[k]
           \/ k > Len(cs) /\ \E m \in DOMAIN s \ {1} :
                m = (k - Len(cs)) + 1 /\ (cs \o Tail(s))[k] = s[m]
  <1>1. /\ Tail(s) \in Seq(X) /\ Len(s) \in Nat /\ Len(cs) \in Nat /\ Len(s) # 0
        /\ Len(Tail(s)) = Len(s) - 1 /\ DOMAIN s = 1..Len(s) /\ DOMAIN cs = 1..Len(cs)
        /\ \A m \in 1..Len(Tail(s)) : Tail(s)[m] = s[m + 1]
    BY HeadTailProperties, EmptySeq
  <1>2. /\ k \in 1..(Len(cs) + Len(Tail(s)))
        /\ k <= Len(cs) => (cs \o Tail(s))[k] = cs[k]
        /\ k > Len(cs) => (cs \o Tail(s))[k] = Tail(s)[k - Len(cs)]
    BY <1>1, ConcatProperties
  <1>3. CASE k <= Len(cs)
    BY <1>1, <1>2, <1>3
  <1>4. CASE k > Len(cs)
    <2>1. k - Len(cs) \in 1..Len(Tail(s))
      BY <1>1, <1>2, <1>4
    <2>2. (k - Len(cs)) + 1 \in DOMAIN s \ {1}
      BY <1>1, <2>1
    <2> QED
      BY <1>1, <1>2, <1>4, <2>1, <2>2
  <1> QED
    BY <1>1, <1>2, <1>3, <1>4

\* The calls that replace one keep clear of everything the one kept clear of.
LEMMA SplitKeepsClear ==
    ASSUME NEW t, NEW cs, SpotOK(Spot(t)), Splits(t, cs) \/ Stays(t, cs), NEW k \in DOMAIN cs
    PROVE  /\ SpotOK(Spot(cs[k]))
           /\ \A u : SpotOK(Spot(u)) /\ Fit(Spot(t), Spot(u))
                     /\ ~Above(Spot(t), Spot(u)) /\ ~Above(Spot(u), Spot(t)) =>
                /\ Fit(Spot(cs[k]), Spot(u)) /\ Fit(Spot(u), Spot(cs[k]))
                /\ ~Above(Spot(cs[k]), Spot(u)) /\ ~Above(Spot(u), Spot(cs[k]))
           /\ \A o : SpotOK(OpSpot(o)) /\ Free(t, o) => Free(cs[k], o)
           /\ \A j \in DOMAIN cs : j # k =>
                Fit(Spot(cs[k]), Spot(cs[j])) /\ ~Above(Spot(cs[k]), Spot(cs[j]))
  <1>1. CASE Stays(t, cs)
    <2>1. k = 1 /\ DOMAIN cs = {1} /\ Spot(cs[1]) = Spot(t) /\ IsLevel(cs[1])
      BY <1>1 DEF Stays
    <2>2. \A u : SpotOK(Spot(u)) /\ Fit(Spot(t), Spot(u)) => Fit(Spot(u), Spot(t))
      BY FitSymmetric
    <2> QED
      BY <2>1, <2>2 DEF Free
  <1>2. CASE Splits(t, cs)
    <2>1. Within(Spot(t), Spot(cs[k])) /\ SpotOK(Spot(cs[k]))
      BY <1>2 DEF Splits, Within
    <2>2. ASSUME NEW u, SpotOK(Spot(u)), Fit(Spot(t), Spot(u)),
                 ~Above(Spot(t), Spot(u)), ~Above(Spot(u), Spot(t))
          PROVE  /\ Fit(Spot(cs[k]), Spot(u)) /\ Fit(Spot(u), Spot(cs[k]))
                 /\ ~Above(Spot(cs[k]), Spot(u)) /\ ~Above(Spot(u), Spot(cs[k]))
      <3>1. Fit(Spot(cs[k]), Spot(u)) /\ ~Above(Spot(cs[k]), Spot(u))
        BY <2>1, <2>2, WithinFits
      <3>2. ~Above(Spot(u), Spot(cs[k]))
        BY <2>1, <2>2, NotAboveWithin
      <3>3. Fit(Spot(u), Spot(cs[k]))
        BY <2>1, <2>2, <3>1, FitSymmetric
      <3> QED
        BY <3>1, <3>2, <3>3
    <2>3. ASSUME NEW o, SpotOK(OpSpot(o)), Free(t, o) PROVE Free(cs[k], o)
      <3>1. Fit(Spot(cs[k]), OpSpot(o)) /\ ~Above(Spot(cs[k]), OpSpot(o))
        BY <2>1, <2>3, WithinFits DEF Free
      <3> QED
        BY <3>1 DEF Free
    <2>4. ASSUME NEW j \in DOMAIN cs, j # k
          PROVE  Fit(Spot(cs[k]), Spot(cs[j])) /\ ~Above(Spot(cs[k]), Spot(cs[j]))
      <3>1. Within(Spot(t), Spot(cs[j])) /\ Diverge(Spot(cs[k]), Spot(cs[j]))
        BY <1>2, <2>4 DEF Splits
      <3> QED
        BY <2>1, <3>1, SiblingsFit
    <2> QED
      BY <2>1, <2>2, <2>3, <2>4
  <1> QED
    BY <1>1, <1>2

\* The worklist stays apart when its head is replaced.
LEMMA ApartReplaced ==
    ASSUME NEW X, NEW s \in Seq(X), s # <<>>, NEW cs \in Seq(X), Apart(s),
           Splits(s[1], cs) \/ Stays(s[1], cs)
    PROVE  Apart(cs \o Tail(s))
  <1> DEFINE r == cs \o Tail(s)
  <1>0. 1 \in DOMAIN s /\ SpotOK(Spot(s[1]))
    <2>1. 1 \in DOMAIN s
      BY FirstElement
    <2> QED
      BY <2>1 DEF Apart
  <1>1. ASSUME NEW m \in DOMAIN s \ {1}
        PROVE  /\ SpotOK(Spot(s[m]))
               /\ Fit(Spot(s[1]), Spot(s[m]))
               /\ ~Above(Spot(s[1]), Spot(s[m])) /\ ~Above(Spot(s[m]), Spot(s[1]))
    BY <1>0, <1>1 DEF Apart
  <1>2. ASSUME NEW k \in DOMAIN r
        PROVE  \/ k \in DOMAIN cs /\ r[k] = cs[k]
               \/ k > Len(cs) /\ \E m \in DOMAIN s \ {1} :
                    m = (k - Len(cs)) + 1 /\ r[k] = s[m]
    BY ReplaceHead
  <1>3. DOMAIN r \subseteq Int /\ Len(cs) \in Nat
    <2>1. Tail(s) \in Seq(X)
      BY HeadTailProperties
    <2>2. r \in Seq(X)
      BY <2>1, ConcatProperties
    <2> HIDE DEF r
    <2>3. DOMAIN r = 1..Len(r)
      BY <2>2
    <2> QED
      BY <2>3
  <1> HIDE DEF r
  <1>4. ASSUME NEW k \in DOMAIN r PROVE SpotOK(Spot(r[k]))
    <2>1. CASE k \in DOMAIN cs /\ r[k] = cs[k]
      BY <1>0, <2>1, SplitKeepsClear
    <2>2. CASE \E m \in DOMAIN s \ {1} : r[k] = s[m]
      BY <1>1, <2>2
    <2> QED
      BY <1>2, <2>1, <2>2
  <1>5. ASSUME NEW j \in DOMAIN r, NEW k \in DOMAIN r, j # k
        PROVE  Fit(Spot(r[j]), Spot(r[k])) /\ ~Above(Spot(r[j]), Spot(r[k]))
    <2>1. CASE j \in DOMAIN cs /\ r[j] = cs[j] /\ k \in DOMAIN cs /\ r[k] = cs[k]
      BY <1>0, <1>5, <2>1, SplitKeepsClear
    <2>2. CASE j \in DOMAIN cs /\ r[j] = cs[j] /\ \E m \in DOMAIN s \ {1} : r[k] = s[m]
      BY <1>0, <1>1, <2>2, SplitKeepsClear
    <2>3. CASE k \in DOMAIN cs /\ r[k] = cs[k] /\ \E m \in DOMAIN s \ {1} : r[j] = s[m]
      BY <1>0, <1>1, <2>3, SplitKeepsClear
    <2>4. CASE /\ \E m \in DOMAIN s \ {1} : m = (j - Len(cs)) + 1 /\ r[j] = s[m]
               /\ \E m \in DOMAIN s \ {1} : m = (k - Len(cs)) + 1 /\ r[k] = s[m]
      <3>1. PICK m \in DOMAIN s \ {1} : m = (j - Len(cs)) + 1 /\ r[j] = s[m]
        BY <2>4
      <3>2. PICK n \in DOMAIN s \ {1} : n = (k - Len(cs)) + 1 /\ r[k] = s[n]
        BY <2>4
      <3>3. m # n
        BY <1>3, <1>5, <3>1, <3>2
      <3> QED
        BY <3>1, <3>2, <3>3 DEF Apart
    <2> QED
      BY <1>2, <2>1, <2>2, <2>3, <2>4
  <1> QED
    BY <1>4, <1>5 DEF Apart, r

\* The head of the worklist is its first call.
LEMMA HeadIsFirst ==
    ASSUME TypeInv, NEW call, Facing(call)
    PROVE  /\ todo \in Seq(CallSet) /\ todo # <<>> /\ 1 \in DOMAIN todo
           /\ Head(todo) = todo[1] /\ Head(todo).call = call
  <1>1. todo \in Seq(CallSet) /\ todo # <<>> /\ Head(todo).call = call
    BY DEF TypeInv, Facing
  <1>2. 1 \in DOMAIN todo
    BY <1>1, FirstElement
  <1> QED
    BY <1>1, <1>2, HeadTailProperties

\* A step that replaces the head and leaves the plan alone.
LEMMA ReplaceStep ==
    ASSUME TypeInv, PlacesInv, NEW call, Facing(call), NEW cs \in Seq(CallSet), Process(cs),
           ops' = ops, Splits(Head(todo), cs) \/ Stays(Head(todo), cs)
    PROVE  PlacesInv'
  <1>1. /\ todo \in Seq(CallSet) /\ todo # <<>> /\ 1 \in DOMAIN todo
        /\ Head(todo) = todo[1] /\ todo' = cs \o Tail(todo)
    BY HeadIsFirst DEF Process
  <1>2. Apart(todo)' /\ Placed(ops)'
    <2>1. Apart(cs \o Tail(todo))
      BY <1>1, ApartReplaced DEF PlacesInv
    <2>2. Apart(todo')
      BY <1>1, <2>1
    <2>3. Apart(todo)' /\ Placed(ops)'
      BY <2>2 DEF Apart, Placed, PlacesInv
    <2> QED
      BY <2>3
  <1>3. ASSUME NEW k \in DOMAIN todo', NEW i \in DOMAIN ops PROVE Free(todo'[k], ops[i])
    <2>1. SpotOK(OpSpot(ops[i])) /\ SpotOK(Spot(todo[1])) /\ Free(todo[1], ops[i])
      BY <1>1 DEF PlacesInv, Placed, Apart
    <2>2. \/ k \in DOMAIN cs /\ todo'[k] = cs[k]
          \/ \E m \in DOMAIN todo \ {1} : todo'[k] = todo[m]
      BY <1>1, ReplaceHead
    <2>3. CASE k \in DOMAIN cs /\ todo'[k] = cs[k]
      BY <1>1, <2>1, <2>3, SplitKeepsClear
    <2>4. CASE \E m \in DOMAIN todo \ {1} : todo'[k] = todo[m]
      BY <2>4 DEF PlacesInv
    <2> QED
      BY <2>2, <2>3, <2>4
  <1>4. (\A k \in DOMAIN todo : \A i \in DOMAIN ops : Free(todo[k], ops[i]))'
    BY <1>3 DEF Free
  <1> QED
    BY <1>2, <1>4 DEF PlacesInv

\* A step that moves the head, which is no level, into the plan.
LEMMA EmitStep ==
    ASSUME TypeInv, PlacesInv, NEW call, Facing(call), NEW cs \in Seq(CallSet), Process(cs),
           call \in {"intent", "removal"}, cs = <<>> \/ Stays(Head(todo), cs),
           NEW action, NEW cmds, Emits(Head(todo), action, cmds)
    PROVE  PlacesInv'
  <1> DEFINE t == todo[1]
             o == Op(Head(todo), action, cmds)
             n == Len(ops) + 1
  <1>1. /\ todo \in Seq(CallSet) /\ todo # <<>> /\ 1 \in DOMAIN todo
        /\ Head(todo) = t /\ t.call = call /\ todo' = cs \o Tail(todo)
    BY HeadIsFirst DEF Process
  <1>2. ~IsLevel(t) /\ OpSpot(o) = Spot(t) /\ SpotOK(Spot(t)) /\ SpotOK(OpSpot(o))
    <2>1. ~IsLevel(t)
      BY <1>1 DEF IsLevel
    <2>2. OpSpot(o) = Spot(t)
      BY <1>1, <2>1 DEF Op, OpSpot, Spot
    <2>3. SpotOK(Spot(t))
      BY <1>1 DEF PlacesInv, Apart
    <2> QED
      BY <2>1, <2>2, <2>3
  <1>3. /\ ops' = Append(ops, o) /\ Len(ops) \in Nat /\ DOMAIN ops = 1..Len(ops)
        /\ DOMAIN ops' = 1..n
        /\ \A i \in 1..Len(ops) : ops'[i] = ops[i]
        /\ ops'[n] = o
    BY IsSeqAppend DEF Emits, TypeInv, PlanOK
  <1>4. Splits(t, cs) \/ Stays(t, cs)
    <2>1. Splits(t, <<>>)
      BY DEF Splits
    <2> QED
      BY <1>1, <2>1
  <1> HIDE DEF t, o
  <1>5. DOMAIN ops' = DOMAIN ops \cup {n}
    BY <1>3
  <1>6. \A i \in DOMAIN ops : ops'[i] = ops[i]
    BY <1>3
  <1>7. ASSUME NEW i \in DOMAIN ops
        PROVE  /\ SpotOK(OpSpot(ops[i]))
               /\ Fit(OpSpot(o), OpSpot(ops[i])) /\ Fit(OpSpot(ops[i]), OpSpot(o))
               /\ OpSpot(o).room # OpSpot(ops[i]).room
    <2>1. SpotOK(OpSpot(ops[i])) /\ Free(t, ops[i])
      BY <1>1 DEF PlacesInv, Placed, t
    <2>2. Fit(OpSpot(o), OpSpot(ops[i])) /\ ~Above(OpSpot(o), OpSpot(ops[i]))
      BY <1>2, <2>1 DEF Free
    <2>3. Fit(OpSpot(ops[i]), OpSpot(o))
      BY <1>2, <2>1, <2>2, FitSymmetric
    <2>4. OpSpot(o).room # OpSpot(ops[i]).room
      BY <1>2, <2>2 DEF Above, Agree, SpotOK
    <2> QED
      BY <2>1, <2>2, <2>3, <2>4
  <1>8. Placed(ops')
    <2>1. ASSUME NEW i \in DOMAIN ops' PROVE SpotOK(OpSpot(ops'[i]))
      BY <1>2, <1>3, <1>5, <1>6, <1>7
    <2>2. ASSUME NEW i \in DOMAIN ops', NEW j \in DOMAIN ops', i # j
          PROVE  Fit(OpSpot(ops'[i]), OpSpot(ops'[j])) /\ OpSpot(ops'[i]).room # OpSpot(ops'[j]).room
      <3>1. CASE i \in DOMAIN ops /\ j \in DOMAIN ops
        BY <1>6, <2>2, <3>1 DEF PlacesInv, Placed
      <3>2. CASE i = n /\ j \in DOMAIN ops
        BY <1>3, <1>6, <1>7, <3>2
      <3>3. CASE i \in DOMAIN ops /\ j = n
        BY <1>3, <1>6, <1>7, <3>3
      <3> QED
        BY <1>5, <2>2, <3>1, <3>2, <3>3
    <2> QED
      BY <2>1, <2>2 DEF Placed
  <1>9. Apart(todo')
    <2>1. Apart(cs \o Tail(todo))
      BY <1>1, <1>4, ApartReplaced DEF PlacesInv, t
    <2> QED
      BY <1>1, <2>1
  <1>10. ASSUME NEW k \in DOMAIN todo', NEW i \in DOMAIN ops' PROVE Free(todo'[k], ops'[i])
    <2>1. \/ k \in DOMAIN cs /\ todo'[k] = cs[k]
          \/ \E m \in DOMAIN todo \ {1} : todo'[k] = todo[m]
      BY <1>1, ReplaceHead
    <2>2. CASE k \in DOMAIN cs /\ todo'[k] = cs[k] /\ i \in DOMAIN ops
      <3>1. SpotOK(OpSpot(ops[i])) /\ Free(t, ops[i])
        BY <1>1, <2>2 DEF PlacesInv, Placed, t
      <3>2. Free(cs[k], ops[i])
        BY <1>2, <1>4, <2>2, <3>1, SplitKeepsClear
      <3> QED
        BY <1>6, <2>2, <3>2
    <2>3. CASE k \in DOMAIN cs /\ todo'[k] = cs[k] /\ i = n
      <3>1. k = 1 /\ Spot(cs[1]) = Spot(t) /\ IsLevel(cs[1])
        <4>1. cs # <<>>
          BY <2>3
        <4>2. Stays(t, cs)
          BY <1>1, <4>1
        <4> QED
          BY <2>3, <4>2 DEF Stays
      <3>2. Fit(Spot(t), Spot(t))
        BY <1>2, FitSymmetric
      <3>3. Free(cs[1], o)
        BY <1>2, <3>1, <3>2 DEF Free
      <3> QED
        BY <1>3, <2>3, <3>1, <3>3
    <2>4. CASE (\E m \in DOMAIN todo \ {1} : todo'[k] = todo[m]) /\ i \in DOMAIN ops
      BY <1>6, <2>4 DEF PlacesInv
    <2>5. CASE (\E m \in DOMAIN todo \ {1} : todo'[k] = todo[m]) /\ i = n
      <3>1. PICK m \in DOMAIN todo \ {1} : todo'[k] = todo[m]
        BY <2>5
      <3>2. Fit(Spot(todo[m]), Spot(t)) /\ ~Above(Spot(todo[m]), Spot(t))
        BY <1>1 DEF PlacesInv, Apart, t
      <3>3. Free(todo[m], o)
        BY <1>2, <3>2 DEF Free
      <3> QED
        BY <1>3, <2>5, <3>1, <3>3
    <2> QED
      BY <1>5, <2>1, <2>2, <2>3, <2>4, <2>5
  <1>11. Apart(todo)' /\ Placed(ops)'
    BY <1>8, <1>9 DEF Apart, Placed
  <1>12. (\A k \in DOMAIN todo : \A i \in DOMAIN ops : Free(todo[k], ops[i]))'
    BY <1>10 DEF Free
  <1> QED
    BY <1>11, <1>12 DEF PlacesInv

-----------------------------------------------------------------------------
(* The calls of a level are for different lines of it.                     *)

\* y is the line h of the section x, with its triple.
LineIn(x, y, h, trip) ==
    /\ trip \in Seq(Int) /\ Len(trip) = 3
    /\ y.room = Append(x.room, h) /\ y.key = x.key \o trip

\* A key with one triple more.
LEMMA KeyLonger ==
    ASSUME NEW l \in Nat, NEW key \in Seq(Int), Len(key) = 3 * l,
           NEW trip \in Seq(Int), Len(trip) = 3
    PROVE  /\ key \o trip \in Seq(Int) /\ Len(key \o trip) = 3 * l + 3
           /\ Agree(key, key \o trip, Len(key))
           /\ (key \o trip)[3 * l + 1] = trip[1] /\ (key \o trip)[3 * l + 3] = trip[3]
  <1> DEFINE n == Len(key)
             c == key \o trip
  <1>1. n \in Nat /\ n = 3 * l
    OBVIOUS
  <1>2. /\ c \in Seq(Int) /\ Len(c) = n + 3
        /\ \A k \in 1..(n + 3) : c[k] = IF k <= n THEN key[k] ELSE trip[k - n]
    <2>1. /\ c \in Seq(Int) /\ Len(c) = n + Len(trip)
          /\ \A k \in 1..(n + Len(trip)) : c[k] = IF k <= n THEN key[k] ELSE trip[k - n]
      BY ConcatProperties, Zenon
    <2> HIDE DEF n, c
    <2> QED
      BY <2>1
  <1> HIDE DEF n, c
  <1>3. c[n + 1] = trip[1]
    <2>1. n + 1 \in 1..(n + 3) /\ ~(n + 1 <= n) /\ (n + 1) - n = 1
      BY <1>1
    <2> QED
      BY <1>2, <2>1
  <1>4. c[n + 3] = trip[3]
    <2>1. n + 3 \in 1..(n + 3) /\ ~(n + 3 <= n) /\ (n + 3) - n = 3
      BY <1>1
    <2> QED
      BY <1>2, <2>1
  <1>5. Agree(key, c, n)
    <2>1. \A k \in 1..n : k \in 1..(n + 3) /\ k <= n
      BY <1>1
    <2> QED
      BY <1>2, <2>1 DEF Agree
  <1> QED
    BY <1>1, <1>2, <1>3, <1>4, <1>5 DEF n, c

\* A line of a section: one more element of the room, one more triple.
LEMMA LineWithin ==
    ASSUME NEW x, SpotOK(x), NEW y, NEW h, NEW trip, LineIn(x, y, h, trip)
    PROVE  /\ Within(x, y)
           /\ Len(y.room) = Len(x.room) + 1 /\ Len(y.key) = 3 * Len(x.room) + 3
           /\ Len(x.room) \in Nat
           /\ y.room[Len(x.room) + 1] = h
           /\ y.key[3 * Len(x.room) + 1] = trip[1] /\ y.key[3 * Len(x.room) + 3] = trip[3]
  <1> DEFINE l == Len(x.room)
             key == x.key
             room == x.room
  <1>1. /\ IsSeq(room) /\ key \in Seq(Int) /\ l \in Nat /\ Len(key) = 3 * l /\ l = Len(room)
        /\ y.room = Append(room, h) /\ y.key = key \o trip
        /\ trip \in Seq(Int) /\ Len(trip) = 3
    BY DEF SpotOK, LineIn
  <1> HIDE DEF l, key, room
  <1>2. /\ IsSeq(y.room) /\ Len(y.room) = l + 1
        /\ \A k \in 1..l : y.room[k] = room[k]
        /\ y.room[l + 1] = h
    BY <1>1, IsSeqAppend
  <1>3. /\ y.key \in Seq(Int) /\ Len(y.key) = 3 * l + 3
        /\ Agree(key, y.key, Len(key))
        /\ y.key[3 * l + 1] = trip[1] /\ y.key[3 * l + 3] = trip[3]
    BY <1>1, KeyLonger
  <1>4. Agree(room, y.room, l)
    BY <1>2 DEF Agree
  <1>5. SpotOK(y)
    <2>1. l + 1 \in Nat /\ 3 * (l + 1) = 3 * l + 3
      BY <1>1
    <2> QED
      BY <1>2, <1>3, <2>1 DEF SpotOK
  <1> QED
    BY <1>1, <1>2, <1>3, <1>4, <1>5 DEF Within, l, key, room

\* Two lines with different handles and different triples.
LEMMA LinesDiffer ==
    ASSUME NEW x, SpotOK(x), NEW y, NEW z, NEW h, NEW trip, NEW i, NEW other,
           LineIn(x, y, h, trip), LineIn(x, z, i, other),
           h # i, trip[1] # other[1] \/ trip[3] # other[3]
    PROVE  Diverge(y, z)
  <1> DEFINE l == Len(x.room)
  <1>1. /\ Len(y.room) = l + 1 /\ Len(y.key) = 3 * l + 3 /\ l \in Nat
        /\ y.room[l + 1] = h /\ y.key[3 * l + 1] = trip[1] /\ y.key[3 * l + 3] = trip[3]
    BY LineWithin
  <1>2. /\ Len(z.room) = l + 1
        /\ z.room[l + 1] = i /\ z.key[3 * l + 1] = other[1] /\ z.key[3 * l + 3] = other[3]
    BY LineWithin
  <1> HIDE DEF l
  <1>3. l + 1 \in 1..(l + 1) /\ 3 * l + 1 \in 1..(3 * l + 3) /\ 3 * l + 3 \in 1..(3 * l + 3)
    BY <1>1
  <1>4. ~Agree(y.room, z.room, l + 1)
    BY <1>1, <1>2, <1>3 DEF Agree
  <1>5. ~Agree(y.key, z.key, 3 * l + 3)
    BY <1>1, <1>2, <1>3 DEF Agree
  <1> QED
    BY <1>1, <1>2, <1>4, <1>5 DEF Diverge

\* No element is in s twice.
Injective(s) == \A i, j \in DOMAIN s : s[i] = s[j] => i = j

\* What is taken from different elements is different.
LEMMA OnlyInjective ==
    ASSUME NEW X, NEW s \in Seq(X), Injective(s), NEW S
    PROVE  Injective(Only(s, S))
  <1>1. PICK F : /\ Only(s, S) = F[Len(s)]
                 /\ F[0] = <<>>
                 /\ \A n \in 1..Len(s) :
                        F[n] = IF s[n] \in S THEN Append(F[n - 1], s[n]) ELSE F[n - 1]
    BY OnlyRuns
  <1> DEFINE T == {n \in Nat : /\ F[n] \in Seq(X) /\ Injective(F[n])
                               /\ \A k \in DOMAIN F[n] : \E m \in 1..n : F[n][k] = s[m]}
  <1>2. Len(s) \in Nat /\ DOMAIN s = 1..Len(s)
    OBVIOUS
  <1>3. 0 \in T
    <2>1. <<>> \in Seq(X) /\ DOMAIN <<>> = {} /\ Injective(<<>>)
      BY DEF Injective
    <2> QED
      BY <1>1, <2>1
  <1>4. ASSUME NEW n \in 0..(Len(s) - 1), n \in T PROVE n + 1 \in T
    <2>1. /\ n + 1 \in 1..Len(s) /\ (n + 1) - 1 = n /\ n + 1 \in Nat
          /\ \A m \in 1..n : m \in 1..(n + 1) /\ m \in DOMAIN s /\ m # n + 1
          /\ n + 1 \in DOMAIN s /\ n + 1 \in 1..(n + 1)
      BY <1>2, <1>4
    <2>2. /\ F[n] \in Seq(X) /\ Injective(F[n])
          /\ \A k \in DOMAIN F[n] : \E m \in 1..n : F[n][k] = s[m]
      BY <1>4
    <2>3. CASE s[n + 1] \notin S
      <3>1. F[n + 1] = F[n]
        BY <1>1, <2>1, <2>3
      <3> QED
        BY <2>1, <2>2, <3>1
    <2>4. CASE s[n + 1] \in S
      <3> DEFINE g == F[n]
                 a == Append(F[n], s[n + 1])
                 l == Len(F[n])
      <3>1. F[n + 1] = a
        BY <1>1, <2>1, <2>4
      <3>2. s[n + 1] \in X
        BY <2>1
      <3>3. /\ a \in Seq(X) /\ l \in Nat /\ DOMAIN g = 1..l /\ DOMAIN a = 1..(l + 1)
            /\ \A k \in 1..l : a[k] = g[k]
            /\ a[l + 1] = s[n + 1]
        BY <2>2, <3>2
      <3>4. \A k \in 1..l : \E m \in 1..n : a[k] = s[m]
        BY <2>2, <3>3
      <3>5. \A k \in 1..l : a[k] # s[n + 1]
        BY <2>1, <3>4 DEF Injective
      <3>6. Injective(g)
        BY <2>2
      <3>7. \A k \in 1..(l + 1) : k \in 1..l \/ k = l + 1
        BY <3>3
      <3> HIDE DEF g, a, l
      <3>8. Injective(a)
        BY <3>3, <3>5, <3>6, <3>7 DEF Injective
      <3>9. \A k \in DOMAIN a : \E m \in 1..(n + 1) : a[k] = s[m]
        BY <2>1, <3>3, <3>4, <3>7
      <3> QED
        BY <2>1, <3>1, <3>3, <3>8, <3>9
    <2> QED
      BY <2>3, <2>4
  <1>5. Len(s) \in T
    <2>1. \A n \in 0..Len(s) : n \in T
      <3> HIDE DEF T
      <3> QED
        BY <1>2, <1>3, <1>4, UpToInduction
    <2>2. Len(s) \in 0..Len(s)
      BY <1>2
    <2> HIDE DEF T
    <2> QED
      BY <2>1, <2>2
  <1> QED
    BY <1>1, <1>5

\* Children are different lines.
LEMMA KidsInjective ==
    ASSUME InputsOK, NEW side \in Sides, NEW h \in Places(side)
    PROVE  Injective(KidsOf(h))
  <1>1. /\ \A k \in DOMAIN KidsOf(h) : KidsOf(h)[k] = <<side, Append(h[2], k)>>
        /\ h[2] \in Seq(Nat) /\ KidsOf(h) \in Seq(Nodes(side))
    BY KidsAreNodes
  <1>2. DOMAIN KidsOf(h) \subseteq Nat
    BY <1>1
  <1>3. ASSUME NEW i \in DOMAIN KidsOf(h), NEW j \in DOMAIN KidsOf(h),
               KidsOf(h)[i] = KidsOf(h)[j]
        PROVE  i = j
    <2>1. Append(h[2], i) = Append(h[2], j)
      BY <1>1, <1>3
    <2>2. i \in Nat /\ j \in Nat
      BY <1>2
    <2> QED
      BY <1>1, <2>1, <2>2, AppendProperties
  <1> QED
    BY <1>3 DEF Injective

\* A level lists every line once.
Distinct(t) ==
    /\ \A i, j \in DOMAIN t.pairs : t.pairs[i].src = t.pairs[j].src => i = j
    /\ \A i, j \in DOMAIN t.intents : t.intents[i].src = t.intents[j].src => i = j
    /\ Injective(t.removes)

\* The lines kept are different lines.
LEMMA PairingsDistinct ==
    ASSUME InputsOK, NEW t, t.src \in Places("int"), t.run \in Places("run"),
           NEW i \in DOMAIN Pairings(t, Kept(t)), NEW j \in DOMAIN Pairings(t, Kept(t)),
           Pairings(t, Kept(t))[i].src = Pairings(t, Kept(t))[j].src
    PROVE  i = j
  <1>1. Injective(Kept(t))
    <2>1. Injective(Intended(t)) /\ Intended(t) \in Seq(Nodes("int"))
      BY KidsInjective, LevelKids DEF Intended, Sides
    <2>2. PICK S : Kept(t) = Only(Intended(t), S)
      BY DEF Kept
    <2> QED
      BY <2>1, <2>2, OnlyInjective
  <1>2. /\ i \in DOMAIN Kept(t) /\ j \in DOMAIN Kept(t)
        /\ Kept(t)[i] \in ToSet(Intended(t)) /\ Kept(t)[j] \in ToSet(Intended(t))
        /\ Pairings(t, Kept(t))[i] = PairOf(t)[Kept(t)[i]]
        /\ Pairings(t, Kept(t))[j] = PairOf(t)[Kept(t)[j]]
    BY PairingsTyped
  <1>3. PairOf(t)[Kept(t)[i]].src = Kept(t)[i] /\ PairOf(t)[Kept(t)[j]].src = Kept(t)[j]
    BY <1>2, PairOfTyped
  <1>4. Kept(t)[i] = Kept(t)[j]
    BY <1>2, <1>3
  <1> QED
    BY <1>1, <1>2, <1>4 DEF Injective

\* So are those that are realised.
LEMMA IntentsDistinct ==
    ASSUME NEW t, t.pairs \in Seq(PairSet),
           \A i, j \in DOMAIN t.pairs : t.pairs[i].src = t.pairs[j].src => i = j,
           NEW i \in DOMAIN Intents(t), NEW j \in DOMAIN Intents(t),
           Intents(t)[i].src = Intents(t)[j].src
    PROVE  i = j
  <1> DEFINE all == [k \in DOMAIN t.pairs |-> IntentOf(t.pairs[k])]
             S == {x \in ToSet(all) : x.kind # "none"}
  <1>1. all \in Seq(IntentSet)
    <2>1. DOMAIN t.pairs = 1..Len(t.pairs) /\ Len(t.pairs) \in Nat
      OBVIOUS
    <2>2. \A k \in DOMAIN t.pairs : IntentOf(t.pairs[k]) \in IntentSet
      BY IntentOfTyped
    <2> QED
      BY <2>1, <2>2, IsASeq
  <1>2. \A k \in DOMAIN all : k \in DOMAIN t.pairs /\ all[k].src = t.pairs[k].src
    BY DEF IntentOf
  <1>3. Intents(t) = Only(all, S)
    BY DEF Intents
  <1> HIDE DEF all, S
  <1>4. \A k, l \in DOMAIN all : all[k].src = all[l].src => k = l
    BY <1>2
  <1>5. Injective(Intents(t))
    <2>1. Injective(all)
      BY <1>4 DEF Injective
    <2> QED
      BY <1>1, <1>3, <2>1, OnlyInjective
  <1>6. ToSet(Intents(t)) \subseteq ToSet(all)
    BY <1>1, <1>3, OnlyElements
  <1>7. PICK k \in DOMAIN all : Intents(t)[i] = all[k]
    BY <1>6 DEF ToSet
  <1>8. PICK l \in DOMAIN all : Intents(t)[j] = all[l]
    BY <1>6 DEF ToSet
  <1>9. k = l
    BY <1>4, <1>7, <1>8
  <1> QED
    BY <1>5, <1>7, <1>8, <1>9 DEF Injective

\* So are those that go.
LEMMA RemovesDistinct ==
    ASSUME InputsOK, NEW t, t.run \in Places("run")
    PROVE  Injective(Removes(t))
  <1>1. Running(t) \in Seq(Nodes("run")) /\ Injective(Running(t))
    BY KidsAreNodes, KidsInjective DEF Running, Sides
  <1>2. PICK S : Removes(t) = Only(Running(t), S)
    BY DEF Removes
  <1> QED
    BY <1>1, <1>2, OnlyInjective

\* The calls that remove lines.
LEMMA RemovalLines ==
    ASSUME InputsOK, NEW hs \in Seq(Nodes("run")), NEW secs \in Seq(SomeNode),
           NEW key \in Seq(Int), NEW x, x.room = secs, x.key = key,
           NEW k \in DOMAIN RemovalCalls(hs, secs, key)
    PROVE  /\ k \in DOMAIN hs /\ k \in Nat
           /\ RemovalCalls(hs, secs, key)[k].call = "removal"
           /\ LineIn(x, Spot(RemovalCalls(hs, secs, key)[k]), hs[k],
                     <<1, -DefOf(hs[k]), -k>>)
  <1> DEFINE r == RemovalCalls(hs, secs, key)
             d == DefOf(hs[k])
             trip == <<1, -d, -k>>
  <1>1. /\ r \in Seq(RemovalCallSet) /\ Len(r) = Len(hs)
        /\ \A l \in 1..Len(hs) :
            r[l] = Call("removal", hs[l], Nil, "remove", Nil, secs, RemoveKey(key, DefOf(hs[l]), l))
    BY RemovalCallsTyped
  <1>2. DOMAIN r = 1..Len(hs) /\ DOMAIN hs = 1..Len(hs) /\ Len(hs) \in Nat
    <2> HIDE DEF r
    <2> QED
      BY <1>1
  <1>3. k \in 1..Len(hs) /\ k \in DOMAIN hs /\ k \in Nat
    BY <1>2
  <1>4. r[k] = Call("removal", hs[k], Nil, "remove", Nil, secs, key \o trip)
    BY <1>1, <1>3 DEF RemoveKey
  <1>5. d \in Int
    BY <1>3, DefOfNode DEF SomeNode
  <1>6. trip \in Seq(Int) /\ Len(trip) = 3
    <2> HIDE DEF d
    <2> QED
      BY <1>3, <1>5
  <1> HIDE DEF trip, r
  <1>7. Spot(r[k]) = [room |-> Append(secs, hs[k]), key |-> key \o trip] /\ r[k].call = "removal"
    BY <1>4 DEF Call, Spot, OpSpot, IsLevel
  <1>8. LineIn(x, Spot(r[k]), hs[k], trip)
    BY <1>6, <1>7 DEF LineIn
  <1> QED
    BY <1>3, <1>7, <1>8 DEF r, trip

\* Removing different lines of one section.
LEMMA RemovalsDiffer ==
    ASSUME InputsOK, NEW hs \in Seq(Nodes("run")), Injective(hs),
           NEW secs \in Seq(SomeNode), NEW key \in Seq(Int),
           NEW x, SpotOK(x), x.room = secs, x.key = key,
           NEW j \in DOMAIN RemovalCalls(hs, secs, key),
           NEW k \in DOMAIN RemovalCalls(hs, secs, key), j # k
    PROVE  Diverge(Spot(RemovalCalls(hs, secs, key)[j]), Spot(RemovalCalls(hs, secs, key)[k]))
  <1>1. /\ j \in DOMAIN hs /\ j \in Nat
        /\ LineIn(x, Spot(RemovalCalls(hs, secs, key)[j]), hs[j], <<1, -DefOf(hs[j]), -j>>)
    BY RemovalLines
  <1>2. /\ k \in DOMAIN hs /\ k \in Nat
        /\ LineIn(x, Spot(RemovalCalls(hs, secs, key)[k]), hs[k], <<1, -DefOf(hs[k]), -k>>)
    BY RemovalLines
  <1>3. hs[j] # hs[k]
    BY <1>1, <1>2 DEF Injective
  <1>4. <<1, -DefOf(hs[j]), -j>>[3] # <<1, -DefOf(hs[k]), -k>>[3]
    BY <1>1, <1>2
  <1> QED
    BY <1>1, <1>2, <1>3, <1>4, LinesDiffer

\* The calls that realise lines.
LEMMA IntentLines ==
    ASSUME InputsOK, NEW t \in LevelSet, NEW k \in DOMAIN IntentCalls(t)
    PROVE  /\ k \in DOMAIN t.intents /\ k \in Nat
           /\ t.intents[k].src \in Nodes("int")
           /\ IntentCalls(t)[k].call = "intent"
           /\ LineIn(Spot(t), Spot(IntentCalls(t)[k]), t.intents[k].src,
                     <<0, DefOf(t.intents[k].src), k>>)
  <1> DEFINE i == t.intents[k]
             d == DefOf(t.intents[k].src)
             trip == <<0, d, k>>
             flip == IF i.kind = "add" THEN Flip(t, DefOf(i.src)) ELSE Nil
  <1>1. k \in DOMAIN t.intents /\ k \in Nat
    <2>1. t.intents \in Seq(IntentSet)
      BY DEF LevelSet
    <2>2. DOMAIN IntentCalls(t) = DOMAIN t.intents
      BY DEF IntentCalls
    <2> QED
      BY <2>1, <2>2
  <1>2. i \in IntentSet
    BY <1>1 DEF LevelSet
  <1>3. i.src \in Nodes("int") /\ d \in Int
    <2>1. i.src \in Nodes("int")
      BY <1>2 DEF IntentSet
    <2> QED
      BY <2>1, DefOfNode DEF SomeNode
  <1>4. trip \in Seq(Int) /\ Len(trip) = 3
    <2> HIDE DEF d
    <2> QED
      BY <1>1, <1>3
  <1>5. IntentCalls(t)[k] = Call("intent", i.src, i.run, i.kind, flip, t.secs, t.key \o trip)
    BY <1>1 DEF IntentCalls, CreateKey
  <1>6. IsLevel(t)
    BY DEF LevelSet, IsLevel
  <1> HIDE DEF flip, trip, i
  <1>7. /\ Spot(IntentCalls(t)[k]) = [room |-> Append(t.secs, i.src), key |-> t.key \o trip]
        /\ IntentCalls(t)[k].call = "intent"
    BY <1>5 DEF Call, Spot, OpSpot, IsLevel
  <1>8. Spot(t).room = t.secs /\ Spot(t).key = t.key
    BY <1>6 DEF Spot
  <1>9. LineIn(Spot(t), Spot(IntentCalls(t)[k]), i.src, trip)
    BY <1>4, <1>7, <1>8 DEF LineIn
  <1> QED
    BY <1>1, <1>3, <1>7, <1>9 DEF i, trip

\* An element of a concatenation.
LEMMA ConcatMember ==
    ASSUME NEW X, NEW a \in Seq(X), NEW b \in Seq(X), NEW k \in DOMAIN (a \o b)
    PROVE  \/ k \in DOMAIN a /\ (a \o b)[k] = a[k]
           \/ /\ k \in Int /\ Len(a) \in Int /\ k - Len(a) \in DOMAIN b
              /\ (a \o b)[k] = b[k - Len(a)]
  <1> DEFINE m == Len(a)
             n == Len(b)
             c == a \o b
  <1>1. m \in Nat /\ n \in Nat /\ DOMAIN a = 1..m /\ DOMAIN b = 1..n
    OBVIOUS
  <1>2. /\ c \in Seq(X) /\ Len(c) = m + n
        /\ \A i \in 1..(m + n) : c[i] = IF i <= m THEN a[i] ELSE b[i - m]
    BY ConcatProperties, Zenon
  <1> HIDE DEF m, n, c
  <1>3. k \in 1..(m + n)
    BY <1>2 DEF c
  <1>4. k <= m => k \in 1..m
    BY <1>1, <1>3
  <1>5. ~(k <= m) => k - m \in 1..n
    BY <1>1, <1>3
  <1> QED
    BY <1>1, <1>2, <1>3, <1>4, <1>5 DEF c, m

\* A level splits into its lines.
LEMMA LevelSplits ==
    ASSUME InputsOK, NEW t \in LevelSet, Distinct(t), SpotOK(Spot(t))
    PROVE  /\ Splits(t, LevelCalls(t))
           /\ \A k \in DOMAIN LevelCalls(t) : ~IsLevel(LevelCalls(t)[k])
  <1> DEFINE a == IntentCalls(t)
             hs == Negations(t)
             b == RemovalCalls(hs, t.secs, t.key)
             c == LevelCalls(t)
             x == Spot(t)
  <1>1. /\ c = a \o b /\ a \in Seq(CallSet) /\ b \in Seq(CallSet)
        /\ hs \in Seq(Nodes("run")) /\ t.secs \in Seq(SomeNode) /\ t.key \in Seq(Int)
    <2>1. /\ c = a \o b /\ a \in Seq(IntentCallSet) /\ hs \in Seq(Nodes("run"))
      BY LevelCallsTyped
    <2>2. t.secs \in Seq(SomeNode) /\ t.key \in Seq(Int)
      BY DEF LevelSet
    <2>3. b \in Seq(RemovalCallSet)
      BY <2>1, <2>2, RemovalCallsTyped
    <2> HIDE DEF a, b, c
    <2>4. a \in Seq(CallSet) /\ b \in Seq(CallSet)
      BY <2>1, <2>3, SeqMonotonic DEF CallSet
    <2> QED
      BY <2>1, <2>2, <2>4
  <1>2. x.room = t.secs /\ x.key = t.key
    <2>1. IsLevel(t)
      BY DEF LevelSet, IsLevel
    <2> QED
      BY <2>1 DEF Spot
  <1>3. Injective(hs)
    <2>1. PICK S : hs = Only(t.removes, S)
      BY DEF Negations
    <2>2. t.removes \in Seq(Nodes("run")) /\ Injective(t.removes)
      BY DEF LevelSet, Distinct
    <2> HIDE DEF hs
    <2> QED
      BY <2>1, <2>2, OnlyInjective
  <1> HIDE DEF x, hs, c
  <1>4. ASSUME NEW k \in DOMAIN c
        PROVE  \/ k \in DOMAIN a /\ c[k] = a[k]
               \/ /\ k \in Int /\ Len(a) \in Int /\ k - Len(a) \in DOMAIN b
                  /\ c[k] = b[k - Len(a)]
    <2> HIDE DEF a, b
    <2> QED
      BY <1>1, ConcatMember
  <1>5. ASSUME NEW k \in DOMAIN a
        PROVE  /\ k \in DOMAIN t.intents /\ k \in Nat
               /\ t.intents[k].src \in Nodes("int")
               /\ a[k].call = "intent"
               /\ LineIn(x, Spot(a[k]), t.intents[k].src, <<0, DefOf(t.intents[k].src), k>>)
    BY IntentLines DEF x
  <1>6. ASSUME NEW k \in DOMAIN b
        PROVE  /\ k \in DOMAIN hs /\ hs[k] \in Nodes("run")
               /\ b[k].call = "removal"
               /\ LineIn(x, Spot(b[k]), hs[k], <<1, -DefOf(hs[k]), -k>>)
    <2>1. /\ k \in DOMAIN hs
          /\ b[k].call = "removal"
          /\ LineIn(x, Spot(b[k]), hs[k], <<1, -DefOf(hs[k]), -k>>)
      BY <1>1, <1>2, RemovalLines
    <2> QED
      BY <1>1, <2>1
  <1>7. SpotOK(x)
    BY DEF x
  <1>8. ASSUME NEW j \in DOMAIN a, NEW k \in DOMAIN a, j # k PROVE Diverge(Spot(a[j]), Spot(a[k]))
    <2>1. t.intents[j].src # t.intents[k].src
      BY <1>5, <1>8 DEF Distinct
    <2>2. <<0, DefOf(t.intents[j].src), j>>[3] # <<0, DefOf(t.intents[k].src), k>>[3]
      BY <1>8
    <2> HIDE DEF a
    <2> QED
      BY <1>5, <1>7, <2>1, <2>2, LinesDiffer
  <1>9. ASSUME NEW j \in DOMAIN b, NEW k \in DOMAIN b, j # k PROVE Diverge(Spot(b[j]), Spot(b[k]))
    BY <1>1, <1>2, <1>3, <1>7, <1>9, RemovalsDiffer
  <1>10. ASSUME NEW j \in DOMAIN a, NEW k \in DOMAIN b
         PROVE  Diverge(Spot(a[j]), Spot(b[k])) /\ Diverge(Spot(b[k]), Spot(a[j]))
    <2>1. t.intents[j].src # hs[k]
      <3>1. t.intents[j].src \in Nodes("int") /\ hs[k] \in Nodes("run")
        BY <1>5, <1>6
      <3> QED
        BY <3>1 DEF Nodes
    <2>2. <<0, DefOf(t.intents[j].src), j>>[1] # <<1, -DefOf(hs[k]), -k>>[1]
      OBVIOUS
    <2> HIDE DEF a, b
    <2> QED
      BY <1>5, <1>6, <1>7, <2>1, <2>2, LinesDiffer
  <1> HIDE DEF a, b
  <1>11. ASSUME NEW k \in DOMAIN c PROVE Within(x, Spot(c[k])) /\ ~IsLevel(c[k])
    <2>1. CASE k \in DOMAIN a /\ c[k] = a[k]
      <3>1. Within(x, Spot(a[k]))
        BY <1>5, <1>7, <2>1, LineWithin
      <3> QED
        BY <1>5, <2>1, <3>1 DEF IsLevel
    <2>2. CASE k - Len(a) \in DOMAIN b /\ c[k] = b[k - Len(a)]
      <3>1. PICK m \in DOMAIN b : c[k] = b[m]
        BY <2>2
      <3>2. b[m].call = "removal" /\ LineIn(x, Spot(b[m]), hs[m], <<1, -DefOf(hs[m]), -m>>)
        BY <1>6
      <3>3. Within(x, Spot(b[m]))
        BY <1>7, <3>2, LineWithin
      <3> QED
        BY <3>1, <3>2, <3>3 DEF IsLevel
    <2> QED
      BY <1>4, <2>1, <2>2
  <1>12. ASSUME NEW j \in DOMAIN c, NEW k \in DOMAIN c, j # k PROVE Diverge(Spot(c[j]), Spot(c[k]))
    <2>1. CASE j \in DOMAIN a /\ c[j] = a[j] /\ k \in DOMAIN a /\ c[k] = a[k]
      BY <1>8, <1>12, <2>1
    <2>2. CASE /\ j \in DOMAIN a /\ c[j] = a[j]
               /\ k - Len(a) \in DOMAIN b /\ c[k] = b[k - Len(a)]
      BY <1>10, <2>2
    <2>3. CASE /\ k \in DOMAIN a /\ c[k] = a[k]
               /\ j - Len(a) \in DOMAIN b /\ c[j] = b[j - Len(a)]
      BY <1>10, <2>3
    <2>4. CASE /\ j - Len(a) \in DOMAIN b /\ c[j] = b[j - Len(a)]
               /\ k - Len(a) \in DOMAIN b /\ c[k] = b[k - Len(a)]
               /\ j \in Int /\ k \in Int /\ Len(a) \in Int
      <3>1. j - Len(a) # k - Len(a)
        BY <1>12, <2>4
      <3> QED
        BY <1>9, <2>4, <3>1
    <2> QED
      BY <1>4, <2>1, <2>2, <2>3, <2>4
  <1> QED
    BY <1>11, <1>12 DEF Splits, c, x

\* The children of a section that is emptied.
LEMMA ExpansionSplits ==
    ASSUME InputsOK, NEW t \in RemovalCallSet, SpotOK(Spot(t))
    PROVE  LET cs == RemovalCalls(KidsOf(t.src), Append(t.secs, t.src), t.key)
           IN  Splits(t, cs) /\ \A k \in DOMAIN cs : ~IsLevel(cs[k])
  <1> DEFINE hs == KidsOf(t.src)
             secs == Append(t.secs, t.src)
             cs == RemovalCalls(hs, secs, t.key)
  <1>1. /\ t.src \in Nodes("run") /\ t.secs \in Seq(SomeNode) /\ t.key \in Seq(Int)
        /\ ~IsLevel(t)
    BY DEF RemovalCallSet, IsLevel
  <1>2. hs \in Seq(Nodes("run")) /\ Injective(hs)
    <2>1. t.src \in Places("run")
      BY <1>1 DEF Nodes, Places
    <2> QED
      BY <2>1, KidsAreNodes, KidsInjective DEF Sides
  <1>3. secs \in Seq(SomeNode)
    BY <1>1 DEF SomeNode
  <1>4. Spot(t).room = secs /\ Spot(t).key = t.key
    BY <1>1 DEF Spot, OpSpot
  <1> HIDE DEF hs, secs
  <1>5. ASSUME NEW k \in DOMAIN cs PROVE Within(Spot(t), Spot(cs[k])) /\ ~IsLevel(cs[k])
    <2>1. /\ cs[k].call = "removal"
          /\ LineIn(Spot(t), Spot(cs[k]), hs[k], <<1, -DefOf(hs[k]), -k>>)
      BY <1>1, <1>2, <1>3, <1>4, RemovalLines
    <2> HIDE DEF cs
    <2> QED
      BY <2>1, LineWithin DEF IsLevel
  <1>6. ASSUME NEW j \in DOMAIN cs, NEW k \in DOMAIN cs, j # k
        PROVE  Diverge(Spot(cs[j]), Spot(cs[k]))
    BY <1>1, <1>2, <1>3, <1>4, <1>6, RemovalsDiffer
  <1> QED
    BY <1>5, <1>6 DEF Splits, hs, secs

-----------------------------------------------------------------------------
(* Collecting keeps places apart.                                          *)

\* Every level of the worklist has different lines.
LevelsInv == \A k \in DOMAIN todo : IsLevel(todo[k]) => Distinct(todo[k])

\* Places apart, and levels that keep them so: what collect's keys rest on.
KeyInv == PlacesInv /\ LevelsInv

\* A new worklist whose new levels list every line once.
LEMMA LevelsReplaced ==
    ASSUME TypeInv, LevelsInv, NEW call, Facing(call), NEW cs \in Seq(CallSet), Process(cs),
           \A k \in DOMAIN cs : IsLevel(cs[k]) => Distinct(cs[k])
    PROVE  LevelsInv'
  <1>1. /\ todo \in Seq(CallSet) /\ todo # <<>> /\ todo' = cs \o Tail(todo)
    BY HeadIsFirst DEF Process
  <1>2. ASSUME NEW k \in DOMAIN todo', IsLevel(todo'[k]) PROVE Distinct(todo'[k])
    <2>1. \/ k \in DOMAIN cs /\ todo'[k] = cs[k]
          \/ \E m \in DOMAIN todo \ {1} : todo'[k] = todo[m]
      BY <1>1, ReplaceHead
    <2> QED
      BY <1>2, <2>1 DEF LevelsInv
  <1>3. (\A k \in DOMAIN todo : IsLevel(todo[k]) => Distinct(todo[k]))'
    BY <1>2 DEF IsLevel, Distinct, Injective
  <1> QED
    BY <1>3 DEF LevelsInv

\* A step that takes the head away.
LEMMA DropHead ==
    ASSUME TypeInv, KeyInv, NEW call, Facing(call), Process(<<>>),
           \/ ops' = ops
           \/ call \in {"intent", "removal"} /\ \E action, cmds : Emits(Head(todo), action, cmds)
    PROVE  KeyInv'
  <1> DEFINE cs == <<>>
  <1>1. /\ cs \in Seq(CallSet) /\ Splits(Head(todo), cs) /\ Process(cs) /\ cs = <<>>
        /\ \A k \in DOMAIN cs : IsLevel(cs[k]) => Distinct(cs[k])
    BY DEF Splits
  <1> HIDE DEF cs
  <1>2. LevelsInv'
    BY <1>1, LevelsReplaced DEF KeyInv
  <1>3. PlacesInv'
    BY <1>1, ReplaceStep, EmitStep DEF KeyInv
  <1> QED
    BY <1>2, <1>3 DEF KeyInv

\* A step that goes on with the head, from level to level or into a section.
LEMMA StayAtHead ==
    ASSUME TypeInv, KeyInv, NEW call, Facing(call), NEW u \in CallSet, Process(<<u>>),
           IsLevel(u), Distinct(u), Spot(u) = Spot(Head(todo)),
           \/ ops' = ops
           \/ call \in {"intent", "removal"} /\ \E action, cmds : Emits(Head(todo), action, cmds)
    PROVE  KeyInv'
  <1>1. <<u>> \in Seq(CallSet) /\ Stays(Head(todo), <<u>>)
    <2>1. DOMAIN <<u>> = {1} /\ <<u>>[1] = u
      OBVIOUS
    <2>2. <<u>> \in Seq(CallSet)
      OBVIOUS
    <2> QED
      BY <2>1, <2>2 DEF Stays
  <1>2. \A k \in DOMAIN <<u>> : <<u>>[k] = u
    OBVIOUS
  <1> DEFINE cs == <<u>>
  <1> HIDE DEF cs
  <1>3. cs \in Seq(CallSet) /\ Stays(Head(todo), cs) /\ Process(cs)
        /\ \A k \in DOMAIN cs : IsLevel(cs[k]) => Distinct(cs[k])
    BY <1>1, <1>2 DEF cs
  <1>4. LevelsInv'
    BY <1>3, LevelsReplaced DEF KeyInv
  <1>5. PlacesInv'
    BY <1>3, ReplaceStep, EmitStep DEF KeyInv
  <1> QED
    BY <1>4, <1>5 DEF KeyInv

\* A step that splits the head.
LEMMA SplitHead ==
    ASSUME TypeInv, KeyInv, NEW call, Facing(call), NEW cs \in Seq(CallSet), Process(cs),
           Splits(Head(todo), cs), \A k \in DOMAIN cs : ~IsLevel(cs[k]), ops' = ops
    PROVE  KeyInv'
  <1>1. LevelsInv'
    BY LevelsReplaced DEF KeyInv
  <1>2. PlacesInv'
    BY ReplaceStep DEF KeyInv
  <1> QED
    BY <1>1, <1>2 DEF KeyInv

\* The head has a place, and is distinct if it is a level.
LEMMA HeadPlaced ==
    ASSUME TypeInv, KeyInv, NEW call, Facing(call)
    PROVE  /\ SpotOK(Spot(Head(todo)))
           /\ IsLevel(Head(todo)) => Distinct(Head(todo))
  <1>1. 1 \in DOMAIN todo /\ Head(todo) = todo[1]
    BY HeadIsFirst
  <1> QED
    BY <1>1 DEF KeyInv, PlacesInv, LevelsInv, Apart

\* A level that goes on.
LEMMA LevelGoesOn ==
    ASSUME InputsOK, NEW t \in LevelSet, Distinct(t)
    PROVE  LET u == [t EXCEPT !.call = "removes", !.pairs = Pairings(t, Kept(t))]
               v == [t EXCEPT !.call = "toggles", !.intents = Intents(t), !.removes = Removes(t)]
           IN  /\ IsLevel(u) /\ Distinct(u) /\ Spot(u) = Spot(t)
               /\ IsLevel(v) /\ Distinct(v) /\ Spot(v) = Spot(t)
  <1> DEFINE p == Pairings(t, Kept(t))
             i == Intents(t)
             r == Removes(t)
             u == [t EXCEPT !.call = "removes", !.pairs = p]
             v == [t EXCEPT !.call = "toggles", !.intents = i, !.removes = r]
  <1>1. /\ t.src \in Places("int") /\ t.run \in Places("run") /\ t.pairs \in Seq(PairSet)
        /\ IsLevel(t)
    BY DEF LevelSet, IsLevel
  <1>2. /\ u.call = "removes" /\ u.secs = t.secs /\ u.key = t.key
        /\ u.pairs = p /\ u.intents = t.intents /\ u.removes = t.removes
    BY DEF LevelSet
  <1>3. /\ v.call = "toggles" /\ v.secs = t.secs /\ v.key = t.key
        /\ v.pairs = t.pairs /\ v.intents = i /\ v.removes = r
    BY DEF LevelSet
  <1>4. \A k, l \in DOMAIN p : p[k].src = p[l].src => k = l
    BY <1>1, PairingsDistinct
  <1>5. \A k, l \in DOMAIN i : i[k].src = i[l].src => k = l
    BY <1>1, IntentsDistinct DEF Distinct
  <1>6. Injective(r)
    BY <1>1, RemovesDistinct
  <1> HIDE DEF p, i, r, u, v
  <1>7. Distinct(u)
    BY <1>2, <1>4 DEF Distinct
  <1>8. Distinct(v)
    BY <1>3, <1>5, <1>6 DEF Distinct
  <1>9. IsLevel(u) /\ IsLevel(v)
    BY <1>2, <1>3 DEF IsLevel
  <1>10. Spot(u) = Spot(t) /\ Spot(v) = Spot(t)
    BY <1>1, <1>2, <1>3, <1>9 DEF Spot
  <1> QED
    BY <1>7, <1>8, <1>9, <1>10 DEF u, v, p, i, r

\* The inside of a section has the place of the section.
LEMMA SectionPlace ==
    ASSUME NEW t \in IntentCallSet
    PROVE  LET u == LevelCall(t.run[2], t.src[2], Append(t.secs, t.src), t.key)
           IN  IsLevel(u) /\ Distinct(u) /\ Spot(u) = Spot(t)
  <1> DEFINE u == LevelCall(t.run[2], t.src[2], Append(t.secs, t.src), t.key)
  <1>1. ~IsLevel(t)
    BY DEF IntentCallSet, IsLevel
  <1>2. /\ u.call = "level" /\ u.secs = Append(t.secs, t.src) /\ u.key = t.key
        /\ u.pairs = <<>> /\ u.intents = <<>> /\ u.removes = <<>>
    BY DEF LevelCall
  <1> HIDE DEF u
  <1>3. IsLevel(u) /\ Distinct(u)
    BY <1>2 DEF IsLevel, Distinct, Injective
  <1>4. Spot(u) = Spot(t)
    BY <1>1, <1>2, <1>3 DEF Spot, OpSpot
  <1> QED
    BY <1>3, <1>4 DEF u

\* collect, one step per action.
LEMMA CollectKeys ==
    ASSUME TypeInv, KeyInv, Collect
    PROVE  KeyInv'
  <1> DEFINE t == Head(todo)
  <1>1. CASE PairLevel
    <2> DEFINE u == [t EXCEPT !.call = "removes", !.pairs = Pairings(t, Kept(t))]
    <2>1. Facing("level") /\ ops' = ops /\ Process(<<u>>)
      BY <1>1 DEF PairLevel
    <2>2. u \in CallSet
      BY <2>1, LevelAdvances
    <2>3. t \in LevelSet /\ IsLevel(t) /\ InputsOK
      BY <2>1, HeadTyped DEF IsLevel, TypeInv
    <2>4. Distinct(t)
      BY <2>1, <2>3, HeadPlaced
    <2>5. IsLevel(u) /\ Distinct(u) /\ Spot(u) = Spot(t)
      BY <2>3, <2>4, LevelGoesOn
    <2> HIDE DEF u
    <2> QED
      BY <2>1, <2>2, <2>5, StayAtHead
  <1>2. CASE FindRemoves
    <2> DEFINE u == [t EXCEPT !.call = "toggles", !.intents = Intents(t), !.removes = Removes(t)]
    <2>1. Facing("removes") /\ ops' = ops /\ Process(<<u>>)
      BY <1>2 DEF FindRemoves
    <2>2. u \in CallSet
      BY <2>1, LevelAdvances
    <2>3. t \in LevelSet /\ IsLevel(t) /\ InputsOK
      BY <2>1, HeadTyped DEF IsLevel, TypeInv
    <2>4. Distinct(t)
      BY <2>1, <2>3, HeadPlaced
    <2>5. IsLevel(u) /\ Distinct(u) /\ Spot(u) = Spot(t)
      BY <2>3, <2>4, LevelGoesOn
    <2> HIDE DEF u
    <2> QED
      BY <2>1, <2>2, <2>5, StayAtHead
  <1>3. CASE DropToggles
    <2>1. Facing("toggles") /\ ops' = ops /\ Process(LevelCalls(t))
      BY <1>3 DEF DropToggles
    <2>2. t \in LevelSet /\ IsLevel(t) /\ InputsOK
      BY <2>1, HeadTyped DEF IsLevel, TypeInv
    <2>3. Distinct(t) /\ SpotOK(Spot(t))
      BY <2>1, <2>2, HeadPlaced
    <2>4. LevelCalls(t) \in Seq(CallSet)
      BY <2>2, LevelCallsTyped
    <2>5. Splits(t, LevelCalls(t)) /\ \A k \in DOMAIN LevelCalls(t) : ~IsLevel(LevelCalls(t)[k])
      BY <2>2, <2>3, LevelSplits
    <2> QED
      BY <2>1, <2>4, <2>5, SplitHead
  <1>4. CASE AddLine
    <2>1. Facing("intent") /\ Process(<<>>) /\ Emits(t, "add", <<Cmd("put", t.src, <<>>)>>)
      BY <1>4 DEF AddLine, Accepted
    <2> QED
      BY <2>1, DropHead
  <1>5. CASE ModifyLine
    <2>1. Facing("intent") /\ Process(<<>>) /\ Emits(t, "modify", <<Cmd("set", t.src, <<>>)>>)
      BY <1>5 DEF ModifyLine, Accepted
    <2> QED
      BY <2>1, DropHead
  <1>6. CASE DeltaLine
    <2>1. Facing("intent") /\ Process(<<>>) /\ Emits(t, "modify", DeltaCmds(t))
      BY <1>6 DEF DeltaLine, Accepted
    <2> QED
      BY <2>1, DropHead
  <1>7. CASE ReplaceLine
    <2>1. /\ Facing("intent") /\ Process(<<>>)
          /\ Emits(t, "replace", <<Cmd("no", t.run, <<>>), Cmd("put", t.src, <<>>)>>)
      BY <1>7 DEF ReplaceLine, Accepted
    <2> QED
      BY <2>1, DropHead
  <1>8. CASE EnterSection
    <2> DEFINE u == LevelCall(t.run[2], t.src[2], Append(t.secs, t.src), t.key)
    <2>1. /\ Facing("intent") /\ t.kind = "section" /\ Process(<<u>>)
          /\ ops' = ops \/ Emits(t, "modify", <<Cmd("set", t.src, <<>>)>>)
      BY <1>8 DEF EnterSection, Accepted
    <2>2. t \in IntentCallSet /\ InputsOK
      BY <2>1, HeadTyped DEF TypeInv
    <2>3. u \in CallSet
      BY <2>1, <2>2, SectionCalls
    <2>4. IsLevel(u) /\ Distinct(u) /\ Spot(u) = Spot(t)
      BY <2>2, SectionPlace
    <2> HIDE DEF u
    <2> QED
      BY <2>1, <2>3, <2>4, StayAtHead
  <1>9. CASE RefuseIntent
    <2>1. Facing("intent") /\ Process(<<>>) /\ ops' = ops
      BY <1>9 DEF RefuseIntent
    <2> QED
      BY <2>1, DropHead
  <1>10. CASE ExpandRemoval
    <2> DEFINE cs == RemovalCalls(KidsOf(t.src), Append(t.secs, t.src), t.key)
    <2>1. Facing("removal") /\ ops' = ops /\ Process(cs)
      BY <1>10 DEF ExpandRemoval
    <2>2. t \in RemovalCallSet /\ InputsOK /\ SpotOK(Spot(t))
      BY <2>1, HeadTyped, HeadPlaced DEF TypeInv
    <2>3. cs \in Seq(CallSet)
      BY <2>2, SectionCalls
    <2>4. Splits(t, cs) /\ \A k \in DOMAIN cs : ~IsLevel(cs[k])
      BY <2>2, ExpansionSplits
    <2> HIDE DEF cs
    <2> QED
      BY <2>1, <2>3, <2>4, SplitHead
  <1>11. CASE RefuseExpansion \/ RefuseDelete
    <2>1. Facing("removal") /\ Process(<<>>) /\ ops' = ops
      BY <1>11 DEF RefuseExpansion, RefuseDelete
    <2> QED
      BY <2>1, DropHead
  <1>12. CASE RemoveLine
    <2>1. Facing("removal") /\ Process(<<>>) /\ Emits(t, "remove", <<Cmd("no", t.src, <<>>)>>)
      BY <1>12 DEF RemoveLine
    <2> QED
      BY <2>1, DropHead
  <1>13. CASE CheckBaselineRemovals
    <2>1. todo' = todo /\ ops' = ops
      BY <1>13 DEF CheckBaselineRemovals
    <2> QED
      BY <2>1 DEF KeyInv, PlacesInv, LevelsInv, Apart, Placed
  <1> QED
    BY <1>1, <1>2, <1>3, <1>4, <1>5, <1>6, <1>7, <1>8, <1>9, <1>10, <1>11, <1>12, <1>13
    DEF Collect

\* It starts with the two roots.
LEMMA InitKeys == DeviceInit => KeyInv
  <1> SUFFICES ASSUME DeviceInit PROVE KeyInv
    OBVIOUS
  <1> DEFINE u == LevelCall(<<>>, <<>>, <<>>, <<>>)
  <1>1. /\ todo = <<u>> /\ ops = <<>>
        /\ u.call = "level" /\ u.secs = <<>> /\ u.key = <<>>
        /\ u.pairs = <<>> /\ u.intents = <<>> /\ u.removes = <<>>
    BY DEF DeviceInit, Init, LevelCall
  <1> HIDE DEF u
  <1>2. IsLevel(u) /\ Distinct(u) /\ Spot(u).room = <<>> /\ Spot(u).key = <<>>
    BY <1>1 DEF IsLevel, Distinct, Injective, Spot
  <1>3. SpotOK(Spot(u))
    <2>1. IsSeq(<<>>) /\ <<>> \in Seq(Int) /\ Len(<<>>) = 0 /\ 3 * 0 = 0
      BY DEF IsSeq
    <2> QED
      BY <1>2, <2>1 DEF SpotOK
  <1>4. DOMAIN todo = {1} /\ todo[1] = u /\ DOMAIN ops = {}
    BY <1>1
  <1>5. Apart(todo) /\ Placed(ops)
    BY <1>3, <1>4 DEF Apart, Placed
  <1> QED
    BY <1>2, <1>4, <1>5 DEF KeyInv, PlacesInv, LevelsInv

\* After that the worklist and the operations stay.
LEMMA NextKeys == TypeInv /\ KeyInv /\ [DeviceNext]_<<vars, deviceVars>> => KeyInv'
  <1> SUFFICES ASSUME TypeInv, KeyInv, [DeviceNext]_<<vars, deviceVars>>
               PROVE  KeyInv'
    OBVIOUS
  <1>1. CASE Collect
    BY <1>1, CollectKeys
  <1>2. CASE ~Collect
    <2>1. UNCHANGED <<todo, ops>>
      BY <1>2 DEF DeviceNext, Diff, DiffNext, DeriveEdges, DeriveSlotCleanupEdges,
           DeriveRefEdges, DeriveMoveEdges, DeriveRequireEdges, DeriveExclusionEdges,
           CountIndegrees, Derive, Materialize, Scheduling, AbortPlan, Sched!Emit, Sched!Stall,
           Sched!ExtendWalk, Sched!BreakOnCycle, Sched!Finish, Sched!AbortOnCycle, Apply,
           Returned, vars
    <2> QED
      BY <2>1 DEF KeyInv, PlacesInv, LevelsInv, Apart, Placed
  <1> QED
    BY <1>1, <1>2

-----------------------------------------------------------------------------
(* Keys and sections fit.                                                  *)

\* A key between two others has what the two share.
LEMMA KeyBetween ==
    ASSUME NEW a \in Seq(Int), NEW b \in Seq(Int), NEW c \in Seq(Int),
           SP!KeyLess(a, b), SP!KeyLess(b, c),
           NEW n \in Nat, n < Len(a), n <= Len(c), Agree(a, c, n)
    PROVE  n < Len(b) /\ Agree(a, b, n)
  <1>1. Len(a) \in Nat /\ Len(b) \in Nat /\ Len(c) \in Nat
    OBVIOUS
  <1>2. PICK j \in 0..Len(a) :
            /\ j <= Len(b)
            /\ \A m \in 1..j : a[m] = b[m]
            /\ \/ j = Len(a) /\ j < Len(b)
               \/ j < Len(a) /\ j < Len(b) /\ a[j + 1] < b[j + 1]
    BY DEF SP!KeyLess
  <1>3. PICK k \in 0..Len(b) :
            /\ k <= Len(c)
            /\ \A m \in 1..k : b[m] = c[m]
            /\ \/ k = Len(b) /\ k < Len(c)
               \/ k < Len(b) /\ k < Len(c) /\ b[k + 1] < c[k + 1]
    BY DEF SP!KeyLess
  <1>4. CASE n <= j
    <2>1. Agree(a, b, n)
      BY <1>2, <1>4 DEF Agree
    <2>2. n < Len(b)
      BY <1>1, <1>2, <1>4
    <2> QED
      BY <2>1, <2>2
  <1>5. CASE ~(n <= j)
    <2>1. /\ j \in Nat /\ j < n /\ j < Len(a) /\ j < Len(b) /\ a[j + 1] < b[j + 1]
          /\ j + 1 \in 1..n /\ a[j + 1] = c[j + 1]
      BY <1>1, <1>2, <1>5 DEF Agree
    <2>2. /\ a[j + 1] \in Int /\ b[j + 1] \in Int
      BY <1>1, <2>1
    <2>3. CASE k > j
      <3>1. j + 1 \in 1..k
        BY <1>3, <2>1, <2>3
      <3> QED
        BY <1>3, <2>1, <2>2, <3>1
    <2>4. CASE k = j
      BY <1>3, <2>1, <2>2, <2>4
    <2>5. CASE k < j
      <3>1. k \in Nat /\ k < Len(b) /\ k + 1 \in 1..j /\ k + 1 \in 1..n /\ b[k + 1] < c[k + 1]
        BY <1>1, <1>3, <2>1, <2>5
      <3>2. a[k + 1] = b[k + 1] /\ a[k + 1] = c[k + 1]
        BY <1>2, <3>1 DEF Agree
      <3>3. b[k + 1] \in Int
        BY <1>1, <3>1
      <3> QED
        BY <3>1, <3>2, <3>3
    <2> QED
      BY <1>3, <2>1, <2>3, <2>4, <2>5
  <1> QED
    BY <1>4, <1>5

\* Affinity counts at least the sections two paths agree in.
LEMMA AffinityAtLeast ==
    ASSUME NEW X, NEW a \in Seq(X), NEW b \in Seq(X),
           NEW m \in Nat, m <= Len(a), m <= Len(b), Agree(a, b, m)
    PROVE  m <= Sched!Affinity(a, b)
  <1> DEFINE S == {n \in 1..Len(a) : n <= Len(b) /\ SubSeq(a, 1, n) = SubSeq(b, 1, n)}
  <1>1. Len(a) \in Nat /\ Len(b) \in Nat
    OBVIOUS
  <1>2. ASSUME NEW n \in 1..m PROVE n \in S
    <2>1. n \in 1..Len(a) /\ n <= Len(b) /\ n \in Nat
      BY <1>1, <1>2
    <2>2. \A j \in 1..n : a[j] = b[j]
      BY <1>2 DEF Agree
    <2>3. SubSeq(a, 1, n) = SubSeq(b, 1, n)
      BY <1>1, <2>1, <2>2
    <2> QED
      BY <2>1, <2>3
  <1>3. IsFiniteSet(1..Len(a)) /\ S \subseteq 1..Len(a)
    BY <1>1, FS_Interval
  <1>4. Cardinality(1..m) = m
    <2>1. 1 \in Int /\ m \in Int /\ (IF 1 > m THEN 0 ELSE m - 1 + 1) = m
      OBVIOUS
    <2> QED
      BY <2>1, FS_Interval
  <1>5. Cardinality(1..m) <= Cardinality(S)
    <2> HIDE DEF S
    <2>1. IsFiniteSet(S)
      BY <1>3, FS_Subset
    <2>2. 1..m \subseteq S
      BY <1>2
    <2> QED
      BY <2>1, <2>2, FS_Subset
  <1> QED
    BY <1>4, <1>5 DEF Sched!Affinity, Sched!Cardinality, Cardinality

\* The sections of an operation are its room without its own line.
LEMMA SecsOfRoom ==
    ASSUME TypeInv, NEW i \in DOMAIN ops
    PROVE  /\ ops[i].secs \in Seq(SomeNode) /\ Len(ops[i].secs) \in Nat
           /\ Len(OpSpot(ops[i]).room) = Len(ops[i].secs) + 1
           /\ Agree(OpSpot(ops[i]).room, ops[i].secs, Len(ops[i].secs))
           /\ OpSpot(ops[i]).key = ops[i].key /\ ops[i].key \in Seq(Int)
  <1> DEFINE secs == ops[i].secs
             room == OpSpot(ops[i]).room
  <1>1. /\ secs \in Seq(SomeNode) /\ ops[i].key \in Seq(Int)
        /\ room = Append(secs, ops[i].src) /\ OpSpot(ops[i]).key = ops[i].key
    BY DEF TypeInv, PlanOK, OpSpot
  <1>2. IsSeq(secs)
    BY <1>1, SeqIsSeq
  <1> HIDE DEF secs, room
  <1>3. /\ Len(secs) \in Nat /\ Len(room) = Len(secs) + 1
        /\ \A k \in 1..Len(secs) : room[k] = secs[k]
    BY <1>1, <1>2, IsSeqAppend
  <1> QED
    BY <1>1, <1>3 DEF Agree, secs, room

\* The keys of a plan are as the scheduler wants them.
LEMMA PlanKeysFit ==
    ASSUME TypeInv, KeyInv
    PROVE  SP!KeysFit(ops)
  <1>1. ASSUME NEW i \in DOMAIN ops, NEW j \in DOMAIN ops, i # j PROVE ops[i].key # ops[j].key
    <2> DEFINE x == OpSpot(ops[i])
               y == OpSpot(ops[j])
    <2>1. SpotOK(x) /\ SpotOK(y) /\ Fit(x, y) /\ x.room # y.room
      BY <1>1 DEF KeyInv, PlacesInv, Placed
    <2>2. x.key = ops[i].key /\ y.key = ops[j].key
      BY DEF OpSpot
    <2> HIDE DEF x, y
    <2> SUFFICES ASSUME x.key = y.key PROVE FALSE
      BY <2>2
    <2>3. /\ IsSeq(x.room) /\ IsSeq(y.room)
          /\ Len(x.room) \in Nat /\ Len(y.room) \in Nat
          /\ 3 * Len(x.room) = 3 * Len(y.room)
      BY <2>1 DEF SpotOK
    <2>4. Len(x.room) = Len(y.room)
      BY <2>3
    <2>5. Agree(x.key, y.key, 3 * Len(x.room))
      BY DEF Agree
    <2>6. Agree(x.room, y.room, Len(x.room))
      <3>1. Len(x.room) \in 0..Len(x.room) /\ Len(x.room) <= Len(y.room)
        BY <2>3, <2>4
      <3> QED
        BY <2>1, <2>5, <3>1 DEF Fit
    <2>7. x.room = y.room
      <3> DEFINE r == x.room
                 s == y.room
                 Y == ToSet(r) \cup ToSet(s)
      <3>1. r \in Seq(ToSet(r)) /\ s \in Seq(ToSet(s))
        BY <2>3 DEF IsSeq
      <3>2. r \in Seq(Y) /\ s \in Seq(Y)
        <4>1. ToSet(r) \subseteq Y /\ ToSet(s) \subseteq Y
          OBVIOUS
        <4> HIDE DEF Y, r, s
        <4> QED
          BY <3>1, <4>1, SeqMonotonic
      <3>3. Len(r) = Len(s) /\ \A k \in 1..Len(r) : r[k] = s[k]
        BY <2>4, <2>6 DEF Agree
      <3> HIDE DEF Y, r, s
      <3>4. r = s
        BY <3>2, <3>3, SeqEqual
      <3> QED
        BY <3>4 DEF r, s
    <2> QED
      BY <2>1, <2>7
  <1>2. ASSUME NEW i \in DOMAIN ops, NEW j \in DOMAIN ops, NEW k \in DOMAIN ops,
               SP!KeyLess(ops[i].key, ops[j].key), SP!KeyLess(ops[j].key, ops[k].key)
        PROVE  Sched!Affinity(ops[k].secs, ops[i].secs) <= Sched!Affinity(ops[j].secs, ops[i].secs)
    <2> DEFINE x == OpSpot(ops[i])
               y == OpSpot(ops[j])
               z == OpSpot(ops[k])
               a == ops[i].secs
               b == ops[j].secs
               c == ops[k].secs
               m == Sched!Affinity(c, a)
    <2>1. /\ a \in Seq(SomeNode) /\ Len(a) \in Nat /\ Len(x.room) = Len(a) + 1
          /\ Agree(x.room, a, Len(a)) /\ x.key = ops[i].key
      BY SecsOfRoom
    <2>2. /\ b \in Seq(SomeNode) /\ Len(b) \in Nat /\ Len(y.room) = Len(b) + 1
          /\ Agree(y.room, b, Len(b)) /\ y.key = ops[j].key
      BY SecsOfRoom
    <2>3. /\ c \in Seq(SomeNode) /\ Len(c) \in Nat /\ Len(z.room) = Len(c) + 1
          /\ Agree(z.room, c, Len(c)) /\ z.key = ops[k].key
      BY SecsOfRoom
    <2>4. SpotOK(x) /\ SpotOK(y) /\ SpotOK(z)
      BY DEF KeyInv, PlacesInv, Placed
    <2>5. Fit(x, y) /\ Fit(x, z)
      <3>1. \A p, q \in DOMAIN ops : Fit(OpSpot(ops[p]), OpSpot(ops[q]))
        <4>1. \A p \in DOMAIN ops : SpotOK(OpSpot(ops[p]))
          BY DEF KeyInv, PlacesInv, Placed
        <4>2. \A p, q \in DOMAIN ops : p # q => Fit(OpSpot(ops[p]), OpSpot(ops[q]))
          BY DEF KeyInv, PlacesInv, Placed
        <4>3. \A p \in DOMAIN ops : Fit(OpSpot(ops[p]), OpSpot(ops[p]))
          BY <4>1, FitSymmetric
        <4> QED
          BY <4>2, <4>3
      <3> QED
        BY <3>1
    <2>6. /\ m \in 0..Len(c) /\ m <= Len(a)
          /\ SubSeq(c, 1, m) = SubSeq(a, 1, m)
      BY <2>1, <2>3, AffinityShared
    <2>7. /\ SP!KeyLess(x.key, y.key) /\ SP!KeyLess(y.key, z.key)
          /\ x.key \in Seq(Int) /\ y.key \in Seq(Int) /\ z.key \in Seq(Int)
          /\ Len(x.key) = 3 * Len(x.room) /\ Len(y.key) = 3 * Len(y.room)
          /\ Len(z.key) = 3 * Len(z.room)
      BY <1>2, <2>1, <2>2, <2>3, <2>4 DEF SpotOK
    <2> HIDE DEF x, y, z, a, b, c, m
    <2>8. Agree(c, a, m)
      <3>1. \A n \in 1..m : SubSeq(c, 1, m)[n] = c[n] /\ SubSeq(a, 1, m)[n] = a[n]
        BY <2>1, <2>3, <2>6
      <3> QED
        BY <2>6, <3>1 DEF Agree
    <2>9. Agree(x.room, z.room, m) /\ m \in Nat
      <3>1. m \in Nat /\ m <= Len(a) /\ m <= Len(c)
        BY <2>3, <2>6
      <3>2. Agree(x.room, a, m) /\ Agree(z.room, c, m)
        BY <2>1, <2>3, <3>1, AgreeLaws
      <3> QED
        BY <2>8, <3>1, <3>2 DEF Agree
    <2>10. Agree(x.key, z.key, 3 * m)
      <3>1. m \in 0..Len(x.room) /\ m <= Len(z.room)
        BY <2>1, <2>3, <2>6
      <3> QED
        BY <2>5, <2>9, <3>1 DEF Fit
    <2>11. 3 * m < Len(y.key) /\ Agree(x.key, y.key, 3 * m)
      <3>1. 3 * m \in Nat /\ 3 * m < Len(x.key) /\ 3 * m <= Len(z.key)
        BY <2>1, <2>3, <2>6, <2>7, <2>9
      <3> QED
        BY <2>7, <2>10, <3>1, KeyBetween
    <2>12. m <= Len(b)
      BY <2>2, <2>7, <2>9, <2>11
    <2>13. Agree(x.room, y.room, m)
      <3>1. m \in 0..Len(x.room) /\ m <= Len(y.room)
        BY <2>1, <2>2, <2>6, <2>12
      <3> QED
        BY <2>5, <2>11, <3>1 DEF Fit
    <2>14. Agree(b, a, m)
      <3>1. Agree(x.room, a, m) /\ Agree(y.room, b, m)
        BY <2>1, <2>2, <2>6, <2>9, <2>12, AgreeLaws
      <3> QED
        BY <2>13, <3>1 DEF Agree
    <2>15. m <= Sched!Affinity(b, a)
      BY <2>1, <2>2, <2>6, <2>9, <2>12, <2>14, AffinityAtLeast
    <2> QED
      BY <2>15 DEF m, a, b, c
  <1>3. \A i \in DOMAIN ops : ops[i].key \in Seq(Int)
    BY DEF TypeInv, PlanOK
  <1> QED
    BY <1>1, <1>2, <1>3, SameChoice DEF SP!KeysFit

-----------------------------------------------------------------------------
(* What the keys give.                                                     *)

\* The scheduler's second invariant: it leaves a section only for an edge, and
\* follows the keys where the edges do.
OrderInv == pc \in Planned => SP!SInv /\ SP!KInv

\* It starts with the operations of collect and nothing emitted.
LEMMA CountOrder ==
    ASSUME TypeInv, GraphInv, KeyInv, CountIndegrees
    PROVE  OrderInv'
  <1>1. /\ pc = "count" /\ pc' = "emit"
        /\ UNCHANGED <<ops, derived, edges, out>>
    BY DEF CountIndegrees
  <1>2. edges = derived /\ out = <<>>
    BY <1>1 DEF GraphInv, Planning
  <1>3. SP!Laid(ops) /\ SP!KeysFit(ops)
    <2>1. IsSeq(ops) /\ \A k \in DOMAIN ops : Len(ops[k].secs) \in Nat
      BY DEF TypeInv, PlanOK
    <2> QED
      BY <2>1, PlanKeysFit DEF SP!Laid, IsSeq
  <1>4. SP!Laid(ops)' /\ SP!KeysFit(ops)'
    BY <1>1, <1>3
  <1>5. DOMAIN out' = {} /\ 2..Len(out') = {}
    BY <1>1, <1>2
  <1>6. SP!SInv'
    BY <1>4, <1>5 DEF SP!SInv, SP!LeftForEdges
  <1>7. SP!InKeyOrder'
    BY <1>1, <1>2, <1>5 DEF SP!InKeyOrder
  <1> QED
    BY <1>4, <1>6, <1>7 DEF OrderInv, SP!KInv

\* No other step starts it.
LEMMA NextOrder ==
    TypeInv /\ GraphInv /\ KeyInv /\ OrderInv /\ [DeviceNext]_<<vars, deviceVars>> => OrderInv'
  <1> SUFFICES ASSUME TypeInv, GraphInv, KeyInv, OrderInv, [DeviceNext]_<<vars, deviceVars>>
               PROVE  OrderInv'
    OBVIOUS
  <1>1. CASE Diff /\ pc \in {"emit", "walk"}
    <2>1. SP!Next
      BY <1>1, SchedulerSteps DEF Diff
    <2>2. SP!IInv /\ SP!SInv /\ SP!KInv
      BY <1>1 DEF OrderInv, GraphInv, Planned
    <2>3. SP!SInv' /\ SP!KInv'
      BY <2>1, <2>2, SP!NextSInv, SP!NextKInv
    <2> QED
      BY <2>3 DEF OrderInv
  <1>2. CASE Diff /\ CountIndegrees
    BY <1>2, CountOrder
  <1>3. ASSUME UNCHANGED <<cycle, pc, ops, derived, edges, indeg, out, walk>>
        PROVE  OrderInv'
    <2>1. UNCHANGED SP!vars
      BY <1>3 DEF SP!vars
    <2>2. CASE pc \in Planned
      <3>1. SP!IInv /\ SP!SInv /\ SP!KInv
        BY <2>2 DEF OrderInv, GraphInv
      <3>2. SP!SInv' /\ SP!KInv'
        BY <2>1, <3>1, SP!NextSInv, SP!NextKInv
      <3> QED
        BY <3>2 DEF OrderInv
    <2> QED
      BY <1>3, <2>2 DEF OrderInv
  <1>4. CASE Diff /\ pc \notin {"emit", "walk"} /\ ~CountIndegrees
    <2>1. DiffNext /\ pc \notin {"emit", "walk"} /\ ~CountIndegrees
      BY <1>4 DEF Diff
    <2>2. CASE Collect
      <3>1. pc' \in {"collect", "cleanup"}
        BY <2>2 DEF Collect, PairLevel, FindRemoves, DropToggles, AddLine, ModifyLine,
             DeltaLine, ReplaceLine, EnterSection, RefuseIntent, ExpandRemoval,
             RefuseExpansion, RefuseDelete, RemoveLine, CheckBaselineRemovals, Accepted,
             Facing, Process
      <3> QED
        BY <3>1 DEF OrderInv, Planned
    <2>3. CASE DeriveEdges
      BY <2>1, <2>3 DEF DeriveEdges, DeriveSlotCleanupEdges, DeriveRefEdges,
         DeriveMoveEdges, DeriveRequireEdges, DeriveExclusionEdges, Derive, OrderInv, Planned
    <2>4. CASE Materialize
      BY <1>3, <2>4 DEF Materialize, inputVars, schedVars
    <2>5. CASE Scheduling \/ AbortPlan
      BY <2>1, <2>5 DEF Scheduling, AbortPlan, Sched!Emit, Sched!Stall, Sched!ExtendWalk,
                  Sched!BreakOnCycle, Sched!Finish, Sched!AbortOnCycle
    <2> QED
      BY <2>1, <2>2, <2>3, <2>4, <2>5 DEF DiffNext
  <1>5. CASE Apply \/ Returned \/ UNCHANGED <<vars, deviceVars>>
    BY <1>3, <1>5 DEF Apply, Returned, vars, inputVars, schedVars
  <1> QED
    BY <1>1, <1>2, <1>4, <1>5 DEF DeviceNext

\* Everything that is known of the plan.
OrderedInv == PlanInv /\ KeyInv /\ OrderInv

\* The keys of the plan fit its sections, and the scheduler uses it.
THEOREM PlanFollowsKeys == DeviceSpec => []OrderedInv
  <1>1. DeviceInit => OrderedInv
    <2>1. DeviceInit => OrderInv
      BY DEF DeviceInit, Init, OrderInv, Planned
    <2> QED
      BY <2>1, InitTyped, InitGraph, InitKeys DEF OrderedInv, PlanInv
  <1>2. OrderedInv /\ [DeviceNext]_<<vars, deviceVars>> => OrderedInv'
    BY NextTyped, NextGraph, NextKeys, NextOrder DEF OrderedInv, PlanInv
  <1> QED
    BY <1>1, <1>2, PTL DEF DeviceSpec

\* The sections of what the device executes k-th.
SecsAt(k) == ops[artifact[k].op].secs
\* The key of what the device executes k-th.
KeyAt(k) == ops[artifact[k].op].key

\* What has been executed is what was scheduled.
LEMMA ExecutedAsScheduled ==
    ASSUME OrderedInv, Complete
    PROVE  /\ DOMAIN artifact = DOMAIN out /\ DOMAIN out = 1..Len(out) /\ Len(out) \in Nat
           /\ \A k \in DOMAIN out :
                /\ artifact[k].op = out[k] /\ out[k] \in Ops
                /\ SecsAt(k) = ops[out[k]].secs /\ KeyAt(k) = ops[out[k]].key
           /\ \A m, n \in DOMAIN out : out[m] = out[n] => m = n
           /\ \A i \in Ops : \E k \in DOMAIN out : out[k] = i
           /\ derived = AllEdges /\ AllEdges \subseteq EdgePairs
           /\ SP!SInv /\ SP!KInv
  <1>1. /\ DOMAIN artifact = DOMAIN out /\ DOMAIN out = 1..Len(out) /\ Len(out) \in Nat
        /\ \A k \in DOMAIN out : artifact[k].op = out[k] /\ out[k] \in Ops
    BY DEF OrderedInv, PlanInv, TypeInv, PlanOK, EntryOK, IsSeq, Complete, Ops
  <1>2. \A k \in DOMAIN out : SecsAt(k) = ops[out[k]].secs /\ KeyAt(k) = ops[out[k]].key
    BY <1>1 DEF SecsAt, KeyAt
  <1>3. \A m, n \in DOMAIN out : out[m] = out[n] => m = n
    BY DEF OrderedInv, PlanInv, GraphInv, Complete, Planned, SP!IInv, SP!Topological
  <1>4. \A i \in Ops : \E k \in DOMAIN out : out[k] = i
    BY SameChoice DEF OrderedInv, PlanInv, GraphInv, Complete, SP!AllEmitted, SP!Emitted,
                      SP!ToSet
  <1>5. derived = AllEdges /\ AllEdges \subseteq EdgePairs
    BY DerivedPairs DEF OrderedInv, PlanInv, GraphInv, Complete, DerivedAt, Collecting, AllEdges
  <1>6. SP!SInv /\ SP!KInv
    BY DEF OrderedInv, OrderInv, Complete, Planned
  <1> QED
    BY <1>1, <1>2, <1>3, <1>4, <1>5, <1>6

\* The device goes back to a section that it left with work to do only for an
\* operation that a derived edge puts after one executed since.
ReturnsOnlyForEdge ==
    Complete => \A a, b, c \in DOMAIN artifact :
        /\ b = a + 1 /\ b < c
        /\ Sched!Affinity(SecsAt(c), SecsAt(a)) > Sched!Affinity(SecsAt(b), SecsAt(a))
        => \E l \in DOMAIN artifact :
                b <= l /\ <<artifact[l].op, artifact[c].op>> \in AllEdges

\* schedule's affinity stays in a section unless an edge makes it leave
\* (ReturnsOnlyForEdge).
THEOREM SectionsReopenedForEdges == DeviceSpec => []ReturnsOnlyForEdge
  <1>1. OrderedInv => ReturnsOnlyForEdge
    <2> SUFFICES ASSUME OrderedInv, Complete,
                        NEW a \in DOMAIN artifact, NEW b \in DOMAIN artifact,
                        NEW c \in DOMAIN artifact, b = a + 1, b < c,
                        Sched!Affinity(SecsAt(c), SecsAt(a)) > Sched!Affinity(SecsAt(b), SecsAt(a))
                 PROVE  \E l \in DOMAIN artifact :
                            b <= l /\ <<artifact[l].op, artifact[c].op>> \in AllEdges
      BY DEF ReturnsOnlyForEdge
    <2>1. /\ DOMAIN artifact = DOMAIN out /\ DOMAIN out = 1..Len(out) /\ Len(out) \in Nat
          /\ \A k \in DOMAIN out :
                /\ artifact[k].op = out[k] /\ out[k] \in Ops /\ SecsAt(k) = ops[out[k]].secs
          /\ \A m, n \in DOMAIN out : out[m] = out[n] => m = n
          /\ \A i \in Ops : \E k \in DOMAIN out : out[k] = i
          /\ derived = AllEdges /\ AllEdges \subseteq EdgePairs
          /\ SP!SInv
      BY ExecutedAsScheduled
    <2>2. /\ b \in 2..Len(out) /\ a = b - 1 /\ c \in DOMAIN out /\ out[c] \in SP!Ops
          /\ \A l \in 1..b : l \in DOMAIN out /\ l # c
      BY <2>1, SameChoice
    <2>3. \A l \in 1..b : out[l] # out[c]
      BY <2>1, <2>2
    <2>4. SP!Affinity(ops[out[c]].secs, ops[out[b - 1]].secs)
            > SP!Affinity(ops[out[b]].secs, ops[out[b - 1]].secs)
      BY <2>1, <2>2, SameChoice
    <2>5. PICK e \in derived : e[2] = out[c] /\ \A l \in 1..(b - 1) : out[l] # e[1]
      BY <2>1, <2>2, <2>3, <2>4 DEF SP!SInv, SP!LeftForEdges
    <2>6. e[1] \in Ops /\ e = <<e[1], out[c]>>
      BY <2>1, <2>5 DEF EdgePairs
    <2>7. PICK l \in DOMAIN out : out[l] = e[1]
      BY <2>1, <2>6
    <2>8. b <= l
      BY <2>1, <2>2, <2>5, <2>7
    <2> QED
      BY <2>1, <2>2, <2>5, <2>6, <2>7, <2>8
  <1> QED
    BY <1>1, PlanFollowsKeys, PTL

\* Every derived edge goes the way of the keys.
EdgesForward ==
    \A e \in AllEdges : Sched!KeyLess(ops[e[1]].key, ops[e[2]].key)

\* If every derived edge goes the way of the keys, the device executes the plan
\* in the order of the keys: by rank and position, creations first.
InBaselineOrder ==
    Complete /\ EdgesForward =>
        \A k, l \in DOMAIN artifact : k < l => Sched!KeyLess(KeyAt(k), KeyAt(l))

\* Affinity never overrides the order of the keys (InBaselineOrder).
THEOREM ExecutedInKeyOrder == DeviceSpec => []InBaselineOrder
  <1>1. OrderedInv => InBaselineOrder
    <2> SUFFICES ASSUME OrderedInv, Complete, EdgesForward,
                        NEW k \in DOMAIN artifact, NEW l \in DOMAIN artifact, k < l
                 PROVE  Sched!KeyLess(KeyAt(k), KeyAt(l))
      BY DEF InBaselineOrder
    <2>1. /\ DOMAIN artifact = DOMAIN out
          /\ KeyAt(k) = ops[out[k]].key /\ KeyAt(l) = ops[out[l]].key
          /\ derived = AllEdges /\ SP!KInv
      BY ExecutedAsScheduled
    <2>2. SP!Forward
      BY <2>1, SameChoice DEF EdgesForward, SP!Forward, SP!KeyOf
    <2>3. SP!KeyLess(ops[out[k]].key, ops[out[l]].key)
      BY <2>1, <2>2 DEF SP!KInv, SP!InKeyOrder, SP!KeyOf
    <2> QED
      BY <2>1, <2>3, SameChoice
  <1> QED
    BY <1>1, PlanFollowsKeys, PTL

\* And then it never opens a section twice.
SectionsOpenOnce ==
    Complete /\ EdgesForward =>
        \A j, k, l \in DOMAIN artifact :
            j < k /\ k < l =>
                Sched!Affinity(SecsAt(l), SecsAt(j)) <= Sched!Affinity(SecsAt(k), SecsAt(j))

\* Key order visits every section in one go (SectionsOpenOnce).
THEOREM NoSectionOpenedTwice == DeviceSpec => []SectionsOpenOnce
  <1>1. OrderedInv => SectionsOpenOnce
    <2> SUFFICES ASSUME OrderedInv, Complete, EdgesForward,
                        NEW j \in DOMAIN artifact, NEW k \in DOMAIN artifact,
                        NEW l \in DOMAIN artifact, j < k, k < l
                 PROVE  Sched!Affinity(SecsAt(l), SecsAt(j)) <= Sched!Affinity(SecsAt(k), SecsAt(j))
      BY DEF SectionsOpenOnce
    <2>1. /\ DOMAIN artifact = DOMAIN out
          /\ \A m \in DOMAIN out : out[m] \in Ops /\ SecsAt(m) = ops[out[m]].secs
          /\ derived = AllEdges /\ SP!KInv
      BY ExecutedAsScheduled
    <2>2. SP!Forward
      BY <2>1, SameChoice DEF EdgesForward, SP!Forward, SP!KeyOf
    <2>3. /\ SP!KeyLess(ops[out[j]].key, ops[out[k]].key)
          /\ SP!KeyLess(ops[out[k]].key, ops[out[l]].key)
      BY <2>1, <2>2 DEF SP!KInv, SP!InKeyOrder, SP!KeyOf
    <2>4. SP!Affinity(ops[out[l]].secs, ops[out[j]].secs)
            <= SP!Affinity(ops[out[k]].secs, ops[out[j]].secs)
      BY <2>1, <2>3 DEF SP!KInv, SP!KeysFit, Ops
    <2> QED
      BY <2>1, <2>4, SameChoice
  <1> QED
    BY <1>1, PlanFollowsKeys, PTL
=============================================================================
