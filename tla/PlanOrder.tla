----------------------------- MODULE PlanOrder -----------------------------
(***************************************************************************)
(* What the remediation scheduler promises, with none of its heuristics:   *)
(* every pending operation is placed exactly once, never before an         *)
(* operation a surviving edge puts first; an edge is given up only when    *)
(* nothing can be placed and the edge lies on a cycle of the operations    *)
(* that are left; and a refusal happens only when the operations that are  *)
(* left cannot be ordered at all.                                          *)
(***************************************************************************)
EXTENDS Integers, Sequences, SequencesExt

VARIABLES size, edges, plan, status

vars == <<size, edges, plan, status>>

Pending == (1..size) \ ToSet(plan)

\* An operation no pending operation must precede.
Free(i) == i \in Pending /\ \A p \in Pending : <<p, i>> \notin edges

Stuck == Pending # {} /\ \A i \in Pending : ~Free(i)

\* The pair leaving the k-th of n elements arranged in a ring.
RingPair(c, n, k) == <<c[k], IF k = n THEN c[1] ELSE c[k + 1]>>

\* The edges that lie on a cycle of pending operations.
CycleEdge(e) ==
    \E n \in 1..size : \E c \in [1..n -> Pending] :
        /\ \A k \in 1..n : RingPair(c, n, k) \in edges
        /\ \E k \in 1..n : e = RingPair(c, n, k)

Init ==
    /\ size \in Nat
    /\ edges \subseteq {e \in (1..size) \X (1..size) : e[1] # e[2]}
    /\ plan = <<>>
    /\ status = "ordering"

Place(i) ==
    /\ status = "ordering"
    /\ Free(i)
    /\ plan' = Append(plan, i)
    /\ UNCHANGED <<size, edges, status>>

GiveUpEdge(e) ==
    /\ status = "ordering"
    /\ Stuck
    /\ CycleEdge(e)
    /\ edges' = edges \ {e}
    /\ UNCHANGED <<size, plan, status>>

Refuse ==
    /\ status = "ordering"
    /\ Stuck
    /\ status' = "aborted"
    /\ plan' = <<>>
    /\ UNCHANGED <<size, edges>>

Finish ==
    /\ status = "ordering"
    /\ Pending = {}
    /\ status' = "done"
    /\ UNCHANGED <<size, edges, plan>>

Next ==
    \/ \E i \in Pending : Place(i)
    \/ \E e \in edges : GiveUpEdge(e)
    \/ Refuse
    \/ Finish

Spec == Init /\ [][Next]_vars
=============================================================================
