--------------------------- MODULE ScheduleProofs ---------------------------
(***************************************************************************)
(* Theorems about Schedule, for every set of operation layouts, every      *)
(* ordering graph and both cycle policies.                                 *)
(*                                                                         *)
(* The inductive invariant joins the bookkeeping of the in-degrees, the    *)
(* shape of findCycle's walk and the order reached so far: the order needs *)
(* the in-degrees (an operation with in-degree 0 has no predecessor left), *)
(* and the walk needs them too (a stalled operation has a predecessor to   *)
(* step to).                                                               *)
(*                                                                         *)
(* The last two theorems are about what the order owes to edges, affinity  *)
(* and keys.  The scheduler leaves a section that still has work only      *)
(* because of an edge; the strengthening speaks of every operation that    *)
(* has not been emitted yet at the moment the schedule goes elsewhere.     *)
(* When no edge goes against the keys, the schedule is the order of the    *)
(* keys: the operation with the least key is always ready, so no cycle is  *)
(* ever looked for, and affinity never prefers another one.                *)
(***************************************************************************)
EXTENDS Schedule, FiniteSetTheorems, WellFoundedInduction, TLAPS

IInv ==
    /\ TypeOK
    /\ IndegCounts
    /\ WalkIsSound
    /\ Topological
    /\ StallMeansCycle

-----------------------------------------------------------------------------
(* Lemmas on the operators.                                                *)

\* Any set of operations is finite, since a plan is a finite sequence.
LEMMA OpsFinite ==
    ASSUME TypeOK, NEW S \in SUBSET Ops
    PROVE  IsFiniteSet(S) /\ Cardinality(S) \in Nat
<1>1. IsFiniteSet(Ops)
  BY FS_Interval DEF TypeOK
<1>2. IsFiniteSet(S)
  BY <1>1, FS_Subset
<1> QED
  BY <1>2, FS_CardinalityType

\* Appending to a sequence adds exactly one element to its range.
LEMMA AppendRange ==
    ASSUME NEW T, NEW s \in Seq(T), NEW x \in T
    PROVE  /\ Append(s, x) \in Seq(T)
           /\ Len(Append(s, x)) = Len(s) + 1
           /\ DOMAIN Append(s, x) = 1..(Len(s) + 1)
           /\ \A k \in 1..Len(s) : Append(s, x)[k] = s[k]
           /\ Append(s, x)[Len(s) + 1] = x
           /\ ToSet(Append(s, x)) = ToSet(s) \cup {x}
<1>1. /\ Append(s, x) \in Seq(T)
      /\ Len(Append(s, x)) = Len(s) + 1
      /\ DOMAIN Append(s, x) = 1..(Len(s) + 1)
      /\ \A k \in 1..Len(s) : Append(s, x)[k] = s[k]
      /\ Append(s, x)[Len(s) + 1] = x
  OBVIOUS
<1>2. DOMAIN s = 1..Len(s) /\ Len(s) \in Nat
  OBVIOUS
<1>3. ToSet(Append(s, x)) \subseteq ToSet(s) \cup {x}
  BY <1>1, <1>2 DEF ToSet
<1>4. ToSet(s) \cup {x} \subseteq ToSet(Append(s, x))
  BY <1>1, <1>2 DEF ToSet
<1> QED
  BY <1>1, <1>3, <1>4

\* While the counts are right and nothing is ready, every operation left has
\* a stalled predecessor: the fact findCycle relies on.
LEMMA StalledHasPred ==
    ASSUME TypeOK, IndegCounts, pc # "aborted", Ready = {}, NEW i \in Stalled
    PROVE  StalledPreds(i) # {}
<1>1. i \in Ops /\ indeg[i] > 0
  BY DEF Stalled
<1>2. Cardinality(Unemitted(i)) > 0
  BY <1>1 DEF IndegCounts
<1>3. Unemitted(i) # {}
  BY <1>2, FS_EmptySet
<1>4. PICK p \in Ops \ Emitted : <<p, i>> \in edges
  BY <1>3 DEF Unemitted
<1>5. p \in Stalled
  BY <1>4 DEF Ready, Stalled
<1> QED
  BY <1>4, <1>5 DEF StalledPreds

\* A ready operation has no predecessor left to emit.
LEMMA ReadyHasNoPred ==
    ASSUME TypeOK, IndegCounts, pc # "aborted", NEW i \in Ready
    PROVE  Unemitted(i) = {}
<1>1. i \in Ops /\ ~(indeg[i] > 0)
  BY DEF Ready
<1>2. IsFiniteSet(Unemitted(i)) /\ Cardinality(Unemitted(i)) \in Nat
  BY OpsFinite DEF Unemitted
<1>3. Cardinality(Unemitted(i)) = 0
  BY <1>1, <1>2 DEF IndegCounts
<1> QED
  BY <1>2, <1>3, FS_EmptySet

\* Dropping one element from the outstanding predecessors lowers their number
\* by one if it was among them.
LEMMA OneFewer ==
    ASSUME TypeOK, NEW S \in SUBSET Ops, NEW x
    PROVE  Cardinality(S \ {x}) = Cardinality(S) - (IF x \in S THEN 1 ELSE 0)
<1>1. IsFiniteSet(S) /\ Cardinality(S) \in Nat
  BY OpsFinite
<1> QED
  BY <1>1, FS_RemoveElement, SMTT(60)

-----------------------------------------------------------------------------
(* The cycle findCycle returns.                                            *)

\* When the walk meets an operation it has passed, CycleFrom is a nonempty
\* ring of stalled operations joined by surviving edges, with no repetition.
LEMMA CycleIsRing ==
    ASSUME TypeOK, WalkIsSound, pc = "walk",
           NEW p, p \in StalledPreds(Last(walk)), p \in ToSet(walk)
    PROVE  LET c == CycleFrom(p)
           IN  /\ Len(c) \in 1..Len(walk)
               /\ DOMAIN c = 1..Len(c)
               /\ \A k \in 1..Len(c) : c[k] \in Stalled
               /\ \A k, l \in 1..Len(c) : c[k] = c[l] => k = l
               /\ \A k \in 1..Len(c) : <<c[k], After(c, k)>> \in edges
<1> DEFINE pos == CHOOSE k \in DOMAIN walk : walk[k] = p
           tail == SubSeq(walk, pos, Len(walk))
           c == CycleFrom(p)
<1>1. walk \in Seq(Ops) /\ Len(walk) \in Nat /\ DOMAIN walk = 1..Len(walk)
  BY DEF TypeOK
<1>2. pos \in 1..Len(walk) /\ walk[pos] = p
  BY <1>1 DEF ToSet
<1> HIDE DEF pos
<1>3. /\ Len(tail) = Len(walk) - pos + 1
      /\ \A k \in 1..Len(tail) : tail[k] = walk[pos + k - 1]
  BY <1>1, <1>2
<1>4. /\ DOMAIN c = 1..(Len(walk) - pos + 1)
      /\ Len(c) = Len(walk) - pos + 1
      /\ \A k \in 1..Len(c) : c[k] = walk[Len(walk) - k + 1]
  <2>1. c = Reverse(tail)
    BY DEF CycleFrom, pos
  <2> HIDE DEF c, tail
  <2>2. c = [k \in 1..Len(tail) |-> tail[Len(tail) - k + 1]]
    BY <2>1 DEF Reverse
  <2>3. DOMAIN c = 1..(Len(walk) - pos + 1)
    BY <2>2, <1>3
  <2>4. c \in Seq({tail[k] : k \in 1..Len(tail)})
    BY <2>2, <1>1, <1>2, <1>3, SMTT(60)
  <2>5. Len(c) = Len(walk) - pos + 1
    BY <2>2, <2>4, <1>1, <1>2, <1>3
  <2>6. ASSUME NEW k \in 1..Len(c)
        PROVE  c[k] = walk[Len(walk) - k + 1]
    <3>1. c[k] = tail[Len(tail) - k + 1]
      BY <2>2, <2>5, <1>3
    <3>2. Len(tail) - k + 1 \in 1..Len(tail)
      BY <2>5, <1>1, <1>2, <1>3
    <3>3. tail[Len(tail) - k + 1] = walk[pos + (Len(tail) - k + 1) - 1]
      BY <3>2, <1>3
    <3>4. pos + (Len(tail) - k + 1) - 1 = Len(walk) - k + 1
      BY <2>5, <1>1, <1>2, <1>3
    <3> QED
      BY <3>1, <3>3, <3>4
  <2> QED
    BY <2>3, <2>5, <2>6
<1> HIDE DEF c, tail
<1>5. Len(c) \in 1..Len(walk) /\ DOMAIN c = 1..Len(c)
  BY <1>1, <1>2, <1>4
<1>6. \A k \in 1..Len(c) : c[k] \in Stalled
  <2> SUFFICES ASSUME NEW k \in 1..Len(c) PROVE c[k] \in Stalled
    OBVIOUS
  <2>1. Len(walk) - k + 1 \in 1..Len(walk)
    BY <1>1, <1>5
  <2> QED
    BY <2>1, <1>1, <1>4, SMTT(60) DEF WalkIsSound, ToSet
<1>7. \A k, l \in 1..Len(c) : c[k] = c[l] => k = l
  <2> SUFFICES ASSUME NEW k \in 1..Len(c), NEW l \in 1..Len(c), c[k] = c[l]
               PROVE  k = l
    OBVIOUS
  <2>1. Len(walk) - k + 1 \in 1..Len(walk) /\ Len(walk) - l + 1 \in 1..Len(walk)
    BY <1>1, <1>5
  <2>2. Len(walk) - k + 1 = Len(walk) - l + 1
    BY <2>1, <1>1, <1>4, ZenonT(60) DEF WalkIsSound
  <2> QED
    BY <2>2, <1>1, <1>5
<1>8. \A k \in 1..Len(c) : <<c[k], After(c, k)>> \in edges
  <2> SUFFICES ASSUME NEW k \in 1..Len(c) PROVE <<c[k], After(c, k)>> \in edges
    OBVIOUS
  <2>1. CASE k = Len(c)
    <3>1. c[k] = p
      BY <2>1, <1>1, <1>2, <1>4
    <3>2. c[1] = Last(walk)
      BY <1>1, <1>4, <1>5 DEF Last
    <3>3. After(c, k) = c[1]
      BY <2>1 DEF After
    <3> QED
      BY <3>1, <3>2, <3>3 DEF StalledPreds
  <2>2. CASE k # Len(c)
    <3>1. k + 1 \in 1..Len(c) /\ Len(walk) - k \in 1..(Len(walk) - 1)
      <4>1. \A n, w \in Nat : \A i \in 1..n :
               n <= w /\ i # n => i + 1 \in 1..n /\ w - i \in 1..(w - 1)
        OBVIOUS
      <4>2. Len(walk) \in Nat
        BY <1>1
      <4>3. Len(c) \in Nat /\ Len(c) <= Len(walk)
        BY <4>2, <1>5
      <4> QED
        BY <2>2, <4>1, <4>2, <4>3
    <3>2. After(c, k) = walk[Len(walk) - k]
      <4>1. c[k + 1] = walk[Len(walk) - (k + 1) + 1]
        BY <3>1, <1>4
      <4>2. Len(walk) - (k + 1) + 1 = Len(walk) - k
        BY <1>1, <1>5
      <4> QED
        BY <2>2, <4>1, <4>2 DEF After
    <3>3. c[k] = walk[(Len(walk) - k) + 1]
      BY <1>4
    <3> QED
      BY <3>1, <3>2, <3>3 DEF WalkIsSound
  <2> QED
    BY <2>1, <2>2
<1> QED
  BY <1>5, <1>6, <1>7, <1>8 DEF c

-----------------------------------------------------------------------------
(* Initially.                                                              *)

\* Where the scheduler starts, whoever built the plan and its graph.
Start ==
    /\ cycle \in Policies
    /\ pc = "emit"
    /\ Laid(ops)
    /\ derived \subseteq EdgePairs(Ops)
    /\ edges = derived
    /\ indeg = InDegrees
    /\ out = <<>>
    /\ walk = <<>>

\* The counts start as the number of predecessors in the derived graph.
LEMMA StartIInv == Start => IInv
<1> SUFFICES ASSUME Start PROVE IInv
  OBVIOUS
<1> USE DEF Start
<1>1. ToSet(out) = {} /\ Emitted = {}
  BY DEF ToSet, Emitted
<1>2. TypeOK
  <2>1. Len(ops) \in Nat /\ Ops = 1..Len(ops)
    BY DEF Laid, Ops
  <2>2. IsFiniteSet(Ops)
    BY <2>1, FS_Interval
  <2>3. ASSUME NEW j \in Ops
        PROVE  Cardinality({i \in Ops : <<i, j>> \in edges}) \in Int
    <3> DEFINE S == {i \in Ops : <<i, j>> \in edges}
    <3>1. S \in SUBSET Ops
      OBVIOUS
    <3> HIDE DEF S
    <3>2. Cardinality(S) \in Nat
      BY <2>2, <3>1, FS_Subset, FS_CardinalityType
    <3> QED
      BY <3>2 DEF S
  <2>4. indeg \in [Ops -> Int]
    BY <2>3 DEF InDegrees
  <2> QED
    BY <2>1, <2>4 DEF TypeOK
<1>3. IndegCounts
  <2> SUFFICES ASSUME NEW j \in Ops
               PROVE  indeg[j] = Cardinality(Unemitted(j))
    BY DEF IndegCounts
  <2>1. Unemitted(j) = {i \in Ops : <<i, j>> \in edges}
    BY <1>1 DEF Unemitted
  <2> QED
    BY <2>1 DEF InDegrees
<1>4. WalkIsSound /\ Topological /\ StallMeansCycle
  BY DEF WalkIsSound, Topological, StallMeansCycle
<1> QED
  BY <1>2, <1>3, <1>4 DEF IInv

\* The layouts are plans.
LEMMA InitStart == Init => Start
  BY LayoutsAssumption DEF Init, Start

\* A run of the scheduler on its own starts with the invariant.
LEMMA InitIInv == Init => IInv
  BY InitStart, StartIInv

-----------------------------------------------------------------------------
(* One lemma per action: the step preserves the invariant.                 *)

\* The best ready operation is emitted: its successors wait for one less.
LEMMA EmitIInv ==
    ASSUME IInv, NEW i \in Ops, Emit(i)
    PROVE  IInv'
<1> USE DEF IInv
<1>1. /\ pc = "emit" /\ i \in Ready /\ i \in Ops \ Emitted
      /\ out' = Append(out, i)
      /\ indeg' = [j \in Ops |-> indeg[j] - (IF <<i, j>> \in edges THEN 1 ELSE 0)]
      /\ UNCHANGED <<cycle, pc, ops, derived, edges, walk>>
      /\ Ops' = Ops
  BY DEF Emit, Best, Ready, IndegAfterEmit, Ops
<1>2. /\ out \in Seq(Ops) /\ out' \in Seq(Ops)
      /\ DOMAIN out = 1..Len(out) /\ Len(out) \in Nat
      /\ DOMAIN out' = 1..(Len(out) + 1)
      /\ \A k \in 1..Len(out) : out'[k] = out[k]
      /\ out'[Len(out) + 1] = i
      /\ Emitted' = Emitted \cup {i}
  BY <1>1, AppendRange DEF TypeOK, Emitted
<1>3. TypeOK'
  <2>1. indeg' \in [Ops -> Int]
    BY <1>1 DEF TypeOK
  <2> QED
    BY <1>1, <1>2, <2>1 DEF TypeOK
<1>4. IndegCounts'
  <2> SUFFICES ASSUME NEW j \in Ops
               PROVE  indeg'[j] = Cardinality(Unemitted(j)')
    BY <1>1 DEF IndegCounts
  <2>1. Unemitted(j)' = Unemitted(j) \ {i}
    BY <1>1, <1>2 DEF Unemitted
  <2>2. i \in Unemitted(j) <=> <<i, j>> \in edges
    BY <1>1 DEF Unemitted
  <2>3. Unemitted(j) \in SUBSET Ops
    BY DEF Unemitted
  <2>4. Cardinality(Unemitted(j)') =
          Cardinality(Unemitted(j)) - (IF <<i, j>> \in edges THEN 1 ELSE 0)
    BY <2>1, <2>2, <2>3, OneFewer
  <2>5. indeg[j] = Cardinality(Unemitted(j))
    BY <1>1 DEF IndegCounts
  <2> QED
    BY <1>1, <2>4, <2>5
<1>5. WalkIsSound'
  BY <1>1 DEF WalkIsSound
<1>6. Topological'
  <2>1. ASSUME NEW m \in DOMAIN out', NEW n \in DOMAIN out', out'[m] = out'[n]
        PROVE  m = n
    <3>1. \A k \in 1..Len(out) : out[k] # i
      BY <1>1, <1>2 DEF Emitted, ToSet
    <3> QED
      BY <2>1, <3>1, <1>2 DEF Topological
  <2>2. ASSUME NEW m \in DOMAIN out', NEW e \in edges', e[2] = out'[m]
        PROVE  \E l \in 1..(m - 1) : out'[l] = e[1]
    <3>1. CASE m \in 1..Len(out)
      <4>1. PICK l \in 1..(m - 1) : out[l] = e[1]
        BY <1>1, <1>2, <2>2, <3>1 DEF Topological
      <4>2. l \in 1..Len(out)
        BY <3>1, <1>2
      <4> QED
        BY <1>2, <4>1, <4>2
    <3>2. CASE m = Len(out) + 1
      <4>1. e \in edges /\ e[2] = i
        BY <1>1, <1>2, <2>2, <3>2
      <4>2. e \in EdgePairs(Ops)
        BY <4>1 DEF TypeOK
      <4>3. e[1] \in Ops /\ e = <<e[1], i>>
        BY <4>1, <4>2 DEF EdgePairs
      <4>4. Unemitted(i) = {}
        BY <1>1, ReadyHasNoPred
      <4>5. e[1] \in Emitted
        BY <4>1, <4>3, <4>4 DEF Unemitted
      <4>6. PICK l \in 1..Len(out) : out[l] = e[1]
        BY <4>5, <1>2 DEF Emitted, ToSet
      <4> QED
        BY <3>2, <4>6, <1>2
    <3> QED
      BY <1>2, <3>1, <3>2
  <2> QED
    BY <2>1, <2>2 DEF Topological
<1>7. StallMeansCycle'
  BY <1>1 DEF StallMeansCycle
<1> QED
  BY <1>3, <1>4, <1>5, <1>6, <1>7

\* findCycle starts on a stalled operation, which has a stalled predecessor.
LEMMA StallIInv ==
    ASSUME IInv, NEW i \in Ops, Stall(i)
    PROVE  IInv'
<1> USE DEF IInv
<1>1. /\ pc = "emit" /\ pc' = "walk" /\ Ready = {} /\ i \in Stalled
      /\ walk' = <<i>>
      /\ UNCHANGED <<cycle, ops, derived, edges, indeg, out>>
  BY DEF Stall, LowestOf
<1>2. /\ Ops' = Ops /\ Emitted' = Emitted /\ Ready' = Ready /\ Stalled' = Stalled
  BY <1>1 DEF Ops, Emitted, Ready, Stalled
<1>3. TypeOK'
  BY <1>1, <1>2 DEF TypeOK
<1>4. IndegCounts'
  BY <1>1, <1>2 DEF IndegCounts, Unemitted
<1>5. WalkIsSound'
  <2>1. Last(walk') = i /\ ToSet(walk') = {i} /\ Len(walk') = 1
    BY <1>1 DEF Last, ToSet
  <2>2. StalledPreds(i) # {}
    BY <1>1, StalledHasPred
  <2>3. StalledPreds(Last(walk))' = StalledPreds(i)
    BY <1>1, <1>2, <2>1 DEF StalledPreds
  <2> QED
    BY <1>1, <1>2, <2>1, <2>2, <2>3 DEF WalkIsSound
<1>6. Topological'
  BY <1>1 DEF Topological
<1>7. StallMeansCycle'
  <2>1. Stalled \in SUBSET Ops /\ Stalled # {}
    BY <1>1 DEF Stalled
  <2>2. \A j \in Stalled : StalledPreds(j) # {}
    BY <1>1, StalledHasPred
  <2>3. \A j \in Stalled : \E k \in Stalled : <<k, j>> \in derived
    BY <2>2 DEF StalledPreds, TypeOK
  <2> QED
    BY <1>1, <1>2, <2>1, <2>3 DEF StallMeansCycle
<1> QED
  BY <1>3, <1>4, <1>5, <1>6, <1>7

\* The walk goes on to a stalled predecessor it has not passed.
LEMMA ExtendWalkIInv ==
    ASSUME IInv, NEW p \in Ops, ExtendWalk(p)
    PROVE  IInv'
<1> USE DEF IInv
<1>1. /\ pc = "walk" /\ pc' = "walk" /\ p \in StalledPreds(Last(walk))
      /\ p \notin ToSet(walk)
      /\ walk' = Append(walk, p)
      /\ UNCHANGED <<cycle, ops, derived, edges, indeg, out>>
  BY DEF ExtendWalk, LowestOf
<1>2. /\ Ops' = Ops /\ Emitted' = Emitted /\ Ready' = Ready /\ Stalled' = Stalled
  BY <1>1 DEF Ops, Emitted, Ready, Stalled
<1>3. p \in Stalled /\ <<p, Last(walk)>> \in edges
  BY <1>1 DEF StalledPreds
<1>4. /\ walk \in Seq(Ops) /\ walk' \in Seq(Ops)
      /\ DOMAIN walk = 1..Len(walk) /\ Len(walk) \in Nat
      /\ DOMAIN walk' = 1..(Len(walk) + 1) /\ Len(walk') = Len(walk) + 1
      /\ \A k \in 1..Len(walk) : walk'[k] = walk[k]
      /\ walk'[Len(walk) + 1] = p
      /\ ToSet(walk') = ToSet(walk) \cup {p}
  <2>1. walk \in Seq(Ops) /\ DOMAIN walk = 1..Len(walk) /\ Len(walk) \in Nat
    BY DEF TypeOK
  <2> QED
    BY <1>1, <2>1, AppendRange
<1>5. TypeOK'
  BY <1>1, <1>2, <1>4 DEF TypeOK
<1>6. IndegCounts'
  BY <1>1, <1>2 DEF IndegCounts, Unemitted
<1>7. WalkIsSound'
  <2>1. walk' # <<>> /\ Ready' = {} /\ ToSet(walk') \subseteq Stalled'
    BY <1>1, <1>2, <1>3, <1>4 DEF WalkIsSound
  <2>2. ASSUME NEW k \in DOMAIN walk', NEW l \in DOMAIN walk', walk'[k] = walk'[l]
        PROVE  k = l
    <3>1. \A n \in 1..Len(walk) : walk[n] # p
      BY <1>1, <1>4 DEF ToSet
    <3> QED
      BY <1>1, <1>4, <2>2, <3>1 DEF WalkIsSound
  <2>3. ASSUME NEW k \in 1..(Len(walk') - 1)
        PROVE  <<walk'[k + 1], walk'[k]>> \in edges'
    <3>1. CASE k = Len(walk)
      BY <1>1, <1>3, <1>4, <3>1, SMTT(60) DEF Last
    <3>2. CASE k \in 1..(Len(walk) - 1)
      <4>1. k \in 1..Len(walk) /\ k + 1 \in 1..Len(walk)
        BY <1>4, <3>2
      <4>2. <<walk[k + 1], walk[k]>> \in edges
        BY <1>1, <3>2 DEF WalkIsSound
      <4> QED
        BY <1>1, <1>4, <4>1, <4>2
    <3>3. k \in 1..Len(walk)
      <4>1. k \in 1..((Len(walk) + 1) - 1)
        BY <1>4
      <4>2. Len(walk) \in Nat
        BY <1>4
      <4> QED
        BY <4>1, <4>2
    <3>4. k = Len(walk) \/ k \in 1..(Len(walk) - 1)
      <4>1. \A n \in Nat : \A i \in 1..n : i = n \/ i \in 1..(n - 1)
        OBVIOUS
      <4>2. Len(walk) \in Nat
        BY <1>4
      <4> QED
        BY <3>3, <4>1, <4>2
    <3> QED
      BY <3>1, <3>2, <3>4
  <2>4. StalledPreds(Last(walk))' # {}
    <3>1. StalledPreds(p) # {}
      BY <1>1, <1>3, StalledHasPred DEF WalkIsSound
    <3>2. Last(walk') = p
      BY <1>4 DEF Last
    <3> QED
      BY <1>1, <1>2, <3>1, <3>2 DEF StalledPreds
  <2> QED
    BY <2>1, <2>2, <2>3, <2>4 DEF WalkIsSound
<1>8. Topological' /\ StallMeansCycle'
  BY <1>1, <1>2, ZenonT(60) DEF Topological, StallMeansCycle
<1> QED
  BY <1>5, <1>6, <1>7, <1>8

\* Abort empties the schedule, so that nothing is out of order.
LEMMA AbortIInv ==
    ASSUME IInv, NEW p \in Ops, AbortOnCycle(p)
    PROVE  IInv'
<1> USE DEF IInv
<1>1. /\ pc = "walk" /\ pc' = "aborted" /\ out' = <<>>
      /\ UNCHANGED <<cycle, ops, derived, edges, indeg, walk>>
      /\ Ops' = Ops
  BY DEF AbortOnCycle, Ops
<1>2. TypeOK' /\ IndegCounts' /\ WalkIsSound' /\ Topological'
  BY <1>1 DEF TypeOK, IndegCounts, WalkIsSound, Topological
<1>3. StallMeansCycle'
  BY <1>1 DEF StallMeansCycle
<1> QED
  BY <1>2, <1>3

\* Dropping an edge of the cycle lowers one count, that of its target.
LEMMA BreakIInv ==
    ASSUME IInv, NEW p \in Ops, BreakOnCycle(p)
    PROVE  IInv'
<1> USE DEF IInv
<1> DEFINE c == CycleFrom(p)
<1>1. /\ pc = "walk" /\ pc' = "emit" /\ walk' = <<>>
      /\ p \in StalledPreds(Last(walk)) /\ p \in ToSet(walk)
      /\ UNCHANGED <<cycle, ops, derived, out>>
      /\ Ops' = Ops
  BY DEF BreakOnCycle, LowestOf, Ops
<1>2. PICK k \in 1..Len(walk) :
        /\ BreakAt(c, k)
        /\ edges' = edges \ {DroppedEdge(c, k)}
        /\ indeg' = [indeg EXCEPT ![DroppedEdge(c, k)[2]] = @ - 1]
  BY DEF BreakOnCycle
<1> DEFINE u == c[k]
           v == After(c, k)
<1>3. /\ k \in 1..Len(c) /\ u \in Stalled /\ <<u, v>> \in edges
  BY <1>1, <1>2, CycleIsRing DEF BreakAt
<1> HIDE DEF c, u, v
<1>4. edges' = edges \ {<<u, v>>} /\ indeg' = [indeg EXCEPT ![v] = @ - 1]
  BY <1>2 DEF DroppedEdge, u, v
<1>5. u \in Ops /\ v \in Ops /\ u \notin Emitted /\ Emitted' = Emitted
  <2>1. <<u, v>> \in EdgePairs(Ops)
    BY <1>3 DEF TypeOK
  <2> QED
    BY <1>1, <1>3, <2>1 DEF Stalled, EdgePairs, Emitted
<1>6. TypeOK'
  <2>1. indeg \in [Ops -> Int]
    BY DEF TypeOK
  <2>2. indeg' \in [Ops -> Int]
    BY <1>4, <1>5, <2>1
  <2> QED
    BY <1>1, <1>4, <2>2, SMTT(60) DEF TypeOK
<1>7. IndegCounts'
  <2> SUFFICES ASSUME NEW j \in Ops
               PROVE  indeg'[j] = Cardinality(Unemitted(j)')
    BY <1>1 DEF IndegCounts
  <2>1. indeg[j] = Cardinality(Unemitted(j)) /\ indeg[j] \in Int
    BY <1>1 DEF IndegCounts, TypeOK
  <2>2. CASE j # v
    <3>1. Unemitted(j)' = Unemitted(j)
      BY <1>1, <1>4, <1>5, <2>2 DEF Unemitted
    <3>2. indeg'[j] = indeg[j]
      BY <1>4, <2>2 DEF TypeOK
    <3> QED
      BY <2>1, <3>1, <3>2
  <2>3. CASE j = v
    <3>1. Unemitted(j)' = Unemitted(j) \ {u} /\ u \in Unemitted(j)
      BY <1>1, <1>3, <1>4, <1>5, <2>3 DEF Unemitted
    <3>2. indeg'[j] = indeg[j] - 1
      BY <1>4, <1>5, <2>3 DEF TypeOK
    <3>3. Cardinality(Unemitted(j) \ {u}) = Cardinality(Unemitted(j)) - 1
      BY <3>1, OneFewer DEF Unemitted
    <3> QED
      BY <2>1, <3>1, <3>2, <3>3
  <2> QED
    BY <2>2, <2>3
<1>8. WalkIsSound' /\ StallMeansCycle'
  BY <1>1 DEF WalkIsSound, StallMeansCycle
<1>9. Topological'
  BY <1>1, <1>4 DEF Topological
<1> QED
  BY <1>6, <1>7, <1>8, <1>9

\* Finish changes nothing but the control point.
LEMMA FinishIInv ==
    ASSUME IInv, Finish
    PROVE  IInv'
<1> USE DEF IInv
<1>1. /\ pc = "emit" /\ pc' = "done"
      /\ UNCHANGED <<cycle, ops, derived, edges, indeg, out, walk>>
      /\ Ops' = Ops
  BY DEF Finish, Ops
<1>2. TypeOK' /\ WalkIsSound' /\ Topological' /\ StallMeansCycle'
  BY <1>1 DEF TypeOK, WalkIsSound, Topological, StallMeansCycle
<1>3. IndegCounts'
  BY <1>1 DEF IndegCounts, Unemitted, Emitted
<1> QED
  BY <1>2, <1>3

\* The invariant reads nothing but the variables.
LEMMA StutterIInv ==
    ASSUME IInv, UNCHANGED vars
    PROVE  IInv'
<1> USE DEF IInv, vars
<1>1. /\ Ops' = Ops /\ Emitted' = Emitted /\ Ready' = Ready /\ Stalled' = Stalled
  BY DEF Ops, Emitted, Ready, Stalled
<1>2. TypeOK'
  BY <1>1 DEF TypeOK
<1>3. IndegCounts'
  BY <1>1 DEF IndegCounts, Unemitted
<1>4. WalkIsSound'
  BY <1>1 DEF WalkIsSound, StalledPreds
<1>5. Topological' /\ StallMeansCycle'
  BY <1>1 DEF Topological, StallMeansCycle
<1> QED
  BY <1>2, <1>3, <1>4, <1>5

\* Every step of the loop preserves the invariant.
LEMMA NextIInv == IInv /\ [Next]_vars => IInv'
<1> SUFFICES ASSUME IInv, [Next]_vars PROVE IInv'
  OBVIOUS
<1>1. CASE \E i \in Ops : Emit(i)
  BY <1>1, EmitIInv
<1>2. CASE \E i \in Ops : Stall(i)
  BY <1>2, StallIInv
<1>3. CASE \E i \in Ops : ExtendWalk(i)
  BY <1>3, ExtendWalkIInv
<1>4. CASE \E i \in Ops : AbortOnCycle(i)
  BY <1>4, AbortIInv
<1>5. CASE \E i \in Ops : BreakOnCycle(i)
  BY <1>5, BreakIInv
<1>6. CASE Finish
  BY <1>6, FinishIInv
<1>7. CASE UNCHANGED vars
  BY <1>7, StutterIInv
<1> QED
  BY <1>1, <1>2, <1>3, <1>4, <1>5, <1>6, <1>7 DEF Next, Returned

-----------------------------------------------------------------------------
(* The theorems.                                                           *)

\* The inductive invariant holds in every state of the scheduler.
THEOREM Invariance == Spec => []IInv
<1>1. Init => IInv
  BY InitIInv
<1>2. IInv /\ [Next]_vars => IInv'
  BY NextIInv
<1> QED
  BY <1>1, <1>2, PTL DEF Spec

\* schedule() keeps its variables well formed for every plan.
THEOREM TypeCorrect == Spec => []TypeOK
<1>1. IInv => TypeOK
  BY DEF IInv
<1> QED
  BY <1>1, Invariance, PTL

\* The in-degree schedule() maintains is exact for every plan and both
\* policies.
THEOREM IndegreesExact == Spec => []IndegCounts
<1>1. IInv => IndegCounts
  BY DEF IInv
<1> QED
  BY <1>1, Invariance, PTL

\* findCycle never indexes an empty predecessor list.
THEOREM FindCycleSound == Spec => []WalkIsSound
<1>1. IInv => WalkIsSound
  BY DEF IInv
<1> QED
  BY <1>1, Invariance, PTL

\* No plan is emitted against an edge that was not dropped.
THEOREM OrderRespected == Spec => []Topological
<1>1. IInv => Topological
  BY DEF IInv
<1> QED
  BY <1>1, Invariance, PTL

\* The loop stops at a count: as no operation is emitted twice, the operations
\* emitted are as many as the plan has only when they are all of them.
LEMMA CountIsAll ==
    ASSUME IInv
    PROVE  /\ Len(out) <= Len(ops)
           /\ Len(out) = Len(ops) <=> Emitted = Ops
<1>1. /\ out \in Seq(Ops) /\ Len(out) \in Nat /\ DOMAIN out = 1..Len(out)
      /\ Len(ops) \in Nat /\ Ops = 1..Len(ops)
  BY DEF IInv, TypeOK
<1>2. IsFiniteSet(1..Len(out)) /\ Cardinality(1..Len(out)) = Len(out)
  <2>1. \A n \in Nat : IsFiniteSet(1..n) /\ Cardinality(1..n) = n
    BY FS_Interval
  <2> QED
    BY <1>1, <2>1
<1>3. IsFiniteSet(Ops) /\ Cardinality(Ops) = Len(ops)
  <2>1. \A n \in Nat : IsFiniteSet(1..n) /\ Cardinality(1..n) = n
    BY FS_Interval
  <2> QED
    BY <1>1, <2>1
<1>4. Emitted \in SUBSET Ops /\ \A x \in Emitted : \E k \in 1..Len(out) : out[k] = x
  BY <1>1 DEF Emitted, ToSet
<1>5. out \in [1..Len(out) -> Emitted]
  BY <1>1 DEF Emitted, ToSet
<1>6. out \in Surjection(1..Len(out), Emitted)
  BY <1>4, <1>5 DEF Surjection
<1>7. out \in Injection(1..Len(out), Emitted)
  BY <1>1, <1>5 DEF Injection, IsInjective, IInv, Topological
<1>8. Cardinality(Emitted) = Len(out)
  BY <1>2, <1>6, <1>7, FS_Surjection
<1>9. Cardinality(Emitted) <= Len(ops) /\ (Len(ops) = Cardinality(Emitted) => Ops = Emitted)
  BY <1>3, <1>4, FS_Subset
<1> QED
  BY <1>1, <1>3, <1>8, <1>9

\* What the end of the loop means for the plan.
AllEmitted == pc = "done" => Emitted = Ops

\* The loop is left only when every operation is out.
LEMMA NextAllEmitted == IInv /\ AllEmitted /\ [Next]_vars => AllEmitted'
<1> SUFFICES ASSUME IInv, AllEmitted, [Next]_vars
             PROVE  AllEmitted'
  OBVIOUS
<1>1. ASSUME NEW i \in Ops, Emit(i)
      PROVE  AllEmitted'
  BY <1>1 DEF Emit, AllEmitted
<1>2. ASSUME NEW i \in Ops, Stall(i) \/ ExtendWalk(i) \/ AbortOnCycle(i)
      PROVE  AllEmitted'
  BY <1>2 DEF Stall, ExtendWalk, AbortOnCycle, AllEmitted
<1>3. ASSUME NEW i \in Ops, BreakOnCycle(i)
      PROVE  AllEmitted'
  BY <1>3 DEF BreakOnCycle, AllEmitted
<1>4. CASE Finish
  <2>1. ~(Len(out) < Len(ops)) /\ UNCHANGED <<ops, out>>
    BY <1>4 DEF Finish
  <2>2. Len(out) \in Nat /\ Len(ops) \in Nat
    BY DEF IInv, TypeOK
  <2>3. Emitted = Ops
    BY <2>1, <2>2, CountIsAll
  <2> QED
    BY <2>1, <2>3 DEF AllEmitted, Emitted, Ops
<1>5. CASE UNCHANGED vars
  BY <1>5 DEF AllEmitted, vars, Emitted, Ops
<1> QED
  BY <1>1, <1>2, <1>3, <1>4, <1>5 DEF Next, Returned

\* A stall is declared only for plans some operations of which wait for one
\* another.
THEOREM StallJustified == Spec => []StallMeansCycle
<1>1. IInv => StallMeansCycle
  BY DEF IInv
<1> QED
  BY <1>1, Invariance, PTL

-----------------------------------------------------------------------------
(* The scheduler implements PlanOrder.                                     *)

\* What is pending for the abstract order is what is not emitted.
LEMMA PendingOps ==
    ASSUME TypeOK
    PROVE  /\ Order!Pending = Ops \ Emitted
           /\ \A i : Order!Free(i) <=> i \in Ops \ Emitted /\ Unemitted(i) = {}
<1>1. Order!Pending = Ops \ Emitted
  BY DEF TypeOK, Order!Pending, Order!ToSet, Emitted, ToSet
<1> QED
  BY <1>1 DEF Order!Free, Unemitted

\* When nothing is ready the abstract order is stuck too.
LEMMA NoReadyIsStuck ==
    ASSUME TypeOK, IndegCounts, pc # "aborted", Ready = {}, Stalled # {}
    PROVE  Order!Stuck
<1>1. \A i \in Ops \ Emitted : i \in Stalled
  BY DEF Ready, Stalled
<1>2. \A i \in Ops \ Emitted : Unemitted(i) # {}
  BY <1>1, StalledHasPred DEF StalledPreds, Unemitted, Stalled
<1>3. Ops \ Emitted # {}
  BY DEF Stalled
<1> QED
  BY <1>2, <1>3, PendingOps DEF Order!Stuck

\* A walk that met itself leaves at least one operation stalled.
LEMMA WalkHasStalled ==
    ASSUME TypeOK, WalkIsSound, pc = "walk"
    PROVE  Stalled # {}
<1>1. Len(walk) \in DOMAIN walk /\ Last(walk) \in ToSet(walk)
  BY DEF TypeOK, WalkIsSound, Last, ToSet
<1> QED
  BY <1>1 DEF WalkIsSound

\* An injective ring of operations is no longer than the plan.
LEMMA RingFits ==
    ASSUME TypeOK, NEW n \in Nat, NEW f \in [1..n -> Ops],
           \A k, l \in 1..n : f[k] = f[l] => k = l
    PROVE  n <= Len(ops)
<1>1. f \in Injection(1..n, Ops)
  BY DEF Injection, IsInjective
<1>2. IsFiniteSet(Ops) /\ Cardinality(Ops) = Len(ops)
  <2>1. Ops = 1..Len(ops) /\ Len(ops) \in Nat
    BY DEF TypeOK
  <2>2. ASSUME NEW m \in Nat
        PROVE  IsFiniteSet(1..m) /\ Cardinality(1..m) = m
    BY FS_Interval
  <2> QED
    BY <2>1, <2>2
<1>3. Cardinality(1..n) <= Cardinality(Ops)
  BY <1>1, <1>2, FS_Injection
<1>4. Cardinality(1..n) = n
  BY FS_Interval
<1> QED
  BY <1>2, <1>3, <1>4

\* An operation the scheduler emits is one the abstract order may place.
LEMMA EmitRefines ==
    ASSUME IInv, NEW i \in Ops, Emit(i)
    PROVE  Order!Place(i)
<1>1. i \in Ready /\ pc = "emit" /\ i \in Ops \ Emitted
  BY DEF Emit, Best, Ready
<1>2. Unemitted(i) = {}
  BY <1>1, ReadyHasNoPred DEF IInv
<1>3. Order!Free(i)
  BY <1>1, <1>2, PendingOps DEF IInv
<1> QED
  BY <1>1, <1>3 DEF Emit, Order!Place

\* A refusal of the scheduler is a refusal of the stuck abstract order.
LEMMA AbortRefines ==
    ASSUME IInv, NEW p \in Ops, AbortOnCycle(p)
    PROVE  Order!Refuse
<1>1. pc = "walk"
  BY DEF AbortOnCycle
<1>2. Order!Stuck
  BY <1>1, NoReadyIsStuck, WalkHasStalled DEF IInv, WalkIsSound
<1> QED
  BY <1>1, <1>2 DEF AbortOnCycle, Order!Refuse

\* The edge that Break drops lies on a cycle of pending operations.
LEMMA BreakRefines ==
    ASSUME IInv, NEW p \in Ops, BreakOnCycle(p)
    PROVE  \E e \in edges : Order!GiveUpEdge(e)
<1> USE DEF IInv
<1> DEFINE c == CycleFrom(p)
           n == Len(c)
<1>1. /\ pc = "walk" /\ pc' = "emit"
      /\ p \in StalledPreds(Last(walk)) /\ p \in ToSet(walk)
      /\ UNCHANGED <<cycle, ops, derived, out>>
  BY DEF BreakOnCycle, LowestOf
<1>2. PICK k \in 1..Len(walk) :
        BreakAt(c, k) /\ edges' = edges \ {DroppedEdge(c, k)}
  BY DEF BreakOnCycle
<1>3. /\ n \in 1..Len(walk) /\ DOMAIN c = 1..n
      /\ \A j \in 1..n : c[j] \in Stalled
      /\ \A j, l \in 1..n : c[j] = c[l] => j = l
      /\ \A j \in 1..n : <<c[j], After(c, j)>> \in edges
  BY <1>1, CycleIsRing
<1>4. k \in 1..n
  BY <1>2, <1>3 DEF BreakAt
<1> DEFINE f == [j \in 1..n |-> c[j]]
           e == DroppedEdge(c, k)
<1>5. \A j \in 1..n : Order!RingPair(f, n, j) = <<c[j], After(c, j)>>
  <2> SUFFICES ASSUME NEW j \in 1..n
               PROVE  Order!RingPair(f, n, j) = <<c[j], After(c, j)>>
    OBVIOUS
  <2>1. n \in Nat /\ 1 \in 1..n
    BY <1>3 DEF TypeOK
  <2>2. j # n => j + 1 \in 1..n
    BY <2>1
  <2> QED
    BY <2>1, <2>2 DEF Order!RingPair, After
<1>6. /\ \A j \in 1..n : Order!RingPair(f, n, j) \in edges
      /\ e = Order!RingPair(f, n, k) /\ e \in edges
  BY <1>3, <1>4, <1>5 DEF DroppedEdge
<1>7. /\ f \in [1..n -> Order!Pending] /\ f \in [1..n -> Ops]
      /\ \A j, l \in 1..n : f[j] = f[l] => j = l
      /\ n \in Nat
  BY <1>3, PendingOps, SMTT(60) DEF Stalled, TypeOK
<1> HIDE DEF c, n, f, e
<1>8. n \in 1..Len(ops)
  <2>1. n <= Len(ops)
    BY <1>7, RingFits
  <2> QED
    BY <2>1, <1>3, <1>7 DEF TypeOK
<1>9. Order!CycleEdge(e)
  BY <1>4, <1>6, <1>7, <1>8 DEF Order!CycleEdge
<1>10. Order!Stuck
  BY <1>1, NoReadyIsStuck, WalkHasStalled DEF WalkIsSound
<1>11. edges' = edges \ {e}
  BY <1>2 DEF e
<1> QED
  BY <1>1, <1>6, <1>9, <1>10, <1>11 DEF Order!GiveUpEdge

\* The scheduler finishes when nothing is pending.
LEMMA FinishRefines ==
    ASSUME IInv, Finish
    PROVE  Order!Finish
<1>1. ~(Len(out) < Len(ops)) /\ Len(out) \in Nat /\ Len(ops) \in Nat
  BY DEF Finish, IInv, TypeOK
<1>2. Order!Pending = {}
  BY <1>1, CountIsAll, PendingOps DEF IInv
<1> QED
  BY <1>2 DEF Finish, Order!Finish

\* findCycle's walk is invisible to the abstract order.
LEMMA WalkRefines ==
    ASSUME NEW i \in Ops, Stall(i) \/ ExtendWalk(i)
    PROVE  UNCHANGED Order!vars
BY DEF Stall, ExtendWalk, Order!vars

\* Every run of the scheduler is a run of PlanOrder: it emits only operations
\* nothing pending precedes, gives up only an edge on a cycle of pending
\* operations, only when nothing can be emitted, and refuses only then.
THEOREM Refinement == Spec => OrderSpec
<1>1. Init => Order!Init
  <2> SUFFICES ASSUME Init PROVE Order!Init
    OBVIOUS
  <2>1. TypeOK /\ pc = "emit" /\ out = <<>>
    BY InitIInv DEF IInv, Init
  <2>2. edges \subseteq {e \in (1..Len(ops)) \X (1..Len(ops)) : e[1] # e[2]}
    BY <2>1 DEF TypeOK, EdgePairs
  <2> QED
    BY <2>1, <2>2 DEF Order!Init, TypeOK
<1>2. IInv /\ [Next]_vars => [Order!Next]_(Order!vars)
  <2> SUFFICES ASSUME IInv, [Next]_vars PROVE [Order!Next]_(Order!vars)
    OBVIOUS
  <2>1. ASSUME NEW i \in Ops, Emit(i) PROVE Order!Next
    <3>1. Order!Place(i)
      BY <2>1, EmitRefines
    <3>2. i \in Order!Pending
      BY <3>1 DEF Order!Place, Order!Free
    <3> QED
      BY <3>1, <3>2 DEF Order!Next
  <2>2. ASSUME NEW i \in Ops, Stall(i) \/ ExtendWalk(i)
        PROVE  UNCHANGED Order!vars
    BY <2>2, WalkRefines
  <2>3. ASSUME NEW p \in Ops, AbortOnCycle(p) PROVE Order!Next
    BY <2>3, AbortRefines DEF Order!Next
  <2>4. ASSUME NEW p \in Ops, BreakOnCycle(p) PROVE Order!Next
    BY <2>4, BreakRefines DEF Order!Next
  <2>5. CASE Finish
    BY <2>5, FinishRefines DEF Order!Next
  <2>6. CASE UNCHANGED vars
    BY <2>6 DEF vars, Order!vars
  <2> QED
    BY <2>1, <2>2, <2>3, <2>4, <2>5, <2>6 DEF Next, Returned
<1> QED
  BY <1>1, <1>2, Invariance, PTL DEF Spec, OrderSpec, Order!Spec

-----------------------------------------------------------------------------
(* Sections are left for edges only.                                       *)

\* When b was placed, every operation left with more of the section in common
\* was waiting for one that had not been placed.
LeftForEdges ==
    \A b \in 2..Len(out) : \A x \in Ops :
        LET here == ops[out[b - 1]].secs
        IN  /\ \A l \in 1..b : out[l] # x
            /\ Affinity(ops[x].secs, here) > Affinity(ops[out[b]].secs, here)
            => \E e \in derived : e[2] = x /\ \A l \in 1..(b - 1) : out[l] # e[1]

\* Affinities can be compared.
LEMMA AffinityNat ==
    ASSUME Laid(ops), NEW i \in Ops, NEW s
    PROVE  Affinity(ops[i].secs, s) \in Nat
  <1> DEFINE n == Len(ops[i].secs)
             S == {m \in 1..n : m <= Len(s) /\ SubSeq(ops[i].secs, 1, m) = SubSeq(s, 1, m)}
  <1>1. n \in Nat
    BY DEF Laid, Ops
  <1> HIDE DEF n
  <1>2. IsFiniteSet(1..n)
    BY <1>1, FS_Interval
  <1>3. IsFiniteSet(S)
    <2>1. S \subseteq 1..n
      OBVIOUS
    <2> HIDE DEF S
    <2> QED
      BY <1>2, <2>1, FS_Subset
  <1>4. Cardinality(S) \in Nat
    <2> HIDE DEF S
    <2> QED
      BY <1>3, FS_CardinalityType
  <1> QED
    BY <1>4 DEF Affinity, n

\* An operation that affinity would have put first is not ready, so it has a
\* predecessor that has not been emitted.
LEMMA PassedOverWaits ==
    ASSUME IInv, Laid(ops), pc = "emit", NEW i \in Ops, Best(i),
           NEW x \in Ops \ Emitted,
           Affinity(ops[x].secs, Stack) > Affinity(ops[i].secs, Stack)
    PROVE  \E e \in derived : e[2] = x /\ e[1] \in Ops \ Emitted
  <1>1. Affinity(ops[x].secs, Stack) \in Nat /\ Affinity(ops[i].secs, Stack) \in Nat
    BY AffinityNat
  <1>2. x # i /\ ~Better(i, x)
    BY <1>1 DEF Better
  <1>3. x \notin Ready
    BY <1>2 DEF Best
  <1>4. indeg[x] > 0
    BY <1>3 DEF Ready
  <1>5. indeg[x] = Cardinality(Unemitted(x)) /\ Unemitted(x) \in SUBSET Ops
    BY DEF IInv, IndegCounts, Unemitted
  <1>6. Unemitted(x) # {}
    BY <1>4, <1>5, FS_EmptySet
  <1>7. PICK p \in Ops \ Emitted : <<p, x>> \in edges
    BY <1>6 DEF Unemitted
  <1>8. <<p, x>> \in derived /\ <<p, x>>[1] = p /\ <<p, x>>[2] = x
    BY <1>7 DEF IInv, TypeOK
  <1> QED
    BY <1>7, <1>8

\* Emitting adds one place to look at.
LEMMA EmitLeft ==
    ASSUME IInv, Laid(ops), LeftForEdges, NEW i \in Ops, Emit(i)
    PROVE  LeftForEdges'
  <1>1. /\ pc = "emit" /\ Best(i) /\ out' = Append(out, i)
        /\ UNCHANGED <<ops, derived>> /\ Ops' = Ops
    BY DEF Emit, Ops
  <1>2. /\ out \in Seq(Ops) /\ Len(out) \in Nat
        /\ Len(out') = Len(out) + 1
        /\ \A k \in 1..Len(out) : out'[k] = out[k]
        /\ out'[Len(out) + 1] = i
    BY <1>1, AppendRange DEF IInv, TypeOK
  <1> SUFFICES ASSUME NEW b \in 2..Len(out'), NEW x \in Ops,
                      \A l \in 1..b : out'[l] # x,
                      Affinity(ops[x].secs, ops[out'[b - 1]].secs)
                        > Affinity(ops[out'[b]].secs, ops[out'[b - 1]].secs)
               PROVE  \E e \in derived : e[2] = x /\ \A l \in 1..(b - 1) : out'[l] # e[1]
    BY <1>1 DEF LeftForEdges
  <1>3. CASE b \in 2..Len(out)
    <2>1. \A l \in 1..b : out'[l] = out[l]
      BY <1>2, <1>3
    <2>2. out'[b] = out[b] /\ out'[b - 1] = out[b - 1]
      BY <1>3, <2>1
    <2>3. PICK e \in derived : e[2] = x /\ \A l \in 1..(b - 1) : out[l] # e[1]
      BY <1>3, <2>1, <2>2 DEF LeftForEdges
    <2>4. \A l \in 1..(b - 1) : out'[l] # e[1]
      BY <1>3, <2>1, <2>3
    <2> QED
      BY <2>3, <2>4
  <1>4. CASE b = Len(out) + 1
    <2>1. Len(out) \in 1..Len(out) /\ out # <<>> /\ DOMAIN out = 1..Len(out)
      BY <1>2, <1>4
    <2>2. out'[b] = i /\ out'[b - 1] = out[Len(out)] /\ Last(out) = out[Len(out)]
      BY <1>2, <1>4, <2>1 DEF Last
    <2>3. ops[out'[b - 1]].secs = Stack
      BY <2>1, <2>2 DEF Stack
    <2>4. \A l \in 1..Len(out) : out[l] # x
      BY <1>2, <1>4
    <2>5. x \in Ops \ Emitted
      BY <2>1, <2>4 DEF Emitted, ToSet
    <2>6. PICK e \in derived : e[2] = x /\ e[1] \in Ops \ Emitted
      BY <1>1, <2>2, <2>3, <2>5, PassedOverWaits
    <2>7. \A l \in 1..Len(out) : out[l] # e[1]
      BY <2>1, <2>6 DEF Emitted, ToSet
    <2>8. b - 1 = Len(out)
      BY <1>2, <1>4
    <2> QED
      BY <1>2, <2>6, <2>7, <2>8
  <1> QED
    BY <1>2, <1>3, <1>4

SInv == Laid(ops) /\ LeftForEdges

\* Nothing else adds to the order.
LEMMA NextSInv == IInv /\ SInv /\ [Next]_vars => SInv'
  <1> SUFFICES ASSUME IInv, SInv, [Next]_vars PROVE SInv'
    OBVIOUS
  <1>1. CASE \E i \in Ops : Emit(i)
    BY <1>1, EmitLeft DEF SInv, Emit
  <1>2. CASE \E i \in Ops : AbortOnCycle(i)
    <2>1. out' = <<>> /\ ops' = ops
      BY <1>2 DEF AbortOnCycle
    <2> QED
      BY <2>1 DEF SInv, LeftForEdges
  <1>3. ASSUME UNCHANGED <<ops, out, derived>>
        PROVE  SInv'
    BY <1>3 DEF SInv, LeftForEdges, Ops
  <1>4. CASE \E i \in Ops : Stall(i) \/ ExtendWalk(i) \/ BreakOnCycle(i)
    BY <1>3, <1>4 DEF Stall, ExtendWalk, BreakOnCycle
  <1>5. CASE Finish \/ UNCHANGED vars
    BY <1>3, <1>5 DEF Finish, vars
  <1> QED
    BY <1>1, <1>2, <1>4, <1>5 DEF Next, Returned

\* A plan only goes back to a section for an operation that an edge held back
\* when the section was left.
THEOREM LeftOnlyForEdge == Spec => []SectionLeftOnlyForEdge
  <1>1. Init => SInv
    BY LayoutsAssumption DEF Init, SInv, LeftForEdges
  <1>2. IInv /\ SInv => SectionLeftOnlyForEdge
    <2> SUFFICES ASSUME IInv, SInv, NEW b \in 2..Len(out), NEW c \in (b + 1)..Len(out),
                        Affinity(ops[out[c]].secs, ops[out[b - 1]].secs)
                            > Affinity(ops[out[b]].secs, ops[out[b - 1]].secs)
                 PROVE  \E e \in derived : e[2] = out[c] /\ \A l \in 1..(b - 1) : out[l] # e[1]
      BY DEF SectionLeftOnlyForEdge
    <2>1. out \in Seq(Ops) /\ DOMAIN out = 1..Len(out) /\ Len(out) \in Nat
      BY DEF IInv, TypeOK
    <2>2. c \in DOMAIN out /\ out[c] \in Ops
      BY <2>1
    <2>3. \A l \in 1..b : l \in DOMAIN out /\ l # c
      BY <2>1
    <2>4. \A l \in 1..b : out[l] # out[c]
      BY <2>2, <2>3 DEF IInv, Topological
    <2> QED
      BY <2>2, <2>4 DEF SInv, LeftForEdges
  <1> QED
    BY <1>1, <1>2, InitIInv, NextIInv, NextSInv, PTL DEF Spec

-----------------------------------------------------------------------------
(* The order of the keys.                                                  *)

KeyOf(i) == ops[i].key

Forward == \A e \in derived : KeyLess(KeyOf(e[1]), KeyOf(e[2]))

\* What has been emitted is in order and before everything that has not.
InKeyOrder ==
    /\ \A m, n \in DOMAIN out : m < n => KeyLess(KeyOf(out[m]), KeyOf(out[n]))
    /\ \A m \in DOMAIN out : \A x \in Ops \ Emitted : KeyLess(KeyOf(out[m]), KeyOf(x))
    /\ edges = derived
    /\ pc # "walk"

KInv == Laid(ops) /\ KeysFit(ops) /\ (Forward => InKeyOrder)

-----------------------------------------------------------------------------
(* Keys are totally ordered.                                               *)

LEMMA LeastOf ==
    ASSUME NEW S \in SUBSET Nat, S # {}
    PROVE  \E k \in S : \A j \in S : k <= j
  <1> DEFINE Below == {ss \in Nat \X Nat : ss[1] < ss[2]}
  <1>1. IsWellFoundedOn(Below, Nat)
    BY NatLessThanWellFounded DEF OpToRel
  <1>2. \E k \in S : \A j \in S : <<j, k>> \notin Below
    <2> HIDE DEF Below
    <2> QED
      BY <1>1, WFMin
  <1>3. PICK k \in S : \A j \in S : <<j, k>> \notin Below
    BY <1>2
  <1>4. ASSUME NEW j \in S PROVE k <= j
    <2>1. <<j, k>> \in Nat \X Nat /\ ~(<<j, k>>[1] < <<j, k>>[2])
      BY <1>3
    <2> QED
      BY <2>1
  <1> QED
    BY <1>4

\* Two keys part at the first level at which they differ.
LEMMA KeysTotal ==
    ASSUME NEW a \in Seq(Int), NEW b \in Seq(Int), a # b
    PROVE  KeyLess(a, b) \/ KeyLess(b, a)
  <1> DEFINE S == {n \in Nat : n <= Len(a) /\ n <= Len(b)
                        /\ (n = Len(a) \/ n = Len(b) \/ a[n + 1] # b[n + 1])}
  <1>1. Len(a) \in Nat /\ Len(b) \in Nat
    OBVIOUS
  <1>2. S # {}
    <2>1. CASE Len(a) <= Len(b)
      BY <1>1, <2>1
    <2>2. CASE Len(b) <= Len(a)
      BY <1>1, <2>2
    <2> QED
      BY <1>1, <2>1, <2>2
  <1>3. PICK n \in S : \A j \in S : n <= j
    <2>1. S \in SUBSET Nat
      OBVIOUS
    <2> HIDE DEF S
    <2> QED
      BY <1>2, <2>1, LeastOf
  <1>3a. n \in Nat /\ n <= Len(a) /\ n <= Len(b)
        /\ (n = Len(a) \/ n = Len(b) \/ a[n + 1] # b[n + 1])
    BY <1>3
  <1>4. \A m \in 1..n : a[m] = b[m]
    <2> SUFFICES ASSUME NEW m \in 1..n, a[m] # b[m] PROVE FALSE
      OBVIOUS
    <2>1. m - 1 \in Nat /\ (m - 1) + 1 = m /\ m - 1 < n
      OBVIOUS
    <2>2. m - 1 \in S
      BY <1>1, <1>3a, <2>1
    <2>3. n <= m - 1
      <3> HIDE DEF S
      <3> QED
        BY <1>3, <2>2
    <2> QED
      BY <1>3a, <2>1, <2>3
  <1>5. n \in 0..Len(a) /\ n \in 0..Len(b)
    BY <1>1, <1>3a
  <1> HIDE DEF S
  <1>6. CASE n = Len(a) /\ n = Len(b)
    <2>1. /\ DOMAIN a = 1..Len(a) /\ DOMAIN b = 1..Len(b)
          /\ a = [k \in DOMAIN a |-> a[k]] /\ b = [k \in DOMAIN b |-> b[k]]
      OBVIOUS
    <2>2. DOMAIN a = 1..n /\ DOMAIN b = 1..n
      BY <1>6, <2>1
    <2>3. a = b
      BY <1>4, <2>1, <2>2
    <2> QED
      BY <2>3
  <1>7. CASE n = Len(a) /\ n < Len(b)
    BY <1>4, <1>5, <1>3a, <1>7 DEF KeyLess
  <1>8. CASE n < Len(a) /\ n = Len(b)
    BY <1>4, <1>5, <1>3a, <1>8 DEF KeyLess
  <1>9. CASE n < Len(a) /\ n < Len(b)
    <2>1. a[n + 1] # b[n + 1] /\ a[n + 1] \in Int /\ b[n + 1] \in Int
      BY <1>1, <1>3a, <1>9
    <2>2. a[n + 1] < b[n + 1] \/ b[n + 1] < a[n + 1]
      BY <2>1
    <2> QED
      BY <1>4, <1>5, <1>3a, <1>9, <2>2 DEF KeyLess
  <1> QED
    BY <1>1, <1>3a, <1>6, <1>7, <1>8, <1>9

LEMMA KeysIrreflexive ==
    ASSUME NEW a \in Seq(Int)
    PROVE  ~KeyLess(a, a)
  BY DEF KeyLess

\* The earlier of the two places at which they part.
LEMMA KeysTransitive ==
    ASSUME NEW a \in Seq(Int), NEW b \in Seq(Int), NEW c \in Seq(Int),
           KeyLess(a, b), KeyLess(b, c)
    PROVE  KeyLess(a, c)
  <1>1. Len(a) \in Nat /\ Len(b) \in Nat /\ Len(c) \in Nat
    OBVIOUS
  <1>2. PICK m \in 0..Len(a) :
            /\ m <= Len(b)
            /\ \A k \in 1..m : a[k] = b[k]
            /\ \/ m = Len(a) /\ m < Len(b)
               \/ m < Len(a) /\ m < Len(b) /\ a[m + 1] < b[m + 1]
    BY DEF KeyLess
  <1>3. PICK n \in 0..Len(b) :
            /\ n <= Len(c)
            /\ \A k \in 1..n : b[k] = c[k]
            /\ \/ n = Len(b) /\ n < Len(c)
               \/ n < Len(b) /\ n < Len(c) /\ b[n + 1] < c[n + 1]
    BY DEF KeyLess
  <1>3a. m \in Nat /\ m <= Len(a) /\ m <= Len(b)
    BY <1>1, <1>2
  <1>3b. n \in Nat /\ n <= Len(b) /\ n <= Len(c)
    BY <1>1, <1>3
  <1>4. CASE m < n
    <2>1. m + 1 \in 1..n /\ m <= Len(c) /\ m < Len(c)
      BY <1>1, <1>3, <1>4
    <2>2. b[m + 1] = c[m + 1]
      BY <1>3, <2>1
    <2>3. \A k \in 1..m : a[k] = c[k]
      BY <1>1, <1>2, <1>3, <1>4
    <2>4. m = Len(a) \/ (m < Len(a) /\ a[m + 1] < c[m + 1])
      BY <1>2, <2>2
    <2> QED
      BY <2>1, <2>3, <2>4 DEF KeyLess
  <1>5. CASE m = n
    <2>1. m < Len(b) /\ m < Len(c) /\ m <= Len(c)
      BY <1>1, <1>2, <1>3, <1>5
    <2>2. b[m + 1] < c[m + 1]
      BY <1>3, <1>5, <2>1
    <2>3. \A k \in 1..m : a[k] = c[k]
      BY <1>2, <1>3, <1>5
    <2>4. m = Len(a) \/ (m < Len(a) /\ a[m + 1] < c[m + 1])
      <3>1. CASE m < Len(a)
        <4>1. m + 1 \in 1..Len(a) /\ m + 1 \in 1..Len(b) /\ m + 1 \in 1..Len(c)
          BY <1>1, <2>1, <3>1
        <4>2. a[m + 1] \in Int /\ b[m + 1] \in Int /\ c[m + 1] \in Int
          BY <4>1
        <4> QED
          BY <1>2, <2>2, <3>1, <4>2
      <3> QED
        BY <1>2, <3>1
    <2> QED
      BY <2>1, <2>3, <2>4 DEF KeyLess
  <1>6. CASE n < m
    <2>1. n \in 0..Len(a) /\ n < Len(a) /\ n < Len(b) /\ n <= Len(c)
      BY <1>1, <1>3a, <1>3b, <1>6
    <2>2. n < Len(c) /\ b[n + 1] < c[n + 1]
      BY <1>3, <2>1
    <2>3. n + 1 \in 1..m
      BY <1>6
    <2>4. a[n + 1] = b[n + 1]
      BY <1>2, <2>3
    <2>5. \A k \in 1..n : a[k] = c[k]
      BY <1>2, <1>3, <1>6
    <2> QED
      BY <2>1, <2>2, <2>4, <2>5 DEF KeyLess
  <1> QED
    BY <1>4, <1>5, <1>6

-----------------------------------------------------------------------------
(* The operation with the least key.                                       *)

\* Keys of a plan.
LEMMA KeysOfPlan ==
    ASSUME Laid(ops), KeysFit(ops), NEW i \in Ops, NEW j \in Ops
    PROVE  /\ KeyOf(i) \in Seq(Int)
           /\ i # j => KeyOf(i) # KeyOf(j)
           /\ i # j => KeyLess(KeyOf(i), KeyOf(j)) \/ KeyLess(KeyOf(j), KeyOf(i))
           /\ ~KeyLess(KeyOf(i), KeyOf(i))
           /\ KeyLess(KeyOf(i), KeyOf(j)) => ~KeyLess(KeyOf(j), KeyOf(i))
  <1>1. /\ KeyOf(i) \in Seq(Int) /\ KeyOf(j) \in Seq(Int)
        /\ i # j => KeyOf(i) # KeyOf(j)
    BY DEF KeysFit, KeyOf, Ops
  <1>2. i # j => KeyLess(KeyOf(i), KeyOf(j)) \/ KeyLess(KeyOf(j), KeyOf(i))
    BY <1>1, KeysTotal
  <1>3. ~KeyLess(KeyOf(i), KeyOf(i))
    BY <1>1, KeysIrreflexive
  <1>4. KeyLess(KeyOf(i), KeyOf(j)) => ~KeyLess(KeyOf(j), KeyOf(i))
    BY <1>1, <1>3, KeysTransitive
  <1> QED
    BY <1>1, <1>2, <1>3, <1>4

\* Counting the operations with smaller keys finds one that has none.
LEMMA LeastKey ==
    ASSUME TypeOK, Laid(ops), KeysFit(ops), NEW S \in SUBSET Ops, S # {}
    PROVE  \E m \in S : \A x \in S \ {m} : KeyLess(KeyOf(m), KeyOf(x))
  <1> DEFINE Under(x) == {y \in S : KeyLess(KeyOf(y), KeyOf(x))}
             Counts == {Cardinality(Under(x)) : x \in S}
  <1>1. \A x \in S : IsFiniteSet(Under(x)) /\ Cardinality(Under(x)) \in Nat
    BY OpsFinite
  <1>2. PICK k \in Counts : \A j \in Counts : k <= j
    <2>1. Counts \in SUBSET Nat /\ Counts # {}
      BY <1>1
    <2> HIDE DEF Counts
    <2> QED
      BY <2>1, LeastOf
  <1>3. PICK m \in S : k = Cardinality(Under(m))
    OBVIOUS
  <1>4. \A x \in S : Cardinality(Under(m)) <= Cardinality(Under(x))
    BY <1>2, <1>3
  <1>5. ASSUME NEW x \in S \ {m}
        PROVE  KeyLess(KeyOf(m), KeyOf(x))
    <2>1. SUFFICES ASSUME KeyLess(KeyOf(x), KeyOf(m)) PROVE FALSE
      BY KeysOfPlan
    <2>2. \A y \in Under(x) : y \in Under(m)
      BY <2>1, KeysOfPlan, KeysTransitive
    <2>3. x \in Under(m) /\ x \notin Under(x)
      BY <2>1, KeysOfPlan
    <2>4. Under(x) \subseteq Under(m) /\ Under(x) # Under(m)
      BY <2>2, <2>3
    <2>5. Cardinality(Under(x)) < Cardinality(Under(m))
      <3> HIDE DEF Under
      <3> QED
        BY <1>1, <2>4, FS_Subset
    <2> HIDE DEF Under
    <2> QED
      BY <1>1, <1>4, <2>5
  <1> QED
    BY <1>5

\* It waits for nothing: an edge would come from an operation with a smaller key.
LEMMA LeastIsReady ==
    ASSUME IInv, Laid(ops), KeysFit(ops), Forward, InKeyOrder, pc = "emit",
           NEW m \in Ops \ Emitted,
           \A x \in (Ops \ Emitted) \ {m} : KeyLess(KeyOf(m), KeyOf(x))
    PROVE  m \in Ready
  <1>1. TypeOK /\ indeg[m] = Cardinality(Unemitted(m))
    BY DEF IInv, IndegCounts
  <1>2. ASSUME NEW p \in Unemitted(m) PROVE FALSE
    <2>1. p \in Ops \ Emitted /\ <<p, m>> \in derived
      BY DEF Unemitted, InKeyOrder
    <2>2. KeyLess(KeyOf(<<p, m>>[1]), KeyOf(<<p, m>>[2]))
      BY <2>1 DEF Forward
    <2>3. KeyLess(KeyOf(p), KeyOf(m))
      BY <2>2
    <2> QED
      BY <2>1, <2>3, KeysOfPlan
  <1>3. indeg[m] = 0
    BY <1>1, <1>2, FS_EmptySet
  <1> QED
    BY <1>3 DEF Ready

\* Affinity does not pass it over: it lies between the operation emitted last
\* and any other that is left.
LEMMA LeastIsBest ==
    ASSUME IInv, Laid(ops), KeysFit(ops), Forward, InKeyOrder, pc = "emit", NEW i \in Ops, Best(i)
    PROVE  \A x \in (Ops \ Emitted) \ {i} : KeyLess(KeyOf(i), KeyOf(x))
  <1>1. TypeOK /\ i \in Ready /\ i \in Ops \ Emitted
    BY DEF IInv, Best, Ready
  <1>2. PICK m \in Ops \ Emitted :
            \A x \in (Ops \ Emitted) \ {m} : KeyLess(KeyOf(m), KeyOf(x))
    <2> DEFINE S == Ops \ Emitted
    <2>1. S \in SUBSET Ops /\ S # {}
      BY <1>1
    <2> HIDE DEF S
    <2>2. \E m \in S : \A x \in S \ {m} : KeyLess(KeyOf(m), KeyOf(x))
      BY <1>1, <2>1, LeastKey
    <2> QED
      BY <2>2 DEF S
  <1>3. m \in Ready
    BY <1>2, LeastIsReady
  <1>4. SUFFICES ASSUME i # m PROVE FALSE
    BY <1>2
  <1>5. Better(i, m)
    BY <1>3, <1>4 DEF Best
  <1>6. KeyLess(KeyOf(m), KeyOf(i)) /\ ~KeyLess(KeyOf(i), KeyOf(m)) /\ KeyOf(i) # KeyOf(m)
    BY <1>1, <1>2, <1>4, KeysOfPlan
  <1>7. Affinity(ops[i].secs, Stack) > Affinity(ops[m].secs, Stack)
    BY <1>5, <1>6 DEF Better, KeyOf
  <1>8. CASE out = <<>>
    <2>1. \A x \in Ops : Affinity(ops[x].secs, Stack) = 0
      <3> SUFFICES ASSUME NEW x \in Ops PROVE Affinity(ops[x].secs, <<>>) = 0
        BY <1>8 DEF Stack
      <3>1. Len(<<>>) = 0 /\ \A n \in 1..Len(ops[x].secs) : ~(n <= 0)
        OBVIOUS
      <3>2. {n \in 1..Len(ops[x].secs) :
                n <= Len(<<>>) /\ SubSeq(ops[x].secs, 1, n) = SubSeq(<<>>, 1, n)} = {}
        BY <3>1
      <3> QED
        BY <3>2, FS_EmptySet DEF Affinity
    <2>2. Affinity(ops[i].secs, Stack) = 0 /\ Affinity(ops[m].secs, Stack) = 0
      BY <2>1
    <2> QED
      BY <1>7, <2>2
  <1>9. CASE out # <<>>
    <2> DEFINE s == out[Len(out)]
    <2>1. /\ out \in Seq(Ops) /\ Len(out) \in DOMAIN out /\ s \in Ops
          /\ Stack = ops[s].secs
      BY <1>1, <1>9 DEF TypeOK, Stack, Last
    <2>2. KeyLess(KeyOf(s), KeyOf(m))
      BY <2>1 DEF InKeyOrder
    <2>3. Affinity(ops[i].secs, ops[s].secs) <= Affinity(ops[m].secs, ops[s].secs)
      BY <1>6, <2>1, <2>2 DEF KeysFit, KeyOf, Ops
    <2>4. Affinity(ops[i].secs, Stack) <= Affinity(ops[m].secs, Stack)
      BY <2>1, <2>3
    <2>5. Affinity(ops[i].secs, Stack) \in Nat /\ Affinity(ops[m].secs, Stack) \in Nat
      BY AffinityNat
    <2> QED
      BY <1>7, <2>4, <2>5
  <1> QED
    BY <1>8, <1>9

-----------------------------------------------------------------------------
(* The schedule.                                                           *)

\* The operation emitted joins the order at its end.
LEMMA EmitInKeyOrder ==
    ASSUME IInv, Laid(ops), KeysFit(ops), Forward, InKeyOrder, NEW i \in Ops, Emit(i)
    PROVE  InKeyOrder'
  <1>1. /\ pc = "emit" /\ Best(i) /\ out' = Append(out, i)
        /\ UNCHANGED <<ops, derived, edges, pc>> /\ Ops' = Ops
    BY DEF Emit, Ops
  <1>2. /\ out \in Seq(Ops) /\ Len(out) \in Nat /\ DOMAIN out = 1..Len(out)
        /\ DOMAIN out' = 1..(Len(out) + 1)
        /\ \A k \in 1..Len(out) : out'[k] = out[k]
        /\ out'[Len(out) + 1] = i
        /\ Emitted' = Emitted \cup {i}
    BY <1>1, AppendRange DEF IInv, TypeOK, Emitted
  <1>3. i \in Ops \ Emitted
    BY <1>1 DEF Best, Ready
  <1>4. \A x \in (Ops \ Emitted) \ {i} : KeyLess(KeyOf(i), KeyOf(x))
    BY <1>1, LeastIsBest
  <1>5. \A x : KeyOf(x)' = KeyOf(x)
    BY <1>1 DEF KeyOf
  <1>6. ASSUME NEW m \in DOMAIN out', NEW n \in DOMAIN out', m < n
        PROVE  KeyLess(KeyOf(out'[m]), KeyOf(out'[n]))
    <2>1. m \in DOMAIN out /\ out'[m] = out[m]
      BY <1>2, <1>6
    <2>2. CASE n \in DOMAIN out
      BY <1>2, <1>6, <2>1, <2>2 DEF InKeyOrder
    <2>3. CASE n = Len(out) + 1
      BY <1>2, <1>3, <2>1, <2>3 DEF InKeyOrder
    <2> QED
      BY <1>2, <2>2, <2>3
  <1>7. ASSUME NEW m \in DOMAIN out', NEW x \in Ops \ (Emitted \cup {i})
        PROVE  KeyLess(KeyOf(out'[m]), KeyOf(x))
    <2>1. CASE m \in DOMAIN out
      BY <1>2, <2>1 DEF InKeyOrder
    <2>2. CASE m = Len(out) + 1
      BY <1>2, <1>4, <2>2
    <2> QED
      BY <1>2, <2>1, <2>2
  <1>8. edges' = derived' /\ pc' # "walk"
    BY <1>1 DEF InKeyOrder
  <1> QED
    BY <1>1, <1>2, <1>5, <1>6, <1>7, <1>8 DEF InKeyOrder, KeyOf

\* There is always something to emit.
LEMMA NeverStalls ==
    ASSUME IInv, Laid(ops), KeysFit(ops), Forward, InKeyOrder, NEW i \in Ops
    PROVE  ~Stall(i)
  <1> SUFFICES ASSUME Stall(i) PROVE FALSE
    OBVIOUS
  <1>1. TypeOK /\ pc = "emit" /\ Emitted # Ops /\ Ready = {}
    <2>1. Len(out) < Len(ops) /\ Len(out) \in Nat /\ Len(ops) \in Nat
      BY DEF Stall, IInv, TypeOK
    <2> QED
      BY <2>1, CountIsAll DEF Stall, IInv
  <1> DEFINE S == Ops \ Emitted
  <1>2. S \in SUBSET Ops /\ S # {}
    BY <1>1 DEF TypeOK, Emitted, ToSet
  <1>3. \E m \in S : \A x \in S \ {m} : KeyLess(KeyOf(m), KeyOf(x))
    <2> HIDE DEF S
    <2> QED
      BY <1>1, <1>2, LeastKey
  <1> QED
    BY <1>1, <1>3, LeastIsReady

LEMMA NextKInv == IInv /\ KInv /\ [Next]_vars => KInv'
  <1> SUFFICES ASSUME IInv, KInv, [Next]_vars PROVE KInv'
    OBVIOUS
  <1>1. UNCHANGED <<ops, derived>>
    BY DEF Next, Emit, Stall, ExtendWalk, AbortOnCycle, BreakOnCycle, Finish, Returned, vars
  <1>2. Laid(ops)' /\ KeysFit(ops)' /\ Ops' = Ops /\ (Forward' <=> Forward)
    BY <1>1 DEF KInv, Ops, Forward, KeyOf
  <1> SUFFICES ASSUME Forward PROVE InKeyOrder'
    BY <1>2 DEF KInv
  <1>3. InKeyOrder /\ Laid(ops) /\ KeysFit(ops)
    BY DEF KInv
  <1>4. CASE \E i \in Ops : Emit(i)
    BY <1>3, <1>4, EmitInKeyOrder
  <1>5. CASE \E i \in Ops : Stall(i)
    BY <1>3, <1>5, NeverStalls
  <1>6. CASE \E i \in Ops : ExtendWalk(i) \/ AbortOnCycle(i) \/ BreakOnCycle(i)
    BY <1>3, <1>6 DEF InKeyOrder, ExtendWalk, AbortOnCycle, BreakOnCycle
  <1>7. CASE Finish \/ UNCHANGED vars
    <2>1. UNCHANGED <<ops, derived, edges, out>> /\ pc' # "walk"
      BY <1>3, <1>7 DEF Finish, vars, InKeyOrder
    <2> QED
      BY <1>3, <2>1 DEF InKeyOrder, KeyOf, Ops, Emitted
  <1> QED
    BY <1>4, <1>5, <1>6, <1>7 DEF Next, Returned

\* If no edge goes against the keys, the plan comes in the order of the keys,
\* which is the order of the declarations.
THEOREM DeclarationOrder == Spec => []DeclarationOrderKept
  <1>1. Init => KInv
    BY LayoutsAssumption, KeysAssumption DEF Init, KInv, InKeyOrder
  <1>2. IInv /\ KInv => DeclarationOrderKept
    <2> SUFFICES ASSUME IInv, KInv, Forward, NEW m \in 1..(Len(out) - 1)
                 PROVE  KeyLess(ops[out[m]].key, ops[out[m + 1]].key)
      BY DEF DeclarationOrderKept, Forward, KeyOf
    <2>1. m \in DOMAIN out /\ m + 1 \in DOMAIN out /\ m < m + 1
      BY DEF IInv, TypeOK
    <2> QED
      BY <2>1 DEF KInv, InKeyOrder, KeyOf
  <1> QED
    BY <1>1, <1>2, InitIInv, NextIInv, NextKInv, PTL DEF Spec
=============================================================================
