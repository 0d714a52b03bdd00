--------------------------- MODULE DeviceProofs ---------------------------
(***************************************************************************)
(* What Diff and the device that runs its plan do, for every schema and    *)
(* every pair of configurations.                                           *)
(*                                                                         *)
(* TypeInv says what every step needs: the worklist names nodes of the     *)
(* two trees, an operation's sections are such nodes, an artifact entry    *)
(* closes and opens the difference to the entry before it, and the         *)
(* session stands where the last executed entry left it.  With it,         *)
(* closing to the shared sections and opening the others puts every        *)
(* operation into its own section (OperationsInTheirSection).              *)
(*                                                                         *)
(* The last theorem is about equal configurations (Alike).  Two lines of   *)
(* such a pair are one object exactly when they stand in one slot (twins), *)
(* and the worklist then holds nothing but pairs of twins (Quiet), so no   *)
(* step finds anything to do.                                              *)
(***************************************************************************)
EXTENDS Device, FiniteSetTheorems, SequenceTheorems, WellFoundedInduction, TLAPS

-----------------------------------------------------------------------------
(* Induction, over the numbers of a set.                                   *)

\* A set of numbers that is not empty has a least one.
LEMMA LeastOf ==
    ASSUME NEW S \in SUBSET Nat, S # {}
    PROVE  \E k \in S : \A j \in S : k <= j
  <1> DEFINE Less == {ss \in Nat \X Nat : ss[1] < ss[2]}
  <1>1. IsWellFoundedOn(Less, Nat)
    BY NatLessThanWellFounded DEF OpToRel
  <1>2. \E k \in S : \A j \in S : <<j, k>> \notin Less
    <2> HIDE DEF Less
    <2> QED
      BY <1>1, WFMin
  <1>3. PICK k \in S : \A j \in S : <<j, k>> \notin Less
    BY <1>2
  <1>4. ASSUME NEW j \in S PROVE k <= j
    <2>1. <<j, k>> \in Nat \X Nat /\ ~(<<j, k>>[1] < <<j, k>>[2])
      BY <1>3
    <2> QED
      BY <2>1
  <1> QED
    BY <1>4

\* A set with 0 that has the successor of each of its numbers below m.
LEMMA UpToInduction ==
    ASSUME NEW m \in Nat, NEW T,
           0 \in T, \A n \in 0..(m - 1) : n \in T => n + 1 \in T
    PROVE  \A n \in 0..m : n \in T
  <1> DEFINE Missing == {n \in 0..m : n \notin T}
  <1>1. SUFFICES ASSUME Missing # {} PROVE FALSE
    OBVIOUS
  <1>2. Missing \in SUBSET Nat
    OBVIOUS
  <1>3. PICK k \in Missing : \A j \in Missing : k <= j
    <2> HIDE DEF Missing
    <2> QED
      BY <1>1, <1>2, LeastOf
  <1>4. k # 0 /\ k \in 0..m
    OBVIOUS
  <1>5. k - 1 \in 0..(m - 1) /\ k - 1 \notin Missing
    BY <1>3, <1>4
  <1>6. k - 1 \in T
    BY <1>5
  <1>7. (k - 1) + 1 \in T
    BY <1>5, <1>6
  <1> QED
    BY <1>4, <1>7

-----------------------------------------------------------------------------
(* The loop that skips.                                                    *)

\* What Only has collected after n elements.
OnlyStep(F, s, S, n) ==
    IF n = 0 THEN <<>>
    ELSE IF s[n] \in S THEN Append(F[n - 1], s[n]) ELSE F[n - 1]

\* A table of it exists for every sequence.
LEMMA OnlyTable ==
    ASSUME NEW X, NEW s \in Seq(X), NEW S
    PROVE  \E F : F = [n \in 0..Len(s) |-> OnlyStep(F, s, S, n)]
  <1> DEFINE Table(m) == \E F : F = [n \in 0..m |-> OnlyStep(F, s, S, n)]
             T == {m \in Nat : Table(m)}
  <1>1. 0 \in T
    <2> DEFINE F == [n \in 0..0 |-> <<>>]
    <2>1. F = [n \in 0..0 |-> OnlyStep(F, s, S, n)]
      BY DEF OnlyStep
    <2> QED
      BY <2>1
  <1>2. ASSUME NEW m \in 0..(Len(s) - 1), m \in T PROVE m + 1 \in T
    <2>1. PICK F : F = [n \in 0..m |-> OnlyStep(F, s, S, n)]
      BY <1>2
    <2> DEFINE G == [n \in 0..(m + 1) |-> IF n = m + 1 THEN OnlyStep(F, s, S, m + 1) ELSE F[n]]
    <2>2. m \in Nat
      OBVIOUS
    <2>3. ASSUME NEW n \in 0..(m + 1) PROVE G[n] = OnlyStep(G, s, S, n)
      <3>1. n # 0 => n - 1 \in 0..m /\ G[n - 1] = F[n - 1]
        BY <2>2
      <3>2. n # m + 1 => G[n] = OnlyStep(F, s, S, n)
        BY <2>1, <2>2
      <3>3. G[n] = OnlyStep(F, s, S, n)
        BY <3>2
      <3> HIDE DEF G
      <3> QED
        BY <3>1, <3>3 DEF OnlyStep
    <2>4. G = [n \in 0..(m + 1) |-> OnlyStep(G, s, S, n)]
      <3>1. G = [n \in 0..(m + 1) |-> G[n]]
        OBVIOUS
      <3> HIDE DEF G
      <3> QED
        BY <2>3, <3>1
    <2>5. Table(m + 1)
      <3> HIDE DEF G
      <3> QED
        BY <2>4
    <2> QED
      BY <2>2, <2>5
  <1>3. Len(s) \in Nat
    OBVIOUS
  <1>4. \A m \in 0..Len(s) : m \in T
    <2> HIDE DEF T
    <2> QED
      BY <1>1, <1>2, <1>3, UpToInduction
  <1> QED
    BY <1>3, <1>4

\* And Only is its last entry.
LEMMA OnlyRuns ==
    ASSUME NEW X, NEW s \in Seq(X), NEW S
    PROVE  \E F : /\ Only(s, S) = F[Len(s)]
                  /\ F[0] = <<>>
                  /\ \A n \in 1..Len(s) :
                        F[n] = IF s[n] \in S THEN Append(F[n - 1], s[n]) ELSE F[n - 1]
  <1> DEFINE F == CHOOSE F : F = [n \in 0..Len(s) |-> OnlyStep(F, s, S, n)]
  <1>1. F = [n \in 0..Len(s) |-> OnlyStep(F, s, S, n)]
    BY OnlyTable
  <1>2. Only(s, S) = F[Len(s)]
    BY DEF Only, OnlyStep
  <1> HIDE DEF F
  <1>3. F[0] = <<>>
    BY <1>1 DEF OnlyStep
  <1>4. ASSUME NEW n \in 1..Len(s)
        PROVE  F[n] = IF s[n] \in S THEN Append(F[n - 1], s[n]) ELSE F[n - 1]
    <2>1. n \in 0..Len(s) /\ n # 0
      OBVIOUS
    <2> QED
      BY <1>1, <2>1 DEF OnlyStep
  <1> QED
    BY <1>2, <1>3, <1>4

\* The elements taken are those in S.
LEMMA OnlyElements ==
    ASSUME NEW X, NEW s \in Seq(X), NEW S
    PROVE  /\ Only(s, S) \in Seq(X)
           /\ ToSet(Only(s, S)) = ToSet(s) \cap S
  <1>1. PICK F : /\ Only(s, S) = F[Len(s)]
                 /\ F[0] = <<>>
                 /\ \A n \in 1..Len(s) :
                        F[n] = IF s[n] \in S THEN Append(F[n - 1], s[n]) ELSE F[n - 1]
    BY OnlyRuns
  <1> DEFINE Members(f) == {f[k] : k \in DOMAIN f}
             First(n) == {s[k] : k \in 1..n}
             T == {n \in Nat : F[n] \in Seq(X) /\ Members(F[n]) = First(n) \cap S}
  <1>2. Len(s) \in Nat
    OBVIOUS
  <1>3. 0 \in T
    <2>1. Members(<<>>) = {} /\ First(0) = {} /\ <<>> \in Seq(X)
      OBVIOUS
    <2> QED
      BY <1>1, <2>1
  <1>4. ASSUME NEW n \in 0..(Len(s) - 1), n \in T PROVE n + 1 \in T
    <2>1. n + 1 \in 1..Len(s) /\ (n + 1) - 1 = n /\ n + 1 \in Nat
      BY <1>2
    <2>2. F[n] \in Seq(X) /\ Members(F[n]) = First(n) \cap S
      BY <1>4
    <2>3. First(n + 1) = First(n) \cup {s[n + 1]}
      BY <1>2
    <2>4. s[n + 1] \in X
      BY <2>1
    <2>5. CASE s[n + 1] \in S
      <3>1. F[n + 1] = Append(F[n], s[n + 1])
        BY <1>1, <2>1, <2>5
      <3>2. Append(F[n], s[n + 1]) \in Seq(X)
        BY <2>2, <2>4
      <3>3. Members(Append(F[n], s[n + 1])) = Members(F[n]) \cup {s[n + 1]}
        <4> DEFINE a == Append(F[n], s[n + 1])
        <4>1. /\ DOMAIN a = 1..(Len(F[n]) + 1) /\ DOMAIN F[n] = 1..Len(F[n])
              /\ Len(F[n]) \in Nat
              /\ \A k \in 1..Len(F[n]) : a[k] = F[n][k]
              /\ a[Len(F[n]) + 1] = s[n + 1]
          BY <2>2, <2>4
        <4> HIDE DEF a
        <4> QED
          BY <4>1
      <3>4. F[n + 1] \in Seq(X)
        BY <3>1, <3>2
      <3>5. Members(F[n + 1]) = First(n + 1) \cap S
        <4> HIDE DEF Members, First
        <4> QED
          BY <2>2, <2>3, <2>5, <3>1, <3>3
      <3> QED
        BY <2>1, <3>4, <3>5
    <2>6. CASE s[n + 1] \notin S
      <3>1. F[n + 1] = F[n]
        BY <1>1, <2>1, <2>6
      <3>2. Members(F[n + 1]) = First(n + 1) \cap S
        <4> HIDE DEF Members, First
        <4> QED
          BY <2>2, <2>3, <2>6, <3>1
      <3> QED
        BY <2>1, <2>2, <3>1, <3>2
    <2> QED
      BY <2>5, <2>6
  <1>5. Len(s) \in T
    <2>1. \A n \in 0..Len(s) : n \in T
      <3> HIDE DEF T
      <3> QED
        BY <1>2, <1>3, <1>4, UpToInduction
    <2>2. Len(s) \in 0..Len(s)
      BY <1>2
    <2> HIDE DEF T
    <2> QED
      BY <2>1, <2>2
  <1>6. Members(s) = First(Len(s))
    OBVIOUS
  <1> QED
    BY <1>1, <1>5, <1>6 DEF ToSet

\* Nothing is skipped.
LEMMA OnlyAll ==
    ASSUME NEW X, NEW s \in Seq(X), NEW S, ToSet(s) \subseteq S
    PROVE  Only(s, S) = s
  <1>1. PICK F : /\ Only(s, S) = F[Len(s)]
                 /\ F[0] = <<>>
                 /\ \A n \in 1..Len(s) :
                        F[n] = IF s[n] \in S THEN Append(F[n - 1], s[n]) ELSE F[n - 1]
    BY OnlyRuns
  <1> DEFINE T == {n \in Nat : F[n] = SubSeq(s, 1, n)}
  <1>2. Len(s) \in Nat
    OBVIOUS
  <1>3. 0 \in T
    <2>1. SubSeq(s, 1, 0) = <<>>
      BY SubSeqEmpty
    <2> QED
      BY <1>1, <2>1
  <1>4. ASSUME NEW n \in 0..(Len(s) - 1), n \in T PROVE n + 1 \in T
    <2>1. n + 1 \in 1..Len(s) /\ (n + 1) - 1 = n /\ n + 1 \in Nat
      BY <1>2
    <2>2. s[n + 1] \in S /\ s[n + 1] \in X
      BY <2>1 DEF ToSet
    <2>3. F[n + 1] = Append(SubSeq(s, 1, n), s[n + 1])
      BY <1>1, <1>4, <2>1, <2>2
    <2>4. Append(SubSeq(s, 1, n), s[n + 1]) = SubSeq(s, 1, n + 1)
      BY <1>2, <2>1, <2>2, SubSeqRecursiveSecond
    <2> QED
      BY <2>1, <2>3, <2>4
  <1>5. Len(s) \in T
    <2>1. \A n \in 0..Len(s) : n \in T
      <3> HIDE DEF T
      <3> QED
        BY <1>2, <1>3, <1>4, UpToInduction
    <2> QED
      BY <1>2, <2>1
  <1> QED
    BY <1>1, <1>5

\* Nothing is taken.
LEMMA OnlyNone ==
    ASSUME NEW X, NEW s \in Seq(X), NEW S, ToSet(s) \cap S = {}
    PROVE  Only(s, S) = <<>>
  <1>1. Only(s, S) \in Seq(X) /\ ToSet(Only(s, S)) = {}
    BY OnlyElements
  <1>2. DOMAIN Only(s, S) = 1..Len(Only(s, S)) /\ Len(Only(s, S)) \in Nat
    BY <1>1
  <1>3. Len(Only(s, S)) = 0
    <2>1. SUFFICES ASSUME Len(Only(s, S)) # 0 PROVE FALSE
      OBVIOUS
    <2>2. 1 \in DOMAIN Only(s, S)
      BY <1>2, <2>1
    <2> QED
      BY <1>1, <2>2 DEF ToSet
  <1> QED
    BY <1>1, <1>3, EmptySeq

\* Exactly one element is taken.
LEMMA OnlyOne ==
    ASSUME NEW X, NEW s \in Seq(X), NEW S,
           NEW p \in DOMAIN s, \A k \in DOMAIN s : s[k] \in S <=> k = p
    PROVE  Only(s, S) = <<s[p]>>
  <1>1. PICK F : /\ Only(s, S) = F[Len(s)]
                 /\ F[0] = <<>>
                 /\ \A n \in 1..Len(s) :
                        F[n] = IF s[n] \in S THEN Append(F[n - 1], s[n]) ELSE F[n - 1]
    BY OnlyRuns
  <1> DEFINE T == {n \in Nat : F[n] = IF n < p THEN <<>> ELSE <<s[p]>>}
  <1>2. Len(s) \in Nat /\ DOMAIN s = 1..Len(s) /\ p \in 1..Len(s)
    OBVIOUS
  <1>3. 0 \in T
    BY <1>1, <1>2
  <1>4. ASSUME NEW n \in 0..(Len(s) - 1), n \in T PROVE n + 1 \in T
    <2>1. n + 1 \in 1..Len(s) /\ (n + 1) - 1 = n /\ n + 1 \in Nat
      BY <1>2
    <2>2. F[n] = IF n < p THEN <<>> ELSE <<s[p]>>
      BY <1>4
    <2>3. CASE n + 1 = p
      <3>1. F[n] = <<>> /\ s[n + 1] \in S
        BY <1>2, <2>1, <2>2, <2>3
      <3>2. F[n + 1] = Append(<<>>, s[p])
        BY <1>1, <2>1, <2>3, <3>1
      <3>3. Append(<<>>, s[p]) = <<s[p]>> /\ ~(n + 1 < p)
        BY <1>2, <2>3
      <3> QED
        BY <2>1, <3>2, <3>3
    <2>4. CASE n + 1 # p
      <3>1. F[n + 1] = F[n]
        BY <1>1, <1>2, <2>1, <2>4
      <3>2. (n + 1 < p) <=> (n < p)
        BY <1>2, <2>1, <2>4
      <3> QED
        BY <2>1, <2>2, <3>1, <3>2
    <2> QED
      BY <2>3, <2>4
  <1>5. Len(s) \in T
    <2>1. \A n \in 0..Len(s) : n \in T
      <3> HIDE DEF T
      <3> QED
        BY <1>2, <1>3, <1>4, UpToInduction
    <2> QED
      BY <1>2, <2>1
  <1>6. ~(Len(s) < p)
    BY <1>2
  <1> QED
    BY <1>1, <1>5, <1>6

-----------------------------------------------------------------------------
(* What the variables of Diff hold.                                        *)

\* A sequence, whatever its elements are.
IsSeq(s) == s \in Seq(ToSet(s))

\* What a sequence over a set is.
LEMMA SeqIsSeq ==
    ASSUME NEW X, NEW s \in Seq(X)
    PROVE  /\ IsSeq(s) /\ ToSet(s) \subseteq X
           /\ Len(s) \in Nat /\ DOMAIN s = 1..Len(s)
           /\ \A k \in DOMAIN s : s[k] \in X
  <1>1. Len(s) \in Nat /\ DOMAIN s = 1..Len(s) /\ \A k \in DOMAIN s : s[k] \in X
    OBVIOUS
  <1>2. ToSet(s) \subseteq X /\ \A k \in DOMAIN s : s[k] \in ToSet(s)
    BY <1>1 DEF ToSet
  <1>3. s = [k \in 1..Len(s) |-> s[k]]
    OBVIOUS
  <1>4. s \in Seq(ToSet(s))
    BY <1>1, <1>2, <1>3, IsASeq
  <1> QED
    BY <1>1, <1>2, <1>4 DEF IsSeq

\* One element more.
LEMMA IsSeqAppend ==
    ASSUME NEW s, IsSeq(s), NEW x
    PROVE  /\ IsSeq(Append(s, x)) /\ Len(s) \in Nat /\ DOMAIN s = 1..Len(s)
           /\ Len(Append(s, x)) = Len(s) + 1 /\ DOMAIN Append(s, x) = 1..(Len(s) + 1)
           /\ \A k \in 1..Len(s) : Append(s, x)[k] = s[k]
           /\ Append(s, x)[Len(s) + 1] = x
  <1> DEFINE X == ToSet(s) \cup {x}
  <1>1. s \in Seq(X) /\ x \in X
    <2>1. s \in Seq(ToSet(s)) /\ ToSet(s) \subseteq X
      BY DEF IsSeq
    <2> HIDE DEF X
    <2>2. s \in Seq(X)
      BY <2>1, SeqMonotonic
    <2> QED
      BY <2>2 DEF X
  <1> HIDE DEF X
  <1>2. Append(s, x) \in Seq(X)
    BY <1>1
  <1>3. IsSeq(Append(s, x))
    BY <1>2, SeqIsSeq
  <1> QED
    BY <1>1, <1>3

-----------------------------------------------------------------------------
(* The trees.                                                              *)

Sides == {"run", "int"}

InputsOK ==
    /\ Configuration(running) /\ Configuration(intended) /\ Configuration(baseline)
    /\ cycle \in {"Abort", "Break"}

\* The lines of a side, and the places that have children.
Nodes(side) == {<<side, p>> : p \in DOMAIN Conf(side)}
Places(side) == {<<side, p>> : p \in DOMAIN Conf(side) \cup {<<>>}}

\* Children are lines, numbered from 1.
LEMMA KidsAreNodes ==
    ASSUME InputsOK, NEW side \in Sides, NEW h \in Places(side)
    PROVE  /\ KidsOf(h) \in Seq(Nodes(side))
           /\ \A k \in DOMAIN KidsOf(h) : KidsOf(h)[k] = <<side, Append(h[2], k)>>
           /\ h[1] = side /\ h[2] \in DOMAIN Conf(side) \cup {<<>>} /\ h[2] \in Seq(Nat)
           /\ \A q \in DOMAIN Conf(side) : IsChild(h[2], q) =>
                \E k \in DOMAIN KidsOf(h) : q = Append(h[2], k)
           /\ \A k \in DOMAIN KidsOf(h) : IsChild(h[2], Append(h[2], k))
  <1> DEFINE c == Conf(side)
             p == h[2]
             C == {q \in DOMAIN c : IsChild(p, q)}
  <1>1. Configuration(c)
    BY DEF InputsOK, Conf
  <1>2. h = <<side, p>> /\ h[1] = side /\ p \in DOMAIN c \cup {<<>>}
    BY DEF Places
  <1> HIDE DEF c
  <1>3. IsFiniteSet(DOMAIN c) /\ DOMAIN c \subseteq Seq(Nat) /\ C = ToSet(Kids(c, p))
    BY <1>1, <1>2 DEF Configuration
  <1>4. p \in Seq(Nat)
    <2>1. <<>> \in Seq(Nat) /\ DOMAIN c \subseteq Seq(Nat)
      BY <1>3
    <2> QED
      BY <1>2, <2>1
  <1>5. Cardinality(C) \in Nat
    <2>1. C \subseteq DOMAIN c
      OBVIOUS
    <2> HIDE DEF C
    <2> QED
      BY <1>3, <2>1, FS_Subset, FS_CardinalityType
  <1>6. /\ Kids(c, p) = [k \in 1..Cardinality(C) |-> Append(p, k)]
        /\ DOMAIN Kids(c, p) = 1..Cardinality(C)
    BY DEF Kids
  <1>7. KidsOf(h) = [k \in 1..Cardinality(C) |-> <<side, Append(p, k)>>]
    <2>1. KidsOf(h) = [k \in DOMAIN Kids(c, p) |-> <<side, Kids(c, p)[k]>>]
      BY <1>2 DEF KidsOf, c
    <2> HIDE DEF C
    <2> QED
      BY <1>6, <2>1
  <1>8. \A k \in 1..Cardinality(C) : Append(p, k) \in C
    <2>1. \A k \in DOMAIN Kids(c, p) : Kids(c, p)[k] \in C
      BY <1>3 DEF ToSet
    <2> HIDE DEF C
    <2> QED
      BY <1>6, <2>1
  <1>9. \A k \in 1..Cardinality(C) : <<side, Append(p, k)>> \in Nodes(side)
    BY <1>8 DEF Nodes, c
  <1>10. KidsOf(h) \in Seq(Nodes(side))
    <2> HIDE DEF C
    <2> QED
      BY <1>5, <1>7, <1>9, IsASeq
  <1>11. \A q \in C : \E k \in 1..Cardinality(C) : q = Append(p, k)
    BY <1>3, <1>6 DEF ToSet
  <1>12. DOMAIN KidsOf(h) = 1..Cardinality(C)
    BY <1>7
  <1> QED
    BY <1>2, <1>4, <1>7, <1>8, <1>10, <1>11, <1>12 DEF c

-----------------------------------------------------------------------------
(* One level of collect.                                                   *)

MaybeRun == Nodes("run") \cup {Nil}

Kinds == {"add", "replace", "section", "none", "modify", "delta"}

PairSet == [src : Nodes("int"), run : MaybeRun, cleanup : BOOLEAN]

IntentSet == {i \in [src : Nodes("int"), run : MaybeRun, kind : Kinds] :
                i.run = Nil <=> i.kind = "add"}

\* Nil is no line.
LEMMA NilIsNoNode == Nil \notin Nodes("run") /\ Nil \notin Nodes("int")
  <1>1. "nil" # "run" /\ "nil" # "int"
    OBVIOUS
  <1> QED
    BY <1>1 DEF Nil, Nodes

\* The first of a sequence that has one.
LEMMA FirstElement ==
    ASSUME NEW X, NEW s \in Seq(X), s # <<>>
    PROVE  1 \in DOMAIN s /\ s[1] \in ToSet(s)
  <1>1. Len(s) \in Nat /\ Len(s) # 0 /\ DOMAIN s = 1..Len(s)
    BY EmptySeq
  <1> QED
    BY <1>1 DEF ToSet

\* A line is compared with a line of its group.
LEMMA CounterpartInGroup ==
    ASSUME NEW X, NEW group \in Seq(X), group # <<>>, NEW h
    PROVE  \E r \in ToSet(group), b \in BOOLEAN :
                Counterpart(group, h) = [src |-> h, run |-> r, cleanup |-> b]
  <1> DEFINE S == {n \in ToSet(group) : ~SameValue(Line(n), Line(h))}
             stale == Only(group, S)
  <1>1. stale \in Seq(X) /\ ToSet(stale) = ToSet(group) \cap S
    BY OnlyElements
  <1>2. group[1] \in ToSet(group)
    BY FirstElement
  <1>3. stale # <<>> => stale[1] \in ToSet(group)
    <2> HIDE DEF stale
    <2> QED
      BY <1>1, FirstElement
  <1>4. \/ Counterpart(group, h) = [src |-> h, run |-> stale[1], cleanup |-> TRUE]
              /\ stale # <<>>
        \/ Counterpart(group, h) = [src |-> h, run |-> group[1], cleanup |-> FALSE]
    BY DEF Counterpart
  <1> QED
    BY <1>2, <1>3, <1>4

\* The children of the two sides of a level.
LEMMA LevelKids ==
    ASSUME InputsOK, NEW t, t.src \in Places("int"), t.run \in Places("run")
    PROVE  Intended(t) \in Seq(Nodes("int")) /\ Running(t) \in Seq(Nodes("run"))
  BY KidsAreNodes DEF Intended, Running, Sides

\* Every line pairs with one of its identity, or with nothing.
LEMMA PairOfTyped ==
    ASSUME InputsOK, NEW t, t.src \in Places("int"), t.run \in Places("run"),
           NEW h \in ToSet(Intended(t))
    PROVE  /\ PairOf(t)[h] \in PairSet
           /\ PairOf(t)[h].src = h
           /\ PairOf(t)[h].run # Nil =>
                /\ PairOf(t)[h].run \in ToSet(Running(t))
                /\ Id(PairOf(t)[h].run) = Id(h)
  <1> DEFINE S == {x \in ToSet(Running(t)) : Id(x) = Id(h)}
             group == SameId(Running(t), Id(h))
             p == IF group = <<>> THEN [src |-> h, run |-> Nil, cleanup |-> FALSE]
                  ELSE Counterpart(group, h)
  <1>1. PairOf(t)[h] = p
    BY DEF PairOf
  <1>2. /\ h \in Nodes("int")
        /\ Running(t) \in Seq(Nodes("run"))
        /\ ToSet(Running(t)) \subseteq Nodes("run")
    BY LevelKids, SeqIsSeq
  <1>3. group = Only(Running(t), S)
    BY DEF SameId
  <1>4. group \in Seq(Nodes("run")) /\ ToSet(group) = ToSet(Running(t)) \cap S
    <2> HIDE DEF group, S
    <2> QED
      BY <1>2, <1>3, OnlyElements
  <1>5. CASE group = <<>>
    <2>1. p = [src |-> h, run |-> Nil, cleanup |-> FALSE]
      BY <1>5
    <2> HIDE DEF p
    <2> QED
      BY <1>1, <1>2, <2>1 DEF PairSet, MaybeRun
  <1>6. CASE group # <<>>
    <2>1. PICK r \in ToSet(group), b \in BOOLEAN : p = [src |-> h, run |-> r, cleanup |-> b]
      <3>1. p = Counterpart(group, h)
        BY <1>6
      <3> HIDE DEF p, group
      <3> QED
        BY <1>4, <1>6, <3>1, CounterpartInGroup
    <2>2. r \in ToSet(Running(t)) /\ Id(r) = Id(h)
      <3> HIDE DEF p, group
      <3> QED
        BY <1>4
    <2> HIDE DEF p, group
    <2> QED
      BY <1>1, <1>2, <2>1, <2>2 DEF PairSet, MaybeRun
  <1> QED
    BY <1>5, <1>6

\* The pairs of a level, one for each line that is kept.
LEMMA PairingsTyped ==
    ASSUME InputsOK, NEW t, t.src \in Places("int"), t.run \in Places("run")
    PROVE  /\ Kept(t) \in Seq(Nodes("int")) /\ ToSet(Kept(t)) \subseteq ToSet(Intended(t))
           /\ Pairings(t, Kept(t)) \in Seq(PairSet)
           /\ DOMAIN Pairings(t, Kept(t)) = DOMAIN Kept(t)
           /\ \A k \in DOMAIN Kept(t) :
                /\ Kept(t)[k] \in ToSet(Intended(t))
                /\ Pairings(t, Kept(t))[k] = PairOf(t)[Kept(t)[k]]
  <1> DEFINE S == {h \in ToSet(Intended(t)) : IsFirst(h, Intended(t))}
             kept == Kept(t)
  <1>1. Intended(t) \in Seq(Nodes("int"))
    BY LevelKids
  <1>2. kept = Only(Intended(t), S)
    BY DEF Kept
  <1>3. kept \in Seq(Nodes("int")) /\ ToSet(kept) \subseteq ToSet(Intended(t))
    <2> HIDE DEF kept, S
    <2> QED
      BY <1>1, <1>2, OnlyElements
  <1> HIDE DEF kept
  <1>4. /\ Len(kept) \in Nat /\ DOMAIN kept = 1..Len(kept)
        /\ \A k \in DOMAIN kept : kept[k] \in ToSet(Intended(t))
    <2>1. \A k \in DOMAIN kept : kept[k] \in ToSet(kept)
      BY DEF ToSet
    <2> QED
      BY <1>3, <2>1
  <1>5. Pairings(t, kept) = [k \in 1..Len(kept) |-> PairOf(t)[kept[k]]]
    BY <1>4 DEF Pairings
  <1>6. \A k \in 1..Len(kept) : PairOf(t)[kept[k]] \in PairSet
    BY <1>4, PairOfTyped
  <1>7. Pairings(t, kept) \in Seq(PairSet)
    BY <1>4, <1>5, <1>6, IsASeq
  <1> QED
    BY <1>3, <1>4, <1>5, <1>7 DEF kept

\* How a pair is realised.
LEMMA IntentOfTyped ==
    ASSUME NEW p \in PairSet
    PROVE  IntentOf(p) \in IntentSet
  <1>1. p.src \in Nodes("int") /\ p.run \in MaybeRun
    BY DEF PairSet
  <1>2. CASE p.run = Nil
    <2>1. IntentOf(p) = [src |-> p.src, run |-> Nil, kind |-> "add"]
      BY <1>2 DEF IntentOf
    <2> QED
      BY <1>1, <2>1 DEF IntentSet, MaybeRun, Kinds
  <1>3. CASE p.run # Nil
    <2>1. IntentOf(p) = [src |-> p.src, run |-> p.run, kind |-> PairKind(p.src, p.run)]
      BY <1>3 DEF IntentOf
    <2>2. PairKind(p.src, p.run) \in Kinds \ {"add"}
      <3>1. ListChange(p.src, p.run) \in {"modify", "none", "delta"}
        BY DEF ListChange
      <3> QED
        BY <3>1 DEF PairKind, Kinds
    <2> QED
      BY <1>1, <1>3, <2>1, <2>2 DEF IntentSet
  <1> QED
    BY <1>2, <1>3

\* The intents and removals of a level.
LEMMA IntentsTyped ==
    ASSUME NEW t, t.pairs \in Seq(PairSet)
    PROVE  Intents(t) \in Seq({i \in IntentSet : i.kind # "none"})
  <1> DEFINE all == [k \in DOMAIN t.pairs |-> IntentOf(t.pairs[k])]
             S == {i \in ToSet(all) : i.kind # "none"}
             got == Intents(t)
  <1>1. \A k \in DOMAIN t.pairs : IntentOf(t.pairs[k]) \in IntentSet
    BY IntentOfTyped
  <1>2. all \in Seq(IntentSet)
    <2>1. DOMAIN t.pairs = 1..Len(t.pairs) /\ Len(t.pairs) \in Nat
      OBVIOUS
    <2> QED
      BY <1>1, <2>1, IsASeq
  <1>3. got = Only(all, S)
    BY DEF Intents
  <1>4. got \in Seq(IntentSet) /\ ToSet(got) \subseteq S
    <2> HIDE DEF all, S, got
    <2> QED
      BY <1>2, <1>3, OnlyElements
  <1>5. \A k \in DOMAIN got : got[k] \in {i \in IntentSet : i.kind # "none"}
    <2> HIDE DEF got, all
    <2>1. \A k \in DOMAIN got : got[k] \in IntentSet /\ got[k] \in S
      BY <1>4 DEF ToSet
    <2> QED
      BY <2>1
  <1> HIDE DEF got
  <1>6. got = [k \in 1..Len(got) |-> got[k]] /\ Len(got) \in Nat /\ DOMAIN got = 1..Len(got)
    BY <1>4
  <1>7. got \in Seq({i \in IntentSet : i.kind # "none"})
    BY <1>5, <1>6, IsASeq
  <1> QED
    BY <1>7 DEF got

\* Its removals are running lines of the level.
LEMMA RemovesTyped ==
    ASSUME InputsOK, NEW t, t.run \in Places("run")
    PROVE  Removes(t) \in Seq(Nodes("run")) /\ ToSet(Removes(t)) \subseteq ToSet(Running(t))
  <1>1. Running(t) \in Seq(Nodes("run"))
    BY KidsAreNodes DEF Running, Sides
  <1>2. PICK S : Removes(t) = Only(Running(t), S)
    BY DEF Removes
  <1> QED
    BY <1>1, <1>2, OnlyElements

-----------------------------------------------------------------------------
(* What the worklist holds.                                                *)

SomeNode == Nodes("run") \cup Nodes("int")

LevelSet ==
    [call : {"level", "removes", "toggles"}, src : Places("int"), run : Places("run"),
     secs : Seq(SomeNode), key : Seq(Int),
     pairs : Seq(PairSet), intents : Seq(IntentSet), removes : Seq(Nodes("run"))]

IntentCallSet ==
    {t \in [call : {"intent"}, src : Nodes("int"), run : MaybeRun, kind : Kinds,
            flip : MaybeRun, secs : Seq(SomeNode), key : Seq(Int)] :
        t.run = Nil <=> t.kind = "add"}

RemovalCallSet ==
    [call : {"removal"}, src : Nodes("run"), run : {Nil}, kind : {"remove"},
     flip : {Nil}, secs : Seq(SomeNode), key : Seq(Int)]

CallSet == LevelSet \cup IntentCallSet \cup RemovalCallSet

\* A line has a definition, which is a number.
LEMMA DefOfNode ==
    ASSUME InputsOK, NEW h \in SomeNode
    PROVE  DefOf(h) \in Defs /\ DefOf(h) \in Int
  <1>1. PICK side \in Sides : \E p \in DOMAIN Conf(side) : h = <<side, p>>
    BY DEF SomeNode, Nodes, Sides
  <1>0. PICK p \in DOMAIN Conf(side) : h = <<side, p>>
    BY <1>1
  <1>2. Configuration(Conf(side))
    BY DEF InputsOK, Conf
  <1>3. Conf(side)[p].def \in Defs
    BY <1>2 DEF Configuration
  <1>4. DefOf(h) = Conf(side)[p].def
    BY <1>0 DEF DefOf, Line
  <1> QED
    BY <1>3, <1>4, RanksAssumption

\* Three numbers more.
LEMMA KeyExtends ==
    ASSUME NEW key \in Seq(Int), NEW a \in Int, NEW b \in Int, NEW c \in Int
    PROVE  key \o <<a, b, c>> \in Seq(Int)
  <1>1. <<a, b, c>> \in Seq(Int)
    OBVIOUS
  <1> QED
    BY <1>1

\* The removal of some running lines.
LEMMA RemovalCallsTyped ==
    ASSUME InputsOK, NEW hs \in Seq(Nodes("run")), NEW secs \in Seq(SomeNode),
           NEW key \in Seq(Int)
    PROVE  /\ RemovalCalls(hs, secs, key) \in Seq(RemovalCallSet)
           /\ Len(RemovalCalls(hs, secs, key)) = Len(hs)
           /\ \A k \in 1..Len(hs) :
                RemovalCalls(hs, secs, key)[k] =
                    Call("removal", hs[k], Nil, "remove", Nil, secs, RemoveKey(key, DefOf(hs[k]), k))
  <1>1. /\ DOMAIN hs = 1..Len(hs) /\ Len(hs) \in Nat
        /\ \A k \in DOMAIN hs : hs[k] \in Nodes("run") /\ hs[k] \in SomeNode
    BY DEF SomeNode
  <1> DEFINE C(k) == Call("removal", hs[k], Nil, "remove", Nil, secs, RemoveKey(key, DefOf(hs[k]), k))
             f == RemovalCalls(hs, secs, key)
  <1>2. ASSUME NEW k \in DOMAIN hs PROVE C(k) \in RemovalCallSet
    <2>1. DefOf(hs[k]) \in Int /\ k \in Int
      BY <1>1, DefOfNode
    <2>2. RemoveKey(key, DefOf(hs[k]), k) \in Seq(Int)
      BY <2>1, KeyExtends DEF RemoveKey
    <2> QED
      BY <1>1, <2>2 DEF Call, RemovalCallSet
  <1>3. f = [k \in 1..Len(hs) |-> C(k)]
    BY <1>1 DEF RemovalCalls
  <1> HIDE DEF f
  <1>4. f = [k \in 1..Len(hs) |-> f[k]] /\ \A k \in 1..Len(hs) : f[k] = C(k)
    BY <1>3
  <1>5. \A k \in 1..Len(hs) : f[k] \in RemovalCallSet
    BY <1>1, <1>2, <1>4
  <1>6. f \in Seq(RemovalCallSet)
    BY <1>1, <1>4, <1>5, IsASeq
  <1>7. Len(f) = Len(hs)
    BY <1>1, <1>3
  <1> QED
    BY <1>4, <1>6, <1>7 DEF f

\* What a level leaves on the worklist: an intent each, then a removal each.
IntentCalls(t) ==
    [k \in DOMAIN t.intents |->
        Call("intent", t.intents[k].src, t.intents[k].run, t.intents[k].kind,
             IF t.intents[k].kind = "add" THEN Flip(t, DefOf(t.intents[k].src)) ELSE Nil,
             t.secs, CreateKey(t.key, DefOf(t.intents[k].src), k))]

\* The worklist stays typed.
LEMMA LevelCallsTyped ==
    ASSUME InputsOK, NEW t \in LevelSet
    PROVE  /\ LevelCalls(t) = IntentCalls(t) \o RemovalCalls(Negations(t), t.secs, t.key)
           /\ IntentCalls(t) \in Seq(IntentCallSet)
           /\ Negations(t) \in Seq(Nodes("run")) /\ ToSet(Negations(t)) \subseteq ToSet(t.removes)
           /\ LevelCalls(t) \in Seq(CallSet)
  <1>1. /\ t.secs \in Seq(SomeNode) /\ t.key \in Seq(Int)
        /\ t.intents \in Seq(IntentSet) /\ t.removes \in Seq(Nodes("run"))
    BY DEF LevelSet
  <1>2. Negations(t) \in Seq(Nodes("run")) /\ ToSet(Negations(t)) \subseteq ToSet(t.removes)
    <2>1. PICK S : Negations(t) = Only(t.removes, S)
      BY DEF Negations
    <2> QED
      BY <1>1, <2>1, OnlyElements
  <1>3. \A d : Flip(t, d) \in MaybeRun
    <2> TAKE d
    <2> DEFINE rs == Only(t.removes, {r \in ToSet(t.removes) : FlippedBy(t, r) = d})
    <2>1. rs \in Seq(Nodes("run")) /\ ToSet(rs) \subseteq Nodes("run")
      <3>1. rs \in Seq(Nodes("run"))
        BY <1>1, OnlyElements
      <3> HIDE DEF rs
      <3> QED
        BY <3>1, SeqIsSeq
    <2>2. rs # <<>> => rs[1] \in Nodes("run")
      <3> HIDE DEF rs
      <3> QED
        BY <2>1, FirstElement
    <2>3. Flip(t, d) = IF rs = <<>> THEN Nil ELSE rs[1]
      BY DEF Flip
    <2> HIDE DEF rs
    <2> QED
      BY <2>2, <2>3 DEF MaybeRun
  <1>4. ASSUME NEW k \in DOMAIN t.intents PROVE IntentCalls(t)[k] \in IntentCallSet
    <2> DEFINE i == t.intents[k]
               flip == IF i.kind = "add" THEN Flip(t, DefOf(i.src)) ELSE Nil
               key == CreateKey(t.key, DefOf(i.src), k)
    <2>1. /\ i \in IntentSet /\ k \in Int
      BY <1>1
    <2>2. i.src \in Nodes("int") /\ i.run \in MaybeRun /\ i.kind \in Kinds
          /\ (i.run = Nil <=> i.kind = "add")
      BY <2>1 DEF IntentSet
    <2>3. DefOf(i.src) \in Int
      BY <2>2, DefOfNode DEF SomeNode
    <2>4. key \in Seq(Int)
      BY <1>1, <2>1, <2>3, KeyExtends DEF CreateKey
    <2>5. flip \in MaybeRun
      BY <1>3 DEF MaybeRun
    <2>6. IntentCalls(t)[k] = Call("intent", i.src, i.run, i.kind, flip, t.secs, key)
      BY DEF IntentCalls
    <2> HIDE DEF i, flip, key
    <2> QED
      BY <1>1, <2>2, <2>4, <2>5, <2>6 DEF Call, IntentCallSet
  <1>5. IntentCalls(t) \in Seq(IntentCallSet)
    <2>1. DOMAIN t.intents = 1..Len(t.intents) /\ Len(t.intents) \in Nat
      BY <1>1
    <2>2. IntentCalls(t) = [k \in 1..Len(t.intents) |-> IntentCalls(t)[k]]
      BY <2>1 DEF IntentCalls
    <2> QED
      BY <1>4, <2>1, <2>2, IsASeq
  <1>6. RemovalCalls(Negations(t), t.secs, t.key) \in Seq(RemovalCallSet)
    BY <1>1, <1>2, RemovalCallsTyped
  <1>7. LevelCalls(t) = IntentCalls(t) \o RemovalCalls(Negations(t), t.secs, t.key)
    BY DEF LevelCalls, IntentCalls
  <1>8. IntentCalls(t) \in Seq(CallSet)
    BY <1>5, SeqMonotonic DEF CallSet
  <1>9. RemovalCalls(Negations(t), t.secs, t.key) \in Seq(CallSet)
    BY <1>6, SeqMonotonic DEF CallSet
  <1> QED
    BY <1>2, <1>5, <1>7, <1>8, <1>9

-----------------------------------------------------------------------------
(* The invariant of Diff and the device.                                   *)

\* The sections of the operation emitted k-th.
SecsOf(k) == IF k = 0 THEN <<>> ELSE ops[out[k]].secs

IdsOf(secs) == [k \in DOMAIN secs |-> Id(secs[k])]

\* An artifact entry closes and opens what the entry before it left open.
EntryOK(k) ==
    /\ artifact[k].op = out[k]
    /\ artifact[k].keep = Sched!Affinity(SecsOf(k - 1), SecsOf(k))
    /\ artifact[k].open = SubSeq(SecsOf(k), artifact[k].keep + 1, Len(SecsOf(k)))

\* The operations, the schedule so far and what is written of it.
PlanOK ==
    /\ IsSeq(ops)
    /\ \A k \in DOMAIN ops : ops[k].secs \in Seq(SomeNode) /\ ops[k].key \in Seq(Int)
    /\ out \in Seq(DOMAIN ops)
    /\ IsSeq(artifact) /\ Len(artifact) <= Len(out)
    /\ pc # "done" => artifact = <<>>
    /\ \A k \in DOMAIN artifact : EntryOK(k)

\* The device has executed a prefix of a complete plan.
SessionOK ==
    /\ applied \in 0..Len(artifact)
    /\ applied > 0 => Complete
    /\ mode = IdsOf(SecsOf(applied))

TypeInv ==
    /\ InputsOK
    /\ todo \in Seq(CallSet)
    /\ PlanOK
    /\ SessionOK

\* The lines are those of the inputs, which no step assigns.
LEMMA LinesFixed ==
    ASSUME UNCHANGED <<running, intended>>
    PROVE  /\ SomeNode' = SomeNode /\ CallSet' = CallSet
           /\ \A h : Line(h)' = Line(h) /\ Id(h)' = Id(h)
  <1>1. \A side : Conf(side)' = Conf(side)
    BY DEF Conf
  <1>2. /\ Nodes("run")' = Nodes("run") /\ Nodes("int")' = Nodes("int")
        /\ Places("run")' = Places("run") /\ Places("int")' = Places("int")
    BY <1>1 DEF Nodes, Places
  <1>3. SomeNode' = SomeNode /\ MaybeRun' = MaybeRun
    BY <1>2 DEF SomeNode, MaybeRun
  <1>4. PairSet' = PairSet /\ IntentSet' = IntentSet
    BY <1>2, <1>3 DEF PairSet, IntentSet
  <1>5. LevelSet' = LevelSet
    BY <1>2, <1>3, <1>4 DEF LevelSet
  <1>6. IntentCallSet' = IntentCallSet /\ RemovalCallSet' = RemovalCallSet
    BY <1>2, <1>3 DEF IntentCallSet, RemovalCallSet
  <1>7. \A h : Line(h)' = Line(h)
    BY <1>1 DEF Line
  <1>8. \A h : Id(h)' = Id(h)
    BY <1>7 DEF Id
  <1> QED
    BY <1>3, <1>5, <1>6, <1>7, <1>8 DEF CallSet

\* Affinity counts the leading sections in which two paths agree, and those
\* sections are the same.
LEMMA AffinityShared ==
    ASSUME NEW X, NEW a \in Seq(X), NEW b \in Seq(X)
    PROVE  /\ Sched!Affinity(a, b) \in 0..Len(a) /\ Sched!Affinity(a, b) <= Len(b)
           /\ SubSeq(a, 1, Sched!Affinity(a, b)) = SubSeq(b, 1, Sched!Affinity(a, b))
  <1> DEFINE S == {n \in 1..Len(a) : n <= Len(b) /\ SubSeq(a, 1, n) = SubSeq(b, 1, n)}
             Out == {n \in Nat : n # 0 /\ n \notin S}
  <1>1. Len(a) \in Nat /\ Len(b) \in Nat
    OBVIOUS
  <1>2. Len(a) + 1 \in Out /\ Out \in SUBSET Nat
    BY <1>1
  <1>3. PICK k \in Out : \A j \in Out : k <= j
    <2> HIDE DEF Out
    <2> QED
      BY <1>2, LeastOf
  <1>4. k \in Nat \ {0} /\ k \notin S
    OBVIOUS
  <1>5. \A n \in 1..(k - 1) : n \in S
    BY <1>3, <1>4
  <1>6. ASSUME NEW n \in S, n >= k PROVE FALSE
    <2>1. n \in 1..Len(a) /\ n <= Len(b) /\ SubSeq(a, 1, n) = SubSeq(b, 1, n)
      OBVIOUS
    <2>2. \A j \in 1..n : SubSeq(a, 1, n)[j] = a[j] /\ SubSeq(b, 1, n)[j] = b[j]
      BY <1>1, <2>1
    <2>3. \A j \in 1..k : a[j] = b[j]
      BY <1>4, <1>6, <2>1, <2>2
    <2>4. SubSeq(a, 1, k) = SubSeq(b, 1, k)
      BY <1>1, <1>4, <1>6, <2>1, <2>3
    <2> QED
      BY <1>1, <1>4, <1>6, <2>1, <2>4
  <1>7. S = 1..(k - 1)
    <2>1. \A n \in S : n \in Int /\ n >= 1
      OBVIOUS
    <2>2. \A n \in S : n \in 1..(k - 1)
      BY <1>4, <1>6, <2>1
    <2> HIDE DEF S
    <2> QED
      BY <1>5, <2>2
  <1>8. Cardinality(S) = k - 1
    <2>1. 1 \in Int /\ k - 1 \in Int /\ (IF 1 > k - 1 THEN 0 ELSE (k - 1) - 1 + 1) = k - 1
      BY <1>4
    <2> HIDE DEF S
    <2> QED
      BY <1>7, <2>1, FS_Interval
  <1>9. Sched!Affinity(a, b) = k - 1
    BY <1>8 DEF Sched!Affinity, Sched!Cardinality, Cardinality
  <1>10. CASE k = 1
    <2>1. SubSeq(a, 1, 0) = <<>> /\ SubSeq(b, 1, 0) = <<>>
      BY SubSeqEmpty
    <2> QED
      BY <1>1, <1>9, <1>10, <2>1
  <1>11. CASE k # 1
    <2>1. k - 1 \in S
      BY <1>4, <1>5, <1>11
    <2> QED
      BY <1>1, <1>9, <2>1
  <1> QED
    BY <1>10, <1>11

-----------------------------------------------------------------------------
(* Initially.                                                              *)

\* The worklist starts with the roots of both trees.
LEMMA InitTyped == DeviceInit => TypeInv
  <1> SUFFICES ASSUME DeviceInit PROVE TypeInv
    OBVIOUS
  <1>1. InputsOK
    BY InputsAssumption DEF DeviceInit, Init, InputsOK
  <1>2. /\ todo = <<LevelCall(<<>>, <<>>, <<>>, <<>>)>> /\ artifact = <<>>
        /\ pc = "collect" /\ ops = <<>> /\ out = <<>> /\ applied = 0 /\ mode = <<>>
    BY DEF DeviceInit, Init
  <1>3. LevelCall(<<>>, <<>>, <<>>, <<>>) \in LevelSet
    <2>1. <<"int", <<>>>> \in Places("int") /\ <<"run", <<>>>> \in Places("run")
      BY DEF Places
    <2>2. \A X : <<>> \in Seq(X)
      OBVIOUS
    <2> QED
      BY <2>1, <2>2 DEF LevelCall, LevelSet
  <1>4. todo \in Seq(CallSet)
    BY <1>2, <1>3 DEF CallSet
  <1>5. PlanOK
    <2>1. IsSeq(<<>>)
      BY DEF IsSeq
    <2>2. DOMAIN <<>> = {} /\ Len(<<>>) = 0 /\ <<>> \in Seq(DOMAIN ops)
      OBVIOUS
    <2> QED
      BY <1>2, <2>1, <2>2 DEF PlanOK
  <1>6. SessionOK
    <2>1. IdsOf(<<>>) = <<>>
      BY DEF IdsOf
    <2> QED
      BY <1>2, <2>1 DEF SessionOK, SecsOf
  <1> QED
    BY <1>1, <1>4, <1>5, <1>6 DEF TypeInv

-----------------------------------------------------------------------------
(* Collecting.                                                             *)

\* The head of the worklist is a call of its kind.
LEMMA HeadTyped ==
    ASSUME TypeInv, NEW call, Facing(call)
    PROVE  /\ Head(todo) \in CallSet /\ Head(todo).call = call
           /\ Tail(todo) \in Seq(CallSet) /\ pc = "collect"
           /\ call \in {"level", "removes", "toggles"} => Head(todo) \in LevelSet
           /\ call = "intent" => Head(todo) \in IntentCallSet
           /\ call = "removal" => Head(todo) \in RemovalCallSet
  <1>1. todo \in Seq(CallSet) /\ todo # <<>> /\ Head(todo).call = call /\ pc = "collect"
    BY DEF TypeInv, Facing
  <1>2. Head(todo) \in CallSet /\ Tail(todo) \in Seq(CallSet)
    BY <1>1, HeadTailProperties
  <1>3. /\ \A t \in LevelSet : t.call \in {"level", "removes", "toggles"}
        /\ \A t \in IntentCallSet : t.call = "intent"
        /\ \A t \in RemovalCallSet : t.call = "removal"
    BY DEF LevelSet, IntentCallSet, RemovalCallSet
  <1> QED
    BY <1>1, <1>2, <1>3 DEF CallSet

\* Before the schedule is done nothing is written and nothing executed.
LEMMA NotYet ==
    ASSUME TypeInv, pc # "done"
    PROVE  artifact = <<>> /\ applied = 0 /\ mode = <<>>
  <1>1. artifact = <<>> /\ applied \in 0..Len(artifact)
    BY DEF TypeInv, PlanOK, SessionOK
  <1>2. applied = 0
    BY <1>1
  <1>3. mode = IdsOf(<<>>)
    BY <1>2 DEF TypeInv, SessionOK, SecsOf
  <1> QED
    BY <1>1, <1>2, <1>3 DEF IdsOf

\* A step of the pipeline before anything is written.
LEMMA StepTyped ==
    ASSUME TypeInv, pc # "done", UNCHANGED <<inputVars, artifact, deviceVars>>,
           todo' \in Seq(CallSet),
           \/ ops' = ops
           \/ \E o : ops' = Append(ops, o) /\ o.secs \in Seq(SomeNode) /\ o.key \in Seq(Int),
           out' \in Seq(DOMAIN ops)
    PROVE  TypeInv'
  <1>1. artifact = <<>> /\ applied = 0 /\ mode = <<>>
    BY NotYet
  <1>2. CallSet' = CallSet /\ SomeNode' = SomeNode
    BY LinesFixed DEF inputVars
  <1>3. InputsOK'
    BY DEF inputVars, InputsOK, TypeInv
  <1>4. /\ IsSeq(ops') /\ DOMAIN ops \subseteq DOMAIN ops'
        /\ \A k \in DOMAIN ops' : ops'[k].secs \in Seq(SomeNode) /\ ops'[k].key \in Seq(Int)
    <2>1. IsSeq(ops) /\ \A k \in DOMAIN ops : ops[k].secs \in Seq(SomeNode) /\ ops[k].key \in Seq(Int)
      BY DEF TypeInv, PlanOK
    <2>2. CASE ops' = ops
      BY <2>1, <2>2
    <2>3. CASE \E o : ops' = Append(ops, o) /\ o.secs \in Seq(SomeNode) /\ o.key \in Seq(Int)
      <3>1. PICK o : ops' = Append(ops, o) /\ o.secs \in Seq(SomeNode) /\ o.key \in Seq(Int)
        BY <2>3
      <3>2. /\ IsSeq(Append(ops, o)) /\ Len(ops) \in Nat /\ DOMAIN ops = 1..Len(ops)
            /\ DOMAIN Append(ops, o) = 1..(Len(ops) + 1)
            /\ \A k \in 1..Len(ops) : Append(ops, o)[k] = ops[k]
            /\ Append(ops, o)[Len(ops) + 1] = o
        BY <2>1, IsSeqAppend
      <3>3. ASSUME NEW k \in DOMAIN ops'
            PROVE  ops'[k].secs \in Seq(SomeNode) /\ ops'[k].key \in Seq(Int)
        <4>1. k \in 1..Len(ops) \/ k = Len(ops) + 1
          <5>1. \A n \in Nat : \A m \in 1..(n + 1) : m \in 1..n \/ m = n + 1
            OBVIOUS
          <5>2. k \in 1..(Len(ops) + 1)
            BY <3>1, <3>2
          <5> QED
            BY <3>2, <5>1, <5>2
        <4>2. CASE k \in 1..Len(ops)
          <5>1. ops'[k] = ops[k] /\ k \in DOMAIN ops
            BY <3>1, <3>2, <4>2
          <5> QED
            BY <2>1, <5>1
        <4>3. CASE k = Len(ops) + 1
          <5>1. ops'[k] = o
            BY <3>1, <3>2, <4>3
          <5> QED
            BY <3>1, <5>1
        <4> QED
          BY <4>1, <4>2, <4>3
      <3>4. DOMAIN ops \subseteq DOMAIN ops'
        <4>1. \A n \in Nat : 1..n \subseteq 1..(n + 1)
          OBVIOUS
        <4> QED
          BY <3>1, <3>2, <4>1
      <3> QED
        BY <3>1, <3>2, <3>3, <3>4
    <2> QED
      BY <2>2, <2>3
  <1>5. PlanOK'
    <2>1. out' \in Seq(DOMAIN ops')
      BY <1>4, SeqMonotonic
    <2>2. DOMAIN <<>> = {} /\ Len(<<>>) = 0 /\ IsSeq(<<>>) /\ Len(out') \in Nat
      BY DEF IsSeq
    <2>3. IsSeq(artifact)' /\ IsSeq(ops)'
      BY <1>1, <1>4, <2>2 DEF IsSeq
    <2> QED
      BY <1>1, <1>2, <1>4, <2>1, <2>2, <2>3 DEF PlanOK
  <1>6. SessionOK'
    <2>1. Len(<<>>) = 0 /\ 0 \in 0..0 /\ ~(0 > 0)
      OBVIOUS
    <2>2. SecsOf(0)' = <<>> /\ IdsOf(<<>>)' = <<>>
      BY DEF SecsOf, IdsOf
    <2> QED
      BY <1>1, <2>1, <2>2 DEF SessionOK, deviceVars
  <1> QED
    BY <1>2, <1>3, <1>5, <1>6 DEF TypeInv

\* A step of collect replaces the head of the worklist.
LEMMA ProcessTyped ==
    ASSUME TypeInv, NEW call, Facing(call), NEW rest \in Seq(CallSet), Process(rest),
           UNCHANGED deviceVars,
           \/ ops' = ops
           \/ \E action, cmds : Emits(Head(todo), action, cmds)
    PROVE  TypeInv'
  <1>1. /\ Tail(todo) \in Seq(CallSet) /\ Head(todo) \in CallSet /\ pc = "collect"
    BY HeadTyped
  <1>2. todo' \in Seq(CallSet)
    BY <1>1, ConcatProperties DEF Process
  <1>3. Head(todo).secs \in Seq(SomeNode) /\ Head(todo).key \in Seq(Int)
    BY <1>1 DEF CallSet, LevelSet, IntentCallSet, RemovalCallSet
  <1>4. \/ ops' = ops
        \/ \E o : ops' = Append(ops, o) /\ o.secs \in Seq(SomeNode) /\ o.key \in Seq(Int)
    <2>1. ASSUME NEW action, NEW cmds, Emits(Head(todo), action, cmds)
          PROVE  \E o : ops' = Append(ops, o) /\ o.secs \in Seq(SomeNode) /\ o.key \in Seq(Int)
      <3> DEFINE o == Op(Head(todo), action, cmds)
      <3>1. o.secs = Head(todo).secs /\ o.key = Head(todo).key
        BY DEF Op
      <3>2. ops' = Append(ops, o)
        BY <2>1 DEF Emits
      <3> HIDE DEF o
      <3> QED
        BY <1>3, <3>1, <3>2
    <2> QED
      BY <2>1
  <1>5. out' \in Seq(DOMAIN ops) /\ UNCHANGED <<inputVars, artifact>>
    BY DEF Process, schedVars, TypeInv, PlanOK
  <1> QED
    BY <1>1, <1>2, <1>4, <1>5, StepTyped

\* A level that advances is a level.
LEMMA LevelAdvances ==
    ASSUME TypeInv, NEW call, call \in {"level", "removes"}, Facing(call), NEW t,
           t = Head(todo)
    PROVE  /\ [t EXCEPT !.call = "removes", !.pairs = Pairings(t, Kept(t))] \in CallSet
           /\ [t EXCEPT !.call = "toggles", !.intents = Intents(t), !.removes = Removes(t)]
                \in CallSet
  <1>1. t \in LevelSet /\ InputsOK
    BY HeadTyped DEF TypeInv
  <1>2. /\ t.src \in Places("int") /\ t.run \in Places("run") /\ t.pairs \in Seq(PairSet)
        /\ "removes" \in {"level", "removes", "toggles"}
        /\ "toggles" \in {"level", "removes", "toggles"}
    BY <1>1 DEF LevelSet
  <1>3. Pairings(t, Kept(t)) \in Seq(PairSet)
    BY <1>1, <1>2, PairingsTyped
  <1>4. Intents(t) \in Seq(IntentSet)
    <2>1. Intents(t) \in Seq({i \in IntentSet : i.kind # "none"})
      BY <1>2, IntentsTyped
    <2>2. {i \in IntentSet : i.kind # "none"} \subseteq IntentSet
      OBVIOUS
    <2> QED
      BY <2>1, <2>2, SeqMonotonic
  <1>5. Removes(t) \in Seq(Nodes("run"))
    BY <1>1, <1>2, RemovesTyped
  <1>6. [t EXCEPT !.call = "removes", !.pairs = Pairings(t, Kept(t))] \in LevelSet
    BY <1>1, <1>3 DEF LevelSet
  <1>7. [t EXCEPT !.call = "toggles", !.intents = Intents(t), !.removes = Removes(t)]
            \in LevelSet
    BY <1>1, <1>4, <1>5 DEF LevelSet
  <1> QED
    BY <1>6, <1>7 DEF CallSet

\* The children of a section that pairs, and the children of one that goes.
LEMMA SectionCalls ==
    ASSUME InputsOK, NEW t
    PROVE  /\ t \in IntentCallSet /\ t.kind = "section" =>
                LevelCall(t.run[2], t.src[2], Append(t.secs, t.src), t.key) \in CallSet
           /\ t \in RemovalCallSet =>
                RemovalCalls(KidsOf(t.src), Append(t.secs, t.src), t.key) \in Seq(CallSet)
  <1>1. ASSUME t \in IntentCallSet, t.kind = "section"
        PROVE  LevelCall(t.run[2], t.src[2], Append(t.secs, t.src), t.key) \in CallSet
    <2>1. /\ t.src \in Nodes("int") /\ t.run \in MaybeRun /\ t.run # Nil
          /\ t.secs \in Seq(SomeNode) /\ t.key \in Seq(Int)
      BY <1>1 DEF IntentCallSet
    <2>2. <<"int", t.src[2]>> \in Places("int") /\ <<"run", t.run[2]>> \in Places("run")
      BY <2>1 DEF MaybeRun, Nodes, Places
    <2>3. Append(t.secs, t.src) \in Seq(SomeNode)
      BY <2>1 DEF SomeNode
    <2>4. \A X : <<>> \in Seq(X)
      OBVIOUS
    <2>5. "level" \in {"level", "removes", "toggles"}
      OBVIOUS
    <2> QED
      BY <2>1, <2>2, <2>3, <2>4, <2>5 DEF LevelCall, LevelSet, CallSet
  <1>2. ASSUME t \in RemovalCallSet
        PROVE  RemovalCalls(KidsOf(t.src), Append(t.secs, t.src), t.key) \in Seq(CallSet)
    <2>1. t.src \in Nodes("run") /\ t.secs \in Seq(SomeNode) /\ t.key \in Seq(Int)
      BY <1>2 DEF RemovalCallSet
    <2>2. t.src \in Places("run")
      BY <2>1 DEF Nodes, Places
    <2>3. KidsOf(t.src) \in Seq(Nodes("run"))
      BY <2>2, KidsAreNodes DEF Sides
    <2>4. Append(t.secs, t.src) \in Seq(SomeNode)
      BY <2>1 DEF SomeNode
    <2>5. RemovalCalls(KidsOf(t.src), Append(t.secs, t.src), t.key) \in Seq(RemovalCallSet)
      BY <2>1, <2>3, <2>4, RemovalCallsTyped
    <2> QED
      BY <2>5, SeqMonotonic DEF CallSet
  <1> QED
    BY <1>1, <1>2

\* collect, one step per action.
LEMMA CollectTyped ==
    ASSUME TypeInv, Collect, UNCHANGED deviceVars
    PROVE  TypeInv'
  <1> DEFINE t == Head(todo)
  <1>0. \A X : <<>> \in Seq(X) /\ \A x \in X : <<x>> \in Seq(X)
    OBVIOUS
  <1>1. CASE PairLevel
    <2>1. /\ Facing("level") /\ ops' = ops
          /\ Process(<<[t EXCEPT !.call = "removes", !.pairs = Pairings(t, Kept(t))]>>)
      BY <1>1 DEF PairLevel
    <2>2. [t EXCEPT !.call = "removes", !.pairs = Pairings(t, Kept(t))] \in CallSet
      BY <2>1, LevelAdvances
    <2> HIDE DEF t
    <2> QED
      BY <1>0, <2>1, <2>2, ProcessTyped
  <1>2. CASE FindRemoves
    <2>1. /\ Facing("removes") /\ ops' = ops
          /\ Process(<<[t EXCEPT !.call = "toggles",
                                   !.intents = Intents(t), !.removes = Removes(t)]>>)
      BY <1>2 DEF FindRemoves
    <2>2. [t EXCEPT !.call = "toggles", !.intents = Intents(t), !.removes = Removes(t)]
            \in CallSet
      BY <2>1, LevelAdvances
    <2> HIDE DEF t
    <2> QED
      BY <1>0, <2>1, <2>2, ProcessTyped
  <1>3. CASE DropToggles
    <2>1. Facing("toggles") /\ ops' = ops /\ Process(LevelCalls(t))
      BY <1>3 DEF DropToggles
    <2>2. LevelCalls(t) \in Seq(CallSet)
      BY <2>1, HeadTyped, LevelCallsTyped DEF TypeInv
    <2> QED
      BY <2>1, <2>2, ProcessTyped
  <1>4. CASE AddLine
    <2>1. Facing("intent") /\ Process(<<>>) /\ Emits(t, "add", <<Cmd("put", t.src, <<>>)>>)
      BY <1>4 DEF AddLine, Accepted
    <2> QED
      BY <1>0, <2>1, ProcessTyped
  <1>5. CASE ModifyLine
    <2>1. Facing("intent") /\ Process(<<>>) /\ Emits(t, "modify", <<Cmd("set", t.src, <<>>)>>)
      BY <1>5 DEF ModifyLine, Accepted
    <2> QED
      BY <1>0, <2>1, ProcessTyped
  <1>6. CASE DeltaLine
    <2>1. Facing("intent") /\ Process(<<>>) /\ Emits(t, "modify", DeltaCmds(t))
      BY <1>6 DEF DeltaLine, Accepted
    <2> QED
      BY <1>0, <2>1, ProcessTyped
  <1>7. CASE ReplaceLine
    <2>1. /\ Facing("intent") /\ Process(<<>>)
          /\ Emits(t, "replace", <<Cmd("no", t.run, <<>>), Cmd("put", t.src, <<>>)>>)
      BY <1>7 DEF ReplaceLine, Accepted
    <2> QED
      BY <1>0, <2>1, ProcessTyped
  <1>8. CASE EnterSection
    <2>1. /\ Facing("intent") /\ t.kind = "section"
          /\ Process(<<LevelCall(t.run[2], t.src[2], Append(t.secs, t.src), t.key)>>)
          /\ ops' = ops \/ Emits(t, "modify", <<Cmd("set", t.src, <<>>)>>)
      BY <1>8 DEF EnterSection, Accepted
    <2>2. LevelCall(t.run[2], t.src[2], Append(t.secs, t.src), t.key) \in CallSet
      BY <2>1, HeadTyped, SectionCalls DEF TypeInv
    <2> QED
      BY <1>0, <2>1, <2>2, ProcessTyped
  <1>9. CASE RefuseIntent
    <2>1. Facing("intent") /\ Process(<<>>) /\ ops' = ops
      BY <1>9 DEF RefuseIntent
    <2> QED
      BY <1>0, <2>1, ProcessTyped
  <1>10. CASE ExpandRemoval
    <2>1. /\ Facing("removal") /\ ops' = ops
          /\ Process(RemovalCalls(KidsOf(t.src), Append(t.secs, t.src), t.key))
      BY <1>10 DEF ExpandRemoval
    <2>2. RemovalCalls(KidsOf(t.src), Append(t.secs, t.src), t.key) \in Seq(CallSet)
      BY <2>1, HeadTyped, SectionCalls DEF TypeInv
    <2> QED
      BY <2>1, <2>2, ProcessTyped
  <1>11. CASE RefuseExpansion \/ RefuseDelete
    <2>1. Facing("removal") /\ Process(<<>>) /\ ops' = ops
      BY <1>11 DEF RefuseExpansion, RefuseDelete
    <2> QED
      BY <1>0, <2>1, ProcessTyped
  <1>12. CASE RemoveLine
    <2>1. Facing("removal") /\ Process(<<>>) /\ Emits(t, "remove", <<Cmd("no", t.src, <<>>)>>)
      BY <1>12 DEF RemoveLine
    <2> QED
      BY <1>0, <2>1, ProcessTyped
  <1>13. CASE CheckBaselineRemovals
    <2>1. /\ pc = "collect" /\ UNCHANGED <<inputVars, artifact>>
          /\ todo' = todo /\ ops' = ops /\ out' = out
      BY <1>13 DEF CheckBaselineRemovals, schedVars
    <2>2. todo \in Seq(CallSet) /\ out \in Seq(DOMAIN ops)
      BY DEF TypeInv, PlanOK
    <2> QED
      BY <2>1, <2>2, StepTyped
  <1> QED
    BY <1>1, <1>2, <1>3, <1>4, <1>5, <1>6, <1>7, <1>8, <1>9, <1>10, <1>11, <1>12, <1>13
    DEF Collect

-----------------------------------------------------------------------------
(* Deriving, scheduling, writing, executing.                               *)

\* The derivations leave the operations alone.
LEMMA DeriveTyped ==
    ASSUME TypeInv, DeriveEdges, UNCHANGED deviceVars
    PROVE  TypeInv'
  <1>1. /\ pc # "done" /\ UNCHANGED <<inputVars, artifact>>
        /\ todo' = todo /\ ops' = ops /\ out' = out
    BY DEF DeriveEdges, DeriveSlotCleanupEdges, DeriveRefEdges, DeriveMoveEdges,
           DeriveRequireEdges, DeriveExclusionEdges, CountIndegrees, Derive
  <1>2. todo \in Seq(CallSet) /\ out \in Seq(DOMAIN ops)
    BY DEF TypeInv, PlanOK
  <1> QED
    BY <1>1, <1>2, StepTyped

\* The scheduler emits operations of the plan.
LEMMA SchedulingTyped ==
    ASSUME TypeInv, Scheduling \/ AbortPlan, UNCHANGED deviceVars
    PROVE  TypeInv'
  <1>1. todo \in Seq(CallSet) /\ out \in Seq(DOMAIN ops) /\ Ops = DOMAIN ops
    BY DEF TypeInv, PlanOK, Ops
  <1>2. /\ pc # "done" /\ UNCHANGED <<inputVars, artifact>> /\ todo' = todo /\ ops' = ops
        /\ out' = out \/ out' = <<>> \/ \E i \in Ops : out' = Append(out, i)
    <2>1. CASE AbortPlan
      <3>1. PICK i \in Ops : Sched!AbortOnCycle(i)
        BY <2>1 DEF AbortPlan
      <3>2. pc = "walk" /\ cycle' = cycle /\ ops' = ops /\ out' = <<>>
        BY <3>1 DEF Sched!AbortOnCycle
      <3> QED
        BY <2>1, <3>2 DEF AbortPlan, inputVars
    <2>2. CASE Scheduling
      <3>1. UNCHANGED <<inputVars, artifact>> /\ todo' = todo
        BY <2>2 DEF Scheduling
      <3>2. ASSUME NEW i \in Ops, Sched!Emit(i)
            PROVE  pc = "emit" /\ ops' = ops /\ out' = Append(out, i)
        BY <3>2 DEF Sched!Emit
      <3>3. ASSUME NEW i \in Ops, Sched!Stall(i) \/ Sched!ExtendWalk(i)
            PROVE  pc \in {"emit", "walk"} /\ ops' = ops /\ out' = out
        BY <3>3 DEF Sched!Stall, Sched!ExtendWalk
      <3>4. ASSUME NEW i \in Ops, Sched!BreakOnCycle(i)
            PROVE  pc = "walk" /\ ops' = ops /\ out' = out
        BY <3>4 DEF Sched!BreakOnCycle
      <3>5. ASSUME Sched!Finish PROVE pc = "emit" /\ ops' = ops /\ out' = out
        BY <3>5 DEF Sched!Finish
      <3>6. \/ \E i \in Ops : \/ Sched!Emit(i) \/ Sched!Stall(i)
                            \/ Sched!ExtendWalk(i) \/ Sched!BreakOnCycle(i)
            \/ Sched!Finish
        BY <2>2 DEF Scheduling
      <3> QED
        BY <3>1, <3>2, <3>3, <3>4, <3>5, <3>6
    <2> QED
      BY <2>1, <2>2
  <1>3. out' \in Seq(DOMAIN ops)
    <2>1. \A X : <<>> \in Seq(X) /\ \A s \in Seq(X), x \in X : Append(s, x) \in Seq(X)
      OBVIOUS
    <2> QED
      BY <1>1, <1>2, <2>1
  <1> QED
    BY <1>1, <1>2, <1>3, StepTyped

\* While the plan is not complete the device has executed nothing.
LEMMA NothingApplied ==
    ASSUME TypeInv, ~Complete
    PROVE  applied = 0 /\ mode = <<>>
  <1>1. applied = 0
    BY DEF TypeInv, SessionOK
  <1>2. mode = IdsOf(<<>>)
    BY <1>1 DEF TypeInv, SessionOK, SecsOf
  <1> QED
    BY <1>1, <1>2 DEF IdsOf

\* Every operation is emitted with its own sections.
LEMMA SecsTyped ==
    ASSUME PlanOK, NEW k \in 0..Len(out)
    PROVE  SecsOf(k) \in Seq(SomeNode)
  <1>1. out \in Seq(DOMAIN ops)
    BY DEF PlanOK
  <1>2. CASE k = 0
    BY <1>2 DEF SecsOf
  <1>3. CASE k # 0
    <2>1. out[k] \in DOMAIN ops
      BY <1>1, <1>3
    <2> QED
      BY <1>3, <2>1 DEF SecsOf, PlanOK
  <1> QED
    BY <1>2, <1>3

\* The next operation is written against what the last one left open.
LEMMA MaterializeTyped ==
    ASSUME TypeInv, Materialize, UNCHANGED deviceVars
    PROVE  TypeInv'
  <1> DEFINE n == Len(artifact)
             e == MaterializeEntry(out[n + 1])
  <1>1. /\ pc = "done" /\ n < Len(out) /\ artifact' = Append(artifact, e)
        /\ UNCHANGED <<inputVars, todo, pc, ops, out>>
    BY DEF Materialize, schedVars
  <1>2. PlanOK /\ IsSeq(artifact)
    BY DEF TypeInv, PlanOK
  <1>3. applied = 0 /\ mode = <<>>
    <2>1. ~Complete
      BY <1>1 DEF Complete
    <2> QED
      BY <2>1, NothingApplied
  <1>4. /\ IsSeq(artifact') /\ n \in Nat /\ DOMAIN artifact = 1..n
        /\ Len(artifact') = n + 1 /\ DOMAIN artifact' = 1..(n + 1)
        /\ \A k \in 1..n : artifact'[k] = artifact[k]
        /\ artifact'[n + 1] = e
    <2> HIDE DEF e
    <2> QED
      BY <1>1, <1>2, IsSeqAppend
  <1>5. OpenSections = SecsOf(n)
    <2>1. CASE artifact = <<>>
      BY <2>1 DEF OpenSections, SecsOf
    <2>2. CASE artifact # <<>>
      <3>1. n # 0 /\ n \in DOMAIN artifact
        BY <1>2, <1>4, <2>2, EmptySeq DEF IsSeq
      <3>2. Last(artifact).op = out[n]
        BY <1>2, <3>1 DEF Last, PlanOK, EntryOK
      <3> QED
        BY <2>2, <3>1, <3>2 DEF OpenSections, SecsOf
    <2> QED
      BY <2>1, <2>2
  <1>6. /\ e.op = out[n + 1]
        /\ e.keep = Sched!Affinity(SecsOf(n), SecsOf(n + 1))
        /\ e.open = SubSeq(SecsOf(n + 1), e.keep + 1, Len(SecsOf(n + 1)))
    <2>1. SecsOf(n + 1) = ops[out[n + 1]].secs
      BY <1>4 DEF SecsOf
    <2> QED
      BY <1>5, <2>1 DEF MaterializeEntry
  <1> HIDE DEF e
  <1>7. \A k : SecsOf(k)' = SecsOf(k)
    BY <1>1 DEF SecsOf
  <1>8. ASSUME NEW k \in DOMAIN artifact' PROVE EntryOK(k)'
    <2>1. CASE k \in 1..n
      <3>1. EntryOK(k) /\ artifact'[k] = artifact[k]
        BY <1>2, <1>4, <2>1 DEF PlanOK
      <3> QED
        BY <1>1, <1>7, <3>1 DEF EntryOK, Sched!Affinity
    <2>2. CASE k = n + 1
      <3>1. artifact'[k] = e /\ k - 1 = n
        BY <1>4, <2>2
      <3> QED
        BY <1>1, <1>6, <1>7, <2>2, <3>1 DEF EntryOK, Sched!Affinity
    <2>3. k \in 1..n \/ k = n + 1
      BY <1>4
    <2> QED
      BY <2>1, <2>2, <2>3
  <1>9. CallSet' = CallSet /\ SomeNode' = SomeNode
    BY <1>1, LinesFixed DEF inputVars
  <1>10. PlanOK'
    <2>1. Len(artifact') <= Len(out')
      <3>1. Len(out) \in Nat
        BY <1>2 DEF PlanOK
      <3> QED
        BY <1>1, <1>4, <3>1
    <2>2. IsSeq(artifact)' /\ IsSeq(ops)'
      BY <1>1, <1>2, <1>4 DEF IsSeq, PlanOK
    <2> QED
      BY <1>1, <1>2, <1>8, <1>9, <2>1, <2>2 DEF PlanOK
  <1>11. SessionOK'
    <2>1. applied' = 0 /\ mode' = <<>> /\ 0 \in 0..Len(artifact')
      BY <1>3, <1>4 DEF deviceVars
    <2>2. SecsOf(0)' = <<>> /\ IdsOf(<<>>)' = <<>>
      BY DEF SecsOf, IdsOf
    <2> QED
      BY <2>1, <2>2 DEF SessionOK
  <1>12. InputsOK' /\ todo' \in Seq(CallSet)
    BY <1>1 DEF inputVars, InputsOK, TypeInv
  <1> QED
    BY <1>9, <1>10, <1>11, <1>12 DEF TypeInv

\* Leaving what is not shared and entering the rest leads to the new sections.
LEMMA SectionsFollow ==
    ASSUME NEW X, NEW s \in Seq(X), NEW u \in Seq(X), NEW m,
           m = Sched!Affinity(s, u)
    PROVE  SubSeq(IdsOf(s), 1, m) \o IdsOf(SubSeq(u, m + 1, Len(u))) = IdsOf(u)
  <1> DEFINE Y == {Id(x) : x \in X}
             rest == SubSeq(u, m + 1, Len(u))
             a == SubSeq(IdsOf(s), 1, m)
             b == IdsOf(rest)
  <1>1. m \in 0..Len(s) /\ m <= Len(u) /\ SubSeq(s, 1, m) = SubSeq(u, 1, m)
    BY AffinityShared
  <1>2. Len(s) \in Nat /\ Len(u) \in Nat /\ m \in Nat
    BY <1>1
  <1>3. ASSUME NEW v \in Seq(X)
        PROVE  /\ IdsOf(v) \in Seq(Y) /\ Len(IdsOf(v)) = Len(v)
               /\ \A k \in 1..Len(v) : IdsOf(v)[k] = Id(v[k])
    <2>1. Len(v) \in Nat /\ DOMAIN v = 1..Len(v) /\ \A k \in 1..Len(v) : v[k] \in X
      OBVIOUS
    <2>2. IdsOf(v) = [k \in 1..Len(v) |-> IdsOf(v)[k]] /\ \A k \in 1..Len(v) : IdsOf(v)[k] = Id(v[k])
      BY <2>1 DEF IdsOf
    <2>3. \A k \in 1..Len(v) : IdsOf(v)[k] \in Y
      BY <2>1, <2>2
    <2>4. IdsOf(v) \in Seq(Y)
      <3> HIDE DEF Y
      <3> QED
        BY <2>1, <2>2, <2>3, IsASeq
    <2>5. Len(IdsOf(v)) = Len(v)
      BY <2>1, <2>2
    <2> QED
      BY <2>2, <2>4, <2>5
  <1>4. /\ rest \in Seq(X) /\ Len(rest) = Len(u) - m
        /\ \A k \in 1..(Len(u) - m) : rest[k] = u[m + k]
    BY <1>1, <1>2
  <1>5. \A k \in 1..m : s[k] = u[k]
    <2>1. \A k \in 1..m : SubSeq(s, 1, m)[k] = s[k] /\ SubSeq(u, 1, m)[k] = u[k]
      BY <1>1, <1>2
    <2> QED
      BY <1>1, <2>1
  <1>6. a \in Seq(Y) /\ Len(a) = m /\ \A k \in 1..m : a[k] = IdsOf(s)[k]
    <2>1. IdsOf(s) \in Seq(Y) /\ Len(IdsOf(s)) = Len(s)
      BY <1>3
    <2> HIDE DEF Y
    <2> QED
      BY <1>1, <1>2, <2>1
  <1>7. /\ b \in Seq(Y) /\ Len(b) = Len(u) - m
        /\ \A k \in 1..(Len(u) - m) : b[k] = Id(u[m + k])
    <2> HIDE DEF Y, rest
    <2> QED
      BY <1>3, <1>4
  <1>8. IdsOf(u) \in Seq(Y) /\ Len(IdsOf(u)) = Len(u) /\ \A k \in 1..Len(u) : IdsOf(u)[k] = Id(u[k])
    BY <1>3
  <1> HIDE DEF Y, a, b
  <1>9. /\ a \o b \in Seq(Y) /\ Len(a \o b) = Len(u)
        /\ \A k \in 1..Len(u) : (a \o b)[k] = IF k <= m THEN a[k] ELSE b[k - m]
    BY <1>2, <1>6, <1>7, ConcatProperties
  <1>10. ASSUME NEW k \in 1..Len(u) PROVE (a \o b)[k] = IdsOf(u)[k]
    <2>1. CASE k <= m
      <3>1. k \in 1..m /\ k \in 1..Len(s)
        BY <1>1, <1>2, <2>1
      <3>2. (a \o b)[k] = Id(s[k])
        BY <1>3, <1>6, <1>9, <2>1, <3>1
      <3> QED
        BY <1>5, <1>8, <3>1, <3>2
    <2>2. CASE ~(k <= m)
      <3>1. k - m \in 1..(Len(u) - m) /\ m + (k - m) = k
        BY <1>1, <1>2, <2>2
      <3>2. (a \o b)[k] = Id(u[m + (k - m)])
        BY <1>7, <1>9, <2>2, <3>1
      <3> QED
        BY <1>8, <3>1, <3>2
    <2> QED
      BY <2>1, <2>2
  <1>11. a \o b = IdsOf(u)
    BY <1>8, <1>9, <1>10, SeqEqual
  <1> QED
    BY <1>11 DEF a, b

\* The device moves from one operation's sections to the next one's.
LEMMA ApplyTyped ==
    ASSUME TypeInv, Apply
    PROVE  TypeInv'
  <1> DEFINE n == applied + 1
             a == artifact[n]
             s == SecsOf(applied)
             u == SecsOf(n)
  <1>1. /\ Complete /\ applied < Len(artifact) /\ applied' = n /\ vars' = vars
        /\ mode' = SubSeq(mode, 1, a.keep) \o [k \in DOMAIN a.open |-> Id(a.open[k])]
    BY DEF Apply
  <1>2. PlanOK /\ SessionOK /\ IsSeq(artifact) /\ Len(artifact) <= Len(out)
    BY DEF TypeInv, PlanOK
  <1>3. /\ applied \in Nat /\ Len(artifact) \in Nat /\ DOMAIN artifact = 1..Len(artifact)
        /\ Len(out) \in Nat
    BY <1>2 DEF SessionOK, IsSeq, PlanOK
  <1>4. n \in DOMAIN artifact /\ n \in 0..Len(out) /\ applied \in 0..Len(out) /\ n - 1 = applied
    BY <1>1, <1>2, <1>3
  <1>5. /\ a.keep = Sched!Affinity(s, u)
        /\ a.open = SubSeq(u, a.keep + 1, Len(u))
    BY <1>2, <1>4 DEF PlanOK, EntryOK
  <1>6. s \in Seq(SomeNode) /\ u \in Seq(SomeNode)
    BY <1>2, <1>4, SecsTyped
  <1>7. mode' = IdsOf(u)
    <2>1. mode = IdsOf(s)
      BY <1>2 DEF SessionOK
    <2>2. mode' = SubSeq(IdsOf(s), 1, a.keep) \o IdsOf(SubSeq(u, a.keep + 1, Len(u)))
      BY <1>1, <1>5, <2>1 DEF IdsOf
    <2> HIDE DEF a, s, u
    <2> QED
      BY <1>5, <1>6, <2>2, SectionsFollow
  <1>8. UNCHANGED <<running, intended, baseline, cycle, todo, artifact, pc, ops, out>>
    BY <1>1 DEF vars, inputVars, schedVars
  <1>9. CallSet' = CallSet /\ SomeNode' = SomeNode /\ \A h : Id(h)' = Id(h)
    BY <1>8, LinesFixed
  <1>10. \A k : SecsOf(k)' = SecsOf(k)
    BY <1>8 DEF SecsOf
  <1>11. PlanOK'
    <2>1. \A k : EntryOK(k) => EntryOK(k)'
      BY <1>8, <1>10 DEF EntryOK, Sched!Affinity
    <2> QED
      BY <1>2, <1>8, <1>9, <2>1 DEF PlanOK, IsSeq
  <1>12. SessionOK'
    <2>2. mode' = IdsOf(SecsOf(applied))'
      <3>2. SecsOf(applied)' = u
        BY <1>1, <1>8 DEF SecsOf
      <3>3. IdsOf(SecsOf(applied))' = [k \in DOMAIN SecsOf(applied)' |-> Id(SecsOf(applied)[k])']
        BY DEF IdsOf
      <3>4. IdsOf(SecsOf(applied))' = [k \in DOMAIN u |-> Id(u[k])]
        BY <1>9, <3>2, <3>3
      <3> QED
        BY <1>7, <3>4 DEF IdsOf
    <2>3. Complete'
      BY <1>1, <1>8 DEF Complete
    <2>4. applied' \in 0..Len(artifact')
      BY <1>1, <1>3, <1>4, <1>8
    <2> QED
      BY <2>2, <2>3, <2>4 DEF SessionOK
  <1>13. InputsOK' /\ todo' \in Seq(CallSet)
    BY <1>8 DEF InputsOK, TypeInv
  <1> QED
    BY <1>9, <1>11, <1>12, <1>13 DEF TypeInv

\* A step that changes nothing.
LEMMA StutterTyped ==
    ASSUME TypeInv, UNCHANGED <<vars, deviceVars>>
    PROVE  TypeInv'
  <1>1. UNCHANGED <<running, intended, baseline, cycle, todo, artifact, pc, ops, out, mode, applied>>
    BY DEF vars, inputVars, schedVars, deviceVars
  <1>2. CallSet' = CallSet /\ SomeNode' = SomeNode /\ \A h : Id(h)' = Id(h)
    BY <1>1, LinesFixed
  <1>3. \A k : SecsOf(k)' = SecsOf(k)
    BY <1>1 DEF SecsOf
  <1>4. \A k : EntryOK(k) => EntryOK(k)'
    BY <1>1, <1>3 DEF EntryOK, Sched!Affinity
  <1>5. PlanOK'
    BY <1>1, <1>2, <1>4 DEF PlanOK, IsSeq, TypeInv
  <1>6. SessionOK'
    <2>1. \A v : IdsOf(v)' = IdsOf(v)
      BY <1>2 DEF IdsOf
    <2> QED
      BY <1>1, <1>3, <2>1 DEF SessionOK, TypeInv, Complete
  <1>7. InputsOK' /\ todo' \in Seq(CallSet)
    BY <1>1 DEF InputsOK, TypeInv
  <1> QED
    BY <1>2, <1>5, <1>6, <1>7 DEF TypeInv

\* Every step of Diff and of the device keeps the invariant.
LEMMA NextTyped == TypeInv /\ [DeviceNext]_<<vars, deviceVars>> => TypeInv'
  <1> SUFFICES ASSUME TypeInv, [DeviceNext]_<<vars, deviceVars>> PROVE TypeInv'
    OBVIOUS
  <1>1. CASE Diff
    <2>1. DiffNext /\ UNCHANGED deviceVars
      BY <1>1 DEF Diff
    <2> QED
      BY <2>1, CollectTyped, DeriveTyped, SchedulingTyped, MaterializeTyped DEF DiffNext
  <1>2. CASE Apply
    BY <1>2, ApplyTyped
  <1>3. CASE Returned
    BY <1>3, StutterTyped DEF Returned
  <1>4. CASE UNCHANGED <<vars, deviceVars>>
    BY <1>4, StutterTyped
  <1> QED
    BY <1>1, <1>2, <1>3, <1>4 DEF DeviceNext

-----------------------------------------------------------------------------
(* The theorems.                                                           *)

\* The worklist, the plan, the schedule, the artifact and the session fit
\* together, for every schema and all inputs of Diff.
THEOREM PipelineTyped == DeviceSpec => []TypeInv
  <1>1. DeviceInit => TypeInv
    BY InitTyped
  <1>2. TypeInv /\ [DeviceNext]_<<vars, deviceVars>> => TypeInv'
    BY NextTyped
  <1> QED
    BY <1>1, <1>2, PTL DEF DeviceSpec

\* Every operation is executed in the section it was collected in: closing to
\* the shared sections and opening the others never leaves the session
\* elsewhere, whatever order the schedule has.
THEOREM OperationsInTheirSection == DeviceSpec => []InItsSection
  <1>1. TypeInv => InItsSection
    <2> SUFFICES ASSUME TypeInv, InTransit
                 PROVE  mode = LET secs == ops[artifact[applied].op].secs
                               IN  [k \in DOMAIN secs |-> Id(secs[k])]
      BY DEF InItsSection
    <2>1. applied \in 0..Len(artifact) /\ applied # 0 /\ mode = IdsOf(SecsOf(applied))
      BY DEF InTransit, TypeInv, SessionOK
    <2>2. applied \in DOMAIN artifact
      BY <2>1 DEF TypeInv, PlanOK, IsSeq
    <2>3. artifact[applied].op = out[applied]
      BY <2>2 DEF TypeInv, PlanOK, EntryOK
    <2> QED
      BY <2>1, <2>3 DEF IdsOf, SecsOf
  <1> QED
    BY <1>1, PipelineTyped, PTL

-----------------------------------------------------------------------------
(* Configurations that hold the same entries.                              *)

Alike ==
    /\ Entries(running) = Entries(intended)
    /\ \A c \in {running, intended} : SpelledOnce(c) /\ ListsResolve(c)

EntryOf(h) == Entry(Conf(h[1]), h[2])

\* A section on both sides, under one header.
Entered(i) ==
    /\ i.kind = "section" /\ EntryOf(i.src) = EntryOf(i.run)
    /\ Text(Line(i.src)) = Text(Line(i.run))

\* A call of collect that finds no difference.
Quiet(t) ==
    CASE t.call = "level" -> PathOf(t.src) = PathOf(t.run)
      [] t.call = "removes" ->
            /\ \A p \in ToSet(t.pairs) :
                p.run # Nil /\ ~p.cleanup /\ EntryOf(p.src) = EntryOf(p.run)
            /\ \A r \in ToSet(KidsOf(t.run)) :
                \E p \in ToSet(t.pairs) : p.run = r /\ Id(p.src) = Id(r)
      [] t.call = "toggles" ->
            /\ t.removes = <<>>
            /\ \A i \in ToSet(t.intents) : Entered(i)
      [] t.call = "intent" -> Entered(t)
      [] t.call = "removal" -> FALSE

AllQuiet(s) == \A k \in DOMAIN s : Quiet(s[k])

\* Between alike configurations nothing is found, so nothing can go wrong.
QuietInv ==
    Alike => ops = <<>> /\ errors = {} /\ (pc = "collect" => AllQuiet(todo))

\* The positions above a line are lines.
LEMMA Ancestors ==
    ASSUME NEW c, Configuration(c), NEW p \in DOMAIN c \cup {<<>>}
    PROVE  /\ p \in Seq(Nat) /\ Len(p) \in Nat /\ DOMAIN p = 1..Len(p)
           /\ \A n \in 1..Len(p) :
                /\ SubSeq(p, 1, n) \in DOMAIN c
                /\ Parent(SubSeq(p, 1, n)) = SubSeq(p, 1, n - 1)
                /\ SlotPath(c, p)[n] = Ident(c[SubSeq(p, 1, n)])
           /\ SlotPath(c, p) = [n \in 1..Len(p) |-> Ident(c[SubSeq(p, 1, n)])]
  <1>1. DOMAIN c \subseteq Seq(Nat)
    BY DEF Configuration
  <1>2. p \in Seq(Nat) /\ Len(p) \in Nat /\ DOMAIN p = 1..Len(p)
    <2>1. <<>> \in Seq(Nat)
      OBVIOUS
    <2>2. p \in Seq(Nat)
      BY <1>1, <2>1
    <2> QED
      BY <2>2
  <1>3. SlotPath(c, p) = [n \in 1..Len(p) |-> Ident(c[SubSeq(p, 1, n)])]
    BY <1>2 DEF SlotPath
  <1>4. ASSUME NEW n \in 1..Len(p)
        PROVE  /\ SubSeq(p, 1, n) \in DOMAIN c
               /\ Parent(SubSeq(p, 1, n)) = SubSeq(p, 1, n - 1)
    <2>1. p # <<>>
      BY <1>4
    <2>2. SubSeq(p, 1, n) \in DOMAIN c
      BY <2>1 DEF Configuration
    <2> DEFINE s == SubSeq(p, 1, n)
    <2>3. s \in Seq(Nat) /\ Len(s) = n /\ \A j \in 1..n : s[j] = p[j]
      BY <1>2
    <2> HIDE DEF s
    <2>4. SubSeq(s, 1, n - 1) = SubSeq(p, 1, n - 1)
      BY <1>2, <2>3
    <2>5. Parent(s) = SubSeq(s, 1, n - 1)
      BY <2>3 DEF Parent, Front
    <2> QED
      BY <2>2, <2>4, <2>5 DEF s
  <1>5. \A n \in 1..Len(p) : SlotPath(c, p)[n] = Ident(c[SubSeq(p, 1, n)])
    BY <1>3
  <1> QED
    BY <1>2, <1>3, <1>4, <1>5

\* Where no line is spelled twice a slot path leads to one line.
LEMMA PathInjective ==
    ASSUME NEW c, Configuration(c), SpelledOnce(c),
           NEW p \in DOMAIN c \cup {<<>>}, NEW q \in DOMAIN c \cup {<<>>},
           SlotPath(c, p) = SlotPath(c, q)
    PROVE  p = q
  <1> DEFINE T == {n \in Nat : SubSeq(p, 1, n) = SubSeq(q, 1, n)}
             m == Len(p)
  <1>1. /\ p \in Seq(Nat) /\ m \in Nat /\ q \in Seq(Nat) /\ Len(q) \in Nat
        /\ DOMAIN SlotPath(c, p) = 1..m /\ DOMAIN SlotPath(c, q) = 1..Len(q)
    BY Ancestors
  <1>2. Len(q) = m
    <2>1. \A a, b \in Nat : 1..a = 1..b => a = b
      <3> SUFFICES ASSUME NEW a \in Nat, NEW b \in Nat, 1..a = 1..b, a < b PROVE FALSE
        OBVIOUS
      <3> QED
        OBVIOUS
    <2> QED
      BY <1>1, <2>1
  <1>3. 0 \in T
    BY SubSeqEmpty
  <1>4. ASSUME NEW n \in 0..(m - 1), n \in T PROVE n + 1 \in T
    <2> DEFINE a == SubSeq(p, 1, n + 1)
               b == SubSeq(q, 1, n + 1)
    <2>1. n + 1 \in 1..m /\ (n + 1) - 1 = n /\ n + 1 \in Nat
      BY <1>1
    <2>2. a \in DOMAIN c /\ Parent(a) = SubSeq(p, 1, n) /\ SlotPath(c, p)[n + 1] = Ident(c[a])
      BY <2>1, Ancestors
    <2>3. b \in DOMAIN c /\ Parent(b) = SubSeq(q, 1, n) /\ SlotPath(c, q)[n + 1] = Ident(c[b])
      BY <1>2, <2>1, Ancestors
    <2>4. SubSeq(p, 1, n) = SubSeq(q, 1, n)
      BY <1>4
    <2>5. a = b
      <3> HIDE DEF a, b
      <3> QED
        BY <2>2, <2>3, <2>4 DEF SpelledOnce
    <2> QED
      BY <2>1, <2>5
  <1>5. \A n \in 0..m : n \in T
    <2> HIDE DEF T
    <2> QED
      BY <1>1, <1>3, <1>4, UpToInduction
  <1>6. SubSeq(p, 1, m) = SubSeq(q, 1, m)
    BY <1>1, <1>5
  <1> QED
    BY <1>1, <1>2, <1>6, SubSeqFull

\* A child is found below its parent's slot path.
LEMMA PathOfKid ==
    ASSUME InputsOK, NEW side \in Sides, NEW a \in Places(side), NEW k \in DOMAIN KidsOf(a)
    PROVE  LET h == KidsOf(a)[k] n == Len(a[2])
           IN  /\ h = <<side, Append(a[2], k)>> /\ h[2] \in DOMAIN Conf(side) /\ n \in Nat
               /\ Len(h[2]) = n + 1 /\ Parent(h[2]) = a[2]
               /\ PathOf(h) = [j \in 1..(n + 1) |-> IF j = n + 1 THEN Id(h) ELSE PathOf(a)[j]]
               /\ DOMAIN PathOf(a) = 1..n
  <1> DEFINE h == KidsOf(a)[k]
             p == a[2]
             q == Append(p, k)
             n == Len(p)
             c == Conf(side)
  <1>1. Configuration(c)
    BY DEF InputsOK, Conf
  <1>2. /\ h = <<side, q>> /\ a[1] = side /\ p \in DOMAIN c \cup {<<>>} /\ p \in Seq(Nat)
        /\ KidsOf(a) \in Seq(Nodes(side))
    BY KidsAreNodes
  <1>3. q \in DOMAIN c
    <2>1. \A j \in DOMAIN KidsOf(a) : KidsOf(a)[j] \in Nodes(side)
      BY <1>2, SeqIsSeq
    <2>2. <<side, q>> \in Nodes(side)
      BY <1>2, <2>1
    <2> HIDE DEF h, q, p
    <2>3. PICK x \in DOMAIN c : <<side, q>> = <<side, x>>
      BY <2>2 DEF Nodes
    <2> QED
      BY <2>3
  <1>4. k \in Nat
    BY <1>2
  <1>5. /\ n \in Nat /\ Len(q) = n + 1 /\ SubSeq(q, 1, n + 1) = q
        /\ \A j \in 1..n : SubSeq(q, 1, j) = SubSeq(p, 1, j)
    BY <1>2, <1>4
  <1>6. Parent(q) = p
    BY <1>2, <1>4, <1>5 DEF Parent, Front
  <1>7. PathOf(a) = SlotPath(c, p) /\ PathOf(h) = SlotPath(c, q) /\ Id(h) = Ident(c[q])
    BY <1>2 DEF PathOf, Id, Line
  <1>8. SlotPath(c, q) = [j \in 1..(n + 1) |-> Ident(c[SubSeq(q, 1, j)])]
    <2> HIDE DEF q, c
    <2> QED
      BY <1>1, <1>3, <1>5, Ancestors
  <1>9. SlotPath(c, p) = [j \in 1..n |-> Ident(c[SubSeq(p, 1, j)])]
    <2> HIDE DEF q, c, p
    <2> QED
      BY <1>1, <1>2, Ancestors DEF n
  <1>10. \A j \in 1..(n + 1) :
            Ident(c[SubSeq(q, 1, j)]) = IF j = n + 1 THEN Id(h) ELSE SlotPath(c, p)[j]
    <2> HIDE DEF q, c, p, h
    <2>1. \A j \in 1..(n + 1) : j # n + 1 => j \in 1..n
      BY <1>5
    <2>2. \A j \in 1..n : SlotPath(c, p)[j] = Ident(c[SubSeq(p, 1, j)])
      BY <1>9
    <2>3. \A j \in 1..n : Ident(c[SubSeq(q, 1, j)]) = SlotPath(c, p)[j]
      BY <1>5, <2>2
    <2>4. Ident(c[SubSeq(q, 1, n + 1)]) = Id(h)
      BY <1>5, <1>7
    <2> HIDE DEF n
    <2> QED
      BY <2>1, <2>3, <2>4
  <1>11. PathOf(h) = [j \in 1..(n + 1) |-> IF j = n + 1 THEN Id(h) ELSE PathOf(a)[j]]
    <2> HIDE DEF q, c, p, h, n
    <2> QED
      BY <1>7, <1>8, <1>10
  <1>12. DOMAIN PathOf(a) = 1..n
    <2> HIDE DEF c, p
    <2> QED
      BY <1>7, <1>9
  <1> QED
    BY <1>2, <1>3, <1>5, <1>6, <1>11, <1>12

\* Two lines of a level have two identities where no line is spelled twice.
LEMMA KidsDiffer ==
    ASSUME InputsOK, NEW side \in Sides, SpelledOnce(Conf(side)), NEW a \in Places(side),
           NEW j \in DOMAIN KidsOf(a), NEW k \in DOMAIN KidsOf(a),
           Id(KidsOf(a)[j]) = Id(KidsOf(a)[k])
    PROVE  j = k
  <1> DEFINE p == a[2]
             u == KidsOf(a)[j]
             v == KidsOf(a)[k]
  <1>1. /\ u = <<side, Append(p, j)>> /\ u[2] \in DOMAIN Conf(side) /\ Parent(u[2]) = p
        /\ v = <<side, Append(p, k)>> /\ v[2] \in DOMAIN Conf(side) /\ Parent(v[2]) = p
    BY PathOfKid
  <1>2. p \in Seq(Nat) /\ j \in Nat /\ k \in Nat
    BY KidsAreNodes
  <1> HIDE DEF u, v, p
  <1>3. Id(u) = Ident(Conf(side)[u[2]]) /\ Id(v) = Ident(Conf(side)[v[2]])
    BY <1>1 DEF Id, Line
  <1>4. Id(u) = Id(v)
    BY DEF u, v
  <1>5. u[2] = v[2]
    BY <1>1, <1>3, <1>4 DEF SpelledOnce
  <1>6. Append(p, j) = Append(p, k)
    BY <1>1, <1>5
  <1> QED
    BY <1>2, <1>6, AppendInjective

\* What is known of the two trees of an alike plan.
LEMMA AlikeSides ==
    ASSUME Alike, NEW side \in Sides, NEW other \in Sides
    PROVE  /\ SpelledOnce(Conf(side)) /\ ListsResolve(Conf(side))
           /\ Entries(Conf(side)) = Entries(Conf(other))
  BY DEF Alike, Sides, Conf

\* A line of one side has a twin on the other, below the place that its parent
\* pairs with.
LEMMA TwinBelow ==
    ASSUME InputsOK, Alike, NEW side \in Sides, NEW other \in Sides,
           NEW a \in Places(side), NEW b \in Places(other), PathOf(a) = PathOf(b),
           NEW k \in DOMAIN KidsOf(a)
    PROVE  \E j \in DOMAIN KidsOf(b) :
                /\ EntryOf(KidsOf(b)[j]) = EntryOf(KidsOf(a)[k])
                /\ Id(KidsOf(b)[j]) = Id(KidsOf(a)[k])
  <1> DEFINE c == Conf(other)
             h == KidsOf(a)[k]
             n == Len(a[2])
  <1>1. Configuration(c) /\ SpelledOnce(c)
    BY AlikeSides DEF InputsOK, Conf
  <1>2. /\ h[1] = side /\ h[2] \in DOMAIN Conf(side) /\ n \in Nat
        /\ PathOf(h) = [j \in 1..(n + 1) |-> IF j = n + 1 THEN Id(h) ELSE PathOf(a)[j]]
        /\ DOMAIN PathOf(a) = 1..n
    <2>1. h = <<side, Append(a[2], k)>>
      BY PathOfKid
    <2>2. h[1] = side
      BY <2>1
    <2> QED
      BY <2>2, PathOfKid
  <1>3. PICK q \in DOMAIN c : Entry(c, q) = EntryOf(h)
    <2>1. EntryOf(h) \in Entries(Conf(side))
      BY <1>2 DEF EntryOf, Entries
    <2>2. Entries(Conf(side)) = Entries(c)
      BY AlikeSides
    <2> QED
      BY <2>1, <2>2 DEF Entries
  <1>4. /\ q \in Seq(Nat) /\ Len(q) \in Nat
        /\ SlotPath(c, q) = [j \in 1..Len(q) |-> Ident(c[SubSeq(q, 1, j)])]
        /\ \A j \in 1..Len(q) :
            SubSeq(q, 1, j) \in DOMAIN c /\ SlotPath(c, q)[j] = Ident(c[SubSeq(q, 1, j)])
    <2> HIDE DEF c
    <2> QED
      BY <1>1, Ancestors
  <1>5. SlotPath(c, q) = PathOf(h)
    <2>1. Entry(c, q).path = SlotPath(c, q) /\ EntryOf(h).path = PathOf(h)
      BY DEF Entry, EntryOf, PathOf
    <2> QED
      BY <1>3, <2>1
  <1>6. Len(q) = n + 1
    <2>1. DOMAIN SlotPath(c, q) = 1..Len(q)
      BY <1>4
    <2>2. DOMAIN PathOf(h) = 1..(n + 1)
      BY <1>2
    <2>3. \A x, y \in Nat : 1..x = 1..y => x = y
      <3> SUFFICES ASSUME NEW x \in Nat, NEW y \in Nat, 1..x = 1..y, x < y PROVE FALSE
        OBVIOUS
      <3> QED
        OBVIOUS
    <2> HIDE DEF c, h, n
    <2> QED
      BY <1>2, <1>4, <1>5, <2>1, <2>2, <2>3
  <1>7. b[1] = other /\ b[2] \in DOMAIN c \cup {<<>>} /\ b[2] \in Seq(Nat)
    BY KidsAreNodes
  <1> DEFINE p == SubSeq(q, 1, n)
  <1>8. p \in DOMAIN c \cup {<<>>} /\ p \in Seq(Nat) /\ Len(p) = n
        /\ \A j \in 1..n : SubSeq(p, 1, j) = SubSeq(q, 1, j)
    <2>1. CASE n = 0
      <3>1. p = <<>>
        BY <2>1, SubSeqEmpty
      <3> HIDE DEF p, c
      <3> QED
        BY <2>1, <3>1
    <2>2. CASE n # 0
      <3>1. n \in 1..Len(q)
        BY <1>2, <1>6, <2>2
      <3>2. p \in DOMAIN c
        BY <1>4, <3>1
      <3>3. p \in Seq(Nat) /\ Len(p) = n /\ \A j \in 1..n : SubSeq(p, 1, j) = SubSeq(q, 1, j)
        BY <1>2, <1>4, <1>6
      <3> QED
        BY <3>2, <3>3
    <2> QED
      BY <2>1, <2>2
  <1>9. SlotPath(c, p) = PathOf(b)
    <2>1. SlotPath(c, p) = [j \in 1..n |-> Ident(c[SubSeq(p, 1, j)])]
      <3> HIDE DEF c, p, n
      <3> QED
        BY <1>1, <1>8, Ancestors
    <2>2. \A j \in 1..n : Ident(c[SubSeq(p, 1, j)]) = PathOf(b)[j]
      <3>1. \A j \in 1..n : j \in 1..(n + 1) /\ j # n + 1
        BY <1>2
      <3>2. \A j \in 1..n : PathOf(h)[j] = PathOf(a)[j]
        BY <1>2, <3>1
      <3> HIDE DEF c, p, n, h
      <3> QED
        BY <1>4, <1>5, <1>6, <1>8, <3>1, <3>2
    <2>3. PathOf(b) = [j \in 1..n |-> PathOf(b)[j]]
      <3>1. PathOf(b) = SlotPath(c, b[2])
        BY <1>7 DEF PathOf
      <3>2. SlotPath(c, b[2]) = [j \in DOMAIN b[2] |-> Ident(c[SubSeq(b[2], 1, j)])]
        BY DEF SlotPath
      <3>3. DOMAIN PathOf(b) = 1..n
        BY <1>2
      <3> HIDE DEF c, n
      <3> QED
        BY <3>1, <3>2, <3>3
    <2> HIDE DEF c, p, n
    <2> QED
      BY <2>1, <2>2, <2>3
  <1>10. p = b[2]
    <2>1. SlotPath(c, b[2]) = PathOf(b)
      BY <1>7 DEF PathOf
    <2> HIDE DEF c, p
    <2> QED
      BY <1>1, <1>7, <1>8, <1>9, <2>1, PathInjective
  <1>11. IsChild(b[2], q)
    BY <1>6, <1>8, <1>10 DEF IsChild
  <1>12. PICK j \in DOMAIN KidsOf(b) : q = Append(b[2], j)
    BY <1>7, <1>11, KidsAreNodes
  <1>13. KidsOf(b)[j] = <<other, q>>
    BY <1>12, KidsAreNodes
  <1>14. EntryOf(KidsOf(b)[j]) = EntryOf(h)
    BY <1>3, <1>13 DEF EntryOf
  <1>15. Id(KidsOf(b)[j]) = Id(h)
    <2>1. Id(KidsOf(b)[j]) = Ident(c[q])
      BY <1>13 DEF Id, Line
    <2>2. SubSeq(q, 1, n + 1) = q /\ n + 1 \in 1..Len(q)
      BY <1>2, <1>4, <1>6
    <2>3. SlotPath(c, q)[n + 1] = Ident(c[q])
      BY <1>4, <2>2
    <2>4. PathOf(h)[n + 1] = Id(h)
      <3>1. n + 1 \in 1..(n + 1)
        BY <1>2
      <3> QED
        BY <1>2, <3>1
    <2> QED
      BY <1>5, <2>1, <2>3, <2>4
  <1> QED
    BY <1>14, <1>15

\* Every intended line of a level is the first of its identity.
LEMMA KeptAll ==
    ASSUME InputsOK, SpelledOnce(intended), NEW t, t.src \in Places("int")
    PROVE  Kept(t) = Intended(t)
  <1> DEFINE hs == Intended(t)
             S == {h \in ToSet(hs) : IsFirst(h, hs)}
  <1>1. hs = KidsOf(t.src) /\ hs \in Seq(Nodes("int"))
    BY KidsAreNodes DEF Intended, Sides
  <1>2. \A j, k \in DOMAIN hs : Id(hs[j]) = Id(hs[k]) => j = k
    <2>1. SpelledOnce(Conf("int"))
      BY DEF Conf
    <2> HIDE DEF hs
    <2> QED
      BY <1>1, <2>1, KidsDiffer DEF Sides
  <1> HIDE DEF hs
  <1>3. ASSUME NEW k \in DOMAIN hs PROVE FirstOf(hs, Id(hs[k])) = hs[k]
    <2> DEFINE at == {j \in DOMAIN hs : Id(hs[j]) = Id(hs[k])}
    <2>1. at = {k}
      BY <1>2
    <2>2. k <= k
      BY <1>1
    <2>3. (CHOOSE j \in at : \A i \in at : j <= i) = k
      <3> HIDE DEF at
      <3> QED
        BY <2>1, <2>2
    <2> QED
      BY <2>3 DEF FirstOf
  <1>4. ToSet(hs) \subseteq S
    BY <1>3 DEF ToSet, IsFirst
  <1>5. Only(hs, S) = hs
    <2> HIDE DEF S
    <2> QED
      BY <1>1, <1>4, OnlyAll
  <1> QED
    BY <1>5 DEF Kept, hs

\* A line pairs with the running line of its identity, and leaves nothing to
\* clean up.
LEMMA PairIsTwin ==
    ASSUME InputsOK, SpelledOnce(running), NEW t,
           t.src \in Places("int"), t.run \in Places("run"),
           NEW h \in ToSet(Intended(t)), NEW j \in DOMAIN Running(t),
           Id(Running(t)[j]) = Id(h)
    PROVE  PairOf(t)[h] = [src |-> h, run |-> Running(t)[j], cleanup |-> FALSE]
  <1> DEFINE rs == Running(t)
             S == {r \in ToSet(rs) : Id(r) = Id(h)}
             group == SameId(rs, Id(h))
  <1>1. rs = KidsOf(t.run) /\ rs \in Seq(Nodes("run"))
    BY KidsAreNodes DEF Running, Sides
  <1>2. \A i, k \in DOMAIN rs : Id(rs[i]) = Id(rs[k]) => i = k
    <2>1. SpelledOnce(Conf("run"))
      BY DEF Conf
    <2> HIDE DEF rs
    <2> QED
      BY <1>1, <2>1, KidsDiffer DEF Sides
  <1> HIDE DEF rs
  <1>3. j \in DOMAIN rs /\ Id(rs[j]) = Id(h)
    BY DEF rs
  <1>4. \A k \in DOMAIN rs : rs[k] \in S <=> k = j
    <2>1. \A k \in DOMAIN rs : rs[k] \in ToSet(rs)
      BY DEF ToSet
    <2> QED
      BY <1>2, <1>3, <2>1
  <1>5. group = <<rs[j]>>
    <2>1. group = Only(rs, S)
      BY DEF SameId
    <2> HIDE DEF S, group
    <2> QED
      BY <1>1, <1>3, <1>4, <2>1, OnlyOne
  <1>6. group # <<>> /\ Len(group) = 1 /\ group[1] = rs[j]
    <2> HIDE DEF group
    <2> QED
      BY <1>5
  <1> HIDE DEF group
  <1>7. Counterpart(group, h) = [src |-> h, run |-> group[1], cleanup |-> FALSE]
    BY <1>6 DEF Counterpart
  <1>8. PairOf(t)[h] = Counterpart(group, h)
    BY <1>6 DEF PairOf, group, rs
  <1> QED
    BY <1>6, <1>7, <1>8 DEF rs

\* The pairs of a level are twins, and every running line is in one.
LEMMA PairsAreTwins ==
    ASSUME InputsOK, Alike, NEW t, t.src \in Places("int"), t.run \in Places("run"),
           PathOf(t.src) = PathOf(t.run)
    PROVE  /\ \A p \in ToSet(Pairings(t, Kept(t))) :
                p.run # Nil /\ ~p.cleanup /\ EntryOf(p.src) = EntryOf(p.run)
           /\ \A r \in ToSet(KidsOf(t.run)) :
                \E p \in ToSet(Pairings(t, Kept(t))) : p.run = r /\ Id(p.src) = Id(r)
  <1> DEFINE hs == Intended(t)
             rs == Running(t)
             ps == Pairings(t, Kept(t))
  <1>1. Kept(t) = hs /\ hs = KidsOf(t.src) /\ rs = KidsOf(t.run)
    BY KeptAll DEF Alike, Intended, Running
  <1>2. /\ DOMAIN ps = DOMAIN hs
        /\ \A k \in DOMAIN hs : ps[k] = PairOf(t)[hs[k]]
        /\ hs \in Seq(Nodes("int")) /\ rs \in Seq(Nodes("run"))
    BY <1>1, PairingsTyped, LevelKids
  <1> HIDE DEF hs, rs, ps
  <1>3. \A j \in DOMAIN rs : rs[j] # Nil
    <2>1. \A j \in DOMAIN rs : rs[j] \in Nodes("run")
      BY <1>2, SeqIsSeq
    <2> QED
      BY <2>1, NilIsNoNode
  <1>4. ASSUME NEW k \in DOMAIN hs, NEW j \in DOMAIN rs, Id(rs[j]) = Id(hs[k])
        PROVE  ps[k] = [src |-> hs[k], run |-> rs[j], cleanup |-> FALSE]
    <2>1. hs[k] \in ToSet(hs)
      BY DEF ToSet
    <2>2. PairOf(t)[hs[k]] = [src |-> hs[k], run |-> rs[j], cleanup |-> FALSE]
      BY <1>4, <2>1, PairIsTwin DEF Alike, hs, rs
    <2> QED
      BY <1>2, <2>2
  <1>5. ASSUME NEW p \in ToSet(ps)
        PROVE  p.run # Nil /\ ~p.cleanup /\ EntryOf(p.src) = EntryOf(p.run)
    <2>1. PICK k \in DOMAIN hs : p = ps[k]
      BY <1>2 DEF ToSet
    <2>2. PICK j \in DOMAIN rs : EntryOf(rs[j]) = EntryOf(hs[k]) /\ Id(rs[j]) = Id(hs[k])
      BY <1>1, TwinBelow DEF Sides
    <2>3. p = [src |-> hs[k], run |-> rs[j], cleanup |-> FALSE]
      BY <1>4, <2>1, <2>2
    <2> QED
      BY <1>3, <2>2, <2>3
  <1>6. ASSUME NEW r \in ToSet(rs)
        PROVE  \E p \in ToSet(ps) : p.run = r /\ Id(p.src) = Id(r)
    <2>1. PICK j \in DOMAIN rs : r = rs[j]
      BY DEF ToSet
    <2>2. PICK k \in DOMAIN hs : Id(hs[k]) = Id(rs[j])
      BY <1>1, TwinBelow DEF Sides
    <2>3. ps[k] = [src |-> hs[k], run |-> rs[j], cleanup |-> FALSE]
      BY <1>4, <2>2
    <2>4. ps[k] \in ToSet(ps)
      BY <1>2 DEF ToSet
    <2> QED
      BY <2>1, <2>2, <2>3, <2>4
  <1> QED
    BY <1>1, <1>5, <1>6 DEF ps

\* Twins need nothing, or are sections with one header.
LEMMA TwinsAgree ==
    ASSUME InputsOK, Alike, NEW h \in Nodes("int"), NEW r \in Nodes("run"),
           EntryOf(h) = EntryOf(r)
    PROVE  /\ PairKind(h, r) \in {"none", "section"}
           /\ PairKind(h, r) = "section" => Text(Line(h)) = Text(Line(r))
  <1> DEFINE l == Line(h)
             m == Line(r)
             a == Schema[l.def].list
  <1>1. Normal(l) = Normal(m)
    <2>1. EntryOf(h).line = Normal(l) /\ EntryOf(r).line = Normal(m)
      BY DEF EntryOf, Entry, Line
    <2> QED
      BY <2>1
  <1>2. /\ l = [def |-> l.def, f |-> l.f, block |-> l.block] /\ l.def \in Defs
        /\ m = [def |-> m.def, f |-> m.f, block |-> m.block] /\ m.def \in Defs
        /\ Schema[l.def].list # "" =>
            Schema[l.def].list \in DOMAIN l.f /\ ~Malformed(l.f[Schema[l.def].list])
        /\ Schema[m.def].list # "" =>
            Schema[m.def].list \in DOMAIN m.f /\ ~Malformed(m.f[Schema[m.def].list])
    <2>1. Configuration(running) /\ Configuration(intended)
      BY DEF InputsOK
    <2>2. ListsResolve(running) /\ ListsResolve(intended)
      BY DEF Alike
    <2>3. PICK p \in DOMAIN intended : h = <<"int", p>>
      BY DEF Nodes, Conf
    <2>4. PICK q \in DOMAIN running : r = <<"run", q>>
      BY DEF Nodes, Conf
    <2>5. l = intended[p] /\ m = running[q]
      BY <2>3, <2>4 DEF Line, Conf
    <2>6. /\ l = [def |-> l.def, f |-> l.f, block |-> l.block] /\ l.def \in Defs
          /\ Schema[l.def].list # "" => Schema[l.def].list \in DOMAIN l.f
      BY <2>1, <2>5 DEF Configuration
    <2>7. /\ m = [def |-> m.def, f |-> m.f, block |-> m.block] /\ m.def \in Defs
          /\ Schema[m.def].list # "" => Schema[m.def].list \in DOMAIN m.f
      BY <2>1, <2>5 DEF Configuration
    <2>8. /\ Schema[l.def].list # "" => ~Malformed(l.f[Schema[l.def].list])
          /\ Schema[m.def].list # "" => ~Malformed(m.f[Schema[m.def].list])
      BY <2>2, <2>5 DEF ListsResolve
    <2> QED
      BY <2>6, <2>7, <2>8
  <1> HIDE DEF l, m
  <1>3. l.def = m.def /\ l.block = m.block
    <2>1. Normal(l).def = l.def /\ Normal(l).block = l.block
      BY <1>2 DEF Normal
    <2>2. Normal(m).def = m.def /\ Normal(m).block = m.block
      BY <1>2 DEF Normal
    <2> QED
      BY <1>1, <2>1, <2>2
  <1>4. CASE a = ""
    <2>1. l = m
      BY <1>1, <1>3, <1>4 DEF Normal
    <2>2. SameValue(l, m) /\ Text(l) = Text(m)
      BY <2>1 DEF SameValue
    <2> QED
      BY <1>3, <2>2 DEF PairKind, l, m
  <1>5. CASE a # ""
    <2>1. Schema[l.def].kids = {} /\ Schema[l.def].idem
      BY <1>2, <1>5, SchemaAssumption DEF Buildable, ListBuilds
    <2>2. ~IsSection(l.def) /\ ~IsSection(m.def)
      BY <1>3, <2>1 DEF IsSection
    <2>3. /\ Normal(l).f = [l.f EXCEPT ![a] = ToSet(l.f[a])]
          /\ Normal(m).f = [m.f EXCEPT ![a] = ToSet(m.f[a])]
      <3>1. Normal(l) = [l EXCEPT !.f[a] = ToSet(l.f[a])]
        BY <1>5 DEF Normal
      <3>2. Normal(m) = [m EXCEPT !.f[a] = ToSet(m.f[a])]
        BY <1>3, <1>5 DEF Normal
      <3> QED
        BY <1>2, <3>1, <3>2
    <2>4. [l.f EXCEPT ![a] = ToSet(l.f[a])] = [m.f EXCEPT ![a] = ToSet(m.f[a])]
      BY <1>1, <2>3
    <2>5. a \in DOMAIN l.f /\ a \in DOMAIN m.f
      BY <1>2, <1>3, <1>5
    <2>6. ToSet(l.f[a]) = ToSet(m.f[a]) /\ \A x \in DOMAIN l.f \ {a} : l.f[x] = m.f[x]
      <3> DEFINE u == [l.f EXCEPT ![a] = ToSet(l.f[a])]
                 v == [m.f EXCEPT ![a] = ToSet(m.f[a])]
      <3>1. u[a] = ToSet(l.f[a]) /\ v[a] = ToSet(m.f[a])
        BY <2>5
      <3>2. DOMAIN u = DOMAIN l.f /\ DOMAIN v = DOMAIN m.f
        OBVIOUS
      <3>3. \A x \in DOMAIN l.f \ {a} : u[x] = l.f[x]
        OBVIOUS
      <3>4. \A x \in DOMAIN m.f \ {a} : v[x] = m.f[x]
        OBVIOUS
      <3>5. u = v
        BY <2>4
      <3> HIDE DEF u, v
      <3> QED
        BY <3>1, <3>2, <3>3, <3>4, <3>5
    <2>7. ListChange(h, r) = "none"
      BY <1>2, <1>3, <1>5, <2>6 DEF ListChange, l, m
    <2>8. PairKind(h, r) = "none"
      <3>1. PairKind(h, r) = IF SameValue(l, m) THEN "none"
                             ELSE IF Schema[l.def].idem THEN ListChange(h, r) ELSE "replace"
        BY <1>3, <2>2 DEF PairKind, l, m
      <3> QED
        BY <2>1, <2>7, <3>1
    <2> QED
      BY <2>8
  <1> QED
    BY <1>4, <1>5

\* Nothing has to go.
LEMMA NothingRemoved ==
    ASSUME InputsOK, NEW t, t.run \in Places("run"),
           \A p \in ToSet(t.pairs) : ~p.cleanup,
           \A r \in ToSet(KidsOf(t.run)) : \E p \in ToSet(t.pairs) : p.run = r /\ Id(p.src) = Id(r)
    PROVE  Removes(t) = <<>>
  <1> DEFINE rs == Running(t)
             Own(r) == {p \in ToSet(t.pairs) : Id(p.src) = Id(r)}
             Gone(r) ==
                \/ \E p \in Own(r) :
                    p.run # r /\ p.cleanup /\ ~SameValue(Line(r), Line(p.src))
                \/ /\ \A p \in Own(r) : p.run # r /\ ~p.cleanup
                   /\ IF IsFirst(r, rs) THEN Own(r) = {}
                      ELSE /\ CategoryOf(DefOf(r)) = "KindedSingle"
                           /\ Text(Line(r)) # Text(Line(FirstOf(rs, Id(r))))
             S == {r \in ToSet(rs) : Gone(r)}
  <1>1. rs = KidsOf(t.run) /\ rs \in Seq(Nodes("run"))
    BY KidsAreNodes DEF Running, Sides
  <1>2. Removes(t) = Only(rs, S)
    BY DEF Removes
  <1> HIDE DEF rs
  <1>3. ASSUME NEW r \in ToSet(rs) PROVE ~Gone(r)
    <2>1. PICK p \in ToSet(t.pairs) : p.run = r /\ Id(p.src) = Id(r)
      BY <1>1
    <2>2. p \in Own(r)
      BY <2>1
    <2>3. \A x \in Own(r) : ~x.cleanup
      OBVIOUS
    <2> HIDE DEF Own
    <2> QED
      BY <2>1, <2>2, <2>3
  <1>4. ToSet(rs) \cap S = {}
    <2> HIDE DEF Gone
    <2> QED
      BY <1>3
  <1> HIDE DEF S
  <1> QED
    BY <1>1, <1>2, <1>4, OnlyNone

\* What is left to do is to look into sections.
LEMMA IntentsAreSections ==
    ASSUME InputsOK, Alike, NEW t, t.pairs \in Seq(PairSet),
           \A p \in ToSet(t.pairs) : p.run # Nil /\ EntryOf(p.src) = EntryOf(p.run)
    PROVE  \A i \in ToSet(Intents(t)) : Entered(i)
  <1> DEFINE all == [k \in DOMAIN t.pairs |-> IntentOf(t.pairs[k])]
             S == {i \in ToSet(all) : i.kind # "none"}
  <1>1. ASSUME NEW k \in DOMAIN t.pairs
        PROVE  /\ IntentOf(t.pairs[k]) \in IntentSet
               /\ IntentOf(t.pairs[k]).kind = "none" \/ Entered(IntentOf(t.pairs[k]))
    <2> DEFINE p == t.pairs[k]
    <2>1. p \in ToSet(t.pairs) /\ p \in PairSet
      BY DEF ToSet
    <2>2. p.run # Nil /\ EntryOf(p.src) = EntryOf(p.run)
      BY <2>1
    <2> HIDE DEF p
    <2>3. IntentOf(p) = [src |-> p.src, run |-> p.run, kind |-> PairKind(p.src, p.run)]
      BY <2>2 DEF IntentOf
    <2>4. p.src \in Nodes("int") /\ p.run \in Nodes("run")
      BY <2>1, <2>2 DEF PairSet, MaybeRun
    <2>5. /\ PairKind(p.src, p.run) \in {"none", "section"}
          /\ PairKind(p.src, p.run) = "section" => Text(Line(p.src)) = Text(Line(p.run))
      BY <2>2, <2>4, TwinsAgree
    <2>6. IntentOf(p) \in IntentSet
      BY <2>1, IntentOfTyped
    <2>7. IntentOf(p).kind = "none" \/ Entered(IntentOf(p))
      BY <2>2, <2>3, <2>5 DEF Entered
    <2> QED
      BY <2>6, <2>7 DEF p
  <1>2. all \in Seq(IntentSet)
    <2>1. DOMAIN t.pairs = 1..Len(t.pairs) /\ Len(t.pairs) \in Nat
      OBVIOUS
    <2> QED
      BY <1>1, <2>1, IsASeq
  <1>3. ToSet(Intents(t)) \subseteq ToSet(all) \cap S
    <2>1. Intents(t) = Only(all, S)
      BY DEF Intents
    <2> HIDE DEF all, S
    <2> QED
      BY <1>2, <2>1, OnlyElements
  <1>4. ASSUME NEW i \in ToSet(Intents(t)) PROVE Entered(i)
    <2>1. i \in ToSet(all) /\ i.kind # "none"
      BY <1>3
    <2>2. PICK k \in DOMAIN t.pairs : i = IntentOf(t.pairs[k])
      BY <2>1 DEF ToSet
    <2> QED
      BY <1>1, <2>1, <2>2
  <1> QED
    BY <1>4

\* Whether a call is quiet depends on the inputs alone.
LEMMA QuietFixed ==
    ASSUME UNCHANGED <<running, intended>>
    PROVE  Alike' = Alike /\ \A t : Quiet(t)' = Quiet(t)
  <1>1. \A side : Conf(side)' = Conf(side)
    BY DEF Conf
  <1>2. \A h : PathOf(h)' = PathOf(h) /\ EntryOf(h)' = EntryOf(h)
            /\ KidsOf(h)' = KidsOf(h)
    BY <1>1 DEF PathOf, EntryOf, KidsOf
  <1>3. \A h : Id(h)' = Id(h) /\ Line(h)' = Line(h)
    BY LinesFixed
  <1>4. Alike' = Alike
    BY DEF Alike
  <1>5. \A i : Entered(i)' = Entered(i)
    BY <1>2, <1>3 DEF Entered
  <1>6. ASSUME NEW t PROVE Quiet(t)' = Quiet(t)
    BY <1>2, <1>3, <1>5 DEF Quiet
  <1> QED
    BY <1>4, <1>6

\* Quiet calls before quiet calls.
LEMMA QuietConcat ==
    ASSUME NEW s \in Seq(CallSet), NEW u \in Seq(CallSet), AllQuiet(s), AllQuiet(u)
    PROVE  AllQuiet(s \o u)
  <1>1. /\ Len(s) \in Nat /\ Len(u) \in Nat /\ s \o u \in Seq(CallSet)
        /\ Len(s \o u) = Len(s) + Len(u)
        /\ DOMAIN s = 1..Len(s) /\ DOMAIN u = 1..Len(u)
        /\ \A k \in 1..(Len(s) + Len(u)) :
            (s \o u)[k] = IF k <= Len(s) THEN s[k] ELSE u[k - Len(s)]
    BY ConcatProperties
  <1>2. DOMAIN (s \o u) = 1..(Len(s) + Len(u))
    BY <1>1
  <1>3. ASSUME NEW k \in 1..(Len(s) + Len(u)) PROVE Quiet((s \o u)[k])
    <2>1. CASE k <= Len(s)
      <3>1. k \in DOMAIN s /\ (s \o u)[k] = s[k]
        BY <1>1, <2>1
      <3> QED
        BY <3>1 DEF AllQuiet
    <2>2. CASE ~(k <= Len(s))
      <3>1. k - Len(s) \in DOMAIN u /\ (s \o u)[k] = u[k - Len(s)]
        BY <1>1, <2>2
      <3> QED
        BY <3>1 DEF AllQuiet
    <2> QED
      BY <2>1, <2>2
  <1> QED
    BY <1>2, <1>3 DEF AllQuiet

\* The head of a quiet worklist is quiet, and so is the rest.
LEMMA QuietHead ==
    ASSUME TypeInv, QuietInv, Alike, NEW call, Facing(call)
    PROVE  /\ Quiet(Head(todo)) /\ AllQuiet(Tail(todo))
           /\ ops = <<>> /\ errors = {} /\ pc = "collect"
  <1>1. pc = "collect" /\ todo # <<>> /\ todo \in Seq(CallSet)
    BY DEF Facing, TypeInv
  <1>2. AllQuiet(todo) /\ ops = <<>> /\ errors = {}
    BY <1>1 DEF QuietInv
  <1>3. /\ Len(todo) \in Nat /\ DOMAIN todo = 1..Len(todo) /\ Len(todo) # 0
        /\ Head(todo) = todo[1]
    BY <1>1, EmptySeq
  <1>4. /\ Tail(todo) \in Seq(CallSet) /\ Len(Tail(todo)) = Len(todo) - 1
        /\ \A k \in 1..Len(Tail(todo)) : Tail(todo)[k] = todo[k + 1]
    BY <1>1, HeadTailProperties
  <1>5. Quiet(Head(todo))
    BY <1>2, <1>3 DEF AllQuiet
  <1>6. AllQuiet(Tail(todo))
    <2>1. DOMAIN Tail(todo) = 1..(Len(todo) - 1)
      BY <1>4
    <2>2. \A k \in 1..(Len(todo) - 1) : k + 1 \in DOMAIN todo /\ Tail(todo)[k] = todo[k + 1]
      BY <1>3, <1>4
    <2> QED
      BY <1>2, <2>1, <2>2 DEF AllQuiet
  <1> QED
    BY <1>1, <1>2, <1>5, <1>6

\* A step of collect that leaves only quiet calls.
LEMMA QuietProcess ==
    ASSUME TypeInv, QuietInv, Alike, NEW call, Facing(call),
           NEW rest \in Seq(CallSet), AllQuiet(rest), Process(rest),
           ops' = ops, errors' = errors
    PROVE  QuietInv'
  <1>1. AllQuiet(Tail(todo)) /\ ops = <<>> /\ errors = {}
    BY QuietHead
  <1>2. Tail(todo) \in Seq(CallSet)
    BY HeadTyped
  <1>3. AllQuiet(todo')
    BY <1>1, <1>2, QuietConcat DEF Process
  <1>4. AllQuiet(todo)'
    <2>1. \A t : Quiet(t)' = Quiet(t)
      BY QuietFixed DEF Process, inputVars
    <2> QED
      BY <1>3, <2>1 DEF AllQuiet
  <1> QED
    BY <1>1, <1>4 DEF QuietInv

\* A section whose headers are twins leads to places that pair.
LEMMA QuietSection ==
    ASSUME NEW t \in IntentCallSet, Quiet(t)
    PROVE  /\ t.kind = "section" /\ IntentRefused(t) = ""
           /\ Text(Line(t.src)) = Text(Line(t.run))
           /\ Quiet(LevelCall(t.run[2], t.src[2], Append(t.secs, t.src), t.key))
  <1>1. /\ t.call = "intent" /\ t.src \in Nodes("int") /\ t.run \in MaybeRun
        /\ t.run = Nil <=> t.kind = "add"
    BY DEF IntentCallSet
  <1>2. Entered(t)
    BY <1>1 DEF Quiet
  <1>3. t.kind = "section" /\ EntryOf(t.src) = EntryOf(t.run) /\ Text(Line(t.src)) = Text(Line(t.run))
    BY <1>2 DEF Entered
  <1>4. t.run \in Nodes("run")
    BY <1>1, <1>3 DEF MaybeRun
  <1>5. IntentRefused(t) = ""
    BY <1>3 DEF IntentRefused
  <1>6. PathOf(t.src) = PathOf(t.run)
    <2>1. EntryOf(t.src).path = PathOf(t.src) /\ EntryOf(t.run).path = PathOf(t.run)
      BY DEF EntryOf, Entry, PathOf
    <2> QED
      BY <1>3, <2>1
  <1>7. t.src = <<"int", t.src[2]>> /\ t.run = <<"run", t.run[2]>>
    BY <1>1, <1>4 DEF Nodes
  <1>8. Quiet(LevelCall(t.run[2], t.src[2], Append(t.secs, t.src), t.key))
    BY <1>6, <1>7 DEF LevelCall, Quiet
  <1> QED
    BY <1>3, <1>5, <1>8

\* Every step of collect stays quiet.
LEMMA CollectQuiet ==
    ASSUME TypeInv, QuietInv, Alike, Collect
    PROVE  QuietInv'
  <1> DEFINE t == Head(todo)
  <1>0. InputsOK /\ \A X : \A x \in X : <<x>> \in Seq(X)
    BY DEF TypeInv
  <1>1. CASE PairLevel
    <2> DEFINE n == [t EXCEPT !.call = "removes", !.pairs = Pairings(t, Kept(t))]
    <2>1. /\ Facing("level") /\ ops' = ops /\ Process(<<n>>)
          /\ errors' = errors \cup
                (IF Len(Kept(t)) < Len(Intended(t)) THEN {"duplicate"} ELSE {})
      BY <1>1 DEF PairLevel
    <2>2. t \in LevelSet /\ t.call = "level" /\ n \in CallSet /\ Quiet(t)
      BY <2>1, HeadTyped, LevelAdvances, QuietHead
    <2>3. /\ t.src \in Places("int") /\ t.run \in Places("run") /\ PathOf(t.src) = PathOf(t.run)
      BY <2>2 DEF LevelSet, Quiet
    <2>4. errors' = errors
      <3>1. Kept(t) = Intended(t)
        BY <1>0, <2>3, KeptAll DEF Alike
      <3>2. Len(Intended(t)) \in Nat
        BY <1>0, <2>3, LevelKids
      <3> QED
        BY <2>1, <3>1, <3>2
    <2>5. n.call = "removes" /\ n.pairs = Pairings(t, Kept(t)) /\ n.run = t.run
      BY <2>2 DEF LevelSet
    <2> HIDE DEF n, t
    <2>6. Quiet(n)
      <3>1. /\ \A p \in ToSet(n.pairs) :
                p.run # Nil /\ ~p.cleanup /\ EntryOf(p.src) = EntryOf(p.run)
            /\ \A r \in ToSet(KidsOf(n.run)) :
                \E p \in ToSet(n.pairs) : p.run = r /\ Id(p.src) = Id(r)
        BY <1>0, <2>3, <2>5, PairsAreTwins
      <3> QED
        BY <2>5, <3>1 DEF Quiet
    <2>7. <<n>> \in Seq(CallSet) /\ AllQuiet(<<n>>)
      BY <1>0, <2>2, <2>6 DEF AllQuiet
    <2> QED
      BY <2>1, <2>4, <2>7, QuietProcess
  <1>2. CASE FindRemoves
    <2> DEFINE n == [t EXCEPT !.call = "toggles", !.intents = Intents(t), !.removes = Removes(t)]
    <2>1. Facing("removes") /\ ops' = ops /\ errors' = errors /\ Process(<<n>>)
      BY <1>2 DEF FindRemoves
    <2>2. t \in LevelSet /\ t.call = "removes" /\ n \in CallSet /\ Quiet(t)
      BY <2>1, HeadTyped, LevelAdvances, QuietHead
    <2>3. /\ t.run \in Places("run") /\ t.pairs \in Seq(PairSet)
          /\ \A p \in ToSet(t.pairs) :
                p.run # Nil /\ ~p.cleanup /\ EntryOf(p.src) = EntryOf(p.run)
          /\ \A r \in ToSet(KidsOf(t.run)) :
                \E p \in ToSet(t.pairs) : p.run = r /\ Id(p.src) = Id(r)
      BY <2>2 DEF LevelSet, Quiet
    <2>4. n.call = "toggles" /\ n.intents = Intents(t) /\ n.removes = Removes(t)
      BY <2>2 DEF LevelSet
    <2> HIDE DEF n, t
    <2>5. Removes(t) = <<>>
      BY <1>0, <2>3, NothingRemoved
    <2>6. \A i \in ToSet(Intents(t)) : Entered(i)
      BY <1>0, <2>3, IntentsAreSections
    <2>7. Quiet(n)
      BY <2>4, <2>5, <2>6 DEF Quiet
    <2>8. <<n>> \in Seq(CallSet) /\ AllQuiet(<<n>>)
      BY <1>0, <2>2, <2>7 DEF AllQuiet
    <2> QED
      BY <2>1, <2>8, QuietProcess
  <1>3. CASE DropToggles
    <2>1. /\ Facing("toggles") /\ ops' = ops /\ Process(LevelCalls(t))
          /\ errors' = errors \cup (IF SplitSlot(t) THEN {"split"} ELSE {})
      BY <1>3 DEF DropToggles
    <2>2. t \in LevelSet /\ t.call = "toggles" /\ Quiet(t)
      BY <2>1, HeadTyped, QuietHead
    <2>3. t.removes = <<>> /\ \A i \in ToSet(t.intents) : Entered(i)
      BY <2>2 DEF Quiet
    <2>4. /\ LevelCalls(t) = IntentCalls(t) \o RemovalCalls(Negations(t), t.secs, t.key)
          /\ IntentCalls(t) \in Seq(IntentCallSet)
          /\ Negations(t) \in Seq(Nodes("run")) /\ ToSet(Negations(t)) \subseteq ToSet(t.removes)
          /\ LevelCalls(t) \in Seq(CallSet)
      BY <1>0, <2>2, LevelCallsTyped
    <2> HIDE DEF t
    <2>5. ToSet(Negations(t)) = {}
      BY <2>3, <2>4 DEF ToSet
    <2>6. errors' = errors
      BY <2>1, <2>5 DEF SplitSlot
    <2>7. RemovalCalls(Negations(t), t.secs, t.key) = <<>>
      <3>1. Len(Negations(t)) = 0
        BY <2>4, <2>5, SeqIsSeq, FirstElement, EmptySeq
      <3>2. t.secs \in Seq(SomeNode) /\ t.key \in Seq(Int)
        BY <2>2 DEF LevelSet
      <3>3. /\ RemovalCalls(Negations(t), t.secs, t.key) \in Seq(RemovalCallSet)
            /\ Len(RemovalCalls(Negations(t), t.secs, t.key)) = 0
        BY <1>0, <2>4, <3>1, <3>2, RemovalCallsTyped
      <3> QED
        BY <3>3, EmptySeq
    <2>8. LevelCalls(t) = IntentCalls(t)
      BY <2>4, <2>7, ConcatEmptySeq
    <2>9. AllQuiet(IntentCalls(t))
      <3>1. DOMAIN IntentCalls(t) = DOMAIN t.intents
        BY DEF IntentCalls
      <3>2. ASSUME NEW k \in DOMAIN t.intents PROVE Quiet(IntentCalls(t)[k])
        <4> DEFINE i == t.intents[k]
                   c == IntentCalls(t)[k]
        <4>1. Entered(i)
          BY <2>3 DEF ToSet
        <4>2. c.call = "intent" /\ c.kind = i.kind /\ c.src = i.src /\ c.run = i.run
          BY DEF IntentCalls, Call
        <4> HIDE DEF i, c
        <4>3. Quiet(c)
          BY <4>1, <4>2 DEF Quiet, Entered
        <4> QED
          BY <4>3 DEF c
      <3> QED
        BY <3>1, <3>2 DEF AllQuiet
    <2> QED
      BY <2>1, <2>4, <2>6, <2>8, <2>9, QuietProcess
  <1>4. CASE Facing("intent")
    <2>1. t \in IntentCallSet /\ Quiet(t) /\ t.call = "intent"
      BY <1>4, HeadTyped, QuietHead
    <2> DEFINE n == LevelCall(t.run[2], t.src[2], Append(t.secs, t.src), t.key)
    <2>2. /\ t.kind = "section" /\ IntentRefused(t) = ""
          /\ Text(Line(t.src)) = Text(Line(t.run)) /\ Quiet(n)
      BY <2>1, QuietSection
    <2>3. n \in CallSet
      BY <1>0, <2>1, <2>2, SectionCalls
    <2>4. EnterSection
      <3>1. todo # <<>> /\ t.call = "intent"
        BY <1>4 DEF Facing
      <3>2. ~(AddLine \/ ModifyLine \/ DeltaLine \/ ReplaceLine)
        BY <2>2 DEF AddLine, ModifyLine, DeltaLine, ReplaceLine, Accepted
      <3>3. ~RefuseIntent
        BY <2>2 DEF RefuseIntent
      <3>4. ~(PairLevel \/ FindRemoves \/ DropToggles)
        BY <3>1 DEF PairLevel, FindRemoves, DropToggles, Facing
      <3>5. ~(ExpandRemoval \/ RefuseExpansion \/ RefuseDelete \/ RemoveLine)
        BY <3>1 DEF ExpandRemoval, RefuseExpansion, RefuseDelete, RemoveLine, Facing
      <3>6. ~CheckBaselineRemovals
        BY <3>1 DEF CheckBaselineRemovals
      <3> QED
        BY <3>2, <3>3, <3>4, <3>5, <3>6 DEF Collect
    <2>5. Process(<<n>>) /\ ops' = ops /\ errors' = errors
      BY <2>2, <2>4 DEF EnterSection
    <2> HIDE DEF n
    <2>6. <<n>> \in Seq(CallSet) /\ AllQuiet(<<n>>)
      <3>1. Quiet(n)
        BY <2>2
      <3>2. AllQuiet(<<n>>)
        BY <3>1 DEF AllQuiet
      <3> QED
        BY <1>0, <2>3, <3>2
    <2> QED
      BY <1>4, <2>5, <2>6, QuietProcess
  <1>5. CASE Facing("removal")
    <2>1. Quiet(t) /\ t.call = "removal"
      BY <1>5, HeadTyped, QuietHead
    <2> QED
      BY <2>1 DEF Quiet
  <1>6. CASE CheckBaselineRemovals
    <2>1. /\ pc = "collect" /\ pc' = "cleanup" /\ ops' = ops
          /\ errors' = errors \cup (IF BaselineLoss THEN {"baseline"} ELSE {})
      BY <1>6 DEF CheckBaselineRemovals
    <2>2. ops = <<>> /\ errors = {}
      BY DEF QuietInv
    <2>3. ~BaselineLoss
      BY <2>2 DEF BaselineLoss, Ops
    <2> QED
      BY <2>1, <2>2, <2>3 DEF QuietInv
  <1> QED
    BY <1>1, <1>2, <1>3, <1>4, <1>5, <1>6
    DEF Collect, AddLine, ModifyLine, DeltaLine, ReplaceLine, EnterSection, Accepted,
        RefuseIntent, ExpandRemoval, RefuseExpansion, RefuseDelete, RemoveLine

\* Without operations there is nothing to derive, to schedule or to write.
LEMMA NextQuiet == TypeInv /\ QuietInv /\ [DeviceNext]_<<vars, deviceVars>> => QuietInv'
  <1> SUFFICES ASSUME TypeInv, QuietInv, [DeviceNext]_<<vars, deviceVars>>, Alike'
               PROVE  QuietInv'
    BY DEF QuietInv
  <1>1. CASE Diff /\ Collect
    <2>1. UNCHANGED <<running, intended>>
      BY <1>1 DEF Collect, PairLevel, FindRemoves, DropToggles, AddLine, ModifyLine,
                  DeltaLine, ReplaceLine, EnterSection, RefuseIntent, ExpandRemoval,
                  RefuseExpansion, RefuseDelete, RemoveLine, CheckBaselineRemovals,
                  Process, inputVars
    <2>2. Alike
      BY <2>1, QuietFixed
    <2> QED
      BY <1>1, <2>2, CollectQuiet
  <1>2. CASE Diff /\ ~Collect
    <2>1. /\ UNCHANGED <<running, intended>> /\ ops' = ops /\ pc' # "collect"
          /\ \/ errors' = errors
             \/ errors' = errors \cup (IF Unsatisfiable THEN {"requires"} ELSE {})
             \/ \E i \in Ops : Sched!AbortOnCycle(i)
      <3>1. CASE DeriveEdges
        BY <3>1 DEF DeriveEdges, DeriveSlotCleanupEdges, DeriveRefEdges, DeriveMoveEdges,
             DeriveRequireEdges, DeriveExclusionEdges, CountIndegrees, Derive, inputVars
      <3>2. CASE Scheduling
        <4>1. UNCHANGED <<running, intended>> /\ errors' = errors
          BY <3>2 DEF Scheduling, inputVars
        <4>2. ASSUME NEW i \in Ops, \/ Sched!Emit(i) \/ Sched!Stall(i)
                                    \/ Sched!ExtendWalk(i) \/ Sched!BreakOnCycle(i)
              PROVE  ops' = ops /\ pc' \in {"emit", "walk"}
          BY <4>2 DEF Sched!Emit, Sched!Stall, Sched!ExtendWalk, Sched!BreakOnCycle
        <4>3. ASSUME Sched!Finish PROVE ops' = ops /\ pc' = "done"
          BY <4>3 DEF Sched!Finish
        <4> QED
          BY <3>2, <4>1, <4>2, <4>3 DEF Scheduling
      <3>3. CASE AbortPlan
        <4>1. PICK i \in Ops : Sched!AbortOnCycle(i)
          BY <3>3 DEF AbortPlan
        <4>2. ops' = ops /\ pc' = "aborted"
          BY <4>1 DEF Sched!AbortOnCycle
        <4> QED
          BY <3>3, <4>1, <4>2 DEF AbortPlan, inputVars
      <3>4. CASE Materialize
        BY <3>4 DEF Materialize, inputVars
      <3> QED
        BY <1>2, <3>1, <3>2, <3>3, <3>4 DEF Diff, DiffNext
    <2>2. Alike
      BY <2>1, QuietFixed
    <2>3. ops = <<>> /\ errors = {}
      BY <2>2 DEF QuietInv
    <2>4. Ops = {} /\ ~Unsatisfiable
      BY <2>3 DEF Unsatisfiable, Ops
    <2> QED
      BY <2>1, <2>3, <2>4 DEF QuietInv
  <1>3. CASE Apply \/ Returned \/ UNCHANGED <<vars, deviceVars>>
    <2>1. UNCHANGED <<running, intended, todo, errors, pc, ops>>
      BY <1>3 DEF Apply, Returned, vars, inputVars, schedVars
    <2>2. Alike /\ \A t : Quiet(t)' = Quiet(t)
      BY <2>1, QuietFixed
    <2> QED
      BY <2>1, <2>2 DEF QuietInv, AllQuiet
  <1> QED
    BY <1>1, <1>2, <1>3 DEF DeviceNext

\* Configurations that differ only in the order of lines and the spelling of
\* lists give an empty plan and no Error, wherever Diff stands.
THEOREM NothingFoundBetweenEqualConfigurations == DeviceSpec => []EqualIsEmpty
  <1>1. DeviceInit => QuietInv
    <2> SUFFICES ASSUME DeviceInit PROVE QuietInv
      OBVIOUS
    <2>1. todo = <<LevelCall(<<>>, <<>>, <<>>, <<>>)>> /\ ops = <<>> /\ errors = {}
      BY DEF DeviceInit, Init
    <2>2. Quiet(LevelCall(<<>>, <<>>, <<>>, <<>>))
      BY DEF Quiet, LevelCall, PathOf, SlotPath
    <2> QED
      BY <2>1, <2>2 DEF QuietInv, AllQuiet
  <1>2. TypeInv /\ QuietInv /\ [DeviceNext]_<<vars, deviceVars>> => QuietInv'
    BY NextQuiet
  <1>3. QuietInv => EqualIsEmpty
    BY DEF QuietInv, EqualIsEmpty, Alike
  <1> QED
    BY <1>1, <1>2, <1>3, PipelineTyped, PTL DEF DeviceSpec
=============================================================================
