---------------------------- MODULE MergeProofs ----------------------------
(***************************************************************************)
(* What a merge leaves in the output, for every schema, any parts and      *)
(* every resolver: a configuration with one line per slot, each attributed *)
(* to a part that has it, and no line of a part lost in silence.  Parts    *)
(* that agree merge without a word, and a strategy that is declared        *)
(* against every other part decides for the whole stanza.                  *)
(*                                                                         *)
(* Half of the work is bookkeeping about paths: a clone moves a subtree,   *)
(* and the lines around and below it have to be found again (Rel).  The    *)
(* other half is what the worklist knows about the output: an item joins a *)
(* level whose sections have the slots of those around the folded line     *)
(* (ItemOK), and it is never below a line that an earlier item replaces,   *)
(* because items are in the order of a walk (TodoOK).                      *)
(***************************************************************************)
EXTENDS Merge, FiniteSetTheorems, SequenceTheorems, WellFoundedInduction, TLAPS

Path == Seq(Nat)

Upto(p, k) == SubSeq(p, 1, k)

\* Where y, somewhere below p, is when the subtree of p is moved to q.
Rel(p, q, y) == q \o SubSeq(y, Len(p) + 1, Len(y))

\* The path of the root.
LEMMA RootIsPath == <<>> \in Path /\ Len(<<>>) = 0
  BY DEF Path

\* The first k steps of a path.
LEMMA UptoIs ==
    ASSUME NEW p \in Path, NEW k \in 0..Len(p)
    PROVE  /\ Upto(p, k) \in Path /\ Len(Upto(p, k)) = k
           /\ \A i \in 1..k : Upto(p, k)[i] = p[i]
  BY DEF Upto, Path

\* Paths with the same steps are the same.
LEMMA SamePath ==
    ASSUME NEW p \in Path, NEW q \in Path, Len(p) = Len(q), \A i \in 1..Len(p) : p[i] = q[i]
    PROVE  p = q
  BY SeqEqual DEF Path

\* What is below a line starts with the steps to it.
LEMMA BelowIs ==
    ASSUME NEW p \in Path, NEW q \in Path
    PROVE  Below(p, q) <=> Len(p) <= Len(q) /\ \A i \in 1..Len(p) : q[i] = p[i]
  <1>1. ASSUME Len(p) <= Len(q) PROVE
           /\ SubSeq(q, 1, Len(p)) \in Path /\ Len(SubSeq(q, 1, Len(p))) = Len(p)
           /\ \A i \in 1..Len(p) : SubSeq(q, 1, Len(p))[i] = q[i]
    BY <1>1 DEF Path
  <1> QED
    BY <1>1, SamePath DEF Below

\* The steps of a moved path.
LEMMA RelIs ==
    ASSUME NEW p \in Path, NEW q \in Path, NEW y \in Path, Len(p) <= Len(y)
    PROVE  /\ Rel(p, q, y) \in Path
           /\ Len(Rel(p, q, y)) = Len(q) + (Len(y) - Len(p))
           /\ \A i \in 1..Len(q) : Rel(p, q, y)[i] = q[i]
           /\ \A i \in (Len(q) + 1)..Len(Rel(p, q, y)) :
                Rel(p, q, y)[i] = y[i - Len(q) + Len(p)]
  <1> DEFINE s == SubSeq(y, Len(p) + 1, Len(y))
  <1>1. /\ Len(p) \in Nat /\ Len(q) \in Nat /\ Len(y) \in Nat
    BY DEF Path
  <1>2. /\ s \in Path /\ Len(s) = Len(y) - Len(p)
        /\ \A i \in 1..Len(s) : s[i] = y[i + Len(p)]
    <2>1. /\ Len(p) + 1 \in 1..(Len(y) + 1) /\ Len(y) \in Len(p)..Len(y)
      BY <1>1
    <2>2. /\ SubSeq(y, Len(p) + 1, Len(y)) \in Seq(Nat)
          /\ Len(SubSeq(y, Len(p) + 1, Len(y))) = Len(y) - Len(p)
      BY <1>1, <2>1, SubSeqProperties DEF Path
    <2>3. ASSUME NEW i \in 1..(Len(y) - Len(p))
          PROVE  SubSeq(y, Len(p) + 1, Len(y))[i] = y[i + Len(p)]
      <3>1. Len(p) + 1 + i - 1 = i + Len(p)
        BY <1>1
      <3> QED
        BY <1>1, <2>1, <2>2, <3>1, SubSeqProperties DEF Path
    <2> QED
      BY <2>2, <2>3 DEF Path
  <1> HIDE DEF s
  <1>3. /\ q \o s \in Path /\ Len(q \o s) = Len(q) + Len(s)
        /\ \A i \in 1..Len(q) : (q \o s)[i] = q[i]
        /\ \A i \in (Len(q) + 1)..(Len(q) + Len(s)) : (q \o s)[i] = s[i - Len(q)]
    <2>1. q \in Seq(Nat) /\ s \in Seq(Nat) /\ Len(s) \in Nat
      BY <1>1, <1>2 DEF Path
    <2>2. /\ q \o s \in Seq(Nat)
          /\ Len(q \o s) = Len(q) + Len(s)
          /\ \A i \in 1 .. Len(q) + Len(s) : (q \o s)[i] =
                     IF i <= Len(q) THEN q[i] ELSE s[i - Len(q)]
      BY <2>1, ConcatProperties
    <2> QED
      BY <1>1, <2>1, <2>2 DEF Path
  <1>4. Rel(p, q, y) = q \o s
    BY DEF Rel, s
  <1>5. ASSUME NEW i \in (Len(q) + 1)..(Len(q) + Len(s))
        PROVE  (q \o s)[i] = y[i - Len(q) + Len(p)]
    <2>1. i - Len(q) \in 1..Len(s)
      BY <1>1, <1>2
    <2> QED
      BY <1>2, <1>3, <2>1
  <1> QED
    BY <1>2, <1>3, <1>4, <1>5

\* The lines around a line, from the root down.
LEMMA UptoOf ==
    ASSUME NEW p \in Path, NEW k \in 0..Len(p)
    PROVE  /\ Below(Upto(p, k), p)
           /\ Upto(p, Len(p)) = p
           /\ \A j \in 0..k : Upto(Upto(p, k), j) = Upto(p, j)
           /\ k > 0 => Parent(Upto(p, k)) = Upto(p, k - 1)
  <1>0. Len(p) \in Nat /\ k \in Nat /\ k <= Len(p)
    BY DEF Path
  <1>1. Below(Upto(p, k), p)
    BY <1>0, UptoIs, BelowIs
  <1>2. Upto(p, Len(p)) = p
    BY <1>0, UptoIs, SamePath
  <1>3. ASSUME NEW j \in 0..k PROVE Upto(Upto(p, k), j) = Upto(p, j)
    <2>1. Upto(p, k) \in Path /\ Len(Upto(p, k)) = k /\ \A i \in 1..k : Upto(p, k)[i] = p[i]
      BY UptoIs
    <2>2. Upto(p, j) \in Path /\ Len(Upto(p, j)) = j /\ \A i \in 1..j : Upto(p, j)[i] = p[i]
      BY <1>0, UptoIs
    <2>3. /\ Upto(Upto(p, k), j) \in Path /\ Len(Upto(Upto(p, k), j)) = j
          /\ \A i \in 1..j : Upto(Upto(p, k), j)[i] = Upto(p, k)[i]
      BY <2>1, UptoIs
    <2> QED
      BY <1>0, <2>1, <2>2, <2>3, SamePath
  <1>4. k > 0 => Parent(Upto(p, k)) = Upto(Upto(p, k), k - 1)
    BY <1>0, UptoIs DEF Parent, Front, Upto
  <1> QED
    BY <1>0, <1>1, <1>2, <1>3, <1>4

\* Lines below p are reached through the lines around p.
LEMMA BelowUpto ==
    ASSUME NEW p \in Path, NEW q \in Path, Below(p, q)
    PROVE  /\ Len(p) <= Len(q)
           /\ \A j \in 0..Len(p) : Upto(q, j) = Upto(p, j)
           /\ Upto(q, Len(p)) = p
  <1>0. Len(p) \in Nat /\ Len(q) \in Nat /\ Len(p) <= Len(q)
    BY BelowIs DEF Path
  <1>1. Upto(q, Len(p)) = p
    BY DEF Below, Upto
  <1> QED
    BY <1>0, <1>1, UptoOf

\* Below is a partial order, and what is around one line is linear.
LEMMA BelowTwice ==
    ASSUME NEW p \in Path, NEW q \in Path, NEW r \in Path
    PROVE  /\ Below(p, p) /\ Below(<<>>, p)
           /\ Below(p, q) /\ Below(q, r) => Below(p, r)
           /\ Below(p, q) /\ Len(p) = Len(q) => p = q
           /\ Below(p, r) /\ Below(q, r) /\ Len(p) <= Len(q) => Below(p, q)
  <1>0. Len(p) \in Nat /\ Len(q) \in Nat /\ Len(r) \in Nat /\ <<>> \in Path
    BY DEF Path
  <1>1. Below(p, p) /\ Below(<<>>, p)
    BY <1>0, BelowIs
  <1>2. Below(p, q) /\ Below(q, r) => Below(p, r)
    BY <1>0, BelowIs
  <1>3. Below(p, q) /\ Len(p) = Len(q) => p = q
    BY <1>0, BelowIs, SamePath
  <1>4. Below(p, r) /\ Below(q, r) /\ Len(p) <= Len(q) => Below(p, q)
    BY <1>0, BelowIs
  <1> QED
    BY <1>1, <1>2, <1>3, <1>4

\* Children, parents and what is below.
LEMMA ChildIs ==
    ASSUME NEW p \in Path, NEW q \in Path
    PROVE  /\ IsChild(p, q) <=> q # <<>> /\ Parent(q) = p
           /\ IsChild(p, q) <=> Len(q) = Len(p) + 1 /\ Below(p, q)
           /\ q # <<>> => Parent(q) = Upto(q, Len(q) - 1) /\ Parent(q) \in Path
                          /\ Len(Parent(q)) = Len(q) - 1 /\ Below(Parent(q), q)
  <1>0. Len(p) \in Nat /\ Len(q) \in Nat /\ (q # <<>> <=> Len(q) > 0)
    BY DEF Path
  <1>1. Parent(q) = Upto(q, Len(q) - 1)
    BY DEF Parent, Front, Upto
  <1>2. ASSUME q # <<>>
        PROVE  /\ Parent(q) \in Path /\ Len(Parent(q)) = Len(q) - 1
               /\ Below(Parent(q), q)
    BY <1>0, <1>1, <1>2, UptoIs, UptoOf
  <1>3. IsChild(p, q) <=> Len(q) = Len(p) + 1 /\ Below(p, q)
    BY <1>0 DEF IsChild, Below
  <1>4. ASSUME IsChild(p, q) PROVE q # <<>> /\ Parent(q) = p
    <2>1. q # <<>> /\ Len(q) - 1 = Len(p)
      BY <1>0, <1>4 DEF IsChild
    <2> QED
      BY <1>1, <1>4, <2>1 DEF IsChild, Upto
  <1>5. ASSUME q # <<>>, Parent(q) = p PROVE IsChild(p, q)
    BY <1>0, <1>1, <1>2, <1>3, <1>5
  <1> QED
    BY <1>1, <1>2, <1>3, <1>4, <1>5

\* The k-th child.
LEMMA AppendIs ==
    ASSUME NEW p \in Path, NEW k \in Nat
    PROVE  /\ Append(p, k) \in Path /\ Len(Append(p, k)) = Len(p) + 1
           /\ \A i \in 1..Len(p) : Append(p, k)[i] = p[i]
           /\ Append(p, k)[Len(p) + 1] = k
           /\ IsChild(p, Append(p, k)) /\ Parent(Append(p, k)) = p
  <1>0. Len(p) \in Nat
    BY DEF Path
  <1>1. /\ Append(p, k) \in Path /\ Len(Append(p, k)) = Len(p) + 1
        /\ \A i \in 1..Len(p) : Append(p, k)[i] = p[i]
        /\ Append(p, k)[Len(p) + 1] = k
    BY AppendProperties DEF Path
  <1> DEFINE a == Append(p, k)
  <1>2. Below(p, a)
    <2>1. a \in Path /\ Len(a) = Len(p) + 1 /\ \A i \in 1..Len(p) : a[i] = p[i]
      BY <1>1
    <2> HIDE DEF a
    <2> QED
      BY <1>0, <2>1, BelowIs
  <1> QED
    BY <1>0, <1>1, <1>2, ChildIs

\* Every child is the k-th for some k.
LEMMA ChildAppend ==
    ASSUME NEW p \in Path, NEW q \in Path, IsChild(p, q)
    PROVE  q[Len(q)] \in Nat /\ q = Append(p, q[Len(q)])
  <1>0. Len(p) \in Nat /\ Len(q) = Len(p) + 1 /\ Below(p, q)
    BY ChildIs DEF Path
  <1>1. q[Len(q)] \in Nat
    BY <1>0 DEF Path
  <1>2. /\ Append(p, q[Len(q)]) \in Path /\ Len(Append(p, q[Len(q)])) = Len(q)
        /\ \A i \in 1..Len(p) : Append(p, q[Len(q)])[i] = p[i]
        /\ Append(p, q[Len(q)])[Len(q)] = q[Len(q)]
    BY <1>0, <1>1, AppendIs
  <1>3. \A i \in 1..Len(q) : i = Len(q) \/ i \in 1..Len(p)
    BY <1>0
  <1>4. \A i \in 1..Len(p) : q[i] = p[i]
    BY <1>0, BelowIs
  <1> QED
    BY <1>1, <1>2, <1>3, <1>4, SamePath

\* Moving a subtree from p to q and back; what is around and below a moved line.
LEMMA RelBack ==
    ASSUME NEW p \in Path, NEW q \in Path, NEW y \in Path, Below(p, y)
    PROVE  /\ Below(q, Rel(p, q, y))
           /\ Rel(q, p, Rel(p, q, y)) = y
           /\ Rel(p, q, p) = q
  <1>0. Len(p) \in Nat /\ Len(q) \in Nat /\ Len(y) \in Nat /\ Len(p) <= Len(y)
    BY BelowIs DEF Path
  <1> DEFINE r == Rel(p, q, y)
             b == Rel(q, p, r)
             c == Rel(p, q, p)
  <1>1. /\ r \in Path /\ Len(r) = Len(q) + (Len(y) - Len(p))
        /\ \A i \in 1..Len(q) : r[i] = q[i]
        /\ \A i \in (Len(q) + 1)..Len(r) : r[i] = y[i - Len(q) + Len(p)]
    BY <1>0, RelIs
  <1> HIDE DEF r
  <1>2. Below(q, r)
    BY <1>0, <1>1, BelowIs
  <1>3. b = y
    <2>1. /\ b \in Path /\ Len(b) = Len(p) + (Len(r) - Len(q))
          /\ \A i \in 1..Len(p) : b[i] = p[i]
          /\ \A i \in (Len(p) + 1)..Len(b) : b[i] = r[i - Len(p) + Len(q)]
      BY <1>0, <1>1, RelIs
    <2> HIDE DEF b
    <2>2. \A i \in 1..Len(p) : y[i] = p[i]
      BY BelowIs
    <2>3. ASSUME NEW i \in (Len(p) + 1)..Len(b) PROVE b[i] = y[i]
      <3>1. i - Len(p) + Len(q) \in (Len(q) + 1)..Len(r)
        BY <1>0, <1>1, <2>1
      <3>2. (i - Len(p) + Len(q)) - Len(q) + Len(p) = i
        BY <1>0, <1>1, <2>1
      <3> QED
        BY <1>1, <2>1, <3>1, <3>2
    <2> QED
      BY <1>0, <1>1, <2>1, <2>2, <2>3, SamePath
  <1>4. c = q
    <2>1. /\ c \in Path /\ Len(c) = Len(q) + (Len(p) - Len(p))
          /\ \A i \in 1..Len(q) : c[i] = q[i]
      BY <1>0, RelIs
    <2> HIDE DEF c
    <2> QED
      BY <1>0, <2>1, SamePath
  <1> QED
    BY <1>2, <1>3, <1>4 DEF r

\* The lines around a moved line.
LEMMA RelUpto ==
    ASSUME NEW p \in Path, NEW q \in Path, NEW y \in Path, Below(p, y)
    PROVE  /\ \A j \in 0..Len(q) : Upto(Rel(p, q, y), j) = Upto(q, j)
           /\ \A j \in Len(p)..Len(y) :
                Upto(Rel(p, q, y), j - Len(p) + Len(q)) = Rel(p, q, Upto(y, j))
  <1>0. Len(p) \in Nat /\ Len(q) \in Nat /\ Len(y) \in Nat /\ Len(p) <= Len(y)
    BY BelowIs DEF Path
  <1> DEFINE r == Rel(p, q, y)
  <1>1. /\ r \in Path /\ Len(r) = Len(q) + (Len(y) - Len(p))
        /\ \A i \in 1..Len(q) : r[i] = q[i]
        /\ \A i \in (Len(q) + 1)..Len(r) : r[i] = y[i - Len(q) + Len(p)]
    BY <1>0, RelIs
  <1>2. Below(q, r)
    BY RelBack
  <1> HIDE DEF r
  <1>3. \A j \in 0..Len(q) : Upto(r, j) = Upto(q, j)
    BY <1>1, <1>2, BelowUpto
  <1>4. ASSUME NEW j \in Len(p)..Len(y)
        PROVE  Upto(r, j - Len(p) + Len(q)) = Rel(p, q, Upto(y, j))
    <2> DEFINE k == j - Len(p) + Len(q)
               u == Upto(r, k)
               z == Upto(y, j)
               v == Rel(p, q, z)
    <2>0. j \in 0..Len(y) /\ k \in 0..Len(r) /\ k >= Len(q) /\ j \in Nat /\ k \in Nat
          /\ k = Len(q) + (j - Len(p)) /\ j >= Len(p)
      BY <1>0, <1>1
    <2> HIDE DEF k
    <2>1. u \in Path /\ Len(u) = k /\ \A i \in 1..k : u[i] = r[i]
      BY <1>1, <2>0, UptoIs
    <2>2. z \in Path /\ Len(z) = j /\ \A i \in 1..j : z[i] = y[i]
      BY <2>0, UptoIs
    <2> HIDE DEF u, z
    <2>3. /\ v \in Path /\ Len(v) = Len(q) + (Len(z) - Len(p))
          /\ \A i \in 1..Len(q) : v[i] = q[i]
          /\ \A i \in (Len(q) + 1)..Len(v) : v[i] = z[i - Len(q) + Len(p)]
      BY <1>0, <2>0, <2>2, RelIs
    <2> HIDE DEF v
    <2>4. Len(v) = k
      BY <2>0, <2>2, <2>3
    <2>5. ASSUME NEW i \in (Len(q) + 1)..k PROVE u[i] = v[i]
      <3>1. i - Len(q) + Len(p) \in 1..j /\ i \in 1..k /\ i \in (Len(q) + 1)..Len(r)
        BY <1>0, <1>1, <2>0, <2>4
      <3>2. v[i] = z[i - Len(q) + Len(p)]
        BY <2>3, <2>4
      <3> QED
        BY <1>1, <2>1, <2>2, <3>1, <3>2
    <2>6. \A i \in 1..Len(q) : u[i] = v[i]
      BY <1>0, <1>1, <2>0, <2>1, <2>3
    <2>7. u = v
      <3>1. \A i \in 1..Len(u) : u[i] = v[i]
        BY <1>0, <2>0, <2>1, <2>5, <2>6
      <3> QED
        BY <2>1, <2>3, <2>4, <3>1, SamePath
    <2> QED
      BY <2>7 DEF u, v, z, k
  <1> QED
    BY <1>3, <1>4 DEF r

\* The children of a moved line are moved children.
LEMMA RelChild ==
    ASSUME NEW p \in Path, NEW q \in Path, NEW y \in Path, Below(p, y), NEW k \in Nat
    PROVE  Rel(p, q, Append(y, k)) = Append(Rel(p, q, y), k)
  <1>0. Len(p) \in Nat /\ Len(q) \in Nat /\ Len(y) \in Nat /\ Len(p) <= Len(y)
    BY BelowIs DEF Path
  <1> DEFINE r == Rel(p, q, y)
             a == Append(y, k)
             u == Rel(p, q, a)
             v == Append(r, k)
  <1>1. /\ r \in Path /\ Len(r) = Len(q) + (Len(y) - Len(p))
        /\ \A i \in 1..Len(q) : r[i] = q[i]
        /\ \A i \in (Len(q) + 1)..Len(r) : r[i] = y[i - Len(q) + Len(p)]
    BY <1>0, RelIs
  <1>2. /\ a \in Path /\ Len(a) = Len(y) + 1
        /\ \A i \in 1..Len(y) : a[i] = y[i]
        /\ a[Len(y) + 1] = k
    BY AppendIs
  <1> HIDE DEF r, a
  <1>3. /\ u \in Path /\ Len(u) = Len(q) + (Len(a) - Len(p))
        /\ \A i \in 1..Len(q) : u[i] = q[i]
        /\ \A i \in (Len(q) + 1)..Len(u) : u[i] = a[i - Len(q) + Len(p)]
    BY <1>0, <1>2, RelIs
  <1>4. /\ v \in Path /\ Len(v) = Len(r) + 1
        /\ \A i \in 1..Len(r) : v[i] = r[i]
        /\ v[Len(r) + 1] = k
    BY <1>1, AppendIs
  <1> HIDE DEF u, v
  <1>5. Len(u) = Len(v) /\ Len(u) \in Nat
    BY <1>0, <1>1, <1>2, <1>3, <1>4
  <1>6. ASSUME NEW i \in 1..Len(u) PROVE u[i] = v[i]
    <2>1. CASE i \in 1..Len(q)
      BY <1>0, <1>1, <1>3, <1>4, <2>1
    <2>2. CASE i \in (Len(q) + 1)..Len(r)
      <3>1. i - Len(q) + Len(p) \in 1..Len(y) /\ i \in (Len(q) + 1)..Len(u) /\ i \in 1..Len(r)
        BY <1>0, <1>1, <1>2, <1>3, <2>2
      <3> QED
        BY <1>1, <1>2, <1>3, <1>4, <2>2, <3>1
    <2>3. CASE i = Len(r) + 1
      <3>1. i - Len(q) + Len(p) = Len(y) + 1 /\ i \in (Len(q) + 1)..Len(u)
        BY <1>0, <1>1, <1>2, <1>3, <2>3
      <3> QED
        BY <1>2, <1>3, <1>4, <2>3, <3>1
    <2> QED
      BY <1>0, <1>1, <1>4, <1>5, <2>1, <2>2, <2>3
  <1> QED
    <2>1. u = v
      BY <1>3, <1>4, <1>5, <1>6, SamePath
    <2> QED
      BY <2>1 DEF u, v, r, a
-----------------------------------------------------------------------------
(* The inductive invariant.                                                *)

\* The inputs are those of a call.
InputsOK == \E m \in Merges : parts = m.parts /\ policy = m.policy

\* The lines around a line of c are lines of c.
Closed(c) ==
    /\ DOMAIN c \subseteq Path \ {<<>>}
    /\ \A p \in DOMAIN c : \A k \in 1..Len(p) : Upto(p, k) \in DOMAIN c

\* The children of every line are numbered from 1 without a gap.
ChildrenIn(c, p) == {q \in DOMAIN c : IsChild(p, q)}

Numbered(c, p) == \E n \in Nat : ChildrenIn(c, p) = {Append(p, k) : k \in 1..n}

Dense(c) == \A p \in DOMAIN c \cup {<<>>} : Numbered(c, p)

Items == [at : Path, part : DOMAIN parts, from : Path]

\* The level of the output that an item joins holds the section that the folded
\* line is in, and the sections around the two have the same slots.
ItemOK(ps, out, t) ==
    /\ t.from \in DOMAIN ps[t.part]
    /\ Len(t.from) = Len(t.at) + 1
    /\ t.at # <<>> =>
        /\ t.at \in DOMAIN out
        /\ out[t.at].def = ps[t.part][Parent(t.from)].def
    /\ \A j \in 1..Len(t.at) :
        MergeIdent(out[Upto(t.at, j)]) = MergeIdent(ps[t.part][Upto(t.from, j)])

\* Later items join the same level or one around it.
TodoOK ==
    /\ todo \in Seq(Items)
    /\ \A i \in DOMAIN todo : ItemOK(parts, output, todo[i])
    /\ \A i, j \in DOMAIN todo : i < j => Below(todo[j].at, todo[i].at)

ConflictOK ==
    Conflict =>
        /\ todo # <<>> /\ Claimants(Item) # {} /\ slot = Slot
        /\ Contested(Held, Line) /\ answer \in Answers(Held, Line)

SInv ==
    /\ InputsOK /\ Closed(output) /\ Dense(output) /\ ChildrenBelong
    /\ DOMAIN origin = DOMAIN output
    /\ TodoOK /\ ConflictOK

DistinctSlots(c) ==
    \A p, q \in DOMAIN c : Siblings(p, q) => MergeIdent(c[p]) # MergeIdent(c[q])

SlotsInv == (\A k \in DOMAIN parts : DistinctSlots(parts[k])) => DistinctSlots(output)

\* Output line l stands for part line m.
Matches(l, m) ==
    /\ MergeIdent(l) = MergeIdent(m) /\ l.block = m.block
    /\ Carries(Text(l), m)

\* The first n lines around line p of part c stand in out around q.
Stand(out, q, c, p, n) == \A j \in 1..n : Matches(out[Upto(q, j)], c[Upto(p, j)])

\* Line p of c stands in out, and all lines around it do.
Stands(out, c, p) == \E q \in DOMAIN out : Len(q) = Len(p) /\ Stand(out, q, c, p, Len(p))

\* A diagnostic of notes names line p of c or a line around it.
Told(notes, c, p) ==
    \E n \in notes : \E j \in 1..Len(p) :
        /\ n.slot = MergePath(c, Upto(p, j))
        /\ \E t \in n.named : Carries(t, c[Upto(p, j)])

\* An item of items is around line p of part k.
Waits(items, k, p) ==
    \E j \in DOMAIN items : items[j].part = k /\ Below(items[j].from, p)

\* Line l is a record with the list that its definition has, the fields that the
\* lines of its definition in ps have, and no MergeFunc.
LineOK(ps, l) ==
    /\ l = [def |-> l.def, f |-> l.f, block |-> l.block]
    /\ Schema[l.def].merge # "Custom"
    /\ IsSection(l.def) => l.block = <<>>
    /\ Schema[l.def].list # "" =>
        /\ Schema[l.def].list \in DOMAIN l.f
        /\ IsFiniteSet(ToSet(l.f[Schema[l.def].list]))
    /\ \A k \in DOMAIN ps : \A p \in DOMAIN ps[k] :
        ps[k][p].def = l.def => DOMAIN ps[k][p].f = DOMAIN l.f

LinesOK ==
    /\ output = [q \in DOMAIN output |-> output[q]]
    /\ \A q \in DOMAIN output : LineOK(parts, output[q])

\* The sections around an item stand in the output, or a diagnostic names one.
AroundOK ==
    \A i \in DOMAIN todo :
        LET t == todo[i]
        IN  \/ Stand(output, t.at, parts[t.part], t.from, Len(t.at))
            \/ Told(log, parts[t.part], t.from)

LossInv ==
    Declarative =>
        /\ LinesOK /\ AroundOK
        /\ \A k \in DOMAIN parts : \A p \in DOMAIN parts[k] :
            \/ Waits(todo, k, p)
            \/ Stands(output, parts[k], p)
            \/ Told(log, parts[k], p)

-----------------------------------------------------------------------------
(* The inputs.                                                             *)

\* The parts and the policy of a call.
LEMMA PartsAre ==
    ASSUME InputsOK
    PROVE  /\ policy \in {"Declared", "Refuse", "Custom"}
           /\ parts \in Seq(ToSet(parts)) /\ SameCaptures(parts)
           /\ \A k \in DOMAIN parts : Configuration(parts[k])
  BY MergeAssumption DEF InputsOK

\* There are n children numbered from 1 to n.
LEMMA CountIs ==
    ASSUME NEW p \in Path, NEW n \in Nat
    PROVE  /\ IsFiniteSet({Append(p, k) : k \in 1..n})
           /\ Cardinality({Append(p, k) : k \in 1..n}) = n
  <1> DEFINE S == {Append(p, k) : k \in 1..n}
             f == [k \in 1..n |-> Append(p, k)]
  <1>1. f \in [1..n -> S] /\ \A y \in S : \E k \in 1..n : f[k] = y
    OBVIOUS
  <1>2. \A k, j \in 1..n : f[k] = f[j] => k = j
    <2> SUFFICES ASSUME NEW k \in 1..n, NEW j \in 1..n, Append(p, k) = Append(p, j)
                 PROVE  k = j
      OBVIOUS
    <2> QED
      BY AppendIs
  <1> HIDE DEF f, S
  <1>3. ExistsBijection(1..n, S)
    <2>1. f \in Bijection(1..n, S)
      BY <1>1, <1>2 DEF Bijection, Injection, Surjection, IsInjective
    <2> QED
      BY <2>1 DEF ExistsBijection
  <1>4. IsFiniteSet(1..n) /\ Cardinality(1..n) = n
    BY FS_Interval
  <1>5. IsFiniteSet(S) /\ Cardinality(S) = n
    BY <1>3, <1>4, FS_CountingElements, FS_CardinalityType, FS_NatBijection
  <1> QED
    BY <1>5 DEF S

\* The children that Kids lists.
LEMMA KidsAre ==
    ASSUME NEW c, NEW p \in Path, NEW n \in Nat,
           ChildrenIn(c, p) = {Append(p, k) : k \in 1..n}
    PROVE  Kids(c, p) = [k \in 1..n |-> Append(p, k)]
  <1>1. Cardinality({q \in DOMAIN c : IsChild(p, q)}) = n
    BY CountIs DEF ChildrenIn
  <1> QED
    BY <1>1 DEF Kids

\* Configurations in the terms of the invariant.
LEMMA ConfigurationIs ==
    ASSUME NEW c, Configuration(c)
    PROVE  /\ IsFiniteSet(DOMAIN c) /\ Closed(c) /\ Dense(c)
           /\ \A p \in DOMAIN c :
                /\ c[p].def \in Defs
                /\ c[p] = [def |-> c[p].def, f |-> c[p].f, block |-> c[p].block]
                /\ c[p].def \in IF Len(p) = 1 THEN Roots ELSE Schema[c[Parent(p)].def].kids
                /\ IsSection(c[p].def) => c[p].block = <<>>
                /\ Schema[c[p].def].list # "" =>
                    /\ Schema[c[p].def].list \in DOMAIN c[p].f
                    /\ IsFiniteSet(ToSet(c[p].f[Schema[c[p].def].list]))
  <1>1. DOMAIN c \subseteq Seq(Nat) \ {<<>>}
    BY DEF Configuration
  <1>2. Closed(c)
    BY <1>1 DEF Configuration, Closed, Path, Upto
  <1>3. Dense(c)
    <2> SUFFICES ASSUME NEW p \in DOMAIN c \cup {<<>>}
                 PROVE  Numbered(c, p)
      BY DEF Dense
    <2>1. IsFiniteSet(ChildrenIn(c, p))
      BY FS_Subset DEF Configuration, ChildrenIn
    <2>2. Cardinality(ChildrenIn(c, p)) \in Nat
      BY <2>1, FS_CardinalityType
    <2>3. ChildrenIn(c, p) = ToSet(Kids(c, p))
      BY DEF Configuration, ChildrenIn
    <2>4. Kids(c, p) = [k \in 1..Cardinality(ChildrenIn(c, p)) |-> Append(p, k)]
      BY DEF Kids, ChildrenIn
    <2>5. ToSet(Kids(c, p)) = {Append(p, k) : k \in 1..Cardinality(ChildrenIn(c, p))}
      BY <2>4, Zenon DEF ToSet
    <2> QED
      BY <2>2, <2>3, <2>5 DEF Numbered
  <1>4. ASSUME NEW v, v \in Seq(ToSet(v)) PROVE IsFiniteSet(ToSet(v))
    <2>1. Len(v) \in Nat /\ DOMAIN v = 1..Len(v)
      BY <1>4
    <2>2. IsFiniteSet(1..Len(v))
      BY <2>1, FS_Interval
    <2>3. ToSet(v) = {v[k] : k \in 1..Len(v)}
      BY <2>1 DEF ToSet
    <2> DEFINE S == ToSet(v)
               n == Len(v)
    <2>4. v \in [1..n -> S] /\ \A e \in S : \E k \in 1..n : v[k] = e
      <3>1. v \in Seq(S)
        BY <1>4
      <3> HIDE DEF S
      <3>2. v \in [1..n -> S]
        BY <3>1
      <3> QED
        BY <2>3, <3>2 DEF S
    <2>5. v \in Surjection(1..Len(v), ToSet(v))
      BY <2>4, Zenon DEF Surjection
    <2> QED
      BY <2>2, <2>5, FS_Surjection
  <1>5. \A p \in DOMAIN c : Schema[c[p].def].list # "" =>
            IsFiniteSet(ToSet(c[p].f[Schema[c[p].def].list]))
    BY <1>4 DEF Configuration
  <1> QED
    BY <1>2, <1>3, <1>5 DEF Configuration

\* What a clone of the folded line's subtree at q leaves and brings.
LEMMA Placed ==
    ASSUME Closed(output), DOMAIN origin = DOMAIN output, NEW t, NEW q \in Path,
           t.from \in Path, Closed(parts[t.part]), PlaceClone(t, q)
    PROVE  /\ DOMAIN output' = {x \in DOMAIN output : ~Below(q, x)}
                \cup {Rel(t.from, q, y) : y \in Tree(parts[t.part], t.from)}
           /\ DOMAIN origin' = DOMAIN output'
           /\ \A x \in DOMAIN output : ~Below(q, x) =>
                output'[x] = output[x] /\ origin'[x] = origin[x]
           /\ \A y \in DOMAIN parts[t.part] : Below(t.from, y) =>
                /\ Rel(t.from, q, y) \in DOMAIN output' /\ Rel(t.from, q, y) \in Path
                /\ Below(q, Rel(t.from, q, y))
                /\ output'[Rel(t.from, q, y)] = parts[t.part][y]
                /\ origin'[Rel(t.from, q, y)] = t.part
  <1> DEFINE rest == DOMAIN output \ Tree(output, q)
             D == rest \cup Moved(t, q)
  <1>1. rest = {x \in DOMAIN output : ~Below(q, x)}
    BY DEF Tree
  <1>2. Moved(t, q) = {Rel(t.from, q, y) : y \in Tree(parts[t.part], t.from)}
    BY DEF Moved, Rel
  <1>3. /\ output' = [x \in D |-> IF x \in rest THEN output[x]
                                  ELSE parts[t.part][Source(t, q, x)]]
        /\ origin' = [x \in D |-> IF x \in rest THEN origin[x] ELSE t.part]
    BY DEF PlaceClone
  <1> HIDE DEF rest
  <1>4. ASSUME NEW y \in DOMAIN parts[t.part], Below(t.from, y)
        PROVE  /\ Rel(t.from, q, y) \in D /\ Rel(t.from, q, y) \in Path
               /\ Below(q, Rel(t.from, q, y)) /\ Rel(t.from, q, y) \notin rest
               /\ Source(t, q, Rel(t.from, q, y)) = y
    <2>1. y \in Path
      BY DEF Closed
    <2>2. Below(q, Rel(t.from, q, y)) /\ Rel(q, t.from, Rel(t.from, q, y)) = y
      BY <1>4, <2>1, RelBack
    <2>3. Rel(t.from, q, y) \in Path
      BY <1>4, <2>1, RelIs, BelowIs
    <2>4. Rel(t.from, q, y) \in Moved(t, q)
      BY <1>2, <1>4 DEF Tree
    <2> QED
      BY <1>1, <2>2, <2>3, <2>4 DEF Source, Rel
  <1>5. \A x \in rest : output'[x] = output[x] /\ origin'[x] = origin[x]
    BY <1>3
  <1>6. ASSUME NEW y \in DOMAIN parts[t.part], Below(t.from, y)
        PROVE  /\ output'[Rel(t.from, q, y)] = parts[t.part][y]
               /\ origin'[Rel(t.from, q, y)] = t.part
    BY <1>3, <1>4, <1>6
  <1>7. DOMAIN output' = D /\ DOMAIN origin' = D
    BY <1>3
  <1> QED
    BY <1>1, <1>2, <1>4, <1>5, <1>6, <1>7

-----------------------------------------------------------------------------
(* A clone keeps the output a configuration.                               *)

\* Where a clone goes: to a line of the level that the item joins, or to its end.
Site(t, q) ==
    /\ q \in Path /\ IsChild(t.at, q)
    /\ \/ q \in DOMAIN output
       \/ q = Append(t.at, Len(Kids(output, t.at)) + 1)

\* What the lemmas about a clone assume.
CloneAt(t, q) ==
    /\ InputsOK /\ Closed(output) /\ Dense(output) /\ ChildrenBelong
    /\ t \in Items /\ ItemOK(parts, output, t) /\ Site(t, q)
    /\ DOMAIN origin = DOMAIN output /\ PlaceClone(t, q)

\* Where a clone goes and where it comes from.
LEMMA CloneAtIs ==
    ASSUME NEW t, NEW q, CloneAt(t, q)
    PROVE  /\ t.at \in Path /\ t.from \in Path /\ t.part \in DOMAIN parts /\ q \in Path
           /\ Closed(parts[t.part]) /\ Dense(parts[t.part])
           /\ t.from \in DOMAIN parts[t.part]
           /\ t.at = <<>> \/ t.at \in DOMAIN output
           /\ Len(q) = Len(t.at) + 1 /\ Len(t.from) = Len(q) /\ Len(q) \in Nat \ {0}
           /\ Parent(q) = t.at /\ Below(t.at, q) /\ ~Below(q, t.at)
  <1>1. t.at \in Path /\ t.from \in Path /\ t.part \in DOMAIN parts /\ q \in Path
    BY DEF CloneAt, Items, Site
  <1>2. Closed(parts[t.part]) /\ Dense(parts[t.part])
    BY <1>1, PartsAre, ConfigurationIs DEF CloneAt
  <1>3. /\ t.from \in DOMAIN parts[t.part] /\ (t.at = <<>> \/ t.at \in DOMAIN output)
        /\ Len(t.from) = Len(t.at) + 1
    BY DEF CloneAt, ItemOK
  <1>4. Len(q) = Len(t.at) + 1 /\ Below(t.at, q) /\ Parent(q) = t.at
    BY <1>1, ChildIs DEF CloneAt, Site
  <1>5. Len(t.at) \in Nat
    BY <1>1 DEF Path
  <1>6. ~Below(q, t.at)
    BY <1>1, <1>4, <1>5, BelowIs
  <1> QED
    BY <1>1, <1>2, <1>3, <1>4, <1>5, <1>6

\* What a clone does to the output.
LEMMA ClonePlaced ==
    ASSUME NEW t, NEW q, CloneAt(t, q)
    PROVE  /\ DOMAIN origin' = DOMAIN output'
           /\ \A x \in DOMAIN output : ~Below(q, x) =>
                x \in DOMAIN output' /\ output'[x] = output[x] /\ origin'[x] = origin[x]
           /\ \A y \in DOMAIN parts[t.part] : Below(t.from, y) =>
                /\ Rel(t.from, q, y) \in DOMAIN output' /\ Rel(t.from, q, y) \in Path
                /\ Below(q, Rel(t.from, q, y))
                /\ output'[Rel(t.from, q, y)] = parts[t.part][y]
                /\ origin'[Rel(t.from, q, y)] = t.part
           /\ \A x \in DOMAIN output' :
                \/ x \in DOMAIN output /\ ~Below(q, x)
                \/ \E y \in DOMAIN parts[t.part] : Below(t.from, y) /\ x = Rel(t.from, q, y)
  <1>1. /\ Closed(output) /\ DOMAIN origin = DOMAIN output /\ q \in Path
        /\ t.from \in Path /\ Closed(parts[t.part]) /\ PlaceClone(t, q)
    BY CloneAtIs DEF CloneAt
  <1>2. /\ DOMAIN output' = {x \in DOMAIN output : ~Below(q, x)}
                \cup {Rel(t.from, q, y) : y \in Tree(parts[t.part], t.from)}
        /\ DOMAIN origin' = DOMAIN output'
        /\ \A x \in DOMAIN output : ~Below(q, x) =>
                output'[x] = output[x] /\ origin'[x] = origin[x]
        /\ \A y \in DOMAIN parts[t.part] : Below(t.from, y) =>
                /\ Rel(t.from, q, y) \in DOMAIN output' /\ Rel(t.from, q, y) \in Path
                /\ Below(q, Rel(t.from, q, y))
                /\ output'[Rel(t.from, q, y)] = parts[t.part][y]
                /\ origin'[Rel(t.from, q, y)] = t.part
    BY <1>1, Placed
  <1>3. \A x \in DOMAIN output' :
                \/ x \in DOMAIN output /\ ~Below(q, x)
                \/ \E y \in DOMAIN parts[t.part] : Below(t.from, y) /\ x = Rel(t.from, q, y)
    BY <1>2 DEF Tree
  <1>4. \A x \in DOMAIN output : ~Below(q, x) => x \in DOMAIN output'
    BY <1>2
  <1> QED
    BY <1>2, <1>3, <1>4

\* A line that the clone leaves alone keeps the lines around it.
LEMMA OldAround ==
    ASSUME NEW t, NEW q, CloneAt(t, q), NEW x \in DOMAIN output, ~Below(q, x),
           NEW k \in 1..Len(x)
    PROVE  /\ Upto(x, k) \in DOMAIN output /\ ~Below(q, Upto(x, k))
           /\ Upto(x, k) \in DOMAIN output' /\ output'[Upto(x, k)] = output[Upto(x, k)]
  <1>1. x \in Path /\ Upto(x, k) \in DOMAIN output /\ Upto(x, k) \in Path
    BY DEF CloneAt, Closed
  <1>2. Len(x) \in Nat /\ k \in 0..Len(x)
    BY <1>1 DEF Path
  <1>3. Below(Upto(x, k), x)
    BY <1>1, <1>2, UptoOf
  <1>4. ~Below(q, Upto(x, k))
    BY <1>1, <1>3, BelowTwice, CloneAtIs
  <1> QED
    BY <1>1, <1>4, ClonePlaced

\* The lines around a moved line: those around q, then moved lines.
LEMMA NewAround ==
    ASSUME NEW t, NEW q, CloneAt(t, q), NEW y \in DOMAIN parts[t.part], Below(t.from, y)
    PROVE  LET r == Rel(t.from, q, y)
           IN  /\ y \in Path /\ r \in Path /\ Len(r) = Len(y) /\ Len(t.from) <= Len(y)
               /\ \A k \in 1..(Len(q) - 1) :
                    /\ Upto(r, k) = Upto(t.at, k)
                    /\ Upto(t.at, k) \in DOMAIN output /\ ~Below(q, Upto(t.at, k))
                    /\ Upto(r, k) \in DOMAIN output'
                    /\ output'[Upto(r, k)] = output[Upto(t.at, k)]
               /\ \A k \in Len(q)..Len(y) :
                    /\ Upto(y, k) \in DOMAIN parts[t.part] /\ Below(t.from, Upto(y, k))
                    /\ Upto(r, k) = Rel(t.from, q, Upto(y, k))
                    /\ Upto(r, k) \in DOMAIN output'
                    /\ output'[Upto(r, k)] = parts[t.part][Upto(y, k)]
                    /\ origin'[Upto(r, k)] = t.part
  <1> DEFINE r == Rel(t.from, q, y)
  <1>0. /\ t.at \in Path /\ t.from \in Path /\ q \in Path
        /\ Closed(parts[t.part]) /\ t.from \in DOMAIN parts[t.part]
        /\ t.at = <<>> \/ t.at \in DOMAIN output
        /\ Len(q) = Len(t.at) + 1 /\ Len(t.from) = Len(q) /\ Len(q) \in Nat \ {0}
        /\ Len(t.at) \in Nat /\ Below(t.at, q) /\ ~Below(q, t.at)
    BY CloneAtIs DEF Path
  <1>1. y \in Path /\ Len(y) \in Nat /\ Len(t.from) <= Len(y)
    <2>1. y \in Path
      BY <1>0 DEF Closed
    <2>2. Len(y) \in Nat
      BY <2>1 DEF Path
    <2> QED
      BY <1>0, <2>1, <2>2, BelowIs
  <1>2. r \in Path /\ Len(r) = Len(y)
    BY <1>0, <1>1, RelIs
  <1>3. /\ \A j \in 0..Len(q) : Upto(r, j) = Upto(q, j)
        /\ \A j \in Len(t.from)..Len(y) :
                Upto(r, j - Len(t.from) + Len(q)) = Rel(t.from, q, Upto(y, j))
    BY <1>0, <1>1, RelUpto
  <1> HIDE DEF r
  <1>4. ASSUME NEW k \in 1..(Len(q) - 1)
        PROVE  /\ Upto(r, k) = Upto(t.at, k)
               /\ Upto(t.at, k) \in DOMAIN output /\ ~Below(q, Upto(t.at, k))
               /\ Upto(r, k) \in DOMAIN output'
               /\ output'[Upto(r, k)] = output[Upto(t.at, k)]
    <2>1. k \in 0..Len(t.at) /\ k \in 1..Len(t.at) /\ k \in 0..Len(q) /\ t.at # <<>>
      BY <1>0
    <2>2. Upto(r, k) = Upto(t.at, k)
      BY <1>0, <1>3, <2>1, BelowUpto
    <2>3. t.at \in DOMAIN output
      BY <1>0, <2>1
    <2> QED
      BY <1>0, <2>1, <2>2, <2>3, OldAround
  <1>5. ASSUME NEW k \in Len(q)..Len(y)
        PROVE  /\ Upto(y, k) \in DOMAIN parts[t.part] /\ Below(t.from, Upto(y, k))
               /\ Upto(r, k) = Rel(t.from, q, Upto(y, k))
               /\ Upto(r, k) \in DOMAIN output'
               /\ output'[Upto(r, k)] = parts[t.part][Upto(y, k)]
               /\ origin'[Upto(r, k)] = t.part
    <2>1. k \in 1..Len(y) /\ k \in 0..Len(y) /\ k - Len(t.from) + Len(q) = k
          /\ k \in Len(t.from)..Len(y)
      <3> DEFINE m == Len(q)
                 n == Len(y)
      <3>1. m \in Nat \ {0} /\ n \in Nat /\ k \in m..n /\ Len(t.from) = m
        BY <1>0, <1>1
      <3> HIDE DEF m, n
      <3>2. k \in 1..n /\ k \in 0..n /\ k - m + m = k /\ k \in m..n
        BY <3>1
      <3> QED
        BY <3>1, <3>2 DEF m, n
    <2>2. Upto(y, k) \in DOMAIN parts[t.part] /\ Upto(y, k) \in Path /\ Len(Upto(y, k)) = k
      BY <1>0, <1>1, <2>1, UptoIs DEF Closed
    <2>3. Below(Upto(y, k), y)
      BY <1>1, <2>1, UptoOf
    <2>4. Below(t.from, Upto(y, k))
      BY <1>0, <1>1, <2>1, <2>2, <2>3, BelowTwice
    <2>5. Upto(r, k) = Rel(t.from, q, Upto(y, k))
      BY <1>3, <2>1
    <2>6. /\ Rel(t.from, q, Upto(y, k)) \in DOMAIN output'
          /\ output'[Rel(t.from, q, Upto(y, k))] = parts[t.part][Upto(y, k)]
          /\ origin'[Rel(t.from, q, Upto(y, k))] = t.part
      BY <2>2, <2>4, ClonePlaced
    <2> QED
      BY <2>2, <2>4, <2>5, <2>6
  <1> QED
    BY <1>1, <1>2, <1>4, <1>5, <1>0 DEF r

\* A clone leaves no line without those around it.
LEMMA CloneClosed ==
    ASSUME NEW t, NEW q, CloneAt(t, q)
    PROVE  Closed(output)'
  <1>1. ASSUME NEW x \in DOMAIN output'
        PROVE  x \in Path \ {<<>>} /\ \A k \in 1..Len(x) : Upto(x, k) \in DOMAIN output'
    <2>1. CASE x \in DOMAIN output /\ ~Below(q, x)
      BY <2>1, OldAround DEF CloneAt, Closed
    <2>2. ASSUME NEW y \in DOMAIN parts[t.part], Below(t.from, y), x = Rel(t.from, q, y)
          PROVE  x \in Path \ {<<>>} /\ \A k \in 1..Len(x) : Upto(x, k) \in DOMAIN output'
      <3>1. /\ x \in Path /\ Len(x) = Len(y) /\ Len(q) <= Len(y) /\ y \in Path
            /\ \A k \in 1..(Len(q) - 1) : Upto(x, k) \in DOMAIN output'
            /\ \A k \in Len(q)..Len(y) : Upto(x, k) \in DOMAIN output'
        BY <2>2, NewAround, CloneAtIs
      <3>2. Len(q) \in Nat \ {0} /\ Len(x) \in Nat
        BY <3>1, CloneAtIs DEF Path
      <3>3. x # <<>>
        BY <3>1, <3>2
      <3>4. \A k \in 1..Len(x) : k \in 1..(Len(q) - 1) \/ k \in Len(q)..Len(y)
        BY <3>1, <3>2
      <3> QED
        BY <3>1, <3>3, <3>4
    <2> QED
      BY <2>1, <2>2, ClonePlaced
  <1> QED
    BY <1>1 DEF Closed

\* The parents of the lines of a configuration.
LEMMA ParentIn ==
    ASSUME NEW c, Closed(c), NEW x \in DOMAIN c
    PROVE  /\ x \in Path /\ x # <<>> /\ Len(x) \in Nat \ {0}
           /\ Len(x) # 1 => /\ Parent(x) = Upto(x, Len(x) - 1) /\ Parent(x) \in DOMAIN c
                            /\ Parent(x) \in Path /\ Len(x) - 1 \in 1..Len(x)
  <1>1. x \in Path /\ x # <<>>
    BY DEF Closed
  <1>2. Len(x) \in Nat \ {0}
    BY <1>1 DEF Path
  <1>3. ASSUME Len(x) # 1 PROVE Len(x) - 1 \in 1..Len(x)
    <2>1. \A n \in Nat \ {0} : n # 1 => n - 1 \in 1..n
      OBVIOUS
    <2> QED
      BY <1>2, <1>3, <2>1
  <1>4. Parent(x) = Upto(x, Len(x) - 1) /\ Parent(x) \in Path
    BY <1>1, ChildIs
  <1> QED
    BY <1>1, <1>2, <1>3, <1>4 DEF Closed

\* Line x of c stands where its definition may occur.
Fits(c, x) ==
    c[x].def \in IF Len(x) = 1 THEN Roots ELSE Schema[c[Parent(x)].def].kids

\* A line with the definition of a line that fits, below one with the
\* definition of the other's parent, fits.
LEMMA SameFit ==
    ASSUME NEW c, NEW d, NEW x, NEW y, Fits(d, y), c[x].def = d[y].def, Len(x) = Len(y),
           Len(x) # 1 => c[Parent(x)].def = d[Parent(y)].def
    PROVE  Fits(c, x)
  BY DEF Fits

\* Cloned lines stand where their definitions may occur: the level holds the
\* section that the folded line is in.
LEMMA CloneBelongs ==
    ASSUME NEW t, NEW q, CloneAt(t, q)
    PROVE  ChildrenBelong'
  <1>0. Closed(output) /\ InputsOK /\ \A x \in DOMAIN output : Fits(output, x)
    BY DEF CloneAt, ChildrenBelong, Fits
  <1>1. ASSUME NEW x \in DOMAIN output, ~Below(q, x)
        PROVE  Fits(output', x)
    <2>1. Fits(output, x) /\ output'[x] = output[x]
      BY <1>0, <1>1, ClonePlaced
    <2>2. Len(x) # 1 => output'[Parent(x)] = output[Parent(x)]
      BY <1>0, <1>1, ParentIn, OldAround
    <2> QED
      BY <2>1, <2>2, SameFit
  <1>2. ASSUME NEW y \in DOMAIN parts[t.part], Below(t.from, y), NEW x, x = Rel(t.from, q, y)
        PROVE  Fits(output', x)
    <2>0. /\ t.at \in Path /\ t.from \in Path /\ q \in Path /\ t.part \in DOMAIN parts
          /\ Closed(parts[t.part]) /\ t.from \in DOMAIN parts[t.part]
          /\ Len(q) = Len(t.at) + 1 /\ Len(t.from) = Len(q) /\ Len(q) \in Nat \ {0}
      BY CloneAtIs
    <2>1. /\ y \in Path /\ x \in Path /\ Len(x) = Len(y) /\ Len(q) <= Len(y)
          /\ \A k \in 1..(Len(q) - 1) :
                Upto(x, k) = Upto(t.at, k) /\ output'[Upto(x, k)] = output[Upto(t.at, k)]
          /\ \A k \in Len(q)..Len(y) : output'[Upto(x, k)] = parts[t.part][Upto(y, k)]
      <3>1. Len(t.from) <= Len(y) /\ y \in Path /\ x \in Path /\ Len(x) = Len(y)
        BY <1>2, NewAround
      <3>2. \A k \in 1..(Len(q) - 1) :
                Upto(x, k) = Upto(t.at, k) /\ output'[Upto(x, k)] = output[Upto(t.at, k)]
        BY <1>2, NewAround
      <3>3. \A k \in Len(q)..Len(y) : output'[Upto(x, k)] = parts[t.part][Upto(y, k)]
        BY <1>2, NewAround
      <3> QED
        BY <2>0, <3>1, <3>2, <3>3
    <2>2. output'[x] = parts[t.part][y]
      BY <1>2, ClonePlaced
    <2>3. Fits(parts[t.part], y)
      BY <1>0, <2>0, PartsAre, ConfigurationIs DEF Fits
    <2>4. Len(t.at) \in Nat /\ Len(y) \in Nat
      BY <2>0, <2>1 DEF Path
    <2>5. CASE Len(y) = 1
      BY <2>1, <2>2, <2>3, <2>5, SameFit
    <2>6. ASSUME Len(y) # 1
          PROVE  /\ Parent(x) = Upto(x, Len(y) - 1) /\ Parent(y) = Upto(y, Len(y) - 1)
      <3>1. x # <<>> /\ y # <<>>
        BY <2>0, <2>1, <2>4, <2>6
      <3> QED
        BY <2>1, <3>1, ChildIs
    <2>7. CASE Len(y) # 1 /\ Len(y) > Len(q)
      <3>1. Len(y) - 1 \in Len(q)..Len(y)
        BY <2>0, <2>4, <2>7
      <3>2. output'[Parent(x)] = parts[t.part][Parent(y)]
        BY <2>1, <2>6, <2>7, <3>1
      <3> QED
        BY <2>1, <2>2, <2>3, <3>2, SameFit
    <2>8. CASE Len(y) # 1 /\ Len(y) = Len(q)
      <3>1. y = t.from
        BY <1>2, <2>0, <2>1, <2>8, BelowTwice
      <3>2. t.at # <<>> /\ Len(q) - 1 \in 1..(Len(q) - 1) /\ Len(q) - 1 = Len(t.at)
        BY <2>0, <2>4, <2>8
      <3>3. Upto(t.at, Len(t.at)) = t.at
        BY <2>0, <2>4, UptoOf
      <3>4. Parent(x) = Upto(x, Len(q) - 1)
        BY <2>6, <2>8
      <3>5. output'[Parent(x)] = output[t.at]
        BY <2>1, <3>2, <3>3, <3>4
      <3>6. output[t.at].def = parts[t.part][Parent(t.from)].def
        BY <3>2 DEF CloneAt, ItemOK
      <3> QED
        BY <2>1, <2>2, <2>3, <3>1, <3>5, <3>6, SameFit
    <2> QED
      BY <2>0, <2>1, <2>4, <2>5, <2>7, <2>8
  <1>3. ASSUME NEW x \in DOMAIN output'
        PROVE  Fits(output', x)
    BY <1>1, <1>2, ClonePlaced
  <1> QED
    BY <1>3 DEF ChildrenBelong, Fits

\* The children of a moved line, moved.
LEMMA NewChildren ==
    ASSUME NEW t, NEW q, CloneAt(t, q), NEW y \in DOMAIN parts[t.part], Below(t.from, y)
    PROVE  Numbered(output', Rel(t.from, q, y))
  <1> DEFINE x == Rel(t.from, q, y)
             part == parts[t.part]
  <1>0. /\ t.from \in Path /\ q \in Path /\ Closed(part) /\ Dense(part)
        /\ t.from \in DOMAIN part
    BY CloneAtIs
  <1>1. y \in Path /\ x \in Path /\ Below(q, x) /\ Rel(q, t.from, x) = y
    BY <1>0, NewAround, RelBack
  <1>2. PICK n \in Nat : ChildrenIn(part, y) = {Append(y, k) : k \in 1..n}
    BY <1>0 DEF Dense, Numbered
  <1>3. \A k \in Nat : Rel(t.from, q, Append(y, k)) = Append(x, k)
    BY <1>0, <1>1, RelChild
  <1>4. \A k \in Nat : Rel(q, t.from, Append(x, k)) = Append(y, k)
    <2>1. \A k \in Nat : Rel(q, t.from, Append(x, k)) = Append(Rel(q, t.from, x), k)
      BY <1>0, <1>1, RelChild
    <2> QED
      BY <1>1, <2>1
  <1> HIDE DEF x, part
  <1>5. ASSUME NEW k \in 1..n
        PROVE  Append(x, k) \in ChildrenIn(output', x)
    <2>1. Append(y, k) \in ChildrenIn(part, y) /\ k \in Nat
      BY <1>2
    <2>2. Append(y, k) \in DOMAIN part /\ Append(y, k) \in Path /\ Below(y, Append(y, k))
      BY <1>1, <2>1, AppendIs, ChildIs DEF ChildrenIn
    <2>3. Below(t.from, Append(y, k))
      BY <1>0, <1>1, <2>2, BelowTwice
    <2>4. Append(x, k) \in DOMAIN output'
      <3>1. \A z \in DOMAIN parts[t.part] : Below(t.from, z) => Rel(t.from, q, z) \in DOMAIN output'
        BY ClonePlaced
      <3>2. Rel(t.from, q, Append(y, k)) \in DOMAIN output'
        BY <2>2, <2>3, <3>1 DEF part
      <3> QED
        BY <1>3, <2>1, <3>2
    <2>5. IsChild(x, Append(x, k))
      BY <1>1, <2>1, AppendIs
    <2> QED
      BY <2>4, <2>5 DEF ChildrenIn
  <1>6. ASSUME NEW z \in ChildrenIn(output', x)
        PROVE  \E k \in 1..n : z = Append(x, k)
    <2>1. z \in DOMAIN output' /\ IsChild(x, z) /\ z \in Path
      BY CloneClosed DEF ChildrenIn, Closed
    <2>2. Below(q, z)
      BY <1>0, <1>1, <2>1, ChildIs, BelowTwice
    <2>3. PICK w \in DOMAIN part : Below(t.from, w) /\ z = Rel(t.from, q, w)
      BY <2>1, <2>2, ClonePlaced DEF part
    <2>4. w \in Path /\ Rel(q, t.from, z) = w
      BY <1>0, <2>3, RelBack DEF Closed
    <2>5. PICK k \in Nat : z = Append(x, k)
      BY <1>1, <2>1, ChildAppend
    <2>6. w = Append(y, k)
      BY <1>4, <2>4, <2>5
    <2>7. w \in ChildrenIn(part, y)
      BY <1>1, <2>6, AppendIs DEF ChildrenIn
    <2>8. PICK j \in 1..n : w = Append(y, j)
      BY <1>2, <2>7
    <2>9. k = j
      <3>1. /\ Append(y, k)[Len(y) + 1] = k
            /\ Append(y, j)[Len(y) + 1] = j
        BY <1>1, AppendIs
      <3> QED
        BY <2>6, <2>8, <3>1
    <2> QED
      BY <2>5, <2>8, <2>9
  <1>7. ChildrenIn(output', x) = {Append(x, k) : k \in 1..n}
    BY <1>5, <1>6
  <1> QED
    BY <1>7 DEF x, Numbered

\* The children of the other lines: only the level of the clone may grow.
LEMMA OldChildren ==
    ASSUME NEW t, NEW q, CloneAt(t, q), NEW p \in Path, ~Below(q, p)
    PROVE  ChildrenIn(output', p) =
            ChildrenIn(output, p) \cup (IF p = t.at THEN {q} ELSE {})
  <1>0. /\ t.from \in Path /\ q \in Path /\ t.at \in Path /\ Closed(parts[t.part])
        /\ t.from \in DOMAIN parts[t.part] /\ Parent(q) = t.at /\ IsChild(t.at, q)
        /\ q # <<>> /\ Len(q) \in Nat /\ Len(p) \in Nat
    <2>1. q \in Path /\ IsChild(t.at, q) /\ t.at \in Path
      BY CloneAtIs DEF CloneAt, Site
    <2> QED
      BY <2>1, CloneAtIs, ChildIs DEF Path
  <1>1. ASSUME NEW x \in Path, IsChild(p, x), Below(q, x)
        PROVE  x = q /\ p = t.at
    <2>1. Below(p, x) /\ Len(x) = Len(p) + 1 /\ Len(q) <= Len(x) /\ Parent(x) = p
      BY <1>0, <1>1, ChildIs, BelowIs
    <2>2. CASE Len(q) <= Len(p)
      BY <1>0, <1>1, <2>1, <2>2, BelowTwice
    <2>3. CASE Len(q) = Len(x)
      BY <1>0, <1>1, <2>1, <2>3, BelowTwice
    <2> QED
      BY <1>0, <2>1, <2>2, <2>3
  <1>2. q \in DOMAIN output'
    <2>1. Below(t.from, t.from) /\ Rel(t.from, q, t.from) = q
      BY <1>0, RelBack, BelowTwice
    <2> QED
      BY <1>0, <2>1, ClonePlaced
  <1>3. ASSUME NEW x \in ChildrenIn(output', p)
        PROVE  x \in ChildrenIn(output, p) \/ (p = t.at /\ x = q)
    <2>1. x \in DOMAIN output' /\ IsChild(p, x) /\ x \in Path
      BY CloneClosed DEF ChildrenIn, Closed
    <2>2. CASE x \in DOMAIN output /\ ~Below(q, x)
      BY <2>1, <2>2 DEF ChildrenIn
    <2>3. ASSUME NEW w \in DOMAIN parts[t.part], Below(t.from, w), x = Rel(t.from, q, w)
          PROVE  p = t.at /\ x = q
      BY <1>1, <2>1, <2>3, ClonePlaced
    <2> QED
      BY <2>1, <2>2, <2>3, ClonePlaced
  <1>4. ASSUME NEW x \in ChildrenIn(output, p)
        PROVE  x \in ChildrenIn(output', p)
    <2>1. x \in DOMAIN output /\ IsChild(p, x) /\ x \in Path
      BY DEF ChildrenIn, CloneAt, Closed
    <2>2. CASE Below(q, x)
      BY <1>1, <1>2, <2>1, <2>2 DEF ChildrenIn
    <2>3. CASE ~Below(q, x)
      BY <2>1, <2>3, ClonePlaced DEF ChildrenIn
    <2> QED
      BY <2>2, <2>3
  <1>5. p = t.at => q \in ChildrenIn(output', p)
    BY <1>0, <1>2 DEF ChildrenIn
  <1> QED
    BY <1>3, <1>4, <1>5

\* A clone leaves no gap in the numbers of the children.
LEMMA CloneDense ==
    ASSUME NEW t, NEW q, CloneAt(t, q)
    PROVE  Dense(output)'
  <1>0. /\ q \in Path /\ t.at \in Path /\ t.at \in DOMAIN output \cup {<<>>}
        /\ Len(q) \in Nat \ {0} /\ ~Below(q, t.at) /\ Dense(output) /\ Closed(output)
        /\ Site(t, q)
    BY CloneAtIs DEF CloneAt
  <1>1. ASSUME NEW p \in Path, ~Below(q, p), p \in DOMAIN output \cup {<<>>}
        PROVE  Numbered(output', p)
    <2>1. PICK n \in Nat : ChildrenIn(output, p) = {Append(p, k) : k \in 1..n}
      BY <1>0, <1>1 DEF Dense, Numbered
    <2>2. CASE p # t.at
      BY <1>1, <2>1, <2>2, OldChildren DEF Numbered
    <2>3. CASE p = t.at /\ q \in DOMAIN output
      <3>1. q \in ChildrenIn(output, p)
        BY <1>0, <2>3 DEF ChildrenIn, Site
      <3>2. ChildrenIn(output', p) = ChildrenIn(output, p) \cup {q}
        BY <1>1, <2>3, OldChildren
      <3> QED
        BY <2>1, <3>1, <3>2 DEF Numbered
    <2>4. CASE p = t.at /\ q = Append(t.at, Len(Kids(output, t.at)) + 1)
      <3>1. Kids(output, t.at) = [k \in 1..n |-> Append(p, k)]
        BY <1>1, <2>1, <2>4, KidsAre
      <3>2. Len(Kids(output, t.at)) = n
        BY <3>1
      <3>3. ChildrenIn(output', p) = ChildrenIn(output, p) \cup {Append(p, n + 1)}
        BY <1>1, <2>4, <3>2, OldChildren
      <3>4. 1..(n + 1) = (1..n) \cup {n + 1}
        OBVIOUS
      <3>5. {Append(p, k) : k \in 1..(n + 1)} =
                {Append(p, k) : k \in 1..n} \cup {Append(p, n + 1)}
        BY <3>4
      <3>6. ChildrenIn(output', p) = {Append(p, k) : k \in 1..(n + 1)} /\ n + 1 \in Nat
        BY <2>1, <3>3, <3>5
      <3> QED
        BY <3>6 DEF Numbered
    <2> QED
      BY <1>0, <2>2, <2>3, <2>4 DEF Site
  <1>2. ASSUME NEW p \in DOMAIN output' \cup {<<>>}
        PROVE  Numbered(output', p)
    <2>1. CASE p = <<>>
      <3>1. <<>> \in Path /\ Len(<<>>) = 0
        BY DEF Path
      <3>2. p \in Path /\ ~Below(q, p)
        BY <1>0, <2>1, <3>1, BelowIs
      <3> QED
        BY <1>1, <2>1, <3>2
    <2>2. CASE p \in DOMAIN output /\ ~Below(q, p)
      BY <1>0, <1>1, <2>2 DEF Closed
    <2>3. ASSUME NEW y \in DOMAIN parts[t.part], Below(t.from, y), p = Rel(t.from, q, y)
          PROVE  Numbered(output', p)
      BY <2>3, NewChildren
    <2> QED
      BY <2>1, <2>2, <2>3, ClonePlaced
  <1> QED
    BY <1>2 DEF Dense

-----------------------------------------------------------------------------
(* The worklist.                                                           *)

\* The items of a level are the children of a part's line.
LEMMA LevelItemsAre ==
    ASSUME InputsOK, NEW k \in DOMAIN parts, NEW p \in DOMAIN parts[k] \cup {<<>>},
           NEW at \in Path
    PROVE  /\ LevelItems(at, k, p) \in Seq(Items)
           /\ \A j \in DOMAIN LevelItems(at, k, p) :
                /\ j \in Nat /\ Append(p, j) \in DOMAIN parts[k]
                /\ LevelItems(at, k, p)[j] =
                    [at |-> at, part |-> k, from |-> Append(p, j)]
           /\ \A y \in ChildrenIn(parts[k], p) :
                \E j \in DOMAIN LevelItems(at, k, p) : LevelItems(at, k, p)[j].from = y
  <1>1. Closed(parts[k]) /\ Dense(parts[k])
    BY PartsAre, ConfigurationIs
  <1>2. p \in Path
    BY <1>1, RootIsPath DEF Closed
  <1>3. PICK n \in Nat : ChildrenIn(parts[k], p) = {Append(p, j) : j \in 1..n}
    BY <1>1 DEF Dense, Numbered
  <1>4. Kids(parts[k], p) = [j \in 1..n |-> Append(p, j)]
    BY <1>2, <1>3, KidsAre
  <1> DEFINE item(j) == [at |-> at, part |-> k, from |-> Append(p, j)]
  <1> DEFINE L == LevelItems(at, k, p)
  <1>5. L = [j \in 1..n |-> item(j)]
    BY <1>4 DEF LevelItems
  <1>6. \A j \in 1..n : item(j) \in Items
    BY <1>2, AppendIs DEF Items
  <1> HIDE DEF item
  <1>7. [j \in 1..n |-> item(j)] \in Seq(Items)
    BY <1>6, IsASeq
  <1> HIDE DEF L
  <1>8. L \in Seq(Items) /\ DOMAIN L = 1..n /\ \A j \in 1..n : L[j] = item(j)
    BY <1>5, <1>7
  <1>9. ASSUME NEW j \in 1..n PROVE j \in Nat /\ Append(p, j) \in DOMAIN parts[k]
    <2>1. Append(p, j) \in ChildrenIn(parts[k], p) /\ j \in Nat
      BY <1>3
    <2> QED
      BY <2>1 DEF ChildrenIn
  <1>10. ASSUME NEW y \in ChildrenIn(parts[k], p)
         PROVE  \E j \in 1..n : L[j].from = y
    <2>1. PICK j \in 1..n : y = Append(p, j)
      BY <1>3
    <2>2. L[j].from = y
      BY <1>8, <2>1 DEF item
    <2> QED
      BY <2>2
  <1>11. \A j \in 1..n : L[j] = [at |-> at, part |-> k, from |-> Append(p, j)]
    BY <1>8 DEF item
  <1> QED
    BY <1>8, <1>9, <1>10, <1>11 DEF L

\* Sequence r is first, and then s without its head.
Continues(r, s, first) ==
    /\ Len(s) \in Nat \ {0} /\ 1 \in DOMAIN s
    /\ \A i \in DOMAIN r :
        \/ i \in DOMAIN first /\ r[i] = first[i]
        \/ /\ i - Len(first) + 1 \in DOMAIN s /\ i > Len(first)
           /\ i - Len(first) + 1 > 1
           /\ r[i] = s[i - Len(first) + 1]
    /\ \A i \in DOMAIN first : i \in DOMAIN r /\ r[i] = first[i]
    /\ \A i \in DOMAIN s : i > 1 =>
        /\ i - 1 + Len(first) \in DOMAIN r
        /\ r[i - 1 + Len(first)] = s[i]

\* What is left to fold after an item: what the item adds, and the rest.
LEMMA AfterItem ==
    ASSUME NEW S, NEW s \in Seq(S), s # <<>>, NEW first \in Seq(S),
           NEW r, r = first \o Tail(s)
    PROVE  r \in Seq(S) /\ Continues(r, s, first)
  <1> DEFINE u == Tail(s)
  <1>0. r = first \o u
    OBVIOUS
  <1>1. /\ u \in Seq(S) /\ Len(u) = Len(s) - 1 /\ Len(s) \in Nat \ {0}
        /\ \A i \in 1..Len(u) : u[i] = s[i + 1]
    BY HeadTailProperties, EmptySeq
  <1> HIDE DEF u
  <1>2. /\ r \in Seq(S) /\ Len(r) = Len(first) + Len(u)
        /\ \A i \in 1 .. Len(first) + Len(u) :
            r[i] = IF i <= Len(first) THEN first[i] ELSE u[i - Len(first)]
    <2>1. /\ first \o u \in Seq(S) /\ Len(first \o u) = Len(first) + Len(u)
          /\ \A i \in 1 .. Len(first) + Len(u) :
                (first \o u)[i] = IF i <= Len(first) THEN first[i] ELSE u[i - Len(first)]
      BY <1>1, ConcatProperties
    <2> QED
      BY <1>0, <2>1
  <1>3. /\ DOMAIN r = 1..Len(r) /\ DOMAIN first = 1..Len(first) /\ DOMAIN s = 1..Len(s)
        /\ Len(first) \in Nat
    BY <1>2, LenProperties
  <1>4. ASSUME NEW i \in DOMAIN r
        PROVE  \/ i \in DOMAIN first /\ r[i] = first[i]
               \/ /\ i - Len(first) + 1 \in DOMAIN s /\ i > Len(first)
                  /\ i - Len(first) + 1 > 1
                  /\ r[i] = s[i - Len(first) + 1]
    <2>1. CASE i <= Len(first)
      BY <1>1, <1>2, <1>3, <2>1
    <2>2. CASE i > Len(first)
      <3>0. i \in 1..(Len(first) + Len(u)) /\ Len(u) \in Nat
        BY <1>1, <1>2, <1>3
      <3>1. PICK m \in 1..Len(u) : m = i - Len(first)
        BY <1>3, <2>2, <3>0
      <3>2. u[m] = s[m + 1] /\ m + 1 \in DOMAIN s /\ m + 1 > 1
        BY <1>1, <1>3, <3>1
      <3>3. r[i] = u[i - Len(first)]
        <4>1. ~(i <= Len(first))
          BY <1>3, <2>2
        <4>2. r[i] = IF i <= Len(first) THEN first[i] ELSE u[i - Len(first)]
          BY <1>2, <3>0
        <4> QED
          BY <4>1, <4>2
      <3>4. i - Len(first) + 1 = m + 1 /\ r[i] = u[m]
        BY <3>1, <3>3
      <3> QED
        BY <2>2, <3>2, <3>4
    <2> QED
      BY <1>3, <2>1, <2>2
  <1>5. \A i \in DOMAIN first : i \in DOMAIN r /\ r[i] = first[i]
    BY <1>1, <1>2, <1>3
  <1>6. ASSUME NEW i \in DOMAIN s, i > 1
        PROVE  i - 1 + Len(first) \in DOMAIN r /\ r[i - 1 + Len(first)] = s[i]
    <2>1. /\ i - 1 \in 1..Len(u) /\ i - 1 + Len(first) \in DOMAIN r
          /\ (i - 1 + Len(first)) - Len(first) = i - 1 /\ i - 1 + 1 = i
          /\ ~(i - 1 + Len(first) <= Len(first))
      BY <1>1, <1>2, <1>3, <1>6
    <2> QED
      BY <1>1, <1>2, <1>3, <2>1
  <1>7. r \in Seq(S) /\ Len(s) \in Nat \ {0} /\ 1 \in DOMAIN s
    BY <1>1, <1>2, <1>3
  <1> QED
    BY <1>4, <1>5, <1>6, <1>7 DEF Continues

\* What a fold leaves.
LEMMA FoldedItems ==
    ASSUME todo \in Seq(Items), todo # <<>>, NEW first \in Seq(Items), Fold(first)
    PROVE  todo' \in Seq(Items) /\ Continues(todo', todo, first)
  <1> DEFINE S == Items
             s == todo
             r == todo'
  <1>1. s \in Seq(S) /\ s # <<>> /\ first \in Seq(S) /\ r = first \o Tail(s)
    BY DEF Fold
  <1> HIDE DEF S, s, r
  <1>2. r \in Seq(S) /\ Continues(r, s, first)
    BY <1>1, AfterItem
  <1> QED
    BY <1>2 DEF S, s, r

\* A line of the output that keeps its definition and its slot.
SameSlot(new, old, x) ==
    x \in DOMAIN new /\ new[x].def = old[x].def /\ MergeIdent(new[x]) = MergeIdent(old[x])

\* The items of a section that is descended into.
LEMMA SharedItem ==
    ASSUME InputsOK, NEW t \in Items, ItemOK(parts, output, t), NEW out,
           \A j \in 1..Len(t.at) : SameSlot(out, output, Upto(t.at, j)),
           NEW s \in Path, IsChild(t.at, s), s \in DOMAIN out,
           out[s].def = parts[t.part][t.from].def,
           MergeIdent(out[s]) = MergeIdent(parts[t.part][t.from]),
           NEW k \in Nat, Append(t.from, k) \in DOMAIN parts[t.part]
    PROVE  ItemOK(parts, out, [at |-> s, part |-> t.part, from |-> Append(t.from, k)])
  <1> DEFINE y == Append(t.from, k)
             u == [at |-> s, part |-> t.part, from |-> y]
             c == parts[t.part]
  <1>0. /\ t.at \in Path /\ t.from \in Path /\ Len(t.from) = Len(t.at) + 1
        /\ Len(t.at) \in Nat
        /\ \A j \in 1..Len(t.at) :
            MergeIdent(output[Upto(t.at, j)]) = MergeIdent(c[Upto(t.from, j)])
    BY DEF Items, ItemOK, Path
  <1>1. /\ y \in Path /\ Len(y) = Len(t.from) + 1 /\ Parent(y) = t.from
        /\ Below(t.from, y) /\ y \in DOMAIN c
    BY <1>0, AppendIs, ChildIs
  <1> HIDE DEF y
  <1>2. Len(s) = Len(t.at) + 1 /\ Below(t.at, s)
    BY <1>0, ChildIs
  <1> HIDE DEF c
  <1>3. ASSUME NEW j \in 1..Len(s)
        PROVE  MergeIdent(out[Upto(s, j)]) = MergeIdent(c[Upto(y, j)])
    <2>1. CASE j <= Len(t.at)
      <3>1. j \in 1..Len(t.at) /\ j \in 0..Len(t.at) /\ j \in 0..Len(t.from)
        BY <1>0, <2>1
      <3>2. Upto(s, j) = Upto(t.at, j) /\ Upto(y, j) = Upto(t.from, j)
        BY <1>0, <1>1, <1>2, <3>1, BelowUpto
      <3> QED
        BY <1>0, <3>1, <3>2 DEF SameSlot
    <2>2. CASE j = Len(s)
      <3>1. Upto(s, j) = s
        BY <2>2, <1>0, <1>2, UptoOf
      <3>2. Upto(y, j) = t.from
        BY <1>0, <1>1, <1>2, <2>2, BelowUpto
      <3> QED
        BY <3>1, <3>2 DEF c
    <2> QED
      BY <1>0, <1>2, <2>1, <2>2
  <1>4. u.at = s /\ u.part = t.part /\ u.from = y
    OBVIOUS
  <1>5. Len(y) = Len(s) + 1
    BY <1>0, <1>1, <1>2
  <1> HIDE DEF u
  <1>6. ItemOK(parts, out, u)
    BY <1>1, <1>3, <1>4, <1>5 DEF ItemOK, c
  <1> QED
    BY <1>6 DEF u, y

\* The items that are left.
LEMMA OtherItem ==
    ASSUME NEW t \in Items, NEW t0 \in Items, Below(t.at, t0.at), NEW out,
           ItemOK(parts, output, t),
           \A j \in 1..Len(t0.at) : SameSlot(out, output, Upto(t0.at, j))
    PROVE  ItemOK(parts, out, t)
  <1>1. t.at \in Path /\ t0.at \in Path /\ Len(t.at) \in Nat /\ Len(t0.at) \in Nat
    BY DEF Items, Path
  <1>2. \A j \in 1..Len(t.at) : j \in 0..Len(t.at) /\ j \in 1..Len(t0.at)
    BY <1>1, BelowIs
  <1>3. \A j \in 1..Len(t.at) : SameSlot(out, output, Upto(t.at, j))
    BY <1>1, <1>2, BelowUpto
  <1>4. t.at # <<>> => Upto(t.at, Len(t.at)) = t.at /\ Len(t.at) \in 1..Len(t.at)
    BY <1>1, UptoOf
  <1> QED
    BY <1>3, <1>4 DEF ItemOK, SameSlot

\* The item that is folded.
LEMMA ItemIs ==
    ASSUME InputsOK, TodoOK, todo # <<>>
    PROVE  /\ Item \in Items /\ Item = todo[1] /\ 1 \in DOMAIN todo
           /\ ItemOK(parts, output, Item)
           /\ \A i \in DOMAIN todo : todo[i] \in Items /\ Below(todo[i].at, Item.at)
  <1>1. todo \in Seq(Items) /\ 1 \in DOMAIN todo /\ Item = todo[1]
    BY DEF TodoOK, Item
  <1>2. \A i \in DOMAIN todo : todo[i] \in Items /\ i \in Nat /\ (i = 1 \/ 1 < i)
    BY <1>1
  <1>3. Item.at \in Path
    BY <1>1, <1>2 DEF Items
  <1> QED
    BY <1>1, <1>2, <1>3, BelowTwice DEF TodoOK

\* The worklist stays in order when the folded line is done and the lines below
\* it come first.
LEMMA FoldKeepsTodo ==
    ASSUME InputsOK, TodoOK, todo # <<>>, NEW first, NEW s \in Path, Fold(first),
           \A j \in 1..Len(Item.at) : SameSlot(output', output, Upto(Item.at, j)),
           first # <<>> =>
            /\ first = LevelItems(s, Item.part, Item.from)
            /\ IsChild(Item.at, s) /\ s \in DOMAIN output'
            /\ output'[s].def = Line.def /\ MergeIdent(output'[s]) = MergeIdent(Line)
    PROVE  TodoOK'
  <1> DEFINE t0 == Item
  <1>0. /\ t0 \in Items /\ t0 = todo[1] /\ 1 \in DOMAIN todo /\ ItemOK(parts, output, t0)
        /\ \A i \in DOMAIN todo : todo[i] \in Items /\ Below(todo[i].at, t0.at)
        /\ Line = parts[t0.part][t0.from] /\ todo \in Seq(Items)
    BY ItemIs DEF Line, Folded, TodoOK
  <1>1. todo' = first \o Tail(todo) /\ parts' = parts
    BY DEF Fold
  <1>2. t0.part \in DOMAIN parts /\ t0.from \in DOMAIN parts[t0.part] /\ t0.at \in Path
    BY <1>0 DEF Items, ItemOK
  <1> HIDE DEF t0
  <1>3. /\ first \in Seq(Items)
        /\ \A i \in DOMAIN first : first[i].at = s /\ ItemOK(parts, output', first[i])
        /\ first # <<>> => Below(t0.at, s)
    <2>1. CASE first = <<>>
      BY <2>1
    <2>2. CASE first # <<>>
      <3>0. first = LevelItems(s, t0.part, t0.from)
        BY <2>2 DEF t0
      <3>1. /\ first \in Seq(Items)
            /\ \A i \in DOMAIN first :
                /\ i \in Nat /\ Append(t0.from, i) \in DOMAIN parts[t0.part]
                /\ first[i] = [at |-> s, part |-> t0.part, from |-> Append(t0.from, i)]
        <4> DEFINE k == t0.part
                   p == t0.from
                   L == LevelItems(s, k, p)
        <4>1. k \in DOMAIN parts /\ p \in DOMAIN parts[k] \cup {<<>>}
          BY <1>2
        <4> HIDE DEF k, p
        <4>2. /\ L \in Seq(Items)
              /\ \A j \in DOMAIN L :
                /\ j \in Nat /\ Append(p, j) \in DOMAIN parts[k]
                /\ L[j] = [at |-> s, part |-> k, from |-> Append(p, j)]
          BY <4>1, LevelItemsAre
        <4>3. first = L
          BY <3>0 DEF k, p
        <4> HIDE DEF L
        <4> QED
          BY <4>2, <4>3 DEF k, p
      <3>2. ASSUME NEW i \in DOMAIN first
            PROVE  first[i].at = s /\ ItemOK(parts, output', first[i])
        <4>1. /\ i \in Nat
              /\ first[i] = [at |-> s, part |-> t0.part, from |-> Append(t0.from, i)]
              /\ Append(t0.from, i) \in DOMAIN parts[t0.part]
          BY <3>1
        <4>2. /\ IsChild(t0.at, s) /\ s \in DOMAIN output'
              /\ output'[s].def = parts[t0.part][t0.from].def
              /\ MergeIdent(output'[s]) = MergeIdent(parts[t0.part][t0.from])
              /\ \A j \in 1..Len(t0.at) : SameSlot(output', output, Upto(t0.at, j))
          BY <1>0, <2>2 DEF t0
        <4>3. ItemOK(parts, output', [at |-> s, part |-> t0.part, from |-> Append(t0.from, i)])
          BY <1>0, <4>1, <4>2, SharedItem
        <4> QED
          BY <4>1, <4>3
      <3>3. Below(t0.at, s)
        BY <1>2, <2>2, ChildIs DEF t0
      <3> QED
        BY <3>1, <3>2, <3>3
    <2> QED
      BY <2>1, <2>2
  <1>4. \A i \in DOMAIN todo : ItemOK(parts, output', todo[i])
    <2> SUFFICES ASSUME NEW i \in DOMAIN todo PROVE ItemOK(parts, output', todo[i])
      OBVIOUS
    <2>1. todo[i] \in Items /\ Below(todo[i].at, t0.at) /\ ItemOK(parts, output, todo[i])
      BY <1>0 DEF TodoOK
    <2> QED
      BY <1>0, <2>1, OtherItem DEF t0
  <1> DEFINE r == first \o Tail(todo)
  <1>5. /\ r \in Seq(Items)
        /\ \A i \in DOMAIN r :
            \/ i \in DOMAIN first /\ r[i] = first[i]
            \/ /\ i - Len(first) + 1 \in DOMAIN todo /\ i > Len(first)
               /\ r[i] = todo[i - Len(first) + 1]
    <2>1. first \in Seq(Items) /\ todo \in Seq(Items) /\ todo # <<>>
      BY <1>0, <1>3
    <2>2. /\ r \in Seq(Items)
          /\ \A i \in DOMAIN r :
            \/ i \in DOMAIN first /\ r[i] = first[i]
            \/ /\ i - Len(first) + 1 \in DOMAIN todo /\ i > Len(first)
               /\ i - Len(first) + 1 > 1
               /\ r[i] = todo[i - Len(first) + 1]
      <3>1. todo' \in Seq(Items) /\ Continues(todo', todo, first) /\ todo' = r
        BY <1>1, <2>1, FoldedItems
      <3> HIDE DEF r
      <3> QED
        BY <3>1 DEF Continues
    <2> QED
      BY <2>2
  <1> HIDE DEF r
  <1>6. \A i \in DOMAIN r : ItemOK(parts, output', r[i])
    BY <1>3, <1>4, <1>5
  <1>7. ASSUME NEW i \in DOMAIN r, NEW j \in DOMAIN r, i < j
        PROVE  Below(r[j].at, r[i].at)
    <2>0. /\ DOMAIN first = 1..Len(first) /\ Len(first) \in Nat /\ i \in Nat /\ j \in Nat
          /\ r[i] \in Items /\ r[j] \in Items
      BY <1>3, <1>5
    <2>1. CASE j \in DOMAIN first
      <3>1. i \in DOMAIN first
        <4>1. j \in 1..Len(first) /\ 1 <= i
          BY <1>5, <2>0, <2>1
        <4> QED
          BY <1>7, <2>0, <4>1
      <3>2. r[i] = first[i] /\ r[j] = first[j]
        BY <1>5, <2>0, <2>1, <3>1
      <3> QED
        BY <1>3, <2>1, <3>1, <3>2, BelowTwice
    <2>2. CASE j \notin DOMAIN first
      <3>1. j - Len(first) + 1 \in DOMAIN todo /\ r[j] = todo[j - Len(first) + 1]
        BY <1>5, <2>2
      <3>2. Below(r[j].at, t0.at)
        BY <1>0, <3>1
      <3>3. CASE i \in DOMAIN first
        <4>1. r[i] = first[i] /\ first # <<>>
          BY <1>5, <2>0, <3>3
        <4>2. r[i].at = s /\ Below(t0.at, s) /\ r[j].at \in Path
          BY <1>3, <2>0, <3>3, <4>1 DEF Items
        <4> QED
          BY <1>2, <3>2, <4>2, BelowTwice
      <3>4. CASE i \notin DOMAIN first
        <4>1. i - Len(first) + 1 \in DOMAIN todo /\ r[i] = todo[i - Len(first) + 1]
          BY <1>5, <3>4
        <4>2. i - Len(first) + 1 < j - Len(first) + 1
          BY <1>7, <2>0
        <4> QED
          BY <3>1, <4>1, <4>2 DEF TodoOK
      <3> QED
        BY <3>3, <3>4
    <2> QED
      BY <2>1, <2>2
  <1>8. todo' = r
    BY <1>1 DEF r
  <1> QED
    BY <1>1, <1>5, <1>6, <1>7, <1>8 DEF TodoOK, Items

-----------------------------------------------------------------------------
(* Claimants and answers.                                                  *)

\* A nonempty set of numbers has a least one.
LEMMA LeastNat ==
    ASSUME NEW T, T \subseteq Nat, T # {}
    PROVE  \E x \in T : \A y \in T : x <= y
  <1> DEFINE R == OpToRel(<, Nat)
  <1>1. IsWellFoundedOn(R, Nat)
    BY NatLessThanWellFounded
  <1> HIDE DEF R
  <1>2. PICK x \in T : \A y \in T : ~(<<y, x>> \in R)
    BY <1>1, WFMin
  <1>3. \A y \in T : ~(y < x)
    BY <1>2 DEF R, OpToRel
  <1> QED
    BY <1>3

\* The line that claims a slot is one of the claimants.
LEMMA ClaimantIs ==
    ASSUME Closed(output), NEW t, t.at \in Path, Claimants(t) # {}
    PROVE  /\ Claimant(t) \in DOMAIN output /\ Claimant(t) \in Path
           /\ IsChild(t.at, Claimant(t))
           /\ MergeIdent(output[Claimant(t)]) = MergeIdent(Folded(t))
  <1> DEFINE T == {Last(q) : q \in Claimants(t)}
  <1>1. \A q \in Claimants(t) : q \in Path /\ Last(q) \in Nat
    BY ChildAppend DEF Claimants, Closed, Last
  <1>2. PICK x \in T : \A y \in T : x <= y
    BY <1>1, LeastNat
  <1>3. PICK q \in Claimants(t) : x = Last(q)
    BY <1>2
  <1>4. \A r \in Claimants(t) : Last(q) <= Last(r)
    BY <1>2, <1>3
  <1>5. Claimant(t) \in Claimants(t)
    BY <1>4 DEF Claimant
  <1> QED
    BY <1>1, <1>5 DEF Claimants

\* What an answer can be.
LEMMA AnswerIs ==
    ASSUME policy \in {"Declared", "Refuse", "Custom"}, NEW l, NEW m, NEW a \in Answers(l, m)
    PROVE  /\ \/ a.node = "earlier" /\ a.line = l
              \/ a.node = "later" /\ a.line = m
              \/ a.node = "fresh"
           /\ a # NoAnswer
  <1>1. \A line, outcome, sound :
            /\ Answer("earlier", line, outcome, sound).node = "earlier"
            /\ Answer("earlier", line, outcome, sound).line = line
            /\ Answer("later", line, outcome, sound).node = "later"
            /\ Answer("later", line, outcome, sound).line = line
            /\ Answer("fresh", line, outcome, sound).node = "fresh"
    BY DEF Answer
  <1>2. \A outcome : /\ Earlier(l, outcome).node = "earlier" /\ Earlier(l, outcome).line = l
                     /\ Later(m, outcome).node = "later" /\ Later(m, outcome).line = m
    BY DEF Earlier, Later, Answer
  <1>3. ASSUME NEW b \in CustomAnswers(l, m)
        PROVE  \/ b.node = "earlier" /\ b.line = l
               \/ b.node = "later" /\ b.line = m
               \/ b.node = "fresh"
    BY <1>1, <1>2 DEF CustomAnswers
  <1>4. \/ UnionAnswer(l, m).node = "earlier" /\ UnionAnswer(l, m).line = l
        \/ UnionAnswer(l, m).node = "fresh"
    <2>1. UnionAnswer(l, m) \in {Earlier(l, "Combined"), Answer("fresh", Union(l, m), "Combined", TRUE)}
      BY DEF UnionAnswer
    <2>2. CASE UnionAnswer(l, m) = Earlier(l, "Combined")
      <3>1. Earlier(l, "Combined").node = "earlier" /\ Earlier(l, "Combined").line = l
        BY <1>2
      <3> QED
        BY <2>2, <3>1, Zenon
    <2>3. CASE UnionAnswer(l, m) = Answer("fresh", Union(l, m), "Combined", TRUE)
      <3>1. Answer("fresh", Union(l, m), "Combined", TRUE).node = "fresh"
        BY DEF Answer
      <3> QED
        BY <2>3, <3>1, Zenon
    <2> QED
      BY <2>1, <2>2, <2>3
  <1>5. policy # "Custom" =>
            \/ Undeclared(l, m).node = "earlier" /\ Undeclared(l, m).line = l
            \/ Undeclared(l, m).node = "later" /\ Undeclared(l, m).line = m
    BY <1>2 DEF Undeclared
  <1>6. \/ a \in CustomAnswers(l, m)
        \/ a = Earlier(l, "Overridden")
        \/ a = Later(m, "Overridden")
        \/ a = UnionAnswer(l, m)
        \/ policy # "Custom" /\ a = Undeclared(l, m)
    BY DEF Answers
  <1>7. \/ a.node = "earlier" /\ a.line = l
        \/ a.node = "later" /\ a.line = m
        \/ a.node = "fresh"
    BY <1>2, <1>3, <1>4, <1>5, <1>6
  <1>8. NoAnswer.node = "none"
    BY DEF NoAnswer
  <1> QED
    BY <1>7, <1>8

-----------------------------------------------------------------------------
(* The steps keep the structure.                                           *)

\* The sections around the next item are lines of the output, and a line of its
\* level is none of them.
LEMMA AroundItem ==
    ASSUME SInv, todo # <<>>
    PROVE  /\ Item \in Items /\ Item.at \in Path /\ Item.from \in Path
           /\ Item.part \in DOMAIN parts /\ Item.from \in DOMAIN parts[Item.part]
           /\ ItemOK(parts, output, Item)
           /\ \A j \in 1..Len(Item.at) :
                /\ Upto(Item.at, j) \in DOMAIN output
                /\ \A s \in Path : IsChild(Item.at, s) =>
                    ~Below(s, Upto(Item.at, j)) /\ s # Upto(Item.at, j)
  <1>1. Item \in Items /\ ItemOK(parts, output, Item)
    BY ItemIs DEF SInv
  <1>2. /\ Item.at \in Path /\ Item.from \in Path
        /\ Item.part \in DOMAIN parts /\ Item.from \in DOMAIN parts[Item.part]
        /\ Len(Item.at) \in Nat
    BY <1>1 DEF Items, ItemOK, Path
  <1>3. ASSUME NEW j \in 1..Len(Item.at)
        PROVE  Upto(Item.at, j) \in DOMAIN output
    <2>1. Item.at \in DOMAIN output
      BY <1>1, <1>2, <1>3 DEF ItemOK
    <2> QED
      BY <2>1 DEF SInv, Closed
  <1>4. ASSUME NEW j \in 1..Len(Item.at), NEW s \in Path, IsChild(Item.at, s)
        PROVE  ~Below(s, Upto(Item.at, j)) /\ s # Upto(Item.at, j)
    <2>1. Len(s) = Len(Item.at) + 1
      BY <1>2, <1>4, ChildIs
    <2>2. Upto(Item.at, j) \in Path /\ Len(Upto(Item.at, j)) = j
      BY <1>2, UptoIs
    <2>3. ~(Len(s) <= Len(Upto(Item.at, j)))
      BY <1>2, <2>1, <2>2
    <2> QED
      BY <2>2, <2>3, BelowIs
  <1> QED
    BY <1>1, <1>2, <1>3, <1>4

\* A contested slot is a line of the item's level.
LEMMA SlotIs ==
    ASSUME SInv, Conflict
    PROVE  /\ todo # <<>> /\ slot \in DOMAIN output /\ slot \in Path
           /\ IsChild(Item.at, slot) /\ MergeIdent(Held) = MergeIdent(Line)
           /\ Contested(Held, Line) /\ answer \in Answers(Held, Line)
           /\ \/ answer.node = "earlier" /\ answer.line = Held
              \/ answer.node = "later" /\ answer.line = Line
              \/ answer.node = "fresh"
  <1>1. /\ todo # <<>> /\ Claimants(Item) # {} /\ slot = Claimant(Item)
        /\ Contested(Held, Line) /\ answer \in Answers(Held, Line)
    BY DEF SInv, ConflictOK, Slot
  <1>2. Item.at \in Path /\ Closed(output) /\ policy \in {"Declared", "Refuse", "Custom"}
    BY <1>1, AroundItem, PartsAre DEF SInv
  <1>3. /\ slot \in DOMAIN output /\ slot \in Path
        /\ IsChild(Item.at, slot) /\ MergeIdent(Held) = MergeIdent(Line)
    BY <1>1, <1>2, ClaimantIs DEF Held, Line
  <1> QED
    BY <1>1, <1>2, <1>3, AnswerIs

\* A step that leaves the output alone.
LEMMA QuietFold ==
    ASSUME SInv, todo # <<>>, NEW first, Fold(first), UNCHANGED <<output, origin>>,
           first # <<>> =>
            /\ Claimants(Item) # {} /\ first = Shared
            /\ output[Slot].def = Line.def
    PROVE  SInv'
  <1>1. \A j \in 1..Len(Item.at) : SameSlot(output', output, Upto(Item.at, j))
    BY AroundItem DEF SameSlot
  <1>2. InputsOK /\ TodoOK /\ Item.at \in Path /\ Closed(output)
    BY AroundItem DEF SInv
  <1>3. TodoOK'
    <2>1. CASE first = <<>>
      BY <1>1, <1>2, <2>1, RootIsPath, FoldKeepsTodo
    <2>2. CASE first # <<>>
      <3>1. /\ Slot \in DOMAIN output /\ Slot \in Path /\ IsChild(Item.at, Slot)
            /\ MergeIdent(output[Slot]) = MergeIdent(Line)
        BY <1>2, <2>2, ClaimantIs DEF Slot, Line
      <3> QED
        BY <1>1, <1>2, <2>2, <3>1, FoldKeepsTodo DEF Shared
    <2> QED
      BY <2>1, <2>2
  <1>4. ConflictOK'
    BY DEF Fold, ConflictOK, Conflict
  <1>5. InputsOK'
    BY <1>2 DEF Fold, InputsOK
  <1>6. /\ Closed(output)' /\ Dense(output)' /\ ChildrenBelong'
        /\ DOMAIN origin' = DOMAIN output'
    BY DEF SInv, ChildrenBelong
  <1> QED
    BY <1>3, <1>4, <1>5, <1>6 DEF SInv

\* A step that clones the folded line's subtree.
LEMMA CloneFold ==
    ASSUME SInv, todo # <<>>, Fold(<<>>), NEW q, Site(Item, q), PlaceClone(Item, q)
    PROVE  SInv' /\ CloneAt(Item, q)
  <1>1. CloneAt(Item, q)
    BY AroundItem DEF CloneAt, SInv
  <1>2. Closed(output)' /\ Dense(output)' /\ ChildrenBelong'
    BY <1>1, CloneClosed, CloneDense, CloneBelongs
  <1>3. DOMAIN origin' = DOMAIN output'
    BY <1>1, ClonePlaced
  <1>4. ASSUME NEW j \in 1..Len(Item.at)
        PROVE  SameSlot(output', output, Upto(Item.at, j))
    <2>1. q \in Path /\ IsChild(Item.at, q)
      BY DEF Site
    <2>2. Upto(Item.at, j) \in DOMAIN output /\ ~Below(q, Upto(Item.at, j))
      BY <2>1, AroundItem
    <2> QED
      BY <1>1, <2>2, ClonePlaced DEF SameSlot
  <1>5. TodoOK'
    BY <1>4, RootIsPath, FoldKeepsTodo DEF SInv
  <1>6. ConflictOK'
    BY DEF Fold, ConflictOK, Conflict
  <1>7. InputsOK'
    BY DEF Fold, InputsOK, SInv
  <1> QED
    BY <1>1, <1>2, <1>3, <1>5, <1>6, <1>7 DEF SInv

\* What may stand on the level of the item.
LevelDefs(t) == IF t.at = <<>> THEN Roots ELSE Schema[output[t.at].def].kids

\* The lines of a level and the folded line are of its definitions.
LEMMA LevelFits ==
    ASSUME SInv, todo # <<>>
    PROVE  /\ Line.def \in LevelDefs(Item)
           /\ \A x \in DOMAIN output : IsChild(Item.at, x) => output[x].def \in LevelDefs(Item)
  <1>0. /\ Item.at \in Path /\ Item.from \in Path /\ Len(Item.at) \in Nat
        /\ Item.part \in DOMAIN parts /\ Item.from \in DOMAIN parts[Item.part]
        /\ ItemOK(parts, output, Item) /\ InputsOK /\ (Item.at = <<>> <=> Len(Item.at) = 0)
    BY AroundItem DEF SInv, Path
  <1>1. Line.def \in IF Len(Item.from) = 1 THEN Roots
                     ELSE Schema[parts[Item.part][Parent(Item.from)].def].kids
    BY <1>0, PartsAre, ConfigurationIs DEF Line, Folded
  <1>2. /\ Len(Item.from) = Len(Item.at) + 1
        /\ Item.at # <<>> => output[Item.at].def = parts[Item.part][Parent(Item.from)].def
    BY <1>0 DEF ItemOK
  <1>3. Len(Item.from) = 1 <=> Item.at = <<>>
    BY <1>0, <1>2
  <1>4. Line.def \in LevelDefs(Item)
    BY <1>1, <1>2, <1>3 DEF LevelDefs
  <1>5. ASSUME NEW x \in DOMAIN output, IsChild(Item.at, x)
        PROVE  output[x].def \in LevelDefs(Item)
    <2>1. x \in Path
      BY DEF SInv, Closed
    <2>2. Parent(x) = Item.at /\ Len(x) = Len(Item.at) + 1
      BY <1>0, <1>5, <2>1, ChildIs
    <2>3. output[x].def \in IF Len(x) = 1 THEN Roots ELSE Schema[output[Parent(x)].def].kids
      BY DEF SInv, ChildrenBelong
    <2>4. Len(x) = 1 <=> Item.at = <<>>
      BY <1>0, <2>2
    <2> QED
      BY <2>2, <2>3, <2>4 DEF LevelDefs
  <1> QED
    BY <1>4, <1>5

\* A step that gives the contested slot another value.
LEMMA EditFold ==
    ASSUME SInv, Conflict, NEW line, NEW first, Fold(first),
           output' = [output EXCEPT ![slot] = line], DOMAIN origin' = DOMAIN origin,
           MergeIdent(line) = MergeIdent(Line), line.def \in LevelDefs(Item),
           line.def = Held.def \/ ~IsSection(Held.def),
           first # <<>> => first = Shared /\ line.def = Line.def
    PROVE  SInv'
  <1>0. /\ todo # <<>> /\ slot \in DOMAIN output /\ slot \in Path
        /\ IsChild(Item.at, slot) /\ MergeIdent(Held) = MergeIdent(Line)
        /\ Closed(output) /\ Dense(output) /\ InputsOK /\ TodoOK
    BY SlotIs DEF SInv
  <1>1. /\ DOMAIN output' = DOMAIN output /\ output'[slot] = line
        /\ \A x \in DOMAIN output : x # slot => output'[x] = output[x]
    BY <1>0
  <1>2. \A x \in DOMAIN output : MergeIdent(output'[x]) = MergeIdent(output[x])
    BY <1>0, <1>1 DEF Held
  <1>3. Closed(output)' /\ Dense(output)' /\ DOMAIN origin' = DOMAIN output'
    BY <1>0, <1>1 DEF SInv, Closed, Dense, Numbered, ChildrenIn
  <1>4. ASSUME NEW x \in DOMAIN output'
        PROVE  Fits(output', x)
    <2>0. /\ x \in DOMAIN output /\ x \in Path /\ x # <<>> /\ Fits(output, x)
          /\ Len(x) # 1 => Parent(x) \in DOMAIN output
      BY <1>0, <1>1, ParentIn DEF SInv, ChildrenBelong, Fits
    <2>1. CASE x = slot
      <3>1. Parent(x) = Item.at /\ Len(x) = Len(Item.at) + 1 /\ Item.at \in Path
        BY <1>0, <2>0, <2>1, AroundItem, ChildIs
      <3>2. Item.at # x
        BY <3>1 DEF Path
      <3>3. Item.at # <<>> => Len(x) # 1 /\ output'[Parent(x)] = output[Item.at]
        BY <1>1, <2>0, <2>1, <3>1, <3>2 DEF Path
      <3>4. Item.at = <<>> => Len(x) = 1
        BY <3>1
      <3> QED
        BY <1>1, <2>1, <3>3, <3>4 DEF Fits, LevelDefs
    <2>2. CASE x # slot /\ Len(x) # 1 /\ Parent(x) = slot
      <3>1. output[x].def \in Schema[Held.def].kids
        BY <2>0, <2>2 DEF Fits, Held
      <3>2. IsSection(Held.def)
        BY <3>1 DEF IsSection
      <3> QED
        BY <1>1, <2>0, <2>2, <3>1, <3>2 DEF Fits
    <2>3. CASE x # slot /\ ~(Len(x) # 1 /\ Parent(x) = slot)
      <3>1. Len(x) # 1 => output'[Parent(x)] = output[Parent(x)]
        BY <1>1, <2>0, <2>3
      <3> QED
        BY <1>1, <2>0, <2>3, <3>1, SameFit
    <2> QED
      BY <2>1, <2>2, <2>3
  <1>5. ChildrenBelong'
    BY <1>4 DEF ChildrenBelong, Fits
  <1>6. ASSUME NEW j \in 1..Len(Item.at)
        PROVE  SameSlot(output', output, Upto(Item.at, j))
    <2>1. Upto(Item.at, j) \in DOMAIN output /\ Upto(Item.at, j) # slot
      BY <1>0, AroundItem
    <2> QED
      BY <1>1, <2>1 DEF SameSlot
  <1>7. TodoOK'
    <2>1. CASE first = <<>>
      BY <1>0, <1>6, <2>1, RootIsPath, FoldKeepsTodo
    <2>2. CASE first # <<>>
      <3>1. slot = Slot
        BY DEF SInv, ConflictOK
      <3>2. /\ first = LevelItems(slot, Item.part, Item.from)
            /\ output'[slot].def = Line.def /\ MergeIdent(output'[slot]) = MergeIdent(Line)
        BY <1>1, <2>2, <3>1 DEF Shared
      <3> QED
        BY <1>0, <1>1, <1>6, <3>2, FoldKeepsTodo
    <2> QED
      BY <2>1, <2>2
  <1>8. ConflictOK' /\ InputsOK'
    BY <1>0 DEF Fold, ConflictOK, Conflict, InputsOK
  <1> QED
    BY <1>3, <1>5, <1>7, <1>8 DEF SInv

\* What a Combined answer puts into the slot.
LEMMA CombinedLine ==
    ASSUME SInv, Decided("Combined"), ~Mixes
    PROVE  /\ MergeIdent(answer.line) = MergeIdent(Line)
           /\ answer.line.def \in LevelDefs(Item)
           /\ answer.line.def = Held.def \/ ~IsSection(Held.def)
           /\ IsSection(Line.def) => answer.line.def = Line.def /\ Held.def = Line.def
  <1>1. Conflict /\ ~Rejected
    BY DEF Decided
  <1>2. /\ todo # <<>> /\ slot \in DOMAIN output /\ IsChild(Item.at, slot)
        /\ MergeIdent(Held) = MergeIdent(Line)
        /\ \/ answer.node = "earlier" /\ answer.line = Held
           \/ answer.node = "later" /\ answer.line = Line
           \/ answer.node = "fresh"
    BY <1>1, SlotIs
  <1>3. Line.def \in LevelDefs(Item) /\ Held.def \in LevelDefs(Item)
    BY <1>2, LevelFits DEF Held
  <1>4. answer.node = "fresh" => /\ MergeIdent(answer.line) = MergeIdent(Line)
                                 /\ answer.line.def \in LevelDefs(Item)
    BY <1>1 DEF Rejected, FreshValid, Line, LevelDefs
  <1>5. /\ MergeIdent(answer.line) = MergeIdent(Line)
        /\ answer.line.def \in LevelDefs(Item)
    BY <1>2, <1>3, <1>4
  <1>6. SectionSlot => Held.def = Line.def /\ answer.line.def = Held.def
    BY DEF Mixes
  <1> QED
    BY <1>5, <1>6 DEF SectionSlot

\* A new line goes to the end of its level.
LEMMA NewSlotIs ==
    ASSUME SInv, NewSlot
    PROVE  /\ Site(Item, Append(Item.at, Len(Kids(output, Item.at)) + 1))
           /\ Append(Item.at, Len(Kids(output, Item.at)) + 1) \notin DOMAIN output
  <1>1. todo # <<>>
    BY DEF NewSlot
  <1>2. Item.at \in Path /\ Item.at \in DOMAIN output \cup {<<>>}
    BY <1>1, AroundItem DEF ItemOK
  <1>3. PICK n \in Nat : ChildrenIn(output, Item.at) = {Append(Item.at, k) : k \in 1..n}
    BY <1>2 DEF SInv, Dense, Numbered
  <1>4. Len(Kids(output, Item.at)) = n
    <2>1. Kids(output, Item.at) = [k \in 1..n |-> Append(Item.at, k)]
      BY <1>2, <1>3, KidsAre
    <2> QED
      BY <2>1
  <1> DEFINE q == Append(Item.at, n + 1)
  <1>5. q \in Path /\ IsChild(Item.at, q) /\ q[Len(Item.at) + 1] = n + 1
    BY <1>2, AppendIs
  <1>6. q \notin DOMAIN output
    <2> SUFFICES ASSUME q \in DOMAIN output PROVE FALSE
      OBVIOUS
    <2>1. q \in ChildrenIn(output, Item.at)
      BY <1>5 DEF ChildrenIn
    <2>2. PICK k \in 1..n : q = Append(Item.at, k)
      BY <1>3, <2>1
    <2>3. Append(Item.at, k)[Len(Item.at) + 1] = k
      BY <1>2, AppendIs
    <2>4. k = n + 1
      BY <1>5, <2>2, <2>3
    <2> QED
      BY <2>4
  <1> QED
    BY <1>4, <1>5, <1>6 DEF Site

\* Every step keeps the structure.
LEMMA NextSInv == SInv /\ [Next]_mergeVars => SInv'
  <1> SUFFICES ASSUME SInv, [Next]_mergeVars PROVE SInv'
    OBVIOUS
  <1>1. CASE NewSlot
    BY <1>1, NewSlotIs, CloneFold DEF NewSlot
  <1>2. CASE Agree
    <2>1. /\ todo # <<>> /\ Claimants(Item) # {} /\ UNCHANGED <<output, origin>>
          /\ Fold(IF IsSection(Line.def) THEN Shared ELSE <<>>)
          /\ SameValue(output[Slot], Line)
      BY <1>2 DEF Agree, Meets, Contested
    <2>2. output[Slot].def = Line.def
      BY <2>1 DEF SameValue, Text
    <2>3. CASE IsSection(Line.def)
      BY <2>1, <2>2, <2>3, QuietFold
    <2>4. CASE ~IsSection(Line.def)
      BY <2>1, <2>4, QuietFold
    <2> QED
      BY <2>3, <2>4
  <1>3. CASE Resolve
    <2>1. /\ todo # <<>> /\ Claimants(Item) # {} /\ slot' = Slot
          /\ Contested(output[slot'], Line) /\ answer' \in Answers(output[slot'], Line)
          /\ UNCHANGED <<parts, policy, todo, output, origin, log>>
      BY <1>3 DEF Resolve, Meets
    <2>2. ConflictOK'
      <3>1. Item' = Item
        BY <2>1 DEF Item
      <3>2. Line' = Line /\ Claimants(Item)' = Claimants(Item)
        BY <2>1, <3>1 DEF Line, Folded, Claimants
      <3>3. Slot' = Slot
        BY <2>1, <3>1, <3>2 DEF Slot, Claimant, Claimants, Folded
      <3>4. Held' = output[slot']
        BY <2>1 DEF Held
      <3>5. Answers(Held, Line)' = Answers(output[slot'], Line)
        BY <2>1, <3>2, <3>4 DEF Answers, Undeclared
      <3>6. Contested(Held, Line)' <=> Contested(output[slot'], Line)
        BY <3>2, <3>4
      <3> QED
        BY <2>1, <3>2, <3>3, <3>5, <3>6 DEF ConflictOK
    <2>3. TodoOK'
      BY <2>1 DEF SInv, TodoOK, Items
    <2> QED
      BY <2>1, <2>2, <2>3 DEF SInv, InputsOK, ChildrenBelong
  <1>4. ASSUME NEW named, Conflict, KeepsEarlier(named) PROVE SInv'
    BY <1>4, SlotIs, QuietFold DEF KeepsEarlier
  <1>5. CASE KeepEarlier
    BY <1>5, SlotIs, QuietFold DEF KeepEarlier, Decided
  <1>6. CASE TakeLater
    <2>1. Conflict /\ Fold(<<>>) /\ PlaceClone(Item, slot)
      BY <1>6 DEF TakeLater, Decided
    <2>2. todo # <<>> /\ Site(Item, slot)
      BY <2>1, SlotIs DEF Site
    <2> QED
      BY <2>1, <2>2, CloneFold
  <1>7. CASE TakeFresh
    <2>1. /\ Conflict /\ ~Rejected /\ answer.node = "fresh" /\ ~SectionSlot /\ Fold(<<>>)
          /\ output' = [output EXCEPT ![slot] = answer.line]
          /\ origin' = [origin EXCEPT ![slot] = Item.part]
      BY <1>7 DEF TakeFresh, Decided
    <2>2. /\ MergeIdent(answer.line) = MergeIdent(Line)
          /\ answer.line.def \in LevelDefs(Item)
      BY <2>1 DEF Rejected, FreshValid, Line, LevelDefs
    <2>3. ~IsSection(Held.def) /\ DOMAIN origin' = DOMAIN origin
      BY <2>1 DEF SectionSlot
    <2> QED
      BY <2>1, <2>2, <2>3, EditFold
  <1>8. CASE Combine
    <2>1. /\ Conflict /\ Decided("Combined") /\ ~Mixes
          /\ output' = [output EXCEPT ![slot] = answer.line]
          /\ origin' = [origin EXCEPT ![slot] = CombinedOrigin]
          /\ Fold(IF IsSection(Line.def) /\ Held.def = Line.def THEN Shared ELSE <<>>)
      BY <1>8 DEF Combine, Decided
    <2>2. DOMAIN origin' = DOMAIN origin
      BY <2>1
    <2>3. CASE IsSection(Line.def) /\ Held.def = Line.def
      BY <2>1, <2>2, <2>3, CombinedLine, EditFold
    <2>4. CASE ~(IsSection(Line.def) /\ Held.def = Line.def)
      BY <2>1, <2>2, <2>4, CombinedLine, EditFold
    <2> QED
      BY <2>3, <2>4
  <1>9. CASE UNCHANGED mergeVars
    <2>1. (InputsOK /\ ChildrenBelong /\ TodoOK)'
      BY <1>9 DEF mergeVars, SInv, InputsOK, ChildrenBelong, TodoOK, Items
    <2>2. (Closed(output) /\ Dense(output) /\ DOMAIN origin = DOMAIN output)'
      <3>1. output' = output /\ origin' = origin
        BY <1>9 DEF mergeVars
      <3>2. Closed(output) /\ Dense(output) /\ DOMAIN origin = DOMAIN output
        BY Zenon DEF SInv
      <3> QED
        BY <3>1, <3>2, Zenon
    <2>3. ConflictOK'
      BY <1>9, Zenon DEF mergeVars, SInv, ConflictOK, Conflict, Item, Claimants, Folded, Slot,
          Claimant, Held, Line, Answers, Undeclared
    <2> QED
      BY <2>1, <2>2, <2>3 DEF SInv
  <1> QED
    BY <1>1, <1>2, <1>3, <1>4, <1>5, <1>6, <1>7, <1>8, <1>9
       DEF Next, Refused, RejectFresh, RefuseChildless, RefuseMix, Decided, Returned

-----------------------------------------------------------------------------
(* The initial state.                                                      *)

\* Sequence g is the concatenations of the first 1, 2, ... m sequences of ss.
Concatenates(g, ss, m) ==
    g = [i \in 1..m |-> IF i = 1 THEN ss[i] ELSE g[i - 1] \o ss[i]]

\* Concatenations, one at a time.
LEMMA ConcatenatesIs ==
    ASSUME NEW g, NEW ss, NEW m \in Nat
    PROVE  Concatenates(g, ss, m) <=>
            /\ g = [i \in 1..m |-> g[i]]
            /\ \A i \in 1..m : g[i] = IF i = 1 THEN ss[i] ELSE g[i - 1] \o ss[i]
  BY DEF Concatenates

\* FlattenSeq's recursive function exists.
LEMMA ConcatenatesExists ==
    ASSUME NEW ss, NEW n \in Nat
    PROVE  \E g : Concatenates(g, ss, n)
  <1> DEFINE Has(m) == \E g : Concatenates(g, ss, m)
             T == {m \in Nat : ~Has(m)}
  <1> SUFFICES ASSUME T # {} PROVE FALSE
    OBVIOUS
  <1>1. PICK m \in T : \A k \in T : m <= k
    BY LeastNat
  <1>2. Has(0)
    <2>1. Concatenates([i \in 1..0 |-> ss[i]], ss, 0)
      BY DEF Concatenates
    <2> QED
      BY <2>1
  <1>3. m \in Nat /\ m # 0 /\ ~Has(m)
    BY <1>1, <1>2
  <1>4. m - 1 \in Nat /\ m - 1 \notin T
    BY <1>1, <1>3
  <1>5. PICK g : Concatenates(g, ss, m - 1)
    BY <1>4
  <1> DEFINE h == [i \in 1..m |-> IF i = m THEN IF m = 1 THEN ss[m] ELSE g[m - 1] \o ss[m]
                                  ELSE g[i]]
  <1>6. \A i \in 1..(m - 1) : g[i] = IF i = 1 THEN ss[i] ELSE g[i - 1] \o ss[i]
    BY <1>4, <1>5, ConcatenatesIs
  <1>7. /\ h = [i \in 1..m |-> h[i]]
        /\ h[m] = IF m = 1 THEN ss[m] ELSE g[m - 1] \o ss[m]
        /\ \A i \in 1..m : i # m => h[i] = g[i]
    BY <1>3
  <1> HIDE DEF h
  <1>8. ASSUME NEW i \in 1..m
        PROVE  h[i] = IF i = 1 THEN ss[i] ELSE h[i - 1] \o ss[i]
    <2>1. CASE i = m
      <3>1. m # 1 => m - 1 \in 1..m /\ m - 1 # m
        BY <1>3
      <3>2. m # 1 => h[m - 1] = g[m - 1]
        BY <1>7, <3>1
      <3> QED
        BY <1>7, <2>1, <3>2
    <2>2. CASE i # m
      <3>1. i \in 1..(m - 1) /\ (i # 1 => i - 1 \in 1..m /\ i - 1 # m)
        BY <1>3, <2>2
      <3>2. h[i] = g[i] /\ (i # 1 => h[i - 1] = g[i - 1])
        BY <1>7, <2>2, <3>1
      <3> QED
        BY <1>6, <3>1, <3>2
    <2> QED
      BY <2>1, <2>2
  <1>9. Concatenates(h, ss, m)
    BY <1>3, <1>7, <1>8, ConcatenatesIs
  <1> QED
    BY <1>3, <1>9

\* Element x is before y in ss[1], ..., ss[m].
Precede(x, y, ss, m) ==
    \E k, l \in 1..m : \E a \in DOMAIN ss[k] : \E b \in DOMAIN ss[l] :
        x = ss[k][a] /\ y = ss[l][b] /\ (k < l \/ (k = l /\ a < b))

\* Sequence s of elements of S has the elements of ss[1], ..., ss[m] in order.
Flattens(s, S, ss, m) ==
    /\ s \in Seq(S)
    /\ \A i \in DOMAIN s : \E k \in 1..m : \E j \in DOMAIN ss[k] : s[i] = ss[k][j]
    /\ \A k \in 1..m : \A j \in DOMAIN ss[k] : \E i \in DOMAIN s : s[i] = ss[k][j]
    /\ \A i, h \in DOMAIN s : i < h => Precede(s[i], s[h], ss, m)

\* One more sequence.
LEMMA FlattensMore ==
    ASSUME NEW S, NEW s, NEW ss, NEW m \in Nat, Flattens(s, S, ss, m), ss[m + 1] \in Seq(S)
    PROVE  Flattens(s \o ss[m + 1], S, ss, m + 1)
  <1> DEFINE u == ss[m + 1]
             r == s \o u
  <1>1. /\ s \in Seq(S) /\ u \in Seq(S) /\ Len(s) \in Nat /\ Len(u) \in Nat
        /\ DOMAIN s = 1..Len(s) /\ DOMAIN u = 1..Len(u)
    BY DEF Flattens
  <1> HIDE DEF u
  <1>2. /\ r \in Seq(S) /\ Len(r) = Len(s) + Len(u)
        /\ \A i \in 1 .. Len(s) + Len(u) :
            r[i] = IF i <= Len(s) THEN s[i] ELSE u[i - Len(s)]
    BY <1>1, ConcatProperties
  <1> HIDE DEF r
  <1>3. DOMAIN r = 1..(Len(s) + Len(u))
    BY <1>2
  <1>4. ASSUME NEW i \in DOMAIN r
        PROVE  \E k \in 1..(m + 1) : \E j \in DOMAIN ss[k] : r[i] = ss[k][j]
    <2>1. CASE i <= Len(s)
      <3>1. i \in DOMAIN s /\ r[i] = s[i]
        BY <1>1, <1>2, <1>3, <2>1
      <3>2. PICK k \in 1..m : \E j \in DOMAIN ss[k] : s[i] = ss[k][j]
        BY <3>1 DEF Flattens
      <3> QED
        BY <3>1, <3>2
    <2>2. CASE i > Len(s)
      <3>1. i - Len(s) \in DOMAIN u /\ r[i] = u[i - Len(s)]
        BY <1>1, <1>2, <1>3, <2>2
      <3> QED
        BY <3>1 DEF u
    <2> QED
      BY <1>1, <1>3, <2>1, <2>2
  <1>5. ASSUME NEW k \in 1..(m + 1), NEW j \in DOMAIN ss[k]
        PROVE  \E i \in DOMAIN r : r[i] = ss[k][j]
    <2>1. CASE k \in 1..m
      <3>1. PICK i \in DOMAIN s : s[i] = ss[k][j]
        BY <2>1 DEF Flattens
      <3>2. i \in DOMAIN r /\ r[i] = s[i]
        BY <1>1, <1>2, <1>3
      <3> QED
        BY <3>1, <3>2
    <2>2. CASE k = m + 1
      <3>1. j \in 1..Len(u) /\ u[j] = ss[k][j]
        BY <1>1, <2>2 DEF u
      <3>2. j + Len(s) \in DOMAIN r /\ (j + Len(s)) - Len(s) = j /\ ~(j + Len(s) <= Len(s))
        BY <1>1, <1>3, <3>1
      <3>3. r[j + Len(s)] = u[j]
        BY <1>2, <1>3, <3>2
      <3> QED
        BY <3>1, <3>2, <3>3
    <2> QED
      BY <2>1, <2>2
  <1>7. ASSUME NEW i \in DOMAIN r, NEW h \in DOMAIN r, i < h
        PROVE  Precede(r[i], r[h], ss, m + 1)
    <2>0. i \in Nat /\ h \in Nat /\ i <= Len(s) + Len(u) /\ h <= Len(s) + Len(u)
          /\ i >= 1 /\ h >= 1 /\ m + 1 \in 1..(m + 1)
      BY <1>1, <1>3
    <2>1. CASE h <= Len(s)
      <3>1. i \in DOMAIN s /\ h \in DOMAIN s /\ i <= Len(s)
        BY <1>1, <1>7, <2>0, <2>1
      <3>2. r[i] = s[i] /\ r[h] = s[h]
        BY <1>2, <1>3, <2>1, <3>1
      <3>3. Precede(s[i], s[h], ss, m)
        BY <1>7, <3>1 DEF Flattens
      <3>4. 1..m \subseteq 1..(m + 1)
        OBVIOUS
      <3> QED
        BY <3>2, <3>3, <3>4 DEF Precede
    <2>2. CASE i <= Len(s) /\ h > Len(s)
      <3>1. i \in DOMAIN s /\ h - Len(s) \in DOMAIN u /\ ~(h <= Len(s))
        BY <1>1, <2>0, <2>2
      <3>2. r[i] = s[i] /\ r[h] = u[h - Len(s)]
        BY <1>2, <1>3, <2>2, <3>1
      <3>3. PICK k \in 1..m : \E a \in DOMAIN ss[k] : s[i] = ss[k][a]
        BY <3>1 DEF Flattens
      <3>4. k \in 1..(m + 1) /\ k < m + 1
        BY <3>3
      <3> QED
        BY <2>0, <3>1, <3>2, <3>3, <3>4 DEF Precede, u
    <2>3. CASE i > Len(s)
      <3>1. /\ i - Len(s) \in DOMAIN u /\ h - Len(s) \in DOMAIN u
            /\ ~(i <= Len(s)) /\ ~(h <= Len(s)) /\ i - Len(s) < h - Len(s)
        BY <1>1, <1>7, <2>0, <2>3
      <3>2. r[i] = u[i - Len(s)] /\ r[h] = u[h - Len(s)]
        BY <1>2, <1>3, <3>1
      <3> QED
        BY <2>0, <3>1, <3>2 DEF Precede, u
    <2> QED
      BY <1>1, <2>0, <2>1, <2>2, <2>3
  <1>6. Flattens(r, S, ss, m + 1)
    BY <1>2, <1>4, <1>5, <1>7 DEF Flattens
  <1> QED
    BY <1>6 DEF r, u

\* One sequence.
LEMMA FlattensOne ==
    ASSUME NEW S, NEW s \in Seq(S), NEW ss, s = ss[1]
    PROVE  Flattens(s, S, ss, 1)
  <1>1. 1..1 = {1}
    OBVIOUS
  <1>2. ASSUME NEW i \in DOMAIN s, NEW h \in DOMAIN s, i < h
        PROVE  Precede(s[i], s[h], ss, 1)
    BY <1>1, <1>2 DEF Precede
  <1> QED
    BY <1>1, <1>2 DEF Flattens

\* FlattenSeq has the members of all sequences, in order, and no others.
LEMMA FlattenSeqIs ==
    ASSUME NEW S, NEW ss, NEW n \in Nat, Len(ss) = n, ss = [k \in 1..n |-> ss[k]],
           \A k \in 1..n : ss[k] \in Seq(S)
    PROVE  Flattens(FlattenSeq(ss), S, ss, n)
  <1>1. CASE n = 0
    <2>1. FlattenSeq(ss) = ss
      BY <1>1 DEF FlattenSeq
    <2>2. ss = <<>>
      BY <1>1
    <2>3. Flattens(<<>>, S, ss, 0)
      <3>1. <<>> \in Seq(S) /\ DOMAIN <<>> = {} /\ 1..0 = {}
        OBVIOUS
      <3> QED
        BY <3>1 DEF Flattens
    <2> QED
      BY <1>1, <2>1, <2>2, <2>3
  <1>2. CASE n # 0
    <2> DEFINE f == CHOOSE g : Concatenates(g, ss, n)
    <2>1. FlattenSeq(ss) = f[n]
      BY <1>2 DEF FlattenSeq, Concatenates
    <2>2. Concatenates(f, ss, n)
      BY ConcatenatesExists
    <2> HIDE DEF f
    <2>3. \A i \in 1..n : f[i] = IF i = 1 THEN ss[i] ELSE f[i - 1] \o ss[i]
      BY <2>2, ConcatenatesIs
    <2> DEFINE T == {m \in 1..n : ~Flattens(f[m], S, ss, m)}
    <2>4. ASSUME T # {} PROVE FALSE
      <3>1. T \subseteq Nat
        OBVIOUS
      <3>2. PICK m \in T : \A k \in T : m <= k
        BY <2>4, <3>1, LeastNat
      <3>3. m \in 1..n /\ ~Flattens(f[m], S, ss, m)
        BY <3>2
      <3>6. \A k \in 1..n : k < m => Flattens(f[k], S, ss, k)
        <4>1. \A k \in 1..n : ~Flattens(f[k], S, ss, k) => m <= k
          BY <3>2
        <4> HIDE DEF T
        <4>2. \A k \in 1..n : k < m => ~(m <= k)
          BY <3>3
        <4> QED
          BY <4>1, <4>2, Zenon
      <3> HIDE DEF T
      <3>4. CASE m = 1
        <4>0. 1 \in 1..n
          BY <1>2
        <4>1. f[1] = ss[1] /\ ss[1] \in Seq(S)
          BY <2>3, <4>0
        <4>2. Flattens(f[1], S, ss, 1)
          BY <4>1, FlattensOne
        <4> QED
          BY <3>3, <3>4, <4>2
      <3>5. CASE m # 1
        <4>1. m - 1 \in 1..n /\ m - 1 \in Nat /\ (m - 1) + 1 = m
          BY <3>3, <3>5
        <4>2. Flattens(f[m - 1], S, ss, m - 1)
          <5>1. m - 1 < m
            BY <3>3
          <5> QED
            BY <3>6, <4>1, <5>1
        <4>3. f[m] = f[m - 1] \o ss[m] /\ ss[m] \in Seq(S)
          BY <2>3, <3>3, <3>5
        <4>4. Flattens(f[m - 1] \o ss[(m - 1) + 1], S, ss, (m - 1) + 1)
          BY <4>1, <4>2, <4>3, FlattensMore
        <4> QED
          BY <3>3, <4>1, <4>3, <4>4
      <3> QED
        BY <3>4, <3>5
    <2>5. Flattens(f[n], S, ss, n)
      <3>1. n \in 1..n
        BY <1>2
      <3> QED
        BY <2>4, <3>1
    <2> QED
      BY <2>1, <2>5
  <1> QED
    BY <1>1, <1>2

\* Item t is of an earlier part than u, or of another line of the same part.
ItemBefore(t, u) == t.part < u.part \/ (t.part = u.part /\ t.from # u.from)

\* What there is to fold when Merge is called: the top level of every part, part
\* after part.
LEMMA InitTodo ==
    ASSUME Init
    PROVE  /\ InputsOK /\ todo \in Seq(Items)
           /\ \A i \in DOMAIN todo :
                /\ todo[i].at = <<>> /\ todo[i].part \in DOMAIN parts
                /\ todo[i].from \in DOMAIN parts[todo[i].part] /\ Len(todo[i].from) = 1
           /\ \A k \in DOMAIN parts : \A y \in DOMAIN parts[k] :
                Len(y) = 1 => \E i \in DOMAIN todo : todo[i].part = k /\ todo[i].from = y
           /\ \A i, h \in DOMAIN todo : i < h => ItemBefore(todo[i], todo[h])
  <1> DEFINE ss == [k \in DOMAIN parts |-> LevelItems(<<>>, k, <<>>)]
  <1>1. InputsOK /\ todo = FlattenSeq(ss)
    BY DEF Init, InputsOK
  <1>2. PICK n \in Nat : DOMAIN parts = 1..n
    BY <1>1, PartsAre
  <1>3. ASSUME NEW k \in DOMAIN parts
        PROVE  /\ ss[k] \in Seq(Items)
               /\ \A j \in DOMAIN ss[k] :
                    /\ j \in Nat /\ Append(<<>>, j) \in DOMAIN parts[k]
                    /\ ss[k][j] = [at |-> <<>>, part |-> k, from |-> Append(<<>>, j)]
               /\ \A y \in ChildrenIn(parts[k], <<>>) :
                    \E j \in DOMAIN ss[k] : ss[k][j].from = y
    <2>1. ss[k] = LevelItems(<<>>, k, <<>>) /\ <<>> \in DOMAIN parts[k] \cup {<<>>}
      OBVIOUS
    <2>2. InputsOK /\ <<>> \in Path
      BY <1>1, RootIsPath
    <2> HIDE DEF ss
    <2> DEFINE L == LevelItems(<<>>, k, <<>>)
    <2>3. /\ L \in Seq(Items)
          /\ \A j \in DOMAIN L :
                /\ j \in Nat /\ Append(<<>>, j) \in DOMAIN parts[k]
                /\ L[j] = [at |-> <<>>, part |-> k, from |-> Append(<<>>, j)]
          /\ \A y \in ChildrenIn(parts[k], <<>>) : \E j \in DOMAIN L : L[j].from = y
      BY <2>1, <2>2, LevelItemsAre
    <2> QED
      BY <2>1, <2>3, Zenon
  <1>4. Len(ss) = n /\ ss = [k \in 1..n |-> ss[k]]
    BY <1>2
  <1> HIDE DEF ss
  <1>5. Flattens(todo, Items, ss, n)
    BY <1>1, <1>2, <1>3, <1>4, FlattenSeqIs
  <1>6. ASSUME NEW i \in DOMAIN todo
        PROVE  /\ todo[i].at = <<>> /\ todo[i].part \in DOMAIN parts
               /\ todo[i].from \in DOMAIN parts[todo[i].part] /\ Len(todo[i].from) = 1
    <2>0. PICK k \in DOMAIN parts : \E j \in DOMAIN ss[k] : todo[i] = ss[k][j]
      BY <1>2, <1>5 DEF Flattens
    <2>1. PICK j \in DOMAIN ss[k] : todo[i] = ss[k][j]
      BY <2>0
    <2>2. /\ j \in Nat /\ Append(<<>>, j) \in DOMAIN parts[k]
          /\ todo[i] = [at |-> <<>>, part |-> k, from |-> Append(<<>>, j)]
      BY <1>3, <2>1
    <2>3. Len(Append(<<>>, j)) = Len(<<>>) + 1
      BY <2>2, RootIsPath, AppendIs
    <2> QED
      BY <2>2, <2>3, RootIsPath
  <1>7. ASSUME NEW k \in DOMAIN parts, NEW y \in DOMAIN parts[k], Len(y) = 1
        PROVE  \E i \in DOMAIN todo : todo[i].part = k /\ todo[i].from = y
    <2>1. y \in Path
      BY <1>1, PartsAre, ConfigurationIs DEF Closed
    <2>2. IsChild(<<>>, y)
      <3>1. Len(y) = Len(<<>>) + 1 /\ Below(<<>>, y)
        BY <1>7, <2>1, RootIsPath, BelowTwice
      <3> QED
        BY <2>1, <3>1, RootIsPath, ChildIs
    <2>3. y \in ChildrenIn(parts[k], <<>>)
      BY <2>2 DEF ChildrenIn
    <2>4. PICK j \in DOMAIN ss[k] : ss[k][j].from = y
      BY <1>3, <2>3
    <2>5. PICK i \in DOMAIN todo : todo[i] = ss[k][j]
      BY <1>2, <1>5 DEF Flattens
    <2>6. ss[k][j].part = k
      <3>1. ss[k][j] = [at |-> <<>>, part |-> k, from |-> Append(<<>>, j)]
        BY <1>3
      <3> QED
        BY <3>1
    <2> QED
      BY <2>4, <2>5, <2>6
  <1>8. ASSUME NEW i \in DOMAIN todo, NEW h \in DOMAIN todo, i < h
        PROVE  ItemBefore(todo[i], todo[h])
    <2>1. Precede(todo[i], todo[h], ss, n)
      BY <1>5, <1>8 DEF Flattens
    <2>2. PICK k \in 1..n, l \in 1..n : \E a \in DOMAIN ss[k] : \E b \in DOMAIN ss[l] :
            todo[i] = ss[k][a] /\ todo[h] = ss[l][b] /\ (k < l \/ (k = l /\ a < b))
      BY <2>1 DEF Precede
    <2>3. PICK a \in DOMAIN ss[k], b \in DOMAIN ss[l] :
            todo[i] = ss[k][a] /\ todo[h] = ss[l][b] /\ (k < l \/ (k = l /\ a < b))
      BY <2>2
    <2>4. /\ a \in Nat /\ todo[i] = [at |-> <<>>, part |-> k, from |-> Append(<<>>, a)]
          /\ b \in Nat /\ todo[h] = [at |-> <<>>, part |-> l, from |-> Append(<<>>, b)]
      BY <1>2, <1>3, <2>3
    <2>5. Append(<<>>, a)[1] = a /\ Append(<<>>, b)[1] = b
      BY <2>4, RootIsPath, AppendIs
    <2>6. a < b => Append(<<>>, a) # Append(<<>>, b)
      BY <2>4, <2>5
    <2> QED
      BY <2>3, <2>4, <2>6 DEF ItemBefore
  <1> QED
    BY <1>1, <1>5, <1>6, <1>7, <1>8 DEF Flattens

\* The empty output, with the top-level lines of all parts to fold.
LEMMA InitSInv == Init => SInv
  <1> SUFFICES ASSUME Init PROVE SInv
    OBVIOUS
  <1>1. DOMAIN output = {} /\ DOMAIN origin = {} /\ answer = NoAnswer
    BY DEF Init
  <1>2. Closed(output) /\ ChildrenBelong
    BY <1>1 DEF Closed, ChildrenBelong
  <1>3. Dense(output)
    <2>1. ChildrenIn(output, <<>>) = {Append(<<>>, k) : k \in 1..0} /\ 0 \in Nat
      BY <1>1 DEF ChildrenIn
    <2>2. Numbered(output, <<>>)
      BY <2>1 DEF Numbered
    <2> QED
      BY <1>1, <2>2 DEF Dense
  <1>4. TodoOK
    <2>1. ASSUME NEW i \in DOMAIN todo PROVE ItemOK(parts, output, todo[i])
      <3>1. /\ todo[i].at = <<>> /\ todo[i].from \in DOMAIN parts[todo[i].part]
            /\ Len(todo[i].from) = 1
        BY InitTodo
      <3> QED
        BY <3>1, RootIsPath DEF ItemOK
    <2>2. ASSUME NEW i \in DOMAIN todo, NEW j \in DOMAIN todo
          PROVE  Below(todo[j].at, todo[i].at)
      BY InitTodo, RootIsPath, BelowTwice
    <2> QED
      BY <2>1, <2>2, InitTodo DEF TodoOK
  <1> QED
    BY <1>1, <1>2, <1>3, <1>4, InitTodo DEF SInv, ConflictOK, Conflict

\* However the resolvers answer and however deep sections are merged, every
\* line of the output stands below a header whose definition allows it
\* (merge.level, merge.combine, cloneNode).
THEOREM OutputIsWellFormed == Spec => [](ChildrenBelong /\ Closed(output) /\ Dense(output))
  <1>1. SInv => ChildrenBelong /\ Closed(output) /\ Dense(output)
    BY DEF SInv
  <1> QED
    BY <1>1, InitSInv, NextSInv, PTL DEF Spec

-----------------------------------------------------------------------------
(* One line per slot.                                                      *)

NoKind == ""

\* An identity from its parts.
IdentOf(d, kind, key) == [def |-> d, kind |-> kind, key |-> key]

\* The fields of an identity.
LEMMA IdentFields ==
    ASSUME NEW i, NEW d, NEW kind, NEW key, i = IdentOf(d, kind, key)
    PROVE  i.def = d /\ i.kind = kind /\ i.key = key
  BY DEF IdentOf

\* The three kinds of key differ in their tag.
LEMMA KeyTags ==
    ASSUME NEW key, NEW v
    PROVE  /\ key = <<"none">> => key[1] = "none"
           /\ key = <<"key", v>> => key[1] = "key"
           /\ key = <<"text", v>> => key[1] = "text"
  OBVIOUS

\* Identities of different categories differ.
LEMMA IdentIs ==
    ASSUME NEW l
    PROVE  /\ CategoryOf(l.def) \in {"Keyed", "KindedSingle", "IdempotentSingle", "FullLine"}
           /\ CategoryOf(l.def) = "Keyed" <=> Keyed(l.def)
           /\ CategoryOf(l.def) = "KindedSingle" <=> KindedSingleDef(l.def)
           /\ CategoryOf(l.def) = "KindedSingle" =>
                Ident(l) = IdentOf(0, Schema[l.def].kind, <<"none">>)
           /\ CategoryOf(l.def) = "IdempotentSingle" =>
                Ident(l) = IdentOf(l.def, NoKind, <<"none">>)
           /\ CategoryOf(l.def) = "Keyed" =>
                Ident(l) = IdentOf(IF Schema[l.def].kind = NoKind THEN l.def ELSE 0,
                                   Schema[l.def].kind, <<"key", KeyValue(l)>>)
           /\ CategoryOf(l.def) = "FullLine" =>
                Ident(l) = IdentOf(l.def, NoKind, <<"text", l.f>>)
  <1>1. /\ CategoryOf(l.def) \in {"Keyed", "KindedSingle", "IdempotentSingle", "FullLine"}
        /\ CategoryOf(l.def) = "Keyed" <=> Keyed(l.def)
        /\ CategoryOf(l.def) = "KindedSingle" <=> KindedSingleDef(l.def)
    BY DEF CategoryOf, KindedSingleDef, SlotDef
  <1> QED
    BY <1>1 DEF Ident, IdentOf, NoKind

\* The parts of an identity that tell the categories apart.
LEMMA IdentParts ==
    ASSUME NEW x
    PROVE  /\ CategoryOf(x.def) \in {"KindedSingle", "IdempotentSingle"} => Ident(x).key[1] = "none"
           /\ CategoryOf(x.def) = "Keyed" => Ident(x).key[1] = "key"
           /\ CategoryOf(x.def) = "FullLine" => Ident(x).key[1] = "text" /\ Ident(x).def = x.def
           /\ CategoryOf(x.def) = "KindedSingle" => Ident(x).kind # NoKind
           /\ CategoryOf(x.def) = "IdempotentSingle" => Ident(x).kind = NoKind /\ Ident(x).def = x.def
  <1>1. CASE CategoryOf(x.def) = "KindedSingle"
    <2>1. /\ Ident(x) = IdentOf(0, Schema[x.def].kind, <<"none">>)
          /\ Schema[x.def].kind # NoKind
      BY <1>1, IdentIs DEF KindedSingleDef, NoKind
    <2>2. Ident(x).key = <<"none">> /\ Ident(x).kind = Schema[x.def].kind
      BY <2>1, IdentFields
    <2>3. Ident(x).key[1] = "none"
      BY <2>2, KeyTags, Zenon
    <2> QED
      BY <1>1, <2>1, <2>2, <2>3
  <1>2. CASE CategoryOf(x.def) = "IdempotentSingle"
    <2>1. Ident(x) = IdentOf(x.def, NoKind, <<"none">>)
      BY <1>2, IdentIs
    <2>2. Ident(x).key = <<"none">> /\ Ident(x).kind = NoKind /\ Ident(x).def = x.def
      BY <2>1, IdentFields
    <2>3. Ident(x).key[1] = "none"
      BY <2>2, KeyTags, Zenon
    <2> QED
      BY <1>2, <2>1, <2>2, <2>3
  <1>3. CASE CategoryOf(x.def) = "Keyed"
    <2>1. PICK d : Ident(x) = IdentOf(d, Schema[x.def].kind, <<"key", KeyValue(x)>>)
      BY <1>3, IdentIs
    <2>2. Ident(x).key = <<"key", KeyValue(x)>>
      BY <2>1, IdentFields
    <2>3. Ident(x).key[1] = "key"
      BY <2>2, KeyTags, Zenon
    <2> QED
      BY <1>3, <2>1, <2>2, <2>3
  <1>4. CASE CategoryOf(x.def) = "FullLine"
    <2>1. Ident(x) = IdentOf(x.def, NoKind, <<"text", x.f>>)
      BY <1>4, IdentIs
    <2>2. Ident(x).key = <<"text", x.f>> /\ Ident(x).def = x.def
      BY <2>1, IdentFields
    <2>3. Ident(x).key[1] = "text"
      BY <2>2, KeyTags, Zenon
    <2> QED
      BY <1>4, <2>1, <2>2, <2>3
  <1> QED
    BY <1>1, <1>2, <1>3, <1>4, IdentIs

\* Lines of equal identities are of one category, and unless that has keys or
\* kinds, of one definition.
LEMMA SameIdent ==
    ASSUME NEW l, NEW m, Ident(l) = Ident(m)
    PROVE  /\ CategoryOf(l.def) = CategoryOf(m.def)
           /\ CategoryOf(l.def) \in {"IdempotentSingle", "FullLine"} => l.def = m.def
  <1>1. /\ Ident(l).key[1] = Ident(m).key[1] /\ Ident(l).kind = Ident(m).kind
        /\ Ident(l).def = Ident(m).def
    OBVIOUS
  <1> QED
    BY <1>1, IdentParts, IdentIs

\* Lines that share a single-occupancy slot.
Alone(l) == ~Keyed(l.def) /\ Schema[l.def].card = "ZeroToOne" /\ CategoryOf(l.def) # "KindedSingle"

\* The two kinds of slot.
LEMMA MergeIdentIs ==
    ASSUME NEW l
    PROVE  /\ Alone(l) => MergeIdent(l) =
                IdentOf(ToggleCanonical(l.def), NoKind, <<"none">>)
           /\ ~Alone(l) => MergeIdent(l) = Ident(l)
  BY DEF Alone, MergeIdent, IdentOf, NoKind

\* The definitions of a toggle group share the group, its slot and its card.
LEMMA GroupIs ==
    ASSUME NEW d \in Defs, NEW e \in ToSet(Schema[d].toggles)
    PROVE  /\ e \in Defs /\ d \in ToSet(Schema[d].toggles)
           /\ Schema[e].toggles = Schema[d].toggles /\ Schema[d].toggles # <<>>
           /\ ~Keyed(d) /\ Schema[d].card = "ZeroToOne"
           /\ ~Keyed(e) /\ Schema[e].card = "ZeroToOne"
           /\ ToggleCanonical(e) = ToggleCanonical(d)
           /\ Schema[d].toggles[2] \in ToSet(Schema[d].toggles)
  <1>1. TogglesBuilds(d)
    BY SchemaAssumption DEF Buildable
  <1>2. /\ d \in ToSet(Schema[d].toggles) /\ ToSet(Schema[d].toggles) \subseteq Defs
        /\ Len(Schema[d].toggles) > 1
        /\ ~Keyed(d) /\ Schema[d].card = "ZeroToOne"
        /\ \A m \in ToSet(Schema[d].toggles) : Schema[m].toggles = Schema[d].toggles
    <2>1. Schema[d].toggles # <<>>
      BY DEF ToSet
    <2> QED
      BY <1>1, <2>1 DEF TogglesBuilds
  <1>3. e \in Defs /\ Schema[e].toggles = Schema[d].toggles
    BY <1>2
  <1>4. TogglesBuilds(e)
    BY <1>3, SchemaAssumption DEF Buildable
  <1>6. Schema[d].toggles # <<>>
    BY <1>2 DEF ToSet
  <1>5. ~Keyed(e) /\ Schema[e].card = "ZeroToOne"
    BY <1>3, <1>4, <1>6 DEF TogglesBuilds
  <1>7. ToggleCanonical(e) = ToggleCanonical(d)
    BY <1>3, <1>6 DEF ToggleCanonical
  <1>8. 2 \in DOMAIN Schema[d].toggles
    BY <1>2
  <1>9. Schema[d].toggles[2] \in ToSet(Schema[d].toggles)
    BY <1>8 DEF ToSet
  <1> QED
    BY <1>2, <1>3, <1>5, <1>6, <1>7, <1>9

\* What a merge slot is: two lines of one slot are one object for the device,
\* and one object for the device is one slot.
LEMMA SlotMeans ==
    ASSUME NEW l, NEW m, l.def \in Defs, m.def \in Defs
    PROVE  /\ SameObject(l, m) => MergeIdent(l) = MergeIdent(m)
           /\ MergeIdent(l) = MergeIdent(m) => SameObject(l, m) \/ SameObject(m, l)
  <1>0. /\ Alone(l) => Schema[l.def].card = "ZeroToOne" /\ ~Keyed(l.def)
        /\ Alone(m) => Schema[m.def].card = "ZeroToOne" /\ ~Keyed(m.def)
    BY DEF Alone
  <1>1. ASSUME NEW x, NEW y, Ident(x) = Ident(y)
        PROVE  MergeIdent(x) = MergeIdent(y)
    <2>1. CategoryOf(x.def) = CategoryOf(y.def)
      BY <1>1, SameIdent
    <2>2. CASE CategoryOf(x.def) \in {"IdempotentSingle", "FullLine"}
      <3>1. x.def = y.def
        BY <1>1, <2>2, SameIdent
      <3> QED
        BY <1>1, <3>1, MergeIdentIs DEF Alone
    <2>3. CASE CategoryOf(x.def) \in {"Keyed", "KindedSingle"}
      <3>1. ~Alone(x) /\ ~Alone(y)
        BY <2>1, <2>3, IdentIs DEF Alone
      <3> QED
        BY <1>1, <3>1, MergeIdentIs
    <2> QED
      BY <2>2, <2>3, IdentIs
  <1>2. ASSUME ~Keyed(l.def), Schema[l.def].card = "ZeroToOne", m.def = l.def
        PROVE  MergeIdent(l) = MergeIdent(m)
    <2>1. CASE Alone(l)
      BY <1>2, <2>1, MergeIdentIs DEF Alone
    <2>2. CASE ~Alone(l)
      <3>1. CategoryOf(l.def) = "KindedSingle"
        BY <1>2, <2>2 DEF Alone
      <3>2. Ident(l) = Ident(m)
        BY <1>2, <3>1, IdentIs
      <3> QED
        BY <1>1, <3>2
    <2> QED
      BY <2>1, <2>2
  <1>3. ASSUME m.def \in ToSet(Schema[l.def].toggles)
        PROVE  MergeIdent(l) = MergeIdent(m)
    <2>1. /\ ~Keyed(l.def) /\ Schema[l.def].card = "ZeroToOne"
          /\ ~Keyed(m.def) /\ Schema[m.def].card = "ZeroToOne"
          /\ ToggleCanonical(m.def) = ToggleCanonical(l.def)
          /\ Schema[l.def].toggles # <<>> /\ Schema[m.def].toggles # <<>>
      BY <1>3, GroupIs
    <2>2. Alone(l) /\ Alone(m)
      BY <2>1, IdentIs DEF Alone, KindedSingleDef
    <2> QED
      BY <2>1, <2>2, MergeIdentIs
  <1>4. ASSUME SameObject(l, m) PROVE MergeIdent(l) = MergeIdent(m)
    BY <1>1, <1>2, <1>3, <1>4 DEF SameObject, ToggleGroup
  <1>5. ASSUME NEW x, NEW y, x.def \in Defs, y.def \in Defs, Alone(x), Alone(y),
               MergeIdent(x) = MergeIdent(y)
        PROVE  SameObject(x, y) \/ SameObject(y, x)
    <2>1. ToggleCanonical(x.def) = ToggleCanonical(y.def)
      <3>1. /\ MergeIdent(x) = IdentOf(ToggleCanonical(x.def), NoKind, <<"none">>)
            /\ MergeIdent(y) = IdentOf(ToggleCanonical(y.def), NoKind, <<"none">>)
        BY <1>5, MergeIdentIs
      <3>2. MergeIdent(x).def = ToggleCanonical(x.def) /\ MergeIdent(y).def = ToggleCanonical(y.def)
        BY <3>1, IdentFields
      <3> QED
        BY <1>5, <3>2
    <2>2. y.def \in ToggleGroup(x.def) \/ x.def \in ToggleGroup(y.def)
      <3>0. ASSUME NEW d \in Defs, Schema[d].toggles # <<>>
            PROVE  ToggleCanonical(d) \in ToSet(Schema[d].toggles) /\ d \in ToSet(Schema[d].toggles)
        <4>1. d \in ToSet(Schema[d].toggles)
          BY <3>0, SchemaAssumption DEF Buildable, TogglesBuilds
        <4> QED
          BY <3>0, <4>1, GroupIs DEF ToggleCanonical
      <3>1. CASE Schema[x.def].toggles = <<>>
        <4>1. CASE Schema[y.def].toggles = <<>>
          BY <2>1, <3>1, <4>1 DEF ToggleCanonical, ToggleGroup
        <4>2. CASE Schema[y.def].toggles # <<>>
          BY <1>5, <2>1, <3>0, <3>1, <4>2 DEF ToggleCanonical, ToggleGroup
        <4> QED
          BY <4>1, <4>2
      <3>2. CASE Schema[x.def].toggles # <<>>
        <4>1. ToggleCanonical(y.def) \in ToSet(Schema[x.def].toggles)
          BY <1>5, <2>1, <3>0, <3>2
        <4>2. CASE Schema[y.def].toggles = <<>>
          BY <4>1, <4>2 DEF ToggleCanonical, ToggleGroup
        <4>3. CASE Schema[y.def].toggles # <<>>
          <5>1. /\ ToggleCanonical(y.def) \in ToSet(Schema[y.def].toggles)
                /\ y.def \in ToSet(Schema[y.def].toggles)
            BY <1>5, <3>0, <4>3
          <5>2. Schema[ToggleCanonical(y.def)].toggles = Schema[y.def].toggles
            BY <1>5, <5>1, GroupIs
          <5>3. Schema[ToggleCanonical(y.def)].toggles = Schema[x.def].toggles
            BY <1>5, <4>1, GroupIs
          <5> QED
            BY <5>1, <5>2, <5>3 DEF ToggleGroup
        <4> QED
          BY <4>2, <4>3
      <3> QED
        BY <3>1, <3>2
    <2> QED
      BY <1>5, <2>2 DEF SameObject, Alone
  <1>6. ASSUME NEW x, NEW y, x.def \in Defs, y.def \in Defs, Alone(x), ~Alone(y),
               MergeIdent(x) = MergeIdent(y)
        PROVE  FALSE
    <2>1. IdentOf(ToggleCanonical(x.def), NoKind, <<"none">>) = Ident(y)
      BY <1>6, MergeIdentIs
    <2>2. CategoryOf(y.def) = "IdempotentSingle" /\ y.def = ToggleCanonical(x.def)
      <3>0. /\ Ident(y).key[1] = "none" /\ Ident(y).kind = NoKind
            /\ Ident(y).def = ToggleCanonical(x.def)
        <4>1. /\ Ident(y).key = <<"none">> /\ Ident(y).kind = NoKind
              /\ Ident(y).def = ToggleCanonical(x.def)
          BY <2>1, IdentFields, Zenon
        <4>2. Ident(y).key[1] = "none"
          BY <4>1, KeyTags, Zenon
        <4> QED
          BY <4>1, <4>2
      <3>1. /\ CategoryOf(y.def) = "Keyed" => Ident(y).key[1] = "key"
            /\ CategoryOf(y.def) = "FullLine" => Ident(y).key[1] = "text"
            /\ CategoryOf(y.def) = "KindedSingle" => Ident(y).kind # NoKind
            /\ CategoryOf(y.def) = "IdempotentSingle" => Ident(y).def = y.def
        BY IdentParts
      <3> QED
        BY <3>0, <3>1, IdentIs
    <2>3. Schema[y.def].card # "ZeroToOne"
      BY <1>6, <2>2, IdentIs DEF Alone
    <2>4. CASE Schema[x.def].toggles = <<>>
      BY <1>6, <2>2, <2>3, <2>4 DEF ToggleCanonical, Alone
    <2>5. CASE Schema[x.def].toggles # <<>>
      <3>1. x.def \in ToSet(Schema[x.def].toggles)
        BY <1>6, <2>5, SchemaAssumption DEF Buildable, TogglesBuilds
      <3>3. Schema[x.def].toggles[2] \in ToSet(Schema[x.def].toggles)
        BY <1>6, <3>1, GroupIs
      <3>4. Schema[ToggleCanonical(x.def)].card = "ZeroToOne"
        BY <1>6, <2>5, <3>3, GroupIs DEF ToggleCanonical
      <3> QED
        BY <2>2, <2>3, <3>4
    <2> QED
      BY <2>4, <2>5
  <1>7. ASSUME MergeIdent(l) = MergeIdent(m) PROVE SameObject(l, m) \/ SameObject(m, l)
    <2>1. CASE Alone(l) /\ Alone(m)
      BY <1>5, <1>7, <2>1
    <2>2. CASE ~Alone(l) /\ ~Alone(m)
      BY <1>7, <2>2, MergeIdentIs DEF SameObject
    <2> QED
      BY <1>6, <1>7, <2>1, <2>2
  <1> QED
    BY <1>4, <1>7

\* What a step does to the output: nothing, a clone, or a new value in the
\* contested slot.
StepQuiet == UNCHANGED <<output, origin>>

StepClone(q) ==
    /\ CloneAt(Item, q)
    /\ \/ Claimants(Item) = {} /\ q \notin DOMAIN output
       \/ Conflict /\ q = slot /\ slot \in DOMAIN output
            /\ MergeIdent(output[slot]) = MergeIdent(Line)

StepEdit ==
    /\ TakeFresh \/ Combine
    /\ Conflict /\ slot \in DOMAIN output /\ slot \in Path
    /\ output' = [output EXCEPT ![slot] = answer.line]
    /\ MergeIdent(answer.line) = MergeIdent(output[slot])
    /\ MergeIdent(answer.line) = MergeIdent(Line)
    /\ answer.line.def \in LevelDefs(Item)

\* What a step may do to the output.
LEMMA StepIs ==
    ASSUME SInv, [Next]_mergeVars
    PROVE  /\ UNCHANGED <<parts, policy>>
           /\ StepQuiet \/ (todo # <<>> /\ \E q : StepClone(q)) \/ StepEdit
  <1>1. CASE NewSlot
    <2>1. /\ todo # <<>> /\ Claimants(Item) = {} /\ Fold(<<>>)
          /\ PlaceClone(Item, Append(Item.at, Len(Kids(output, Item.at)) + 1))
      BY <1>1 DEF NewSlot
    <2>2. CloneAt(Item, Append(Item.at, Len(Kids(output, Item.at)) + 1))
      BY <1>1, <2>1, NewSlotIs, CloneFold
    <2> QED
      BY <1>1, <2>1, <2>2, NewSlotIs DEF StepClone, Fold
  <1>2. CASE Agree \/ Resolve
    BY <1>2 DEF Agree, Resolve, Fold, StepQuiet
  <1>3. CASE (\E named : KeepsEarlier(named)) \/ KeepEarlier
    BY <1>3 DEF KeepsEarlier, KeepEarlier, Fold, StepQuiet
  <1>4. CASE TakeLater
    <2>1. Conflict /\ Fold(<<>>) /\ PlaceClone(Item, slot)
      BY <1>4 DEF TakeLater, Decided
    <2>2. /\ todo # <<>> /\ Site(Item, slot) /\ slot \in DOMAIN output
          /\ MergeIdent(output[slot]) = MergeIdent(Line)
      BY <2>1, SlotIs DEF Site, Held
    <2>3. CloneAt(Item, slot)
      BY <2>1, <2>2, CloneFold
    <2> QED
      BY <2>1, <2>2, <2>3 DEF StepClone, Fold
  <1>5. CASE TakeFresh
    <2>1. /\ Conflict /\ ~Rejected /\ answer.node = "fresh" /\ Fold(<<>>)
          /\ output' = [output EXCEPT ![slot] = answer.line]
      BY <1>5 DEF TakeFresh, Decided
    <2>2. /\ MergeIdent(answer.line) = MergeIdent(Line)
          /\ answer.line.def \in LevelDefs(Item)
      BY <2>1 DEF Rejected, FreshValid, Line, LevelDefs
    <2> QED
      BY <1>5, <2>1, <2>2, SlotIs DEF StepEdit, Fold, Held
  <1>6. CASE Combine
    <2>1. /\ Conflict /\ Decided("Combined") /\ ~Mixes
          /\ output' = [output EXCEPT ![slot] = answer.line]
          /\ UNCHANGED <<parts, policy>>
      BY <1>6 DEF Combine, Decided, Fold
    <2> QED
      BY <1>6, <2>1, CombinedLine, SlotIs DEF StepEdit, Held
  <1>7. CASE UNCHANGED mergeVars
    BY <1>7 DEF mergeVars, StepQuiet
  <1> QED
    BY <1>1, <1>2, <1>3, <1>4, <1>5, <1>6, <1>7
       DEF Next, Refused, RejectFresh, RefuseChildless, RefuseMix, Returned

\* Siblings are children of one line.
LEMMA SiblingsAre ==
    ASSUME NEW p \in Path \ {<<>>}, NEW q \in Path \ {<<>>}, Siblings(p, q)
    PROVE  /\ Len(p) = Len(q) /\ p # q /\ Parent(p) = Parent(q) /\ Parent(p) \in Path
           /\ IsChild(Parent(p), p) /\ IsChild(Parent(p), q) /\ Len(p) \in Nat \ {0}
           /\ Len(Parent(p)) = Len(p) - 1
  <1>1. /\ Len(p) \in Nat \ {0} /\ Len(q) \in Nat \ {0}
    BY DEF Path
  <1>2. /\ Parent(p) \in Path /\ Len(Parent(p)) = Len(p) - 1
        /\ Parent(q) \in Path /\ Len(Parent(q)) = Len(q) - 1
    BY ChildIs
  <1>3. p # q /\ Parent(p) = Parent(q)
    BY DEF Siblings
  <1>4. IsChild(Parent(p), p) /\ IsChild(Parent(p), q)
    BY <1>2, <1>3, ChildIs
  <1> QED
    BY <1>1, <1>2, <1>3, <1>4

\* A clone that takes the slot of no other line keeps the slots distinct.
LEMMA CloneDistinct ==
    ASSUME NEW t, NEW q, CloneAt(t, q), DistinctSlots(output), DistinctSlots(parts[t.part]),
           \A x \in DOMAIN output : IsChild(t.at, x) /\ x # q =>
                MergeIdent(output[x]) # MergeIdent(Folded(t))
    PROVE  DistinctSlots(output)'
  <1> DEFINE c == parts[t.part]
             Old(x) == x \in DOMAIN output /\ ~Below(q, x)
  <1>0. /\ q \in Path /\ t.at \in Path /\ t.from \in Path /\ Closed(c) /\ t.from \in DOMAIN c
        /\ Len(t.from) = Len(q) /\ Len(q) \in Nat \ {0} /\ Parent(q) = t.at
        /\ Closed(output) /\ Folded(t) = c[t.from] /\ Closed(output')
    BY CloneAtIs, CloneClosed DEF CloneAt, Folded
  <1>1. ASSUME NEW x, NEW y \in DOMAIN c, Below(t.from, y), x = Rel(t.from, q, y)
        PROVE  /\ x \in Path \ {<<>>} /\ y \in Path \ {<<>>} /\ Below(q, x)
               /\ Len(x) = Len(y) /\ Len(q) <= Len(x) /\ output'[x] = c[y]
               /\ Rel(q, t.from, x) = y
    <2>1. /\ y \in Path \ {<<>>} /\ x \in Path /\ Below(q, x) /\ x \in DOMAIN output'
          /\ output'[x] = c[y]
      BY <1>0, <1>1, ClonePlaced DEF Closed
    <2>2. Rel(q, t.from, x) = y
      BY <1>0, <1>1, <2>1, RelBack
    <2>3. Len(x) = Len(y)
      BY <1>1, NewAround
    <2>4. Len(q) <= Len(x)
      BY <1>0, <2>1, BelowIs
    <2> QED
      BY <1>0, <2>1, <2>2, <2>3, <2>4 DEF Closed
  <1>2. ASSUME NEW x, NEW z, Old(x), Old(z), Siblings(x, z)
        PROVE  MergeIdent(output'[x]) # MergeIdent(output'[z])
    BY <1>2, ClonePlaced DEF DistinctSlots
  <1>3. ASSUME NEW x, NEW z, NEW y \in DOMAIN c, Old(x), Below(t.from, y), z = Rel(t.from, q, y),
               Siblings(x, z)
        PROVE  MergeIdent(output'[x]) # MergeIdent(output'[z])
    <2>1. /\ z \in Path \ {<<>>} /\ Below(q, z) /\ Len(z) = Len(y) /\ Len(q) <= Len(z)
          /\ output'[z] = c[y] /\ Rel(q, t.from, z) = y
      BY <1>1, <1>3
    <2>2. x \in Path \ {<<>>} /\ output'[x] = output[x] /\ x # q
      BY <1>0, <1>3, ClonePlaced, BelowTwice DEF Closed
    <2>3. /\ Len(x) = Len(z) /\ Parent(x) = Parent(z) /\ Parent(x) \in Path
          /\ IsChild(Parent(x), x) /\ IsChild(Parent(x), z) /\ Len(Parent(x)) = Len(z) - 1
          /\ Len(z) \in Nat
      BY <1>3, <2>1, <2>2, SiblingsAre
    <2>4. Below(Parent(x), x) /\ Below(Parent(x), z)
      BY <2>1, <2>2, <2>3, ChildIs
    <2>5. CASE Len(q) < Len(z)
      <3>1. Len(q) <= Len(Parent(x))
        BY <1>0, <2>3, <2>5
      <3>2. Below(q, Parent(x))
        BY <1>0, <2>1, <2>3, <2>4, <3>1, BelowTwice
      <3>3. Below(q, x)
        BY <1>0, <2>2, <2>3, <2>4, <3>2, BelowTwice
      <3> QED
        BY <1>3, <3>3
    <2>6. CASE Len(q) = Len(z)
      <3>1. z = q
        BY <1>0, <2>1, <2>6, BelowTwice
      <3>2. y = t.from
        <4>1. Below(t.from, t.from) /\ Rel(q, t.from, q) = t.from
          BY <1>0, RelBack, BelowTwice
        <4> QED
          BY <2>1, <3>1, <4>1
      <3>3. IsChild(t.at, x)
        BY <1>0, <2>3, <3>1
      <3> QED
        BY <1>0, <1>3, <2>1, <2>2, <3>2, <3>3
    <2> QED
      BY <1>0, <2>1, <2>3, <2>5, <2>6
  <1>4. ASSUME NEW x, NEW z, NEW y \in DOMAIN c, NEW w \in DOMAIN c,
               Below(t.from, y), z = Rel(t.from, q, y),
               Below(t.from, w), x = Rel(t.from, q, w), Siblings(x, z)
        PROVE  MergeIdent(output'[x]) # MergeIdent(output'[z])
    <2>1. /\ z \in Path \ {<<>>} /\ Below(q, z) /\ Len(z) = Len(y) /\ Len(q) <= Len(z)
          /\ output'[z] = c[y] /\ Rel(q, t.from, z) = y /\ y \in Path \ {<<>>}
      BY <1>1, <1>4
    <2>2. /\ x \in Path \ {<<>>} /\ Below(q, x) /\ Len(x) = Len(w) /\ Len(q) <= Len(x)
          /\ output'[x] = c[w] /\ Rel(q, t.from, x) = w /\ w \in Path \ {<<>>}
      BY <1>1, <1>4
    <2>3. /\ Len(x) = Len(z) /\ Parent(x) = Parent(z) /\ x # z /\ Parent(x) \in Path
          /\ Len(Parent(x)) = Len(z) - 1 /\ IsChild(Parent(x), x) /\ IsChild(Parent(x), z)
          /\ Len(z) \in Nat
      BY <1>4, <2>1, <2>2, SiblingsAre
    <2>4. y # w
      BY <1>4, <2>3
    <2>5. Len(q) # Len(z)
      BY <1>0, <2>1, <2>2, <2>3, BelowTwice
    <2>6. Below(q, Parent(x))
      <3>1. Len(q) <= Len(Parent(x))
        BY <1>0, <2>1, <2>3, <2>5
      <3> QED
        BY <1>0, <2>1, <2>3, <3>1, ChildIs, BelowTwice
    <2>7. PICK i \in Nat, j \in Nat : x = Append(Parent(x), i) /\ z = Append(Parent(x), j)
      <3>1. x = Append(Parent(x), x[Len(x)]) /\ x[Len(x)] \in Nat
        BY <2>2, <2>3, ChildAppend
      <3>2. z = Append(Parent(x), z[Len(z)]) /\ z[Len(z)] \in Nat
        BY <2>1, <2>3, ChildAppend
      <3> QED
        BY <3>1, <3>2
    <2> DEFINE u == Rel(q, t.from, Parent(x))
    <2>8. w = Append(u, i) /\ y = Append(u, j)
      <3>1. \A n \in Nat : Rel(q, t.from, Append(Parent(x), n)) = Append(u, n)
        BY <1>0, <2>3, <2>6, RelChild
      <3> QED
        BY <2>1, <2>2, <2>7, <3>1
    <2>9. u \in Path
      <3>1. Len(q) <= Len(Parent(x))
        BY <1>0, <2>3, <2>6, BelowIs
      <3> QED
        BY <1>0, <2>3, <3>1, RelIs
    <2> HIDE DEF u
    <2>10. Parent(w) = Parent(y)
      BY <2>8, <2>9, AppendIs
    <2>11. Siblings(w, y)
      BY <2>4, <2>10 DEF Siblings
    <2> QED
      BY <2>1, <2>2, <2>11 DEF DistinctSlots
  <1>5. ASSUME NEW x \in DOMAIN output', NEW z \in DOMAIN output', Siblings(x, z)
        PROVE  MergeIdent(output'[x]) # MergeIdent(output'[z])
    <2>0. Siblings(z, x)
      BY <1>5 DEF Siblings
    <2>1. Old(x) \/ \E y \in DOMAIN c : Below(t.from, y) /\ x = Rel(t.from, q, y)
      BY ClonePlaced
    <2>2. Old(z) \/ \E y \in DOMAIN c : Below(t.from, y) /\ z = Rel(t.from, q, y)
      BY ClonePlaced
    <2> HIDE DEF Old, c
    <2> QED
      BY <1>2, <1>3, <1>4, <1>5, <2>0, <2>1, <2>2
  <1> QED
    BY <1>5 DEF DistinctSlots

\* Every step leaves at most one line per slot.
LEMMA NextSlots == SInv /\ SlotsInv /\ [Next]_mergeVars => SlotsInv'
  <1> SUFFICES ASSUME SInv, SlotsInv, [Next]_mergeVars,
                      \A k \in DOMAIN parts' : DistinctSlots(parts'[k])
               PROVE  DistinctSlots(output)'
    BY DEF SlotsInv
  <1>0. parts' = parts /\ DistinctSlots(output)
    BY StepIs DEF SlotsInv
  <1>1. CASE StepQuiet
    BY <1>0, <1>1 DEF StepQuiet, DistinctSlots
  <1>2. ASSUME todo # <<>>, NEW q, StepClone(q) PROVE DistinctSlots(output)'
    <2>1. CloneAt(Item, q) /\ Item.part \in DOMAIN parts /\ Folded(Item) = Line
      BY <1>2, CloneAtIs DEF StepClone, Line
    <2>2. ASSUME NEW x \in DOMAIN output, IsChild(Item.at, x), x # q
          PROVE  MergeIdent(output[x]) # MergeIdent(Folded(Item))
      <3>1. CASE Claimants(Item) = {}
        BY <2>2, <3>1 DEF Claimants
      <3>2. CASE q = slot /\ slot \in DOMAIN output /\ MergeIdent(output[slot]) = MergeIdent(Line)
        <4>1. x # <<>> /\ x \in Path /\ q \in Path /\ q # <<>> /\ Item.at \in Path
          BY <2>1, <3>2, CloneAtIs DEF SInv, Closed
        <4>2. Parent(x) = Item.at /\ Parent(q) = Item.at
          BY <2>1, <2>2, <4>1, ChildIs, CloneAtIs
        <4>3. Siblings(x, q)
          BY <2>2, <4>2 DEF Siblings
        <4> QED
          BY <1>0, <2>1, <3>2, <4>3 DEF DistinctSlots
      <3> QED
        BY <1>2, <3>1, <3>2 DEF StepClone
    <2> QED
      BY <1>0, <2>1, <2>2, CloneDistinct
  <1>3. CASE StepEdit
    <2>1. /\ DOMAIN output' = DOMAIN output
          /\ \A x \in DOMAIN output : MergeIdent(output'[x]) = MergeIdent(output[x])
      BY <1>3 DEF StepEdit
    <2> QED
      BY <1>0, <2>1 DEF DistinctSlots
  <1> QED
    BY <1>1, <1>2, <1>3, StepIs

\* Every line of the output is of a definition of the grammar.
DefsOK == \A q \in DOMAIN output : output[q].def \in Defs

\* Every step leaves lines of known definitions.
LEMMA NextDefs == SInv /\ DefsOK /\ [Next]_mergeVars => DefsOK'
  <1> SUFFICES ASSUME SInv, DefsOK, [Next]_mergeVars, NEW x \in DOMAIN output'
               PROVE  output'[x].def \in Defs
    BY DEF DefsOK
  <1>1. CASE StepQuiet
    BY <1>1 DEF StepQuiet, DefsOK
  <1>2. ASSUME NEW q, StepClone(q) PROVE output'[x].def \in Defs
    <2>1. CloneAt(Item, q) /\ Item.part \in DOMAIN parts /\ InputsOK
      BY <1>2, CloneAtIs DEF StepClone, SInv
    <2>2. CASE x \in DOMAIN output /\ ~Below(q, x)
      BY <2>1, <2>2, ClonePlaced DEF DefsOK
    <2>3. ASSUME NEW y \in DOMAIN parts[Item.part], Below(Item.from, y), x = Rel(Item.from, q, y)
          PROVE  output'[x].def \in Defs
      <3>1. output'[x] = parts[Item.part][y]
        BY <2>1, <2>3, ClonePlaced
      <3>2. Configuration(parts[Item.part])
        BY <2>1, PartsAre
      <3>3. parts[Item.part][y].def \in Defs
        BY <3>2, ConfigurationIs
      <3> QED
        BY <3>1, <3>3
    <2> QED
      BY <2>1, <2>2, <2>3, ClonePlaced
  <1>3. CASE StepEdit
    <2>1. LevelDefs(Item) \subseteq Defs
      <3>1. todo # <<>>
        BY <1>3, SlotIs DEF StepEdit
      <3>2. Item.at = <<>> \/ Item.at \in DOMAIN output
        BY <3>1, AroundItem DEF ItemOK
      <3>3. \A d \in Defs : Schema[d].kids \subseteq Defs
        BY SchemaAssumption DEF Buildable
      <3>4. CASE Item.at = <<>>
        BY <3>3, <3>4 DEF LevelDefs, Roots
      <3>5. CASE Item.at # <<>>
        <4>1. output[Item.at].def \in Defs
          BY <3>2, <3>5 DEF DefsOK
        <4>2. LevelDefs(Item) = Schema[output[Item.at].def].kids
          BY <3>5 DEF LevelDefs
        <4> QED
          BY <3>3, <4>1, <4>2
      <3> QED
        BY <3>4, <3>5
    <2> QED
      BY <1>3, <2>1 DEF StepEdit, DefsOK
  <1> QED
    BY <1>1, <1>2, <1>3, StepIs

\* Distinct slots and distinct objects are the same.
LEMMA DistinctIsSingle ==
    ASSUME NEW c, \A p \in DOMAIN c : c[p].def \in Defs
    PROVE  DistinctSlots(c) <=> Single(c)
  <1>1. ASSUME DistinctSlots(c), NEW p \in DOMAIN c, NEW q \in DOMAIN c, Siblings(p, q)
        PROVE  ~SameObject(c[p], c[q])
    BY <1>1, SlotMeans DEF DistinctSlots
  <1>2. ASSUME Single(c), NEW p \in DOMAIN c, NEW q \in DOMAIN c, Siblings(p, q)
        PROVE  MergeIdent(c[p]) # MergeIdent(c[q])
    <2>1. Siblings(q, p)
      BY <1>2 DEF Siblings
    <2>2. ~SameObject(c[p], c[q]) /\ ~SameObject(c[q], c[p])
      BY <1>2, <2>1 DEF Single
    <2> QED
      BY <2>2, SlotMeans
  <1> QED
    BY <1>1, <1>2 DEF DistinctSlots, Single

\* Parts without duplicates merge into an output without duplicates: whatever
\* the resolvers answer, no two lines of a level are the same object, two values
\* of a single-occupancy definition or two sides of a toggle (merge.level,
\* mergeIdent, freshNodeValid).
THEOREM OutputHasOneLinePerSlot == Spec => []OneLinePerSlot
  <1>1. Init => SlotsInv /\ DefsOK
    <2>1. Init => DOMAIN output = {}
      BY DEF Init
    <2> QED
      BY <2>1 DEF SlotsInv, DefsOK, DistinctSlots
  <1>2. SInv /\ SlotsInv /\ DefsOK => OneLinePerSlot
    <2> SUFFICES ASSUME SInv, SlotsInv, DefsOK, \A k \in DOMAIN parts : Single(parts[k])
                 PROVE  Single(output)
      BY DEF OneLinePerSlot
    <2>1. \A k \in DOMAIN parts : \A p \in DOMAIN parts[k] : parts[k][p].def \in Defs
      BY PartsAre, ConfigurationIs DEF SInv
    <2>2. \A k \in DOMAIN parts : DistinctSlots(parts[k])
      BY <2>1, DistinctIsSingle
    <2>3. DistinctSlots(output)
      BY <2>2 DEF SlotsInv
    <2> QED
      BY <2>3, DistinctIsSingle DEF DefsOK
  <1> QED
    BY <1>1, <1>2, InitSInv, NextSInv, NextSlots, NextDefs, PTL DEF Spec

-----------------------------------------------------------------------------
(* Lines and lists under the declared strategies.                          *)

\* The text of a line is its definition and fields.
LEMMA TextIs ==
    ASSUME NEW l, NEW m
    PROVE  /\ Text(l)[1] = l.def /\ Text(l)[2] = l.f
           /\ Text(l) = Text(m) <=> l.def = m.def /\ l.f = m.f
  BY DEF Text

\* SetToSeq enumerates a finite set.
LEMMA SetToSeqIs ==
    ASSUME NEW S, IsFiniteSet(S)
    PROVE  ToSet(SetToSeq(S)) = S
  <1> DEFINE n == Cardinality(S)
             g == SetToSeq(S)
  <1>1. n \in Nat /\ ExistsBijection(1..n, S)
    BY FS_CardinalityType
  <1>2. PICK f \in [1..n -> S] : IsInjective(f)
    BY <1>1 DEF ExistsBijection, Bijection, Injection
  <1>3. g \in [1..n -> S] /\ IsInjective(g)
    BY <1>2 DEF SetToSeq
  <1> HIDE DEF g
  <1>4. IsFiniteSet(1..n) /\ Cardinality(1..n) = n
    BY <1>1, FS_Interval
  <1>5. g \in Injection(1..n, S)
    BY <1>3 DEF Injection
  <1>6. g \in Surjection(1..n, S)
    BY <1>4, <1>5, FS_Injection
  <1>7. \A y \in S : \E k \in 1..n : g[k] = y
    BY <1>6 DEF Surjection
  <1>8. ToSet(g) = S
    BY <1>3, <1>7 DEF ToSet
  <1> QED
    BY <1>8 DEF g

\* The line that UnionLists builds has the elements of both lists.
LEMMA UnionIs ==
    ASSUME NEW ps, NEW l, NEW m, LineOK(ps, l), LineOK(ps, m), SameList(l, m),
           DOMAIN m.f = DOMAIN l.f, NEW u, u = Union(l, m)
    PROVE  /\ LineOK(ps, u) /\ u.def = l.def /\ u.block = l.block
           /\ Carries(Text(u), m)
  <1> DEFINE a == Schema[l.def].list
             S == ToSet(l.f[a]) \cup ToSet(m.f[a])
             v == SetToSeq(S)
  <1>1. l.def = m.def /\ l.block = m.block /\ a # "" /\ \A x \in DOMAIN l.f \ {a} : l.f[x] = m.f[x]
    BY DEF SameList
  <1>2. a \in DOMAIN l.f /\ IsFiniteSet(ToSet(l.f[a])) /\ IsFiniteSet(ToSet(m.f[a]))
    BY <1>1 DEF LineOK
  <1>3. ToSet(v) = S
    <2>1. IsFiniteSet(S)
      BY <1>2, FS_Union
    <2> HIDE DEF S
    <2> QED
      BY <2>1, SetToSeqIs
  <1>4. u = [l EXCEPT !.f = [l.f EXCEPT ![a] = v]]
    BY DEF Union
  <1>5. l = [def |-> l.def, f |-> l.f, block |-> l.block]
    BY DEF LineOK
  <1> DEFINE g == [l.f EXCEPT ![a] = v]
  <1>6. u = [def |-> l.def, f |-> g, block |-> l.block]
    <2> HIDE DEF g
    <2> QED
      BY <1>4, <1>5 DEF g
  <1>7. u.def = l.def /\ u.f = g /\ u.block = l.block
    <2> HIDE DEF g
    <2> QED
      BY <1>6
  <1>8. /\ DOMAIN g = DOMAIN l.f /\ g[a] = v
        /\ \A x \in DOMAIN l.f \ {a} : g[x] = l.f[x]
    BY <1>2
  <1>9. u = [def |-> u.def, f |-> u.f, block |-> u.block]
    <2> HIDE DEF g
    <2> QED
      BY <1>6, <1>7
  <1> HIDE DEF g, v
  <1>10. LineOK(ps, u)
    <2>1. IsFiniteSet(S)
      BY <1>2, FS_Union
    <2>2. /\ u.f[a] = v /\ DOMAIN u.f = DOMAIN l.f /\ IsFiniteSet(ToSet(v))
      BY <1>3, <1>7, <1>8, <2>1
    <2> QED
      BY <1>2, <1>7, <1>9, <2>2 DEF LineOK
  <1>11. Carries(Text(u), m)
    <2>1. Schema[m.def].list = a
      BY <1>1
    <2>2. Text(u)[1] = m.def /\ Text(u)[2] = g
      BY <1>1, <1>7, TextIs
    <2>3. \A x \in DOMAIN m.f \ {a} : m.f[x] = g[x]
      BY <1>1, <1>8
    <2>4. ToSet(m.f[a]) \subseteq ToSet(g[a])
      BY <1>3, <1>8
    <2> QED
      BY <1>1, <2>1, <2>2, <2>3, <2>4 DEF Carries
  <1> QED
    BY <1>7, <1>10, <1>11

\* The answers of the declared strategies, UnionLists and Refuse.
LEMMA DeclaredAnswer ==
    ASSUME policy \in {"Declared", "Refuse", "Custom"}, policy # "Custom", NEW l, NEW m,
           Schema[l.def].merge # "Custom", Schema[m.def].merge # "Custom",
           NEW a \in Answers(l, m)
    PROVE  \/ /\ a.node = "earlier" /\ a.line = l
              /\ a.outcome = "Combined" => SameList(l, m)
           \/ /\ a.node = "later" /\ a.line = m
              /\ a.outcome = "Combined" => l.def = m.def /\ IsSection(m.def)
           \/ /\ a.node = "fresh" /\ a.line = Union(l, m) /\ SameList(l, m)
              /\ a.outcome = "Combined"
  <1>1. DeclaredStrategy(l, m) # "Custom"
    BY DEF DeclaredStrategy
  <1>2. \/ a = Earlier(l, "Overridden")
        \/ a = Later(m, "Overridden")
        \/ SameList(l, m) /\ a = UnionAnswer(l, m)
        \/ ~SameList(l, m) /\ a = Undeclared(l, m)
    BY <1>1 DEF Answers
  <1>4. /\ \A o : Earlier(l, o).node = "earlier" /\ Earlier(l, o).line = l /\ Earlier(l, o).outcome = o
        /\ \A o : Later(m, o).node = "later" /\ Later(m, o).line = m /\ Later(m, o).outcome = o
    BY DEF Earlier, Later, Answer
  <1>5. UnionAnswer(l, m) = Earlier(l, "Combined")
            \/ UnionAnswer(l, m) = Answer("fresh", Union(l, m), "Combined", TRUE)
    <2> DEFINE empty == ToSet(l.f[Schema[l.def].list]) \cup ToSet(m.f[Schema[m.def].list]) = {}
    <2>1. UnionAnswer(l, m) = IF empty THEN Earlier(l, "Combined")
                              ELSE Answer("fresh", Union(l, m), "Combined", TRUE)
      BY DEF UnionAnswer
    <2> HIDE DEF empty
    <2> QED
      BY <2>1, Zenon
  <1>6. \/ Undeclared(l, m) = Earlier(l, "Refused")
        \/ Undeclared(l, m) = Later(m, "Overridden")
        \/ Undeclared(l, m) = Later(m, "Combined") /\ l.def = m.def /\ IsSection(m.def)
    <2>1. CASE policy = "Refuse"
      BY <2>1 DEF Undeclared
    <2>2. CASE policy = "Declared"
      <3>1. CASE l.def = m.def /\ IsSection(m.def)
        BY <2>2, <3>1 DEF Undeclared
      <3>2. CASE ~(l.def = m.def /\ IsSection(m.def))
        BY <2>2, <3>2 DEF Undeclared
      <3> QED
        BY <3>1, <3>2
    <2> QED
      BY <2>1, <2>2
  <1>7. CASE a = Earlier(l, "Overridden") \/ a = Earlier(l, "Refused")
    BY <1>4, <1>7
  <1>8. CASE a = Later(m, "Overridden")
    BY <1>4, <1>8
  <1>9. CASE SameList(l, m) /\ a = Earlier(l, "Combined")
    BY <1>4, <1>9
  <1>10. CASE SameList(l, m) /\ a = Answer("fresh", Union(l, m), "Combined", TRUE)
    <2>1. a = [node |-> "fresh", line |-> Union(l, m), outcome |-> "Combined", sound |-> TRUE]
      BY <1>10 DEF Answer
    <2>2. a.node = "fresh" /\ a.line = Union(l, m) /\ a.outcome = "Combined"
      BY <2>1
    <2> QED
      BY <1>10, <2>2
  <1>11. CASE a = Later(m, "Combined") /\ l.def = m.def /\ IsSection(m.def)
    BY <1>4, <1>11
  <1>12. \/ a = Earlier(l, "Overridden") \/ a = Earlier(l, "Refused")
         \/ a = Later(m, "Overridden")
         \/ SameList(l, m) /\ a = Earlier(l, "Combined")
         \/ SameList(l, m) /\ a = Answer("fresh", Union(l, m), "Combined", TRUE)
         \/ a = Later(m, "Combined") /\ l.def = m.def /\ IsSection(m.def)
    BY <1>2, <1>5, <1>6, Zenon
  <1> QED
    BY <1>7, <1>8, <1>9, <1>10, <1>11, <1>12

\* The lines of the parts.
LEMMA PartLineOK ==
    ASSUME InputsOK, NEW k \in DOMAIN parts, NEW p \in DOMAIN parts[k],
           Schema[parts[k][p].def].merge # "Custom"
    PROVE  LineOK(parts, parts[k][p])
  <1>1. Configuration(parts[k])
    BY PartsAre
  <1> DEFINE l == parts[k][p]
  <1>2. /\ l = [def |-> l.def, f |-> l.f, block |-> l.block]
        /\ IsSection(l.def) => l.block = <<>>
        /\ Schema[l.def].list # "" =>
            Schema[l.def].list \in DOMAIN l.f /\ IsFiniteSet(ToSet(l.f[Schema[l.def].list]))
    BY <1>1, ConfigurationIs
  <1>3. Schema[l.def].merge # "Custom"
    OBVIOUS
  <1>4. \A j \in DOMAIN parts : \A q \in DOMAIN parts[j] :
            parts[j][q].def = l.def => DOMAIN parts[j][q].f = DOMAIN l.f
    BY PartsAre DEF SameCaptures
  <1> QED
    BY <1>2, <1>3, <1>4 DEF LineOK

\* What the declared strategies answer to a contested slot, if neither line has a
\* MergeFunc.
LEMMA ContestedSlot ==
    ASSUME SInv, Conflict, policy # "Custom", LineOK(parts, Held),
           Schema[Line.def].merge # "Custom"
    PROVE  /\ LineOK(parts, Held) /\ LineOK(parts, Line) /\ LineOK(parts, answer.line)
           /\ Held.def = Line.def => DOMAIN Held.f = DOMAIN Line.f
           /\ \/ /\ answer.node = "earlier" /\ answer.line = Held
                 /\ answer.outcome = "Combined" => SameList(Held, Line)
              \/ /\ answer.node = "later" /\ answer.line = Line
                 /\ answer.outcome = "Combined" => Held.def = Line.def /\ IsSection(Line.def)
              \/ /\ answer.node = "fresh" /\ answer.outcome = "Combined"
                 /\ SameList(Held, Line) /\ answer.line.def = Held.def
                 /\ answer.line.block = Held.block
                 /\ Carries(Text(answer.line), Line)
  <1>1. /\ todo # <<>> /\ slot \in DOMAIN output /\ answer \in Answers(Held, Line)
        /\ policy \in {"Declared", "Refuse", "Custom"} /\ policy # "Custom"
    BY SlotIs, PartsAre DEF SInv
  <1>2. /\ Item.part \in DOMAIN parts /\ Item.from \in DOMAIN parts[Item.part]
        /\ Line = parts[Item.part][Item.from]
    BY <1>1, AroundItem DEF Line, Folded
  <1>3. LineOK(parts, Held) /\ LineOK(parts, Line)
    <2>1. InputsOK /\ Schema[parts[Item.part][Item.from].def].merge # "Custom"
      BY <1>2 DEF SInv
    <2>2. LineOK(parts, parts[Item.part][Item.from])
      BY <1>2, <2>1, PartLineOK
    <2> QED
      BY <1>2, <2>2
  <1>4. Held.def = Line.def => DOMAIN Held.f = DOMAIN Line.f
    BY <1>2, <1>3, Zenon DEF LineOK
  <1>5. Schema[Held.def].merge # "Custom" /\ Schema[Line.def].merge # "Custom"
    BY <1>3 DEF LineOK
  <1>6. \/ /\ answer.node = "earlier" /\ answer.line = Held
           /\ answer.outcome = "Combined" => SameList(Held, Line)
        \/ /\ answer.node = "later" /\ answer.line = Line
           /\ answer.outcome = "Combined" => Held.def = Line.def /\ IsSection(Line.def)
        \/ /\ answer.node = "fresh" /\ answer.line = Union(Held, Line) /\ SameList(Held, Line)
           /\ answer.outcome = "Combined"
    BY <1>1, <1>5, DeclaredAnswer
  <1>7. ASSUME answer.line = Union(Held, Line), SameList(Held, Line)
        PROVE  /\ LineOK(parts, answer.line) /\ answer.line.def = Held.def
               /\ answer.line.block = Held.block /\ Carries(Text(answer.line), Line)
    <2>1. DOMAIN Line.f = DOMAIN Held.f
      BY <1>4, <1>7 DEF SameList
    <2> QED
      BY <1>3, <1>7, <2>1, UnionIs
  <1> QED
    BY <1>3, <1>4, <1>6, <1>7

\* What they answer while nobody has one.
LEMMA DeclaredSlot ==
    ASSUME SInv, LinesOK, Declarative, Conflict
    PROVE  /\ LineOK(parts, Held) /\ LineOK(parts, Line) /\ LineOK(parts, answer.line)
           /\ Held.def = Line.def => DOMAIN Held.f = DOMAIN Line.f
           /\ \/ /\ answer.node = "earlier" /\ answer.line = Held
                 /\ answer.outcome = "Combined" => SameList(Held, Line)
              \/ /\ answer.node = "later" /\ answer.line = Line
                 /\ answer.outcome = "Combined" => Held.def = Line.def /\ IsSection(Line.def)
              \/ /\ answer.node = "fresh" /\ answer.outcome = "Combined"
                 /\ SameList(Held, Line) /\ answer.line.def = Held.def
                 /\ answer.line.block = Held.block
                 /\ Carries(Text(answer.line), Line)
  <1>1. slot \in DOMAIN output /\ todo # <<>> /\ policy # "Custom"
    BY SlotIs DEF Declarative
  <1>2. LineOK(parts, Held)
    BY <1>1 DEF LinesOK, Held
  <1>3. Schema[Line.def].merge # "Custom"
    BY <1>1, AroundItem DEF Declarative, Line, Folded
  <1> QED
    BY <1>1, <1>2, <1>3, ContestedSlot

\* Who decides does not change.
LEMMA DeclarativeStays ==
    ASSUME UNCHANGED <<parts, policy>>
    PROVE  Declarative' <=> Declarative
  BY DEF Declarative

\* Every step leaves lines of the declared shape.
LEMMA NextLines ==
    ASSUME SInv, Declarative, LinesOK, [Next]_mergeVars
    PROVE  LinesOK'
  <1>0. parts' = parts
    BY StepIs
  <1>1. CASE StepQuiet
    BY <1>0, <1>1 DEF StepQuiet, LinesOK
  <1>2. ASSUME NEW q, StepClone(q) PROVE LinesOK'
    <2>1. CloneAt(Item, q) /\ Item.part \in DOMAIN parts /\ InputsOK
      BY <1>2, CloneAtIs DEF StepClone, SInv
    <2>2. ASSUME NEW x \in DOMAIN output' PROVE LineOK(parts, output'[x])
      <3>1. CASE x \in DOMAIN output /\ ~Below(q, x)
        BY <2>1, <3>1, ClonePlaced DEF LinesOK
      <3>2. ASSUME NEW y \in DOMAIN parts[Item.part], Below(Item.from, y),
                   x = Rel(Item.from, q, y)
            PROVE  LineOK(parts, output'[x])
        <4>1. output'[x] = parts[Item.part][y]
          BY <2>1, <3>2, ClonePlaced
        <4> QED
          BY <2>1, <4>1, PartLineOK DEF Declarative
      <3> QED
        BY <2>1, <3>1, <3>2, ClonePlaced
    <2>3. output' = [x \in DOMAIN output' |-> output'[x]]
      BY <2>1 DEF CloneAt, PlaceClone
    <2> QED
      BY <1>0, <2>2, <2>3 DEF LinesOK
  <1>3. CASE StepEdit
    <2>1. LineOK(parts, answer.line)
      BY <1>3, DeclaredSlot DEF StepEdit
    <2>2. \A x \in DOMAIN output' : x \in DOMAIN output
            /\ (output'[x] = output[x] \/ output'[x] = answer.line)
      BY <1>3 DEF StepEdit
    <2>3. output' = [x \in DOMAIN output' |-> output'[x]]
      BY <1>3 DEF StepEdit
    <2> QED
      BY <1>0, <2>1, <2>2, <2>3 DEF LinesOK
  <1> QED
    BY <1>1, <1>2, <1>3, StepIs

-----------------------------------------------------------------------------
(* Attribution.                                                            *)

\* Equal slot paths, level by level.
LEMMA SameSlots ==
    ASSUME NEW c, NEW d, NEW p \in Path, NEW q \in Path
    PROVE  MergePath(c, p) = MergePath(d, q) <=>
            /\ Len(p) = Len(q)
            /\ \A k \in 1..Len(p) : MergeIdent(c[Upto(p, k)]) = MergeIdent(d[Upto(q, k)])
  <1>1. /\ DOMAIN p = 1..Len(p) /\ DOMAIN q = 1..Len(q) /\ Len(p) \in Nat /\ Len(q) \in Nat
    BY DEF Path
  <1> DEFINE f(k) == MergeIdent(c[Upto(p, k)])
             g(k) == MergeIdent(d[Upto(q, k)])
  <1>2. MergePath(c, p) = [k \in 1..Len(p) |-> f(k)] /\ MergePath(d, q) = [k \in 1..Len(q) |-> g(k)]
    BY <1>1 DEF MergePath, Upto
  <1> HIDE DEF f, g
  <1>3. ASSUME MergePath(c, p) = MergePath(d, q)
        PROVE  Len(p) = Len(q) /\ \A k \in 1..Len(p) : f(k) = g(k)
    <2>1. 1..Len(p) = 1..Len(q)
      <3>1. DOMAIN MergePath(c, p) = 1..Len(p) /\ DOMAIN MergePath(d, q) = 1..Len(q)
        BY <1>2, Zenon
      <3> QED
        BY <1>3, <3>1
    <2>2. Len(p) = Len(q)
      <3>1. \A m, n \in Nat : 1..m = 1..n => m = n
        <4> SUFFICES ASSUME NEW m \in Nat, NEW n \in Nat, 1..m = 1..n, m < n PROVE FALSE
          OBVIOUS
        <4>1. n \in 1..n /\ n \notin 1..m
          OBVIOUS
        <4> QED
          BY <4>1
      <3> QED
        BY <1>1, <2>1, <3>1, Zenon
    <2>3. ASSUME NEW k \in 1..Len(p) PROVE f(k) = g(k)
      <3>1. MergePath(c, p)[k] = f(k) /\ MergePath(d, q)[k] = g(k)
        BY <1>2, <2>1
      <3> QED
        BY <1>3, <3>1
    <2> QED
      BY <2>2, <2>3
  <1>4. ASSUME Len(p) = Len(q), \A k \in 1..Len(p) : f(k) = g(k)
        PROVE  MergePath(c, p) = MergePath(d, q)
    BY <1>2, <1>4
  <1> QED
    BY <1>3, <1>4 DEF f, g

\* The slots after a clone: as before, and those of the cloned lines.
LEMMA CloneSlots ==
    ASSUME NEW t, NEW q, CloneAt(t, q)
    PROVE  /\ \A x \in DOMAIN output : ~Below(q, x) =>
                MergePath(output', x) = MergePath(output, x)
           /\ \A y \in DOMAIN parts[t.part] : Below(t.from, y) =>
                MergePath(output', Rel(t.from, q, y)) = MergePath(parts[t.part], y)
  <1> DEFINE c == parts[t.part]
  <1>1. ASSUME NEW x \in DOMAIN output, ~Below(q, x)
        PROVE  MergePath(output', x) = MergePath(output, x)
    <2>1. x \in Path
      BY DEF CloneAt, Closed
    <2>2. \A k \in 1..Len(x) : output'[Upto(x, k)] = output[Upto(x, k)]
      BY <1>1, OldAround
    <2> QED
      BY <2>1, <2>2, SameSlots
  <1>2. ASSUME NEW y \in DOMAIN c, Below(t.from, y)
        PROVE  MergePath(output', Rel(t.from, q, y)) = MergePath(c, y)
    <2> DEFINE x == Rel(t.from, q, y)
    <2>0. /\ t.at \in Path /\ t.from \in Path /\ q \in Path /\ t.from \in DOMAIN c
          /\ Len(q) = Len(t.at) + 1 /\ Len(t.from) = Len(q) /\ Len(q) \in Nat \ {0}
          /\ Len(t.at) \in Nat
      BY CloneAtIs DEF Path
    <2>1. y \in Path /\ x \in Path /\ Len(x) = Len(y) /\ Len(q) <= Len(y) /\ Len(y) \in Nat
      <3>1. y \in Path /\ x \in Path /\ Len(x) = Len(y) /\ Len(t.from) <= Len(y)
        BY <1>2, NewAround
      <3> QED
        BY <2>0, <3>1 DEF Path
    <2>2. \A k \in 1..(Len(q) - 1) :
            /\ Upto(x, k) = Upto(t.at, k)
            /\ output'[Upto(x, k)] = output[Upto(t.at, k)]
      BY <1>2, NewAround
    <2>3. \A k \in Len(q)..Len(y) : output'[Upto(x, k)] = c[Upto(y, k)]
      BY <1>2, NewAround
    <2>4. \A j \in 1..Len(t.at) : MergeIdent(output[Upto(t.at, j)]) = MergeIdent(c[Upto(t.from, j)])
      BY DEF CloneAt, ItemOK
    <2>5. \A k \in 0..Len(t.from) : Upto(y, k) = Upto(t.from, k)
      BY <1>2, <2>0, <2>1, BelowUpto
    <2> HIDE DEF x, c
    <2>6. ASSUME NEW k \in 1..Len(x)
          PROVE  MergeIdent(output'[Upto(x, k)]) = MergeIdent(c[Upto(y, k)])
      <3>1. CASE k < Len(q)
        <4>1. k \in 1..(Len(q) - 1) /\ k \in 1..Len(t.at) /\ k \in 0..Len(t.from)
          BY <2>0, <3>1
        <4> QED
          BY <2>2, <2>4, <2>5, <4>1
      <3>2. CASE k >= Len(q)
        <4>1. k \in Len(q)..Len(y)
          BY <2>0, <2>1, <3>2
        <4> QED
          BY <2>3, <4>1
      <3> QED
        BY <2>0, <3>1, <3>2
    <2>7. MergePath(output', x) = MergePath(c, y)
      BY <2>1, <2>6, SameSlots
    <2> QED
      BY <2>7 DEF x
  <1> QED
    BY <1>1, <1>2

\* The slots after a line was replaced by one of its slot.
LEMMA EditSlots ==
    ASSUME Closed(output), StepEdit
    PROVE  /\ DOMAIN output' = DOMAIN output /\ output'[slot] = answer.line
           /\ \A x \in DOMAIN output : x # slot => output'[x] = output[x]
           /\ \A x \in DOMAIN output : MergePath(output', x) = MergePath(output, x)
  <1>1. /\ DOMAIN output' = DOMAIN output /\ output'[slot] = answer.line
        /\ \A x \in DOMAIN output : x # slot => output'[x] = output[x]
        /\ \A x \in DOMAIN output : MergeIdent(output'[x]) = MergeIdent(output[x])
    BY DEF StepEdit
  <1>2. ASSUME NEW x \in DOMAIN output
        PROVE  MergePath(output', x) = MergePath(output, x)
    <2>1. x \in Path /\ \A k \in 1..Len(x) : Upto(x, k) \in DOMAIN output
      BY DEF Closed
    <2>2. \A k \in 1..Len(x) :
            MergeIdent(output'[Upto(x, k)]) = MergeIdent(output[Upto(x, k)])
      BY <1>1, <2>1
    <2> QED
      BY <2>1, <2>2, SameSlots
  <1> QED
    BY <1>1, <1>2

\* The folded line and the line that claims its slot.
LEMMA ItemSlot ==
    ASSUME SInv, todo # <<>>, NEW s \in DOMAIN output, IsChild(Item.at, s),
           MergeIdent(output[s]) = MergeIdent(Line)
    PROVE  MergePath(parts[Item.part], Item.from) = MergePath(output, s)
  <1> DEFINE c == parts[Item.part]
  <1>0. /\ Item.at \in Path /\ Item.from \in Path /\ ItemOK(parts, output, Item)
        /\ s \in Path /\ Len(Item.at) \in Nat
    BY AroundItem DEF SInv, Closed, Path
  <1>1. /\ Len(s) = Len(Item.at) + 1 /\ Below(Item.at, s)
        /\ Len(Item.from) = Len(Item.at) + 1
    BY <1>0, ChildIs DEF ItemOK
  <1>2. ASSUME NEW k \in 1..Len(s)
        PROVE  MergeIdent(c[Upto(Item.from, k)]) = MergeIdent(output[Upto(s, k)])
    <2>1. CASE k \in 1..Len(Item.at)
      <3>1. Upto(s, k) = Upto(Item.at, k)
        BY <1>0, <1>1, <2>1, BelowUpto
      <3> QED
        BY <1>0, <2>1, <3>1 DEF ItemOK
    <2>2. CASE k = Len(s)
      <3>1. Upto(s, k) = s /\ Upto(Item.from, k) = Item.from
        BY <1>0, <1>1, <2>2, UptoOf
      <3>2. Line = c[Item.from]
        BY DEF Line, Folded
      <3> QED
        BY <3>1, <3>2
    <2> QED
      BY <1>0, <1>1, <2>1, <2>2
  <1>3. Len(Item.from) = Len(s)
    BY <1>1
  <1>4. MergePath(c, Item.from) = MergePath(output, s)
    <2> HIDE DEF c
    <2> QED
      BY <1>0, <1>2, <1>3, SameSlots
  <1> QED
    BY <1>4

\* Part c has a line in the slot of output line q that q carries.
Named(out, q, c) ==
    \E p \in DOMAIN c : MergePath(c, p) = MergePath(out, q) /\ Carries(Text(out[q]), c[p])

OriginInv ==
    Declarative => LinesOK /\ \A q \in DOMAIN output : Named(output, q, parts[origin[q]])

\* A line with the same slot and text is as well attributed as before.
LEMMA NamedStays ==
    ASSUME NEW out, NEW new, NEW q, NEW c, Named(out, q, c),
           MergePath(new, q) = MergePath(out, q), Text(new[q]) = Text(out[q])
    PROVE  Named(new, q, c)
  BY DEF Named

\* Every step keeps the attributions right.
LEMMA NextOrigin == SInv /\ OriginInv /\ [Next]_mergeVars => OriginInv'
  <1> SUFFICES ASSUME SInv, OriginInv, [Next]_mergeVars, Declarative'
               PROVE  LinesOK' /\ \A q \in DOMAIN output' : Named(output', q, parts'[origin'[q]])
    BY DEF OriginInv
  <1>0. /\ parts' = parts /\ Declarative /\ LinesOK /\ Closed(output) /\ InputsOK
        /\ \A q \in DOMAIN output : Named(output, q, parts[origin[q]])
        /\ DOMAIN origin = DOMAIN output
    BY StepIs, DeclarativeStays DEF OriginInv, SInv
  <1>1. LinesOK'
    BY <1>0, NextLines
  <1>2. CASE StepQuiet
    BY <1>0, <1>1, <1>2 DEF StepQuiet
  <1>3. ASSUME NEW q, StepClone(q), NEW x \in DOMAIN output'
        PROVE  Named(output', x, parts[origin'[x]])
    <2>1. CloneAt(Item, q)
      BY <1>3 DEF StepClone
    <2>2. CASE x \in DOMAIN output /\ ~Below(q, x)
      <3>1. output'[x] = output[x] /\ origin'[x] = origin[x]
        BY <2>1, <2>2, ClonePlaced
      <3>2. MergePath(output', x) = MergePath(output, x)
        BY <2>1, <2>2, CloneSlots
      <3> QED
        BY <1>0, <2>2, <3>1, <3>2, NamedStays
    <2>3. ASSUME NEW y \in DOMAIN parts[Item.part], Below(Item.from, y), x = Rel(Item.from, q, y)
          PROVE  Named(output', x, parts[origin'[x]])
      <3>1. output'[x] = parts[Item.part][y] /\ origin'[x] = Item.part
        BY <2>1, <2>3, ClonePlaced
      <3>2. MergePath(parts[Item.part], y) = MergePath(output', x)
        BY <2>1, <2>3, CloneSlots
      <3>3. Carries(Text(output'[x]), parts[Item.part][y])
        BY <3>1 DEF Carries
      <3> QED
        BY <3>1, <3>2, <3>3 DEF Named
    <2> QED
      BY <2>1, <2>2, <2>3, ClonePlaced
  <1>4. ASSUME StepEdit, NEW x \in DOMAIN output'
        PROVE  Named(output', x, parts[origin'[x]])
    <2>1. /\ x \in DOMAIN output /\ output'[slot] = answer.line
          /\ x # slot => output'[x] = output[x]
          /\ MergePath(output', x) = MergePath(output, x)
          /\ Conflict /\ slot \in DOMAIN output
      BY <1>0, <1>4, EditSlots DEF StepEdit
    <2>2. /\ todo # <<>> /\ IsChild(Item.at, slot) /\ MergeIdent(Held) = MergeIdent(Line)
      BY <2>1, SlotIs
    <2>3. MergePath(parts[Item.part], Item.from) = MergePath(output, slot)
      BY <2>1, <2>2, ItemSlot DEF Held
    <2>4. Item.from \in DOMAIN parts[Item.part] /\ Line = parts[Item.part][Item.from]
      BY <2>2, AroundItem DEF Line, Folded
    <2>5. CASE Combine
      <3>0. origin' = [origin EXCEPT ![slot] = CombinedOrigin] /\ answer.outcome = "Combined"
        BY <2>5 DEF Combine, Decided
      <3>1. CASE x # slot
        <4>1. origin'[x] = origin[x]
          BY <3>0, <3>1
        <4> QED
          BY <1>0, <2>1, <3>1, <4>1, NamedStays
      <3>2. CASE x = slot /\ ~Changed
        <4>1. origin'[x] = origin[x]
          BY <1>0, <2>1, <3>0, <3>2 DEF CombinedOrigin
        <4>2. Text(output'[x]) = Text(output[x])
          BY <2>1, <3>2 DEF Changed, Held
        <4> QED
          BY <1>0, <2>1, <4>1, <4>2, NamedStays
      <3>3. CASE x = slot /\ Changed
        <4>1. origin'[x] = Item.part
          BY <1>0, <2>1, <3>0, <3>3 DEF CombinedOrigin
        <4>2. Carries(Text(answer.line), Line)
          <5>1. answer.line # Held
            BY <3>3 DEF Changed
          <5>2. answer.line = Line \/ Carries(Text(answer.line), Line)
            BY <1>0, <2>1, <5>1, DeclaredSlot
          <5> QED
            BY <5>2 DEF Carries
        <4> QED
          BY <2>1, <2>3, <2>4, <3>3, <4>1, <4>2 DEF Named
      <3> QED
        BY <3>1, <3>2, <3>3
    <2>6. ~TakeFresh
      BY <1>0, <2>1, DeclaredSlot DEF TakeFresh, Decided
    <2> QED
      BY <1>4, <2>5, <2>6 DEF StepEdit
  <1> QED
    BY <1>0, <1>1, <1>2, <1>3, <1>4, StepIs

\* Whatever the parts say about a slot, the part that an output line is
\* attributed to says it there: its line is the output line's, or a list that
\* the output line includes (merger.origin, combine).
THEOREM OriginIsTrue == Spec => []OriginNamesSource
  <1>1. Init => OriginInv
    <2>1. Init => DOMAIN output = {} /\ output = [q \in DOMAIN output |-> output[q]]
      BY DEF Init
    <2> QED
      BY <2>1 DEF OriginInv, LinesOK
  <1>2. SInv /\ OriginInv => OriginNamesSource
    BY DEF SInv, OriginInv, OriginNamesSource, Named
  <1> QED
    BY <1>1, <1>2, InitSInv, NextSInv, NextOrigin, PTL DEF Spec

-----------------------------------------------------------------------------
(* Nothing is lost in silence.                                             *)

\* The slot and the texts of a diagnostic.
LEMMA NoteIs ==
    ASSUME NEW sev, NEW t, NEW lines
    PROVE  /\ Note(sev, t, lines).slot = MergePath(parts[t.part], t.from)
           /\ \A l \in lines : Text(l) \in Note(sev, t, lines).named
  BY DEF Note

\* Diagnostics are never withdrawn.
LEMMA ToldGrows ==
    ASSUME NEW notes, NEW more, notes \subseteq more, NEW c, NEW p, Told(notes, c, p)
    PROVE  Told(more, c, p)
  BY DEF Told

\* What is told of a line is told of the lines below it.
LEMMA ToldBelow ==
    ASSUME NEW notes, NEW c, NEW p \in Path, NEW q \in Path, Below(p, q), Told(notes, c, p)
    PROVE  Told(notes, c, q)
  <1>1. PICK n \in notes, j \in 1..Len(p) :
            /\ n.slot = MergePath(c, Upto(p, j))
            /\ \E t \in n.named : Carries(t, c[Upto(p, j)])
    BY DEF Told
  <1>2. Len(p) \in Nat /\ Len(q) \in Nat /\ Len(p) <= Len(q)
    BY BelowUpto DEF Path
  <1>3. j \in 0..Len(p) /\ j \in 1..Len(q)
    BY <1>2
  <1>4. Upto(q, j) = Upto(p, j)
    BY <1>3, BelowUpto
  <1> QED
    BY <1>1, <1>3, <1>4 DEF Told

\* A diagnostic about the folded line tells of the line and what it contains.
LEMMA ToldItem ==
    ASSUME SInv, todo # <<>>, NEW notes, NEW sev, NEW lines, Line \in lines,
           Note(sev, Item, lines) \in notes,
           NEW p \in Path, Below(Item.from, p)
    PROVE  Told(notes, parts[Item.part], p)
  <1> DEFINE c == parts[Item.part]
             n == Note(sev, Item, lines)
  <1>1. Item.from \in Path /\ Line = c[Item.from] /\ Len(Item.from) \in Nat
        /\ Len(Item.from) = Len(Item.at) + 1 /\ Len(Item.at) \in Nat
    BY AroundItem DEF Line, Folded, Path, ItemOK
  <1>2. /\ n.slot = MergePath(c, Item.from) /\ Text(Line) \in n.named
    BY NoteIs
  <1>3. Carries(Text(Line), Line)
    BY DEF Carries
  <1>4. Upto(Item.from, Len(Item.from)) = Item.from /\ Len(Item.from) \in 1..Len(Item.from)
    BY <1>1, UptoOf
  <1> HIDE DEF n, c
  <1>5. Told(notes, c, Item.from)
    BY <1>1, <1>2, <1>3, <1>4 DEF Told, n
  <1> QED
    BY <1>1, <1>5, ToldBelow DEF c

\* A diagnostic about a line of the output tells of all that stands there.
LEMMA Displaced ==
    ASSUME NEW out, NEW s \in Path \ {<<>>}, NEW x \in Path, Below(s, x),
           NEW c, NEW p \in Path, Len(x) = Len(p), Stand(out, x, c, p, Len(p)),
           NEW notes, NEW n \in notes, n.slot = MergePath(out, s), Text(out[s]) \in n.named
    PROVE  Told(notes, c, p)
  <1> DEFINE j == Len(s)
  <1>1. /\ j \in Nat \ {0} /\ Len(x) \in Nat /\ j <= Len(x) /\ Upto(x, j) = s
        /\ \A k \in 0..j : Upto(x, k) = Upto(s, k)
    BY BelowUpto DEF Path
  <1>2. j \in 1..Len(p) /\ j \in 0..Len(p)
    BY <1>1
  <1>3. Upto(p, j) \in Path /\ Len(Upto(p, j)) = j
        /\ \A k \in 0..j : Upto(Upto(p, j), k) = Upto(p, k)
    BY <1>2, UptoIs, UptoOf
  <1>4. ASSUME NEW k \in 1..j
        PROVE  MergeIdent(c[Upto(Upto(p, j), k)]) = MergeIdent(out[Upto(s, k)])
    <2>1. k \in 0..j /\ k \in 1..Len(p)
      BY <1>1
    <2>2. Matches(out[Upto(x, k)], c[Upto(p, k)])
      BY <2>1 DEF Stand
    <2> QED
      BY <1>1, <1>3, <2>1, <2>2 DEF Matches
  <1>5. MergePath(c, Upto(p, j)) = MergePath(out, s)
    BY <1>3, <1>4, SameSlots
  <1>6. Carries(Text(out[s]), c[Upto(p, j)])
    BY <1>1, <1>2 DEF Stand, Matches
  <1> QED
    BY <1>2, <1>5, <1>6 DEF Told

\* Below a line there are lines only if it is a section.
LEMMA BelowSection ==
    ASSUME NEW c, Configuration(c), NEW p \in DOMAIN c, NEW y \in DOMAIN c,
           Below(p, y), p # y
    PROVE  /\ IsSection(c[p].def)
           /\ \E u \in ChildrenIn(c, p) : Below(u, y)
  <1>0. Closed(c) /\ p \in Path /\ y \in Path /\ p # <<>>
    BY ConfigurationIs DEF Closed
  <1> DEFINE u == Upto(y, Len(p) + 1)
  <1>1. /\ Len(p) \in Nat \ {0} /\ Len(y) \in Nat /\ Len(p) < Len(y)
    <2>1. Len(p) \in Nat \ {0} /\ Len(y) \in Nat /\ Len(p) <= Len(y)
      BY <1>0, BelowUpto DEF Path
    <2> QED
      BY <1>0, <2>1, BelowTwice
  <1>2. Len(p) + 1 \in 1..Len(y) /\ Len(p) + 1 \in 0..Len(y) /\ Len(p) + 1 > 0
        /\ (Len(p) + 1) - 1 = Len(p)
    BY <1>1
  <1>3. u \in DOMAIN c /\ u \in Path /\ Len(u) = Len(p) + 1 /\ Below(u, y)
    BY <1>0, <1>2, UptoIs, UptoOf DEF Closed
  <1>4. Parent(u) = p
    BY <1>0, <1>2, UptoOf, BelowUpto
  <1> HIDE DEF u
  <1>5. IsChild(p, u) /\ Len(u) # 1
    <2>1. Len(u) # 1 /\ Len(u) # 0
      BY <1>1, <1>3
    <2>2. u # <<>>
      BY <2>1
    <2> QED
      BY <1>0, <1>3, <1>4, <2>1, <2>2, ChildIs
  <1>6. c[u].def \in Schema[c[p].def].kids
    BY <1>3, <1>4, <1>5, ConfigurationIs
  <1> QED
    BY <1>3, <1>5, <1>6 DEF IsSection, ChildrenIn

\* What stands around the folded line stands around what is below it.
LEMMA StandHere ==
    ASSUME SInv, todo # <<>>, NEW out,
           \A j \in 1..Len(Item.at) : out[Upto(Item.at, j)] = output[Upto(Item.at, j)],
           Stand(output, Item.at, parts[Item.part], Item.from, Len(Item.at)),
           NEW s \in Path, IsChild(Item.at, s), Matches(out[s], Line),
           NEW y \in Path, Below(Item.from, y)
    PROVE  Stand(out, s, parts[Item.part], y, Len(s)) /\ Len(s) = Len(Item.from)
  <1> DEFINE c == parts[Item.part]
  <1>1. /\ Item.at \in Path /\ Item.from \in Path /\ Len(Item.from) = Len(Item.at) + 1
        /\ Line = c[Item.from] /\ Len(Item.at) \in Nat
    BY AroundItem DEF ItemOK, Line, Folded, Path
  <1>2. Len(s) = Len(Item.at) + 1 /\ Below(Item.at, s)
    BY <1>1, ChildIs
  <1> HIDE DEF c
  <1>3. ASSUME NEW j \in 1..Len(s) PROVE Matches(out[Upto(s, j)], c[Upto(y, j)])
    <2>0. j \in 0..Len(Item.from)
      BY <1>1, <1>2
    <2>1. Upto(y, j) = Upto(Item.from, j)
      BY <1>1, <2>0, BelowUpto
    <2>2. CASE j \in 1..Len(Item.at)
      <3>1. Upto(s, j) = Upto(Item.at, j)
        BY <1>1, <1>2, <2>2, BelowUpto
      <3> QED
        BY <2>1, <2>2, <3>1 DEF Stand, c
    <2>3. CASE j = Len(s)
      <3>1. Upto(s, j) = s /\ Upto(Item.from, j) = Item.from
        BY <1>1, <1>2, <2>3, UptoOf
      <3> QED
        BY <1>1, <2>1, <3>1
    <2> QED
      BY <1>1, <1>2, <2>2, <2>3
  <1> QED
    BY <1>1, <1>2, <1>3 DEF Stand, c

\* What waits after the folded line is done.
LEMMA StillWaits ==
    ASSUME SInv, todo # <<>>, NEW first \in Seq(Items), Fold(first), NEW k, NEW p
    PROVE  /\ Waits(todo, k, p) =>
                Waits(todo', k, p) \/ (k = Item.part /\ Below(Item.from, p))
           /\ Waits(first, k, p) => Waits(todo', k, p)
  <1>1. todo \in Seq(Items) /\ todo' = first \o Tail(todo) /\ Item = todo[1]
    BY ItemIs DEF SInv, TodoOK, Fold
  <1>2. /\ \A i \in DOMAIN first : i \in DOMAIN todo' /\ todo'[i] = first[i]
        /\ \A i \in DOMAIN todo : i > 1 =>
            /\ i - 1 + Len(first) \in DOMAIN todo'
            /\ todo'[i - 1 + Len(first)] = todo[i]
    <2>1. todo \in Seq(Items) /\ first \in Seq(Items) /\ todo # <<>>
      BY <1>1
    <2>2. Continues(todo', todo, first)
      BY <2>1, FoldedItems
    <2> QED
      BY <2>2 DEF Continues
  <1>3. ASSUME Waits(todo, k, p)
        PROVE  Waits(todo', k, p) \/ (k = Item.part /\ Below(Item.from, p))
    <2>1. PICK j \in DOMAIN todo : todo[j].part = k /\ Below(todo[j].from, p)
      BY <1>3 DEF Waits
    <2>2. j = 1 \/ j > 1
      BY <1>1
    <2> QED
      BY <1>1, <1>2, <2>1, <2>2 DEF Waits
  <1>4. ASSUME Waits(first, k, p) PROVE Waits(todo', k, p)
    BY <1>2, <1>4 DEF Waits
  <1> QED
    BY <1>3, <1>4

\* A section that stands around an item, or a diagnostic that names one.
AroundIn(out, notes, c, t) ==
    \/ Stand(out, t.at, c, t.from, Len(t.at))
    \/ Told(notes, c, t.from)

\* Line p of c waits below an item, stands in the output or is told.
KeptIn(items, out, notes, k, c, p) ==
    Waits(items, k, p) \/ Stands(out, c, p) \/ Told(notes, c, p)

\* The invariant in the terms of the lemmas below.
LEMMA LossInvIs ==
    LossInv <=> (Declarative =>
        /\ LinesOK
        /\ \A i \in DOMAIN todo : AroundIn(output, log, parts[todo[i].part], todo[i])
        /\ \A k \in DOMAIN parts : \A p \in DOMAIN parts[k] :
                KeptIn(todo, output, log, k, parts[k], p))
  BY DEF LossInv, AroundOK, AroundIn, KeptIn

\* A step that is done with the folded line loses nothing if what stood still
\* stands or is told, and the folded line and all below it wait, stand or are
\* told.
LEMMA LossFold ==
    ASSUME SInv, LossInv, Declarative, todo # <<>>, LinesOK',
           NEW first \in Seq(Items), Fold(first), log \subseteq log',
           \A j \in 1..Len(Item.at) : output'[Upto(Item.at, j)] = output[Upto(Item.at, j)],
           \A i \in DOMAIN first : AroundIn(output', log', parts[first[i].part], first[i]),
           \A k \in DOMAIN parts : \A p \in DOMAIN parts[k] :
                Stands(output, parts[k], p) =>
                    Stands(output', parts[k], p) \/ Told(log', parts[k], p),
           \A p \in DOMAIN parts[Item.part] : Below(Item.from, p) =>
                KeptIn(first, output', log', Item.part, parts[Item.part], p)
    PROVE  LossInv'
  <1>1. parts' = parts
    BY DEF Fold
  <1>2. ASSUME NEW i \in DOMAIN todo'
        PROVE  AroundIn(output', log', parts[todo'[i].part], todo'[i])
    <2>1. todo \in Seq(Items) /\ todo' = first \o Tail(todo)
      BY DEF SInv, TodoOK, Fold
    <2>2. \/ i \in DOMAIN first /\ todo'[i] = first[i]
          \/ \E j \in DOMAIN todo : todo'[i] = todo[j]
      <3>1. Continues(todo', todo, first)
        BY <2>1, FoldedItems
      <3> QED
        BY <3>1 DEF Continues
    <2>3. ASSUME NEW j \in DOMAIN todo, todo'[i] = todo[j]
          PROVE  AroundIn(output', log', parts[todo'[i].part], todo'[i])
      <3> DEFINE t == todo[j]
                 c == parts[t.part]
      <3>1. AroundIn(output, log, c, t)
        BY LossInvIs
      <3>2. t \in Items /\ Below(t.at, Item.at) /\ Item \in Items
        BY ItemIs DEF SInv
      <3>3. t.at \in Path /\ Item.at \in Path
        BY <3>2 DEF Items
      <3> HIDE DEF t, c
      <3>4. Len(t.at) <= Len(Item.at) /\ \A m \in 0..Len(t.at) : Upto(Item.at, m) = Upto(t.at, m)
        BY <3>2, <3>3, BelowUpto
      <3>5. Len(t.at) \in Nat /\ Len(Item.at) \in Nat
        BY <3>3 DEF Path
      <3>6. \A m \in 1..Len(t.at) : output'[Upto(t.at, m)] = output[Upto(t.at, m)]
        BY <3>4, <3>5
      <3>7. Stand(output, t.at, c, t.from, Len(t.at)) => Stand(output', t.at, c, t.from, Len(t.at))
        BY <3>6 DEF Stand
      <3>8. Told(log, c, t.from) => Told(log', c, t.from)
        BY ToldGrows
      <3>9. AroundIn(output', log', c, t)
        BY <3>1, <3>7, <3>8 DEF AroundIn
      <3> QED
        BY <2>3, <3>9 DEF t, c
    <2> QED
      BY <2>2, <2>3
  <1>3. ASSUME NEW k \in DOMAIN parts, NEW p \in DOMAIN parts[k]
        PROVE  KeptIn(todo', output', log', k, parts[k], p)
    <2>1. KeptIn(todo, output, log, k, parts[k], p)
      BY LossInvIs
    <2>2. /\ Waits(todo, k, p) => Waits(todo', k, p) \/ (k = Item.part /\ Below(Item.from, p))
          /\ Waits(first, k, p) => Waits(todo', k, p)
      BY StillWaits
    <2>3. Told(log, parts[k], p) => Told(log', parts[k], p)
      BY ToldGrows
    <2> QED
      BY <2>1, <2>2, <2>3 DEF KeptIn
  <1>4. LossInv' <=> (Declarative' =>
        /\ LinesOK'
        /\ \A i \in DOMAIN todo' : AroundIn(output', log', parts'[todo'[i].part], todo'[i])
        /\ \A k \in DOMAIN parts' : \A p \in DOMAIN parts'[k] :
                KeptIn(todo', output', log', k, parts'[k], p))
    BY DEF LossInv, AroundOK, AroundIn, KeptIn
  <1> QED
    BY <1>1, <1>2, <1>3, <1>4

\* A line stands for itself.
LEMMA MatchesItself == ASSUME NEW l PROVE Matches(l, l)
  BY DEF Matches, Carries

\* What an edit leaves alone still stands.
LEMMA OldStands ==
    ASSUME Closed(output), NEW s \in Path, NEW out,
           \A x \in DOMAIN output : ~Below(s, x) => x \in DOMAIN out /\ out[x] = output[x],
           NEW x \in DOMAIN output, ~Below(s, x), NEW c, NEW p, Len(x) = Len(p),
           Stand(output, x, c, p, Len(p))
    PROVE  Stands(out, c, p)
  <1>1. x \in Path /\ Len(x) \in Nat /\ Len(p) = Len(x)
    BY DEF Closed, Path
  <1>2. ASSUME NEW j \in 1..Len(x) PROVE out[Upto(x, j)] = output[Upto(x, j)]
    <2>1. j \in 0..Len(x)
      BY <1>1
    <2>2. Upto(x, j) \in DOMAIN output /\ Upto(x, j) \in Path /\ Below(Upto(x, j), x)
      BY <1>1, <2>1, UptoIs, UptoOf DEF Closed
    <2>3. ~Below(s, Upto(x, j))
      BY <1>1, <2>2, BelowTwice
    <2> QED
      BY <2>2, <2>3
  <1>3. x \in DOMAIN out /\ Stand(out, x, c, p, Len(p))
    BY <1>1, <1>2 DEF Stand
  <1> QED
    BY <1>3 DEF Stands

\* The lines below the folded line are those of the items that come first.
LEMMA BelowItem ==
    ASSUME SInv, todo # <<>>, NEW s \in Path, NEW first,
           first = LevelItems(s, Item.part, Item.from)
    PROVE  /\ first \in Seq(Items)
           /\ \A i \in DOMAIN first :
                /\ first[i].at = s /\ first[i].part = Item.part
                /\ first[i].from \in Path /\ Below(Item.from, first[i].from)
           /\ \A p \in DOMAIN parts[Item.part] : Below(Item.from, p) /\ p # Item.from =>
                IsSection(Line.def) /\ Waits(first, Item.part, p)
  <1> DEFINE c == parts[Item.part]
  <1>1. /\ Item.part \in DOMAIN parts /\ Item.from \in DOMAIN c /\ Item.from \in Path
        /\ InputsOK /\ Line = c[Item.from]
    BY AroundItem DEF SInv, Line, Folded
  <1>2. Configuration(c)
    BY <1>1, PartsAre
  <1>3. /\ LevelItems(s, Item.part, Item.from) \in Seq(Items)
        /\ \A j \in DOMAIN LevelItems(s, Item.part, Item.from) :
                /\ j \in Nat /\ Append(Item.from, j) \in DOMAIN c
                /\ LevelItems(s, Item.part, Item.from)[j] =
                    [at |-> s, part |-> Item.part, from |-> Append(Item.from, j)]
        /\ \A y \in ChildrenIn(c, Item.from) :
                \E j \in DOMAIN LevelItems(s, Item.part, Item.from) :
                    LevelItems(s, Item.part, Item.from)[j].from = y
    <2> DEFINE k == Item.part
               y0 == Item.from
    <2>1. k \in DOMAIN parts /\ y0 \in DOMAIN parts[k] \cup {<<>>} /\ s \in Path /\ InputsOK
      BY <1>1
    <2> HIDE DEF k, y0
    <2>2. /\ LevelItems(s, k, y0) \in Seq(Items)
          /\ \A j \in DOMAIN LevelItems(s, k, y0) :
                /\ j \in Nat /\ Append(y0, j) \in DOMAIN parts[k]
                /\ LevelItems(s, k, y0)[j] = [at |-> s, part |-> k, from |-> Append(y0, j)]
          /\ \A y \in ChildrenIn(parts[k], y0) :
                \E j \in DOMAIN LevelItems(s, k, y0) : LevelItems(s, k, y0)[j].from = y
      BY <2>1, LevelItemsAre
    <2> QED
      BY <2>2 DEF k, y0
  <1> HIDE DEF c
  <1>4. ASSUME NEW i \in DOMAIN first
        PROVE  /\ first[i].at = s /\ first[i].part = Item.part
               /\ first[i].from \in Path /\ Below(Item.from, first[i].from)
    <2>1. i \in Nat /\ first[i] = [at |-> s, part |-> Item.part, from |-> Append(Item.from, i)]
      BY <1>3
    <2>2. Append(Item.from, i) \in Path /\ IsChild(Item.from, Append(Item.from, i))
      BY <1>1, <2>1, AppendIs
    <2>3. Below(Item.from, Append(Item.from, i))
      BY <1>1, <2>2, ChildIs
    <2> QED
      BY <2>1, <2>2, <2>3
  <1>5. ASSUME NEW p \in DOMAIN c, Below(Item.from, p), p # Item.from
        PROVE  IsSection(Line.def) /\ Waits(first, Item.part, p)
    <2>1. IsSection(c[Item.from].def) /\ \E u \in ChildrenIn(c, Item.from) : Below(u, p)
      BY <1>1, <1>2, <1>5, BelowSection
    <2>2. PICK u \in ChildrenIn(c, Item.from) : Below(u, p)
      BY <2>1
    <2>3. PICK j \in DOMAIN first : first[j].from = u
      BY <1>3
    <2>4. first[j].part = Item.part
      BY <1>4
    <2> QED
      BY <1>1, <2>1, <2>2, <2>3, <2>4 DEF Waits
  <1> QED
    BY <1>3, <1>4, <1>5 DEF c

\* A diagnostic names the line of the contested slot and the folded line: the
\* step may replace all that stands in the slot.
LEMMA NotedStep ==
    ASSUME SInv, LossInv, Declarative, LinesOK', Conflict,
           NEW first, first = <<>> \/ first = Shared, Fold(first),
           log \subseteq log', NEW sev, Note(sev, Item, {Held, Line}) \in log',
           \A x \in DOMAIN output : ~Below(slot, x) =>
                x \in DOMAIN output' /\ output'[x] = output[x]
    PROVE  LossInv'
  <1>0. /\ todo # <<>> /\ slot \in DOMAIN output /\ slot \in Path /\ IsChild(Item.at, slot)
        /\ MergeIdent(Held) = MergeIdent(Line) /\ Closed(output) /\ slot # <<>>
        /\ slot = Slot
    BY SlotIs DEF SInv, Closed, ConflictOK
  <1>1. /\ Item.part \in DOMAIN parts /\ Item.from \in DOMAIN parts[Item.part]
        /\ Item.from \in Path /\ Item.at \in Path /\ Closed(parts[Item.part])
        /\ \A k \in DOMAIN parts : Closed(parts[k])
    BY <1>0, AroundItem, PartsAre, ConfigurationIs DEF SInv
  <1> DEFINE n == Note(sev, Item, {Held, Line})
  <1>2. n.slot = MergePath(output, slot) /\ Text(output[slot]) \in n.named
    <2>1. MergePath(parts[Item.part], Item.from) = MergePath(output, slot)
      BY <1>0, ItemSlot DEF Held
    <2> QED
      BY <2>1, NoteIs DEF Held
  <1> HIDE DEF n
  <1>3. \A p \in Path : Below(Item.from, p) => Told(log', parts[Item.part], p)
    BY <1>0, ToldItem
  <1>4. /\ first \in Seq(Items)
        /\ \A i \in DOMAIN first : first[i].part = Item.part
            /\ first[i].from \in Path /\ Below(Item.from, first[i].from)
    <2>1. CASE first = <<>>
      BY <2>1
    <2>2. CASE first = Shared
      BY <1>0, <2>2, BelowItem DEF Shared
    <2> QED
      BY <2>1, <2>2
  <1>5. \A i \in DOMAIN first : AroundIn(output', log', parts[first[i].part], first[i])
    BY <1>3, <1>4 DEF AroundIn
  <1>6. \A j \in 1..Len(Item.at) : output'[Upto(Item.at, j)] = output[Upto(Item.at, j)]
    BY <1>0, AroundItem
  <1>7. ASSUME NEW k \in DOMAIN parts, NEW p \in DOMAIN parts[k], Stands(output, parts[k], p)
        PROVE  Stands(output', parts[k], p) \/ Told(log', parts[k], p)
    <2>1. PICK x \in DOMAIN output : Len(x) = Len(p) /\ Stand(output, x, parts[k], p, Len(p))
      BY <1>7 DEF Stands
    <2>2. p \in Path /\ x \in Path
      BY <1>0, <1>1 DEF Closed
    <2>3. CASE Below(slot, x)
      <3>1. n \in log'
        BY DEF n
      <3> QED
        BY <1>0, <1>2, <2>1, <2>2, <2>3, <3>1, Displaced
    <2>4. CASE ~Below(slot, x)
      BY <1>0, <2>1, <2>4, OldStands
    <2> QED
      BY <2>3, <2>4
  <1>8. \A p \in DOMAIN parts[Item.part] : Below(Item.from, p) =>
                KeptIn(first, output', log', Item.part, parts[Item.part], p)
    BY <1>1, <1>3 DEF KeptIn, Closed
  <1> QED
    BY <1>0, <1>4, <1>5, <1>6, <1>7, <1>8, LossFold

\* A diagnostic names the folded line, and the output stays as it is.
LEMMA KeptStep ==
    ASSUME SInv, LossInv, Declarative, Conflict,
           NEW first, first = <<>> \/ first = Shared, Fold(first), output' = output,
           log \subseteq log', NEW sev, NEW lines, Line \in lines,
           Note(sev, Item, lines) \in log'
    PROVE  LossInv'
  <1>0. /\ todo # <<>> /\ slot \in Path /\ slot = Slot /\ LinesOK'
    <2>1. LinesOK /\ parts' = parts
      BY DEF LossInv, Fold
    <2> QED
      BY <2>1, SlotIs DEF SInv, ConflictOK, LinesOK
  <1>1. Item.part \in DOMAIN parts /\ \A k \in DOMAIN parts : Closed(parts[k])
    BY <1>0, AroundItem, PartsAre, ConfigurationIs DEF SInv
  <1>3. \A p \in Path : Below(Item.from, p) => Told(log', parts[Item.part], p)
    BY <1>0, ToldItem
  <1>4. /\ first \in Seq(Items)
        /\ \A i \in DOMAIN first : first[i].part = Item.part
            /\ first[i].from \in Path /\ Below(Item.from, first[i].from)
    <2>1. CASE first = <<>>
      BY <2>1
    <2>2. CASE first = Shared
      BY <1>0, <2>2, BelowItem DEF Shared
    <2> QED
      BY <2>1, <2>2
  <1>5. \A i \in DOMAIN first : AroundIn(output', log', parts[first[i].part], first[i])
    BY <1>3, <1>4 DEF AroundIn
  <1>8. \A p \in DOMAIN parts[Item.part] : Below(Item.from, p) =>
                KeptIn(first, output', log', Item.part, parts[Item.part], p)
    BY <1>1, <1>3 DEF KeptIn, Closed
  <1> QED
    BY <1>0, <1>4, <1>5, <1>8, LossFold

\* The output line that claims the slot is or has the folded line's value, and the
\* lines below a section come next.
LEMMA MetStep ==
    ASSUME SInv, LossInv, Declarative, todo # <<>>, NEW s \in Path, IsChild(Item.at, s),
           s \in DOMAIN output, Matches(output[s], Line),
           NEW first, Fold(first), output' = output, log \subseteq log',
           IF IsSection(Line.def) THEN first = LevelItems(s, Item.part, Item.from)
                                  ELSE first = <<>>
    PROVE  LossInv'
  <1> DEFINE c == parts[Item.part]
  <1>0. LinesOK'
    <2>1. LinesOK /\ parts' = parts
      BY DEF LossInv, Fold
    <2> QED
      BY <2>1 DEF LinesOK
  <1>1. /\ Item.part \in DOMAIN parts /\ \A k \in DOMAIN parts : Closed(parts[k])
        /\ Item.from \in DOMAIN c /\ Item.from \in Path /\ Item = todo[1] /\ 1 \in DOMAIN todo
    BY AroundItem, PartsAre, ConfigurationIs, ItemIs DEF SInv
  <1>2. AroundIn(output, log, c, Item)
    BY <1>1, LossInvIs
  <1> DEFINE standing == Stand(output, Item.at, c, Item.from, Len(Item.at))
  <1>3. ASSUME ~standing, NEW y \in Path, Below(Item.from, y)
        PROVE  Told(log', c, y)
    <2>1. Told(log, c, Item.from)
      BY <1>2, <1>3 DEF AroundIn
    <2>2. Told(log', c, Item.from)
      BY <2>1, ToldGrows
    <2> HIDE DEF c
    <2> QED
      BY <1>1, <1>3, <2>2, ToldBelow
  <1>4. ASSUME standing, NEW y \in Path, Below(Item.from, y)
        PROVE  Stand(output', s, c, y, Len(s)) /\ Len(s) = Len(Item.from)
    BY <1>4, StandHere
  <1>5. /\ first \in Seq(Items)
        /\ \A i \in DOMAIN first : first[i].at = s /\ first[i].part = Item.part
            /\ first[i].from \in Path /\ Below(Item.from, first[i].from)
        /\ \A p \in DOMAIN c : Below(Item.from, p) /\ p # Item.from =>
                Waits(first, Item.part, p)
    <2> DEFINE more == LevelItems(s, Item.part, Item.from)
    <2>1. /\ more \in Seq(Items)
          /\ \A i \in DOMAIN more :
                /\ more[i].at = s /\ more[i].part = Item.part
                /\ more[i].from \in Path /\ Below(Item.from, more[i].from)
          /\ \A p \in DOMAIN c : Below(Item.from, p) /\ p # Item.from =>
                IsSection(Line.def) /\ Waits(more, Item.part, p)
      BY BelowItem
    <2> HIDE DEF more, c
    <2>2. CASE IsSection(Line.def)
      <3>1. first = more
        BY <2>2 DEF more
      <3> QED
        BY <2>1, <3>1
    <2>3. CASE ~IsSection(Line.def)
      <3>1. first = <<>>
        BY <2>3
      <3> QED
        BY <2>1, <2>3, <3>1
    <2> QED
      BY <2>2, <2>3
  <1>6. \A i \in DOMAIN first : AroundIn(output', log', parts[first[i].part], first[i])
    <2> SUFFICES ASSUME NEW i \in DOMAIN first
                 PROVE  AroundIn(output', log', parts[first[i].part], first[i])
      OBVIOUS
    <2>1. first[i].at = s /\ parts[first[i].part] = c /\ first[i].from \in Path
          /\ Below(Item.from, first[i].from)
      BY <1>5
    <2> HIDE DEF standing, c
    <2> QED
      BY <1>3, <1>4, <2>1 DEF AroundIn
  <1>7. ASSUME NEW p \in DOMAIN c, Below(Item.from, p)
        PROVE  KeptIn(first, output', log', Item.part, c, p)
    <2>1. p \in Path
      BY <1>1 DEF Closed
    <2>2. CASE p # Item.from
      BY <1>5, <1>7, <2>2 DEF KeptIn
    <2>3. CASE p = Item.from
      <3>1. standing => Stands(output', c, p)
        BY <1>4, <1>7, <2>1, <2>3 DEF Stands
      <3> HIDE DEF standing
      <3> QED
        BY <1>3, <1>7, <2>1, <3>1 DEF KeptIn
    <2> QED
      BY <2>2, <2>3
  <1> QED
    BY <1>0, <1>5, <1>6, <1>7, LossFold

\* What is cloned stands where it is put, if what is around it does.
LEMMA CloneStands ==
    ASSUME NEW t, NEW q, CloneAt(t, q), NEW y \in DOMAIN parts[t.part], Below(t.from, y),
           Stand(output, t.at, parts[t.part], t.from, Len(t.at))
    PROVE  Stands(output', parts[t.part], y)
  <1> DEFINE c == parts[t.part]
             r == Rel(t.from, q, y)
  <1>0. /\ t.at \in Path /\ t.from \in Path /\ q \in Path
        /\ Len(q) = Len(t.at) + 1 /\ Len(t.from) = Len(q) /\ Len(q) \in Nat \ {0}
        /\ Len(t.at) \in Nat
    BY CloneAtIs DEF Path
  <1>1. /\ y \in Path /\ r \in Path /\ Len(r) = Len(y) /\ Len(t.from) <= Len(y)
        /\ \A k \in 1..(Len(q) - 1) :
            /\ Upto(r, k) = Upto(t.at, k)
            /\ output'[Upto(r, k)] = output[Upto(t.at, k)]
        /\ \A k \in Len(q)..Len(y) : output'[Upto(r, k)] = c[Upto(y, k)]
    BY NewAround
  <1>2. \A k \in 0..Len(t.from) : Upto(y, k) = Upto(t.from, k)
    BY <1>0, <1>1, BelowUpto
  <1>3. r \in DOMAIN output'
    BY ClonePlaced
  <1>4. Len(y) \in Nat
    BY <1>1 DEF Path
  <1>5. \A j \in 1..Len(t.at) : Matches(output[Upto(t.at, j)], c[Upto(t.from, j)])
    BY DEF Stand
  <1> HIDE DEF r, c
  <1>6. ASSUME NEW j \in 1..Len(y) PROVE Matches(output'[Upto(r, j)], c[Upto(y, j)])
    <2>1. CASE j < Len(q)
      <3>1. j \in 1..(Len(q) - 1) /\ j \in 1..Len(t.at) /\ j \in 0..Len(t.from)
        BY <1>0, <2>1
      <3> QED
        BY <1>1, <1>2, <1>5, <3>1
    <2>2. CASE j >= Len(q)
      <3>1. j \in Len(q)..Len(y)
        BY <1>0, <1>4, <2>2
      <3> QED
        BY <1>1, <3>1, MatchesItself
    <2> QED
      BY <1>0, <2>1, <2>2
  <1> QED
    BY <1>1, <1>3, <1>6 DEF Stands, Stand, c

\* Nothing is below a line that is not there.
LEMMA NoneBelow ==
    ASSUME Closed(output), NEW q \in Path \ {<<>>}, q \notin DOMAIN output,
           NEW x \in DOMAIN output
    PROVE  ~Below(q, x)
  <1>1. SUFFICES ASSUME Below(q, x) PROVE FALSE
    OBVIOUS
  <1>2. x \in Path
    BY DEF Closed
  <1>3. Len(q) <= Len(x) /\ Upto(x, Len(q)) = q /\ Len(q) \in Nat \ {0}
    BY <1>1, <1>2, BelowUpto DEF Path
  <1>4. Len(q) \in 1..Len(x)
    BY <1>2, <1>3 DEF Path
  <1> QED
    BY <1>3, <1>4 DEF Closed

\* A new slot: the line and all it contains stand in the output.
LEMMA NewSlotLoss ==
    ASSUME SInv, LossInv, Declarative, LinesOK', NewSlot
    PROVE  LossInv'
  <1> DEFINE q == Append(Item.at, Len(Kids(output, Item.at)) + 1)
             c == parts[Item.part]
  <1>1. todo # <<>> /\ Fold(<<>>) /\ PlaceClone(Item, q) /\ log' = log
    BY DEF NewSlot
  <1>2. Site(Item, q) /\ q \notin DOMAIN output
    BY NewSlotIs
  <1> HIDE DEF q
  <1>3. CloneAt(Item, q)
    BY <1>1, <1>2, CloneFold
  <1>4. /\ Item.part \in DOMAIN parts /\ Item.from \in Path /\ Item.from \in DOMAIN c
        /\ q \in Path /\ q # <<>> /\ \A k \in DOMAIN parts : Closed(parts[k])
        /\ Item = todo[1] /\ 1 \in DOMAIN todo /\ Closed(output) /\ IsChild(Item.at, q)
    <2>1. IsChild(Item.at, q) /\ q \in Path /\ Item.at \in Path
      BY <1>1, <1>2, AroundItem DEF Site
    <2>2. q # <<>>
      BY <2>1, ChildIs
    <2> QED
      BY <1>1, <2>1, <2>2, AroundItem, ItemIs, PartsAre, ConfigurationIs DEF SInv
  <1>5. ASSUME NEW x \in DOMAIN output
        PROVE  ~Below(q, x) /\ x \in DOMAIN output' /\ output'[x] = output[x]
    <2>1. ~Below(q, x)
      BY <1>2, <1>4, NoneBelow
    <2> QED
      BY <1>3, <2>1, ClonePlaced
  <1>6. \A j \in 1..Len(Item.at) : output'[Upto(Item.at, j)] = output[Upto(Item.at, j)]
    BY <1>1, <1>5, AroundItem
  <1>7. ASSUME NEW k \in DOMAIN parts, NEW p \in DOMAIN parts[k], Stands(output, parts[k], p)
        PROVE  Stands(output', parts[k], p)
    <2>1. PICK x \in DOMAIN output : Len(x) = Len(p) /\ Stand(output, x, parts[k], p, Len(p))
      BY <1>7 DEF Stands
    <2> QED
      BY <1>4, <1>5, <2>1, OldStands
  <1>8. AroundIn(output, log, c, Item)
    BY <1>4, LossInvIs
  <1>9. ASSUME NEW p \in DOMAIN c, Below(Item.from, p)
        PROVE  KeptIn(<<>>, output', log', Item.part, c, p)
    <2>1. CASE Stand(output, Item.at, c, Item.from, Len(Item.at))
      BY <1>3, <1>9, <2>1, CloneStands DEF KeptIn
    <2>2. CASE Told(log, c, Item.from)
      <3>1. p \in Path
        BY <1>4 DEF Closed
      <3> HIDE DEF c
      <3>2. Told(log, c, p)
        BY <1>4, <1>9, <2>2, <3>1, ToldBelow
      <3> QED
        BY <1>1, <3>2 DEF KeptIn
    <2> QED
      BY <1>8, <2>1, <2>2 DEF AroundIn
  <1> QED
    <2> DEFINE none == <<>>
    <2>1. none \in Seq(Items) /\ DOMAIN none = {} /\ Fold(none) /\ log \subseteq log'
      BY <1>1
    <2>2. \A p \in DOMAIN c : Below(Item.from, p) =>
                KeptIn(none, output', log', Item.part, c, p)
      BY <1>9
    <2> HIDE DEF none
    <2> QED
      BY <1>1, <1>6, <1>7, <2>1, <2>2, LossFold

\* An answer that changes no text changes nothing.
LEMMA SameAnswer ==
    ASSUME SInv, LinesOK, Declarative, Conflict, Decided("Combined"), ~Mixes, ~Changed
    PROVE  /\ answer.line = Held
           /\ \/ Matches(Held, Line)
              \/ /\ answer.node = "earlier" /\ ~IsSection(Line.def)
                 /\ Text(Line) # Text(Held)
  <1>0. /\ LineOK(parts, Held) /\ LineOK(parts, Line) /\ LineOK(parts, answer.line)
        /\ \/ /\ answer.node = "earlier" /\ answer.line = Held
              /\ answer.outcome = "Combined" => SameList(Held, Line)
           \/ /\ answer.node = "later" /\ answer.line = Line
              /\ answer.outcome = "Combined" => Held.def = Line.def /\ IsSection(Line.def)
           \/ /\ answer.node = "fresh" /\ answer.outcome = "Combined"
              /\ SameList(Held, Line) /\ answer.line.def = Held.def
              /\ answer.line.block = Held.block
              /\ Carries(Text(answer.line), Line)
    BY DeclaredSlot
  <1>1. answer.outcome = "Combined" /\ Text(answer.line) = Text(Held)
        /\ MergeIdent(Held) = MergeIdent(Line)
    BY SlotIs DEF Decided, Changed
  <1>2. answer.line.def = Held.def /\ answer.line.f = Held.f
    BY <1>1, TextIs
  <1>3. answer.line.block = Held.block => answer.line = Held
    BY <1>0, <1>2 DEF LineOK
  <1>4. CASE answer.node = "earlier" /\ answer.line = Held /\ SameList(Held, Line)
    <2>1. Held.block = Line.block /\ Held.def = Line.def /\ Schema[Line.def].list # ""
      BY <1>4 DEF SameList
    <2>2. ~IsSection(Line.def)
      <3>1. Line.def \in Defs
        BY SlotIs, AroundItem, PartsAre, ConfigurationIs DEF SInv, Line, Folded
      <3> QED
        BY <2>1, <3>1, SchemaAssumption DEF Buildable, ListBuilds, IsSection
    <2>3. Text(Line) = Text(Held) => Matches(Held, Line)
      BY <1>1, <2>1 DEF Matches, Carries
    <2> QED
      BY <1>4, <2>2, <2>3
  <1>5. CASE answer.line = Line /\ Held.def = Line.def /\ IsSection(Line.def)
    <2>1. Held.block = <<>> /\ Line.block = <<>>
      BY <1>0, <1>5 DEF LineOK
    <2>2. answer.line = Held
      BY <1>3, <1>5, <2>1
    <2> QED
      BY <1>5, <2>2, MatchesItself
  <1>6. CASE SameList(Held, Line) /\ answer.line.block = Held.block
             /\ Carries(Text(answer.line), Line)
    <2>1. answer.line = Held /\ Held.block = Line.block
      BY <1>3, <1>6 DEF SameList
    <2> QED
      BY <1>1, <1>6, <2>1 DEF Matches
  <1> QED
    BY <1>0, <1>1, <1>4, <1>5, <1>6

\* combine reports every change of text, and what it leaves unchanged has the
\* later value or reports it.
LEMMA CombineLoss ==
    ASSUME SInv, LossInv, Declarative, LinesOK', Combine
    PROVE  LossInv'
  <1>0. /\ Conflict /\ Decided("Combined") /\ ~Mixes /\ LinesOK
        /\ log' = log \cup CombineNotes
        /\ output' = [output EXCEPT ![slot] = answer.line]
        /\ Fold(IF IsSection(Line.def) /\ Held.def = Line.def THEN Shared ELSE <<>>)
    BY DEF Combine, Decided, LossInv
  <1>1. /\ todo # <<>> /\ slot \in DOMAIN output /\ slot \in Path /\ slot = Slot
        /\ IsChild(Item.at, slot) /\ Closed(output)
    BY <1>0, SlotIs DEF SInv, ConflictOK
  <1> DEFINE first == IF IsSection(Line.def) /\ Held.def = Line.def THEN Shared ELSE <<>>
  <1>2. /\ (first = <<>> \/ first = Shared) /\ Fold(first) /\ log \subseteq log'
        /\ IF IsSection(Line.def) /\ Held.def = Line.def THEN first = Shared ELSE first = <<>>
    BY <1>0
  <1> HIDE DEF first
  <1>3. CASE Changed
    <2>1. Note("warning", Item, {Held, Line}) \in log'
      BY <1>0, <1>3 DEF CombineNotes
    <2>2. ASSUME NEW x \in DOMAIN output, ~Below(slot, x)
          PROVE  x \in DOMAIN output' /\ output'[x] = output[x]
      <3>1. x # slot
        BY <1>1, <2>2, BelowTwice
      <3> QED
        BY <1>0, <3>1
    <2> QED
      BY <1>0, <1>2, <2>1, <2>2, NotedStep
  <1>4. CASE ~Changed
    <2>1. /\ answer.line = Held
          /\ \/ Matches(Held, Line)
             \/ /\ answer.node = "earlier" /\ ~IsSection(Line.def)
                /\ Text(Line) # Text(Held)
      BY <1>0, <1>4, SameAnswer
    <2>2. output' = output
      <3>1. output = [x \in DOMAIN output |-> output[x]]
        BY <1>0 DEF LinesOK
      <3> QED
        BY <1>0, <1>1, <2>1, <3>1 DEF Held
    <2>3. CASE answer.node = "earlier" /\ ~IsSection(Line.def) /\ Text(Line) # Text(Held)
      <3>1. Note("warning", Item, {Line}) \in log'
        BY <1>0, <1>4, <2>3 DEF CombineNotes
      <3> QED
        BY <1>0, <1>2, <2>2, <3>1, KeptStep
    <2>4. CASE Matches(Held, Line)
      <3>1. IsSection(Line.def) => Held.def = Line.def
        BY <1>0, CombinedLine
      <3>2. IF IsSection(Line.def) THEN first = LevelItems(slot, Item.part, Item.from)
                                   ELSE first = <<>>
        BY <1>1, <1>2, <3>1 DEF Shared
      <3>3. Matches(output[slot], Line)
        BY <2>4 DEF Held
      <3> QED
        BY <1>1, <1>2, <2>2, <3>2, <3>3, MetStep
    <2> QED
      BY <2>1, <2>3, <2>4
  <1> QED
    BY <1>3, <1>4

\* No step loses a line.
LEMMA NextLoss == SInv /\ LossInv /\ [Next]_mergeVars => LossInv'
  <1> SUFFICES ASSUME SInv, LossInv, [Next]_mergeVars PROVE LossInv'
    OBVIOUS
  <1>1. UNCHANGED <<parts, policy>>
    BY StepIs
  <1>2. CASE ~Declarative
    BY <1>1, <1>2, DeclarativeStays DEF LossInv
  <1>3. CASE Declarative
    <2>0. LinesOK /\ LinesOK'
      BY <1>3, NextLines DEF LossInv
    <2>1. CASE NewSlot
      BY <1>3, <2>0, <2>1, NewSlotLoss
    <2>2. CASE Agree
      <3> DEFINE s == Slot
                 first == IF IsSection(Line.def) THEN Shared ELSE <<>>
      <3>1. /\ todo # <<>> /\ Claimants(Item) # {} /\ Fold(first)
            /\ output' = output /\ log' = log /\ SameValue(output[s], Line)
        BY <2>2 DEF Agree, Meets, Contested
      <3>2. /\ s \in DOMAIN output /\ s \in Path /\ IsChild(Item.at, s)
            /\ MergeIdent(output[s]) = MergeIdent(Line)
        <4>1. Item.at \in Path /\ Closed(output)
          BY <3>1, AroundItem DEF SInv
        <4> QED
          BY <3>1, <4>1, ClaimantIs DEF Line, Slot
      <3>3. Matches(output[s], Line)
        BY <3>1, <3>2 DEF Matches, SameValue, Carries
      <3>4. IF IsSection(Line.def) THEN first = LevelItems(s, Item.part, Item.from)
                                   ELSE first = <<>>
        BY DEF Shared
      <3> HIDE DEF s, first
      <3> QED
        BY <1>3, <3>1, <3>2, <3>3, <3>4, MetStep
    <2>3. CASE Resolve
      <3>1. UNCHANGED <<parts, policy, todo, output, origin, log>>
        BY <2>3 DEF Resolve
      <3> QED
        BY <2>0, <3>1, DeclarativeStays DEF LossInv, AroundOK
    <2>4. ASSUME NEW named, Line \in named, Conflict, KeepsEarlier(named) PROVE LossInv'
      <3> DEFINE none == <<>>
      <3>1. /\ (none = <<>> \/ none = Shared) /\ Fold(none) /\ output' = output
            /\ log \subseteq log' /\ Line \in named
            /\ Note("error", Item, named) \in log'
        BY <2>4 DEF KeepsEarlier, Logs
      <3> HIDE DEF none
      <3> QED
        BY <1>3, <2>4, <3>1, KeptStep
    <2>5. CASE KeepEarlier
      <3> DEFINE none == <<>>
      <3>1. /\ (none = <<>> \/ none = Shared) /\ Fold(none) /\ output' = output /\ Conflict
            /\ log \subseteq log' /\ Line \in {Line}
            /\ Note("warning", Item, {Line}) \in log'
        BY <2>5 DEF KeepEarlier, Logs, Decided
      <3> HIDE DEF none
      <3> QED
        BY <1>3, <3>1, KeptStep
    <2>6. CASE TakeLater
      <3> DEFINE none == <<>>
      <3>1. /\ (none = <<>> \/ none = Shared) /\ Fold(none) /\ Conflict
            /\ log \subseteq log' /\ PlaceClone(Item, slot)
            /\ Note("warning", Item, {Held, Line}) \in log'
            /\ Fold(<<>>)
        BY <2>6 DEF TakeLater, Logs, Decided
      <3>2. CloneAt(Item, slot)
        <4>1. todo # <<>> /\ Site(Item, slot)
          BY <3>1, SlotIs DEF Site
        <4> QED
          BY <3>1, <4>1, CloneFold
      <3>3. \A x \in DOMAIN output : ~Below(slot, x) =>
                x \in DOMAIN output' /\ output'[x] = output[x]
        BY <3>2, ClonePlaced
      <3> HIDE DEF none
      <3> QED
        BY <1>3, <2>0, <3>1, <3>3, NotedStep
    <2>7. ~TakeFresh
      BY <1>3, <2>0, DeclaredSlot DEF TakeFresh, Decided
    <2>8. CASE Combine
      BY <1>3, <2>0, <2>8, CombineLoss
    <2>9. CASE UNCHANGED mergeVars
      <3>1. UNCHANGED <<parts, policy, todo, output, origin, log>>
        BY <2>9 DEF mergeVars
      <3> QED
        BY <2>0, <3>1, DeclarativeStays DEF LossInv, AroundOK
    <2> QED
      BY <2>1, <2>2, <2>3, <2>4, <2>5, <2>6, <2>7, <2>8, <2>9
         DEF Next, Refused, RejectFresh, RefuseChildless, RefuseMix, Decided, Returned
  <1> QED
    BY <1>2, <1>3

\* At first every line waits.
LEMMA InitWaits ==
    ASSUME Init, NEW k \in DOMAIN parts, NEW p \in DOMAIN parts[k]
    PROVE  Waits(todo, k, p)
  <1>1. /\ InputsOK
        /\ \A y \in DOMAIN parts[k] :
            Len(y) = 1 => \E i \in DOMAIN todo : todo[i].part = k /\ todo[i].from = y
    BY InitTodo
  <1>2. Closed(parts[k])
    BY <1>1, PartsAre, ConfigurationIs
  <1>3. p \in Path /\ Len(p) \in Nat \ {0}
    BY <1>2, ParentIn
  <1>4. 1 \in 1..Len(p) /\ 1 \in 0..Len(p)
    BY <1>3
  <1>5. Upto(p, 1) \in DOMAIN parts[k] /\ Len(Upto(p, 1)) = 1 /\ Below(Upto(p, 1), p)
    BY <1>2, <1>3, <1>4, UptoIs, UptoOf DEF Closed
  <1> QED
    BY <1>1, <1>5 DEF Waits

\* So no line has been lost.
LEMMA InitLoss == Init => LossInv
  <1> SUFFICES ASSUME Init, Declarative PROVE LossInv
    BY DEF LossInv
  <1>1. DOMAIN output = {} /\ \A i \in DOMAIN todo : todo[i].at = <<>>
    <2>1. DOMAIN output = {}
      BY DEF Init
    <2> QED
      BY <2>1, InitTodo
  <1>2. LinesOK
    <2>1. output = [q \in DOMAIN output |-> output[q]]
      BY DEF Init
    <2> QED
      BY <1>1, <2>1 DEF LinesOK
  <1>3. \A i \in DOMAIN todo : AroundIn(output, log, parts[todo[i].part], todo[i])
    BY <1>1 DEF AroundIn, Stand
  <1>4. ASSUME NEW k \in DOMAIN parts, NEW p \in DOMAIN parts[k]
        PROVE  KeptIn(todo, output, log, k, parts[k], p)
    BY InitWaits DEF KeptIn
  <1> QED
    BY <1>2, <1>3, <1>4, LossInvIs

\* Whatever the parts say, no line of theirs disappears in silence while nobody's
\* MergeFunc or resolver decides: it waits, the output has its value, or a
\* diagnostic names it or a section that holds it (merge.slot, merge.combine,
\* UnionLists).
THEOREM NothingIsLostSilently == Spec => []NothingLostSilently
  <1>1. SInv /\ LossInv => NothingLostSilently
    <2> SUFFICES ASSUME SInv, LossInv, Declarative,
                        NEW k \in DOMAIN parts, NEW p \in DOMAIN parts[k]
                 PROVE  Pending(k, p) \/ Holds(k, p) \/ Reported(k, p)
      BY DEF NothingLostSilently
    <2>1. KeptIn(todo, output, log, k, parts[k], p)
      BY LossInvIs
    <2>2. Closed(parts[k]) /\ Closed(output)
      BY PartsAre, ConfigurationIs DEF SInv
    <2>3. p \in Path /\ Len(p) \in Nat \ {0}
      BY <2>2, ParentIn
    <2>4. Waits(todo, k, p) => Pending(k, p)
      BY DEF Waits, Pending
    <2>5. Told(log, parts[k], p) => Reported(k, p)
      BY DEF Told, Reported, Upto
    <2>6. ASSUME Stands(output, parts[k], p) PROVE Holds(k, p)
      <3>1. PICK q \in DOMAIN output : Len(q) = Len(p) /\ Stand(output, q, parts[k], p, Len(p))
        BY <2>6 DEF Stands
      <3>2. q \in Path
        BY <2>2 DEF Closed
      <3>3. MergePath(output, q) = MergePath(parts[k], p)
        BY <2>3, <3>1, <3>2, SameSlots DEF Stand, Matches
      <3>4. Upto(q, Len(q)) = q /\ Upto(p, Len(p)) = p /\ Len(p) \in 1..Len(p)
        BY <2>3, <3>1, <3>2, UptoOf
      <3>5. Matches(output[q], parts[k][p])
        BY <3>1, <3>4 DEF Stand
      <3> QED
        BY <3>3, <3>5 DEF Matches, Holds
    <2> QED
      BY <2>1, <2>4, <2>5, <2>6 DEF KeptIn
  <1> QED
    BY <1>1, InitSInv, NextSInv, InitLoss, NextLoss, PTL DEF Spec

-----------------------------------------------------------------------------
(* The order of the worklist.                                              *)

\* Neither line is below the other.
Apart(p, q) == ~Below(p, q) /\ ~Below(q, p)

\* Items come part by part, and no item of a part is below another.
InOrder(items) ==
    \A i, j \in DOMAIN items : i < j =>
        \/ items[i].part < items[j].part
        \/ items[i].part = items[j].part /\ Apart(items[i].from, items[j].from)

\* The items of first are the lines below the folded line, joining the level of
\* the line that claims its slot, or there are none.
Inner(first, s) ==
    \/ first = <<>>
    \/ /\ first = LevelItems(s, Item.part, Item.from)
       /\ s \in DOMAIN output /\ IsChild(Item.at, s)
       /\ MergeIdent(output[s]) = MergeIdent(Line)

\* What is below a line stays apart from what the line is apart from.
LEMMA ApartBelow ==
    ASSUME NEW p \in Path, NEW q \in Path, NEW r \in Path, Apart(p, q), Below(p, r)
    PROVE  Apart(r, q)
  <1>1. ~Below(r, q)
    BY BelowTwice DEF Apart
  <1>2. ASSUME Below(q, r) PROVE FALSE
    <2>1. Len(p) \in Nat /\ Len(q) \in Nat
      BY DEF Path
    <2>2. Len(p) <= Len(q) => Below(p, q)
      BY <1>2, BelowTwice
    <2>3. Len(q) <= Len(p) => Below(q, p)
      BY <1>2, BelowTwice
    <2> QED
      BY <2>1, <2>2, <2>3 DEF Apart
  <1> QED
    BY <1>1, <1>2 DEF Apart

\* Different children of a line are apart.
LEMMA ChildrenApart ==
    ASSUME NEW p \in Path, NEW a \in Nat, NEW b \in Nat, a # b
    PROVE  Apart(Append(p, a), Append(p, b))
  <1>1. /\ Append(p, a) \in Path /\ Append(p, b) \in Path
        /\ Len(Append(p, a)) = Len(p) + 1 /\ Len(Append(p, b)) = Len(p) + 1
        /\ Append(p, a)[Len(p) + 1] = a /\ Append(p, b)[Len(p) + 1] = b
    BY AppendIs
  <1>2. Append(p, a) # Append(p, b)
    BY <1>1
  <1> QED
    BY <1>1, <1>2, BelowTwice DEF Apart

\* The folded line makes way for some of the lines below it.
LEMMA FoldInOrder ==
    ASSUME SInv, InOrder(todo), todo # <<>>, NEW first, NEW s \in Path, Fold(first),
           Inner(first, s)
    PROVE  InOrder(todo)'
  <1> DEFINE r == todo'
  <1>0. /\ Item \in Items /\ Item = todo[1] /\ 1 \in DOMAIN todo /\ todo \in Seq(Items)
        /\ Item.part \in DOMAIN parts /\ Item.from \in DOMAIN parts[Item.part]
        /\ Item.from \in Path /\ r = first \o Tail(todo)
    BY ItemIs, AroundItem DEF SInv, TodoOK, Fold
  <1>1. /\ first \in Seq(Items)
        /\ \A j \in DOMAIN first :
            /\ j \in Nat /\ first[j].part = Item.part /\ first[j].from = Append(Item.from, j)
    <2>1. CASE first = <<>>
      BY <2>1
    <2>2. CASE first = LevelItems(s, Item.part, Item.from)
      <3> DEFINE k == Item.part
                 p == Item.from
                 L == LevelItems(s, k, p)
      <3>1. InputsOK /\ k \in DOMAIN parts /\ p \in DOMAIN parts[k] \cup {<<>>}
        BY <1>0 DEF SInv
      <3> HIDE DEF k, p
      <3>2. /\ L \in Seq(Items)
            /\ \A j \in DOMAIN L :
                /\ j \in Nat /\ Append(p, j) \in DOMAIN parts[k]
                /\ L[j] = [at |-> s, part |-> k, from |-> Append(p, j)]
        BY <3>1, LevelItemsAre
      <3>3. first = L
        BY <2>2 DEF k, p
      <3> HIDE DEF L
      <3>4. \A j \in DOMAIN first : j \in Nat /\ first[j].part = k /\ first[j].from = Append(p, j)
        BY <3>2, <3>3
      <3> QED
        BY <3>2, <3>3, <3>4 DEF k, p
    <2> QED
      BY <2>1, <2>2 DEF Inner
  <1> HIDE DEF r
  <1>2. /\ r \in Seq(Items) /\ Len(todo) \in Nat \ {0} /\ 1 \in DOMAIN todo
        /\ \A i \in DOMAIN r :
            \/ i \in DOMAIN first /\ r[i] = first[i]
            \/ /\ i - Len(first) + 1 \in DOMAIN todo /\ i > Len(first)
               /\ i - Len(first) + 1 > 1
               /\ r[i] = todo[i - Len(first) + 1]
        /\ \A i \in DOMAIN first : i \in DOMAIN r /\ r[i] = first[i]
        /\ \A i \in DOMAIN todo : i > 1 =>
            /\ i - 1 + Len(first) \in DOMAIN r
            /\ r[i - 1 + Len(first)] = todo[i]
    <2>1. todo \in Seq(Items) /\ todo # <<>> /\ first \in Seq(Items)
      BY <1>0, <1>1
    <2>2. todo' \in Seq(Items) /\ Continues(todo', todo, first)
      BY <2>1, FoldedItems
    <2>3. r \in Seq(Items) /\ Continues(r, todo, first)
      BY <2>2 DEF r
    <2> QED
      BY <2>3 DEF Continues
  <1>3. /\ Len(first) \in Nat /\ DOMAIN first = 1..Len(first)
        /\ \A i \in DOMAIN r : i \in Nat
        /\ \A i \in DOMAIN todo : i \in Nat /\ todo[i].from \in Path
    <2>1. first \in Seq(Items) /\ r \in Seq(Items) /\ todo \in Seq(Items)
      BY <1>0, <1>1, <1>2
    <2>2. \A i \in DOMAIN todo : i \in Nat /\ todo[i] \in Items
      BY <2>1
    <2>3. (\A i \in DOMAIN r : i \in Nat) /\ Len(first) \in Nat /\ DOMAIN first = 1..Len(first)
      BY <2>1
    <2> QED
      BY <2>2, <2>3 DEF Items
  <1>4. ASSUME NEW i \in DOMAIN r, NEW j \in DOMAIN r, i < j
        PROVE  \/ r[i].part < r[j].part
               \/ r[i].part = r[j].part /\ Apart(r[i].from, r[j].from)
    <2>1. CASE j \in DOMAIN first /\ r[j] = first[j]
      <3>1. i \in DOMAIN first
        <4>1. i \in DOMAIN first \/ i > Len(first)
          BY <1>2
        <4> QED
          BY <1>3, <1>4, <2>1, <4>1
      <3>2. /\ r[i].part = Item.part /\ r[i].from = Append(Item.from, i) /\ i \in Nat
            /\ r[j].part = Item.part /\ r[j].from = Append(Item.from, j) /\ j \in Nat
        BY <1>1, <1>2, <2>1, <3>1
      <3>3. i # j
        BY <1>4, <3>2
      <3>4. Apart(Append(Item.from, i), Append(Item.from, j))
        BY <1>0, <3>2, <3>3, ChildrenApart
      <3> QED
        BY <3>2, <3>4
    <2>2. CASE j - Len(first) + 1 \in DOMAIN todo /\ j - Len(first) + 1 > 1
               /\ r[j] = todo[j - Len(first) + 1]
      <3> DEFINE n == j - Len(first) + 1
      <3>0. n \in DOMAIN todo /\ n > 1 /\ r[j] = todo[n] /\ n \in Nat
        BY <1>3, <2>2
      <3>1. CASE i \in DOMAIN first /\ r[i] = first[i]
        <4>1. /\ r[i].part = Item.part /\ r[i].from = Append(Item.from, i) /\ i \in Nat
          BY <1>1, <3>1
        <4>2. \/ Item.part < todo[n].part
              \/ Item.part = todo[n].part /\ Apart(Item.from, todo[n].from)
          <5> HIDE DEF n
          <5> QED
            BY <1>0, <3>0 DEF InOrder
        <4>3. Append(Item.from, i) \in Path /\ Below(Item.from, Append(Item.from, i))
          BY <1>0, <4>1, AppendIs, ChildIs
        <4> HIDE DEF n
        <4>4. Apart(Item.from, todo[n].from) => Apart(Append(Item.from, i), todo[n].from)
          BY <1>0, <1>3, <3>0, <4>3, ApartBelow
        <4> QED
          BY <3>0, <4>1, <4>2, <4>4
      <3>2. CASE i - Len(first) + 1 \in DOMAIN todo /\ r[i] = todo[i - Len(first) + 1]
        <4> DEFINE m == i - Len(first) + 1
        <4>1. m \in DOMAIN todo /\ r[i] = todo[m] /\ m < n
          BY <1>3, <1>4, <3>2
        <4> HIDE DEF m, n
        <4> QED
          BY <3>0, <4>1 DEF InOrder
      <3> QED
        BY <1>2, <3>1, <3>2
    <2> QED
      BY <1>2, <2>1, <2>2
  <1> QED
    BY <1>4 DEF InOrder, r

\* What a step does to the worklist.
LEMMA StepFolds ==
    ASSUME SInv, [Next]_mergeVars
    PROVE  \/ todo' = todo /\ output' = output
           \/ /\ todo # <<>>
              /\ \E first : \E s \in Path : Fold(first) /\ Inner(first, s)
  <1> DEFINE Folds(first, s) == Fold(first) /\ Inner(first, s)
  <1>1. ASSUME todo # <<>>, Fold(<<>>)
        PROVE  \E first : \E s \in Path : Folds(first, s)
    BY <1>1, RootIsPath DEF Inner
  <1>2. CASE NewSlot
    BY <1>1, <1>2 DEF NewSlot
  <1>3. CASE Agree
    <2>1. todo # <<>> /\ Claimants(Item) # {}
      BY <1>3 DEF Agree, Meets
    <2>2. /\ Slot \in Path /\ Slot \in DOMAIN output /\ IsChild(Item.at, Slot)
          /\ MergeIdent(output[Slot]) = MergeIdent(Line)
      <3>1. Closed(output) /\ Item.at \in Path
        BY <2>1, AroundItem DEF SInv
      <3> QED
        BY <2>1, <3>1, ClaimantIs DEF Slot, Line
    <2>3. Folds(<<>>, Slot) \/ Folds(Shared, Slot)
      BY <1>3, <2>2 DEF Agree, Shared, Inner
    <2> HIDE DEF Folds
    <2>4. \E first : \E s \in Path : Folds(first, s)
      BY <2>2, <2>3
    <2> QED
      BY <2>1, <2>4 DEF Folds
  <1>4. CASE Resolve
    BY <1>4 DEF Resolve
  <1>5. ASSUME Conflict, Fold(<<>>)
        PROVE  todo # <<>> /\ \E first : \E s \in Path : Folds(first, s)
    BY <1>1, <1>5, SlotIs
  <1>6. CASE Combine
    <2>1. /\ Conflict /\ todo # <<>> /\ slot = Slot /\ slot \in Path /\ slot \in DOMAIN output
          /\ IsChild(Item.at, slot) /\ MergeIdent(output[slot]) = MergeIdent(Line)
      BY <1>6, SlotIs DEF Combine, Decided, SInv, ConflictOK, Held
    <2>2. Folds(<<>>, slot) \/ Folds(Shared, slot)
      BY <1>6, <2>1 DEF Combine, Shared, Inner
    <2> HIDE DEF Folds
    <2>3. \E first : \E s \in Path : Folds(first, s)
      BY <2>1, <2>2
    <2> QED
      BY <2>1, <2>3 DEF Folds
  <1>7. CASE UNCHANGED mergeVars
    BY <1>7 DEF mergeVars
  <1> QED
    BY <1>2, <1>3, <1>4, <1>5, <1>6, <1>7
       DEF Next, Refused, RejectFresh, RefuseChildless, RefuseMix, KeepEarlier, TakeLater,
           TakeFresh, KeepsEarlier, Decided, Returned

\* Every step keeps the order.
LEMMA NextInOrder == SInv /\ InOrder(todo) /\ [Next]_mergeVars => InOrder(todo)'
  <1> SUFFICES ASSUME SInv, InOrder(todo), [Next]_mergeVars PROVE InOrder(todo)'
    OBVIOUS
  <1>1. CASE todo' = todo
    BY <1>1 DEF InOrder
  <1>2. ASSUME todo # <<>>, NEW first, NEW s \in Path, Fold(first), Inner(first, s)
        PROVE  InOrder(todo)'
    BY <1>2, FoldInOrder
  <1> QED
    BY <1>1, <1>2, StepFolds

\* The top levels come part by part.
LEMMA InitInOrder == Init => InOrder(todo)
  <1> SUFFICES ASSUME Init, NEW i \in DOMAIN todo, NEW j \in DOMAIN todo, i < j
               PROVE  \/ todo[i].part < todo[j].part
                      \/ todo[i].part = todo[j].part /\ Apart(todo[i].from, todo[j].from)
    BY DEF InOrder
  <1>1. /\ ItemBefore(todo[i], todo[j]) /\ todo \in Seq(Items)
        /\ Len(todo[i].from) = 1 /\ Len(todo[j].from) = 1
    BY InitTodo
  <1>2. todo[i].from \in Path /\ todo[j].from \in Path
    <2>1. todo[i] \in Items /\ todo[j] \in Items
      BY <1>1
    <2> QED
      BY <2>1 DEF Items
  <1>3. todo[i].from # todo[j].from => Apart(todo[i].from, todo[j].from)
    <2> DEFINE p == todo[i].from
               q == todo[j].from
    <2>1. p \in Path /\ q \in Path /\ Len(p) = Len(q)
      BY <1>1, <1>2
    <2> HIDE DEF p, q
    <2>2. p # q => Apart(p, q)
      BY <2>1, BelowTwice DEF Apart
    <2> QED
      BY <2>2 DEF p, q
  <1> QED
    BY <1>1, <1>3 DEF ItemBefore

-----------------------------------------------------------------------------
(* Parts that agree.                                                       *)

\* Output line q is a copy of line p of c.
Copies(out, q, c, p) == MergePath(out, q) = MergePath(c, p) /\ out[q] = c[p]

\* Output line q is a copy of a line of a part that has been folded.
Settled(ps, items, out, q) ==
    \E k \in DOMAIN ps : \E p \in DOMAIN ps[k] :
        Copies(out, q, ps[k], p) /\ ~Waits(items, k, p)

\* Line p of part k waits, or the output has a line in its slot.
Known(items, out, k, c, p) ==
    Waits(items, k, p) \/ \E q \in DOMAIN out : MergePath(out, q) = MergePath(c, p)

AgreeInv ==
    Agreed =>
        /\ log = {} /\ ~Conflict
        /\ \A q \in DOMAIN output : Settled(parts, todo, output, q)
        /\ \A k \in DOMAIN parts : \A p \in DOMAIN parts[k] :
            Known(todo, output, k, parts[k], p)

\* Folding a line makes no other line wait, and what is cloned waits no more.
LEMMA WaitsLess ==
    ASSUME SInv, InOrder(todo), todo # <<>>, NEW first, NEW s \in Path, Fold(first),
           Inner(first, s), NEW k, NEW p \in Path
    PROVE  /\ Waits(todo', k, p) => Waits(todo, k, p)
           /\ first = <<>> /\ k = Item.part /\ Below(Item.from, p) => ~Waits(todo', k, p)
  <1> DEFINE r == todo'
             L == LevelItems(s, Item.part, Item.from)
  <1>0. /\ Item = todo[1] /\ 1 \in DOMAIN todo /\ todo \in Seq(Items)
        /\ Item.part \in DOMAIN parts /\ Item.from \in Path /\ r = first \o Tail(todo)
    BY ItemIs, AroundItem DEF SInv, TodoOK, Fold
  <1>1. /\ first \in Seq(Items)
        /\ \A i \in DOMAIN first :
            /\ first[i].part = Item.part
            /\ first[i].from \in Path /\ Below(Item.from, first[i].from)
    <2>1. /\ L \in Seq(Items)
          /\ \A i \in DOMAIN L :
                /\ L[i].at = s /\ L[i].part = Item.part
                /\ L[i].from \in Path /\ Below(Item.from, L[i].from)
      BY BelowItem
    <2>2. CASE first = <<>>
      BY <2>2
    <2>3. CASE first = L
      BY <2>1, <2>3
    <2> QED
      BY <2>2, <2>3 DEF Inner
  <1> HIDE DEF r, L
  <1>2. /\ r \in Seq(Items) /\ Len(todo) \in Nat \ {0} /\ 1 \in DOMAIN todo
        /\ \A i \in DOMAIN r :
            \/ i \in DOMAIN first /\ r[i] = first[i]
            \/ /\ i - Len(first) + 1 \in DOMAIN todo /\ i > Len(first)
               /\ i - Len(first) + 1 > 1
               /\ r[i] = todo[i - Len(first) + 1]
        /\ \A i \in DOMAIN first : i \in DOMAIN r /\ r[i] = first[i]
        /\ \A i \in DOMAIN todo : i > 1 =>
            /\ i - 1 + Len(first) \in DOMAIN r
            /\ r[i - 1 + Len(first)] = todo[i]
    <2>1. todo \in Seq(Items) /\ todo # <<>> /\ first \in Seq(Items)
      BY <1>0, <1>1
    <2>2. todo' \in Seq(Items) /\ Continues(todo', todo, first)
      BY <2>1, FoldedItems
    <2>3. r \in Seq(Items) /\ Continues(r, todo, first)
      BY <2>2 DEF r
    <2> QED
      BY <2>3 DEF Continues
  <1>3. ASSUME NEW i \in DOMAIN r, r[i].part = k, Below(r[i].from, p)
        PROVE  /\ Waits(todo, k, p)
               /\ ~(first = <<>> /\ k = Item.part /\ Below(Item.from, p))
    <2>1. CASE i \in DOMAIN first /\ r[i] = first[i]
      <3>1. first # <<>>
        BY <2>1
      <3>2. Item.part = k /\ Below(Item.from, p)
        BY <1>0, <1>1, <1>3, <2>1, BelowTwice
      <3> QED
        BY <1>0, <3>1, <3>2 DEF Waits
    <2>2. CASE i - Len(first) + 1 \in DOMAIN todo /\ i - Len(first) + 1 > 1
               /\ r[i] = todo[i - Len(first) + 1]
      <3> DEFINE n == i - Len(first) + 1
      <3>1. n \in DOMAIN todo /\ 1 < n /\ r[i] = todo[n]
        <4>1. i \in Nat /\ Len(first) \in Nat
          BY <1>1, <1>2
        <4> QED
          BY <2>2, <4>1
      <3> HIDE DEF n
      <3>2. Waits(todo, k, p)
        BY <1>3, <3>1 DEF Waits
      <3>3. ASSUME k = Item.part, Below(Item.from, p) PROVE FALSE
        <4>1. /\ todo[n].part = Item.part /\ Below(todo[n].from, p)
          BY <1>3, <3>1, <3>3
        <4>2. todo[n] \in Items /\ Item.part \in Nat
          <5>1. todo[n] \in Items
            BY <1>0, <3>1
          <5>2. parts \in Seq(ToSet(parts))
            BY PartsAre DEF SInv
          <5> QED
            BY <1>0, <5>1, <5>2
        <4>3. todo[n].from \in Path
          BY <4>2 DEF Items
        <4>4. Apart(Item.from, todo[n].from)
          BY <1>0, <3>1, <4>1, <4>2 DEF InOrder
        <4>5. Apart(p, todo[n].from)
          BY <1>0, <3>3, <4>3, <4>4, ApartBelow
        <4> QED
          BY <4>1, <4>5 DEF Apart
      <3> QED
        BY <3>2, <3>3
    <2> QED
      BY <1>2, <2>1, <2>2
  <1> QED
    BY <1>3 DEF Waits, r

\* What meets the line of another part has its value.
LEMMA AgreedMeets ==
    ASSUME SInv, AgreeInv, Agreed, Meets
    PROVE  ~Contested(output[Slot], Line)
  <1>1. /\ todo # <<>> /\ Claimants(Item) # {} /\ Closed(output)
        /\ Item.at \in Path /\ Item.from \in Path /\ Item.part \in DOMAIN parts
        /\ Item.from \in DOMAIN parts[Item.part] /\ Item = todo[1] /\ 1 \in DOMAIN todo
    BY AroundItem, ItemIs DEF Meets, SInv
  <1>2. /\ Slot \in DOMAIN output /\ IsChild(Item.at, Slot)
        /\ MergeIdent(output[Slot]) = MergeIdent(Line)
    BY <1>1, ClaimantIs DEF Slot, Line
  <1>3. MergePath(parts[Item.part], Item.from) = MergePath(output, Slot)
    BY <1>1, <1>2, ItemSlot
  <1>4. PICK k \in DOMAIN parts : \E p \in DOMAIN parts[k] :
            Copies(output, Slot, parts[k], p) /\ ~Waits(todo, k, p)
    BY <1>2 DEF AgreeInv, Settled
  <1>5. PICK p \in DOMAIN parts[k] : Copies(output, Slot, parts[k], p) /\ ~Waits(todo, k, p)
    BY <1>4
  <1>6. <<k, p>> # <<Item.part, Item.from>>
    <2>1. Below(Item.from, Item.from)
      BY <1>1, BelowTwice
    <2>2. Waits(todo, Item.part, Item.from)
      BY <1>1, <2>1 DEF Waits
    <2> QED
      BY <1>5, <2>2
  <1>7. MergePath(parts[k], p) = MergePath(parts[Item.part], Item.from)
    BY <1>3, <1>5 DEF Copies
  <1>8. /\ SameValue(parts[k][p], parts[Item.part][Item.from])
        /\ Schema[parts[k][p].def].merge = "Default"
    BY <1>1, <1>6, <1>7 DEF Agreed
  <1>9. Schema[parts[Item.part][Item.from].def].merge = "Default"
    <2>1. <<Item.part, Item.from>> # <<k, p>>
      BY <1>6
    <2> QED
      BY <1>1, <1>7, <2>1 DEF Agreed
  <1> QED
    BY <1>5, <1>8, <1>9 DEF Copies, Contested, DeclaredStrategy, Line, Folded

\* Agreement is kept if the output keeps its lines and says what is in every slot
\* of the folded lines.
LEMMA AgreeFold ==
    ASSUME SInv, InOrder(todo), AgreeInv, Agreed, todo # <<>>,
           NEW first, NEW s \in Path, Fold(first), Inner(first, s), log' = log,
           \A x \in DOMAIN output :
                /\ x \in DOMAIN output' /\ output'[x] = output[x]
                /\ MergePath(output', x) = MergePath(output, x),
           \A x \in DOMAIN output' : x \notin DOMAIN output => Settled(parts, todo', output', x),
           \A p \in DOMAIN parts[Item.part] : Below(Item.from, p) =>
                Known(todo', output', Item.part, parts[Item.part], p)
    PROVE  AgreeInv'
  <1>1. /\ parts' = parts /\ answer' = NoAnswer /\ log = {} /\ ~Conflict
        /\ Item.part \in DOMAIN parts
        /\ \A k \in DOMAIN parts : \A p \in DOMAIN parts[k] : p \in Path
    BY AroundItem, PartsAre, ConfigurationIs DEF Fold, AgreeInv, SInv, Closed
  <1>2. ASSUME NEW x \in DOMAIN output' PROVE Settled(parts, todo', output', x)
    <2>1. CASE x \in DOMAIN output
      <3>1. PICK k \in DOMAIN parts : \E p \in DOMAIN parts[k] :
                Copies(output, x, parts[k], p) /\ ~Waits(todo, k, p)
        BY <2>1 DEF AgreeInv, Settled
      <3>2. PICK p \in DOMAIN parts[k] : Copies(output, x, parts[k], p) /\ ~Waits(todo, k, p)
        BY <3>1
      <3>3. p \in Path
        BY <1>1
      <3>4. ~Waits(todo', k, p)
        BY <3>2, <3>3, WaitsLess
      <3>5. Copies(output', x, parts[k], p)
        BY <2>1, <3>2 DEF Copies
      <3> QED
        BY <3>4, <3>5 DEF Settled
    <2>2. CASE x \notin DOMAIN output
      BY <2>2
    <2> QED
      BY <2>1, <2>2
  <1>3. ASSUME NEW k \in DOMAIN parts, NEW p \in DOMAIN parts[k]
        PROVE  Known(todo', output', k, parts[k], p)
    <2>1. Known(todo, output, k, parts[k], p)
      BY DEF AgreeInv
    <2>2. CASE Waits(todo, k, p)
      <3>1. first \in Seq(Items)
        <4>1. LevelItems(s, Item.part, Item.from) \in Seq(Items)
          BY BelowItem
        <4>2. CASE first = <<>>
          BY <4>2
        <4> QED
          BY <4>1, <4>2 DEF Inner
      <3>2. Waits(todo', k, p) \/ (k = Item.part /\ Below(Item.from, p))
        BY <2>2, <3>1, StillWaits
      <3> QED
        BY <3>2 DEF Known
    <2>3. CASE \E q \in DOMAIN output : MergePath(output, q) = MergePath(parts[k], p)
      <3>1. PICK q \in DOMAIN output : MergePath(output, q) = MergePath(parts[k], p)
        BY <2>3
      <3>2. q \in DOMAIN output' /\ MergePath(output', q) = MergePath(parts[k], p)
        BY <3>1
      <3> QED
        BY <3>2 DEF Known
    <2> QED
      BY <2>1, <2>2, <2>3 DEF Known
  <1>4. log' = {} /\ ~Conflict'
    BY <1>1 DEF Conflict
  <1> QED
    BY <1>1, <1>2, <1>3, <1>4 DEF AgreeInv

\* The line is cloned.
LEMMA NewSlotAgree ==
    ASSUME SInv, InOrder(todo), AgreeInv, Agreed, NewSlot
    PROVE  AgreeInv'
  <1> DEFINE q == Append(Item.at, Len(Kids(output, Item.at)) + 1)
             c == parts[Item.part]
  <1>1. todo # <<>> /\ Fold(<<>>) /\ PlaceClone(Item, q) /\ log' = log
    BY DEF NewSlot
  <1>2. Site(Item, q) /\ q \notin DOMAIN output
    BY NewSlotIs
  <1> HIDE DEF q
  <1>3. CloneAt(Item, q)
    BY <1>1, <1>2, CloneFold
  <1>4. /\ Item.part \in DOMAIN parts /\ Item.from \in Path
        /\ q \in Path /\ q # <<>> /\ \A k \in DOMAIN parts : Closed(parts[k])
        /\ Closed(output)
    <2>1. IsChild(Item.at, q) /\ q \in Path /\ Item.at \in Path
      BY <1>1, <1>2, AroundItem DEF Site
    <2>2. q # <<>>
      BY <2>1, ChildIs
    <2> QED
      BY <1>1, <2>1, <2>2, AroundItem, PartsAre, ConfigurationIs DEF SInv
  <1>5. ASSUME NEW x \in DOMAIN output
        PROVE  /\ ~Below(q, x) /\ x \in DOMAIN output' /\ output'[x] = output[x]
               /\ MergePath(output', x) = MergePath(output, x)
    <2>1. ~Below(q, x)
      BY <1>2, <1>4, NoneBelow
    <2> QED
      BY <1>3, <2>1, ClonePlaced, CloneSlots
  <1> DEFINE none == <<>>
  <1>6. Inner(none, <<>>) /\ <<>> \in Path /\ none = <<>> /\ Fold(none)
    BY <1>1, RootIsPath DEF Inner
  <1> HIDE DEF none
  <1>7. ASSUME NEW y \in DOMAIN c, Below(Item.from, y)
        PROVE  /\ Rel(Item.from, q, y) \in DOMAIN output'
               /\ Copies(output', Rel(Item.from, q, y), c, y)
               /\ ~Waits(todo', Item.part, y)
    <2>1. y \in Path
      BY <1>4 DEF Closed
    <2>2. ~Waits(todo', Item.part, y)
      BY <1>1, <1>6, <1>7, <2>1, WaitsLess
    <2> QED
      BY <1>3, <1>7, <2>2, ClonePlaced, CloneSlots DEF Copies
  <1>8. ASSUME NEW x \in DOMAIN output', x \notin DOMAIN output
        PROVE  Settled(parts, todo', output', x)
    <2>1. PICK y \in DOMAIN c : Below(Item.from, y) /\ x = Rel(Item.from, q, y)
      BY <1>3, <1>8, ClonePlaced
    <2> QED
      BY <1>4, <1>7, <2>1 DEF Settled
  <1>9. ASSUME NEW p \in DOMAIN c, Below(Item.from, p)
        PROVE  Known(todo', output', Item.part, c, p)
    BY <1>7, <1>9 DEF Known, Copies
  <1> QED
    BY <1>1, <1>5, <1>6, <1>8, <1>9, AgreeFold

\* The sections are merged.
LEMMA AgreeAgree ==
    ASSUME SInv, InOrder(todo), AgreeInv, Agreed, Agree
    PROVE  AgreeInv'
  <1> DEFINE first == IF IsSection(Line.def) THEN Shared ELSE <<>>
             c == parts[Item.part]
  <1>1. /\ todo # <<>> /\ Claimants(Item) # {} /\ Fold(first)
        /\ output' = output /\ log' = log
    BY DEF Agree, Meets
  <1>2. /\ Slot \in DOMAIN output /\ IsChild(Item.at, Slot) /\ Slot \in Path
        /\ MergeIdent(output[Slot]) = MergeIdent(Line)
    <2>1. Closed(output) /\ Item.at \in Path
      BY <1>1, AroundItem DEF SInv
    <2> QED
      BY <1>1, <2>1, ClaimantIs DEF Slot, Line
  <1>3. MergePath(c, Item.from) = MergePath(output, Slot)
    BY <1>1, <1>2, ItemSlot
  <1>4. Inner(first, Slot)
    BY <1>2 DEF Inner, Shared
  <1>5. /\ first \in Seq(Items)
        /\ \A p \in DOMAIN c : Below(Item.from, p) /\ p # Item.from => Waits(first, Item.part, p)
    <2> DEFINE L == LevelItems(Slot, Item.part, Item.from)
    <2>1. /\ L \in Seq(Items)
          /\ \A p \in DOMAIN c : Below(Item.from, p) /\ p # Item.from =>
                IsSection(Line.def) /\ Waits(L, Item.part, p)
      BY <1>1, <1>2, BelowItem
    <2>2. CASE IsSection(Line.def)
      <3>1. first = L
        BY <2>2 DEF Shared
      <3> HIDE DEF first, L, c
      <3> QED
        BY <2>1, <3>1
    <2>3. CASE ~IsSection(Line.def)
      <3>1. first = <<>>
        BY <2>3
      <3> HIDE DEF first, L, c
      <3> QED
        BY <2>1, <2>3, <3>1
    <2> QED
      BY <2>2, <2>3
  <1> HIDE DEF first, c
  <1>6. ASSUME NEW p \in DOMAIN c, Below(Item.from, p)
        PROVE  Known(todo', output', Item.part, c, p)
    <2>1. CASE p # Item.from
      <3>1. Waits(todo', Item.part, p)
        BY <1>1, <1>5, <1>6, <2>1, StillWaits
      <3> QED
        BY <3>1 DEF Known
    <2>2. CASE p = Item.from
      BY <1>1, <1>2, <1>3, <2>2 DEF Known
    <2> QED
      BY <2>1, <2>2
  <1> QED
    BY <1>1, <1>2, <1>4, <1>6, AgreeFold DEF c

\* If the parts agree, every step clones or descends.
LEMMA NextAgree == SInv /\ InOrder(todo) /\ AgreeInv /\ [Next]_mergeVars => AgreeInv'
  <1> SUFFICES ASSUME SInv, InOrder(todo), AgreeInv, [Next]_mergeVars PROVE AgreeInv'
    OBVIOUS
  <1>1. parts' = parts
    BY StepIs
  <1>2. CASE ~Agreed
    BY <1>1, <1>2 DEF AgreeInv, Agreed
  <1>3. CASE Agreed
    <2>1. CASE NewSlot
      BY <1>3, <2>1, NewSlotAgree
    <2>2. CASE Agree
      BY <1>3, <2>2, AgreeAgree
    <2>3. ~Resolve
      <3>1. ASSUME Resolve PROVE FALSE
        BY <1>3, <3>1, AgreedMeets DEF Resolve
      <3> QED
        BY <3>1
    <2>4. ~Conflict
      BY <1>3 DEF AgreeInv
    <2>5. CASE UNCHANGED mergeVars
      BY <2>5 DEF mergeVars, AgreeInv, Agreed, Conflict
    <2> QED
      BY <2>1, <2>2, <2>3, <2>4, <2>5
         DEF Next, Refused, RejectFresh, RefuseChildless, RefuseMix, KeepEarlier, TakeLater,
             TakeFresh, Combine, Decided, Returned
  <1> QED
    BY <1>2, <1>3

\* At first every line waits and nothing has been said.
LEMMA InitAgree == Init => AgreeInv
  <1> SUFFICES ASSUME Init, Agreed PROVE AgreeInv
    BY DEF AgreeInv
  <1>1. DOMAIN output = {} /\ log = {} /\ ~Conflict
    BY DEF Init, Conflict
  <1>2. ASSUME NEW k \in DOMAIN parts, NEW p \in DOMAIN parts[k]
        PROVE  Known(todo, output, k, parts[k], p)
    BY InitWaits DEF Known
  <1> QED
    BY <1>1, <1>2 DEF AgreeInv

\* Parts that agree merge without a diagnostic into their lines and no others,
\* for any number of parts: no resolver is asked, whatever the policy.
THEOREM AgreementStaysSilent == Spec => []AgreementIsSilent
  <1>1. SInv /\ AgreeInv => AgreementIsSilent
    <2> SUFFICES ASSUME SInv, AgreeInv, Agreed, todo = <<>>
                 PROVE  /\ log = {}
                        /\ {<<MergePath(output, q), output[q]>> : q \in DOMAIN output} =
                            UNION {{<<MergePath(parts[k], p), parts[k][p]>> : p \in DOMAIN parts[k]} :
                                    k \in DOMAIN parts}
      BY DEF AgreementIsSilent
    <2>1. \A k, p : ~Waits(todo, k, p)
      BY DEF Waits
    <2>2. ASSUME NEW q \in DOMAIN output
          PROVE  \E k \in DOMAIN parts : \E p \in DOMAIN parts[k] :
                    <<MergePath(output, q), output[q]>> = <<MergePath(parts[k], p), parts[k][p]>>
      BY DEF AgreeInv, Settled, Copies
    <2>3. ASSUME NEW k \in DOMAIN parts, NEW p \in DOMAIN parts[k]
          PROVE  \E q \in DOMAIN output :
                    <<MergePath(output, q), output[q]>> = <<MergePath(parts[k], p), parts[k][p]>>
      <3>1. PICK q \in DOMAIN output : MergePath(output, q) = MergePath(parts[k], p)
        BY <2>1 DEF AgreeInv, Known
      <3>2. PICK j \in DOMAIN parts : \E r \in DOMAIN parts[j] :
                MergePath(output, q) = MergePath(parts[j], r) /\ output[q] = parts[j][r]
        BY DEF AgreeInv, Settled, Copies
      <3>3. PICK r \in DOMAIN parts[j] :
                MergePath(output, q) = MergePath(parts[j], r) /\ output[q] = parts[j][r]
        BY <3>2
      <3>4. parts[k][p] = parts[j][r]
        <4>1. CASE <<k, p>> = <<j, r>>
          BY <4>1
        <4>2. CASE <<k, p>> # <<j, r>>
          <5>1. SameValue(parts[k][p], parts[j][r])
            BY <3>1, <3>3, <4>2 DEF Agreed
          <5>2. /\ parts[k][p] = [def |-> parts[k][p].def, f |-> parts[k][p].f,
                                  block |-> parts[k][p].block]
                /\ parts[j][r] = [def |-> parts[j][r].def, f |-> parts[j][r].f,
                                  block |-> parts[j][r].block]
            BY PartsAre, ConfigurationIs DEF SInv
          <5>3. /\ parts[k][p].def = parts[j][r].def /\ parts[k][p].f = parts[j][r].f
                /\ parts[k][p].block = parts[j][r].block
            BY <5>1, TextIs DEF SameValue
          <5> QED
            BY <5>2, <5>3
        <4> QED
          BY <4>1, <4>2
      <3> QED
        BY <3>1, <3>3, <3>4
    <2> QED
      BY <2>2, <2>3 DEF AgreeInv
  <1> QED
    BY <1>1, InitSInv, NextSInv, InitInOrder, NextInOrder, InitAgree, NextAgree, PTL DEF Spec

-----------------------------------------------------------------------------
(* Who has been folded.                                                    *)

\* A line that does not wait is of no later part than those that do.
Passed(ps, items) ==
    \A k \in DOMAIN ps : \A p \in DOMAIN ps[k] :
        Waits(items, k, p) \/ \A n \in DOMAIN items : k <= items[n].part

\* Items are numbered by parts.
LEMMA PartIsNat ==
    ASSUME InputsOK, NEW t \in Items
    PROVE  t.part \in Nat /\ t.part \in DOMAIN parts /\ t.from \in Path /\ t.at \in Path
  <1>1. parts \in Seq(ToSet(parts))
    BY PartsAre
  <1>2. t.part \in DOMAIN parts /\ t.from \in Path /\ t.at \in Path
    BY DEF Items
  <1> QED
    BY <1>1, <1>2

\* The items after a step.
LEMMA FoldedTodo ==
    ASSUME SInv, todo # <<>>, NEW first, NEW s \in Path, Fold(first), Inner(first, s)
    PROVE  /\ first \in Seq(Items)
           /\ \A n \in DOMAIN todo' :
                \/ /\ first # <<>> /\ todo'[n].part = Item.part /\ todo'[n].at = s
                \/ \E m \in DOMAIN todo : m > 1 /\ todo'[n] = todo[m]
  <1> DEFINE r == todo'
             L == LevelItems(s, Item.part, Item.from)
  <1>0. todo \in Seq(Items) /\ r = first \o Tail(todo)
    BY DEF SInv, TodoOK, Fold
  <1>1. /\ first \in Seq(Items)
        /\ \A i \in DOMAIN first : first[i].part = Item.part /\ first[i].at = s
    <2>1. /\ L \in Seq(Items)
          /\ \A i \in DOMAIN L : L[i].at = s /\ L[i].part = Item.part
      BY BelowItem
    <2>2. CASE first = <<>>
      BY <2>2
    <2>3. CASE first = L
      BY <2>1, <2>3
    <2> QED
      BY <2>2, <2>3 DEF Inner
  <1> HIDE DEF r, L
  <1>2. /\ r \in Seq(Items) /\ Len(todo) \in Nat \ {0} /\ 1 \in DOMAIN todo
        /\ \A i \in DOMAIN r :
            \/ i \in DOMAIN first /\ r[i] = first[i]
            \/ /\ i - Len(first) + 1 \in DOMAIN todo /\ i > Len(first)
               /\ i - Len(first) + 1 > 1
               /\ r[i] = todo[i - Len(first) + 1]
        /\ \A i \in DOMAIN first : i \in DOMAIN r /\ r[i] = first[i]
        /\ \A i \in DOMAIN todo : i > 1 =>
            /\ i - 1 + Len(first) \in DOMAIN r
            /\ r[i - 1 + Len(first)] = todo[i]
    <2>1. todo \in Seq(Items) /\ todo # <<>> /\ first \in Seq(Items)
      BY <1>0, <1>1
    <2>2. todo' \in Seq(Items) /\ Continues(todo', todo, first)
      BY <2>1, FoldedItems
    <2>3. r \in Seq(Items) /\ Continues(r, todo, first)
      BY <2>2 DEF r
    <2> QED
      BY <2>3 DEF Continues
  <1>3. ASSUME NEW n \in DOMAIN r
        PROVE  \/ /\ first # <<>> /\ r[n].part = Item.part /\ r[n].at = s
               \/ \E m \in DOMAIN todo : m > 1 /\ r[n] = todo[m]
    <2>1. CASE n \in DOMAIN first /\ r[n] = first[n]
      <3>1. first # <<>>
        BY <2>1
      <3> QED
        BY <1>1, <2>1, <3>1
    <2>2. CASE n - Len(first) + 1 \in DOMAIN todo /\ n - Len(first) + 1 > 1
               /\ r[n] = todo[n - Len(first) + 1]
      BY <2>2
    <2> QED
      BY <1>2, <2>1, <2>2
  <1> QED
    BY <1>1, <1>3 DEF r

\* The first item is of the first part that anything waits of.
LEMMA FirstPart ==
    ASSUME SInv, InOrder(todo), todo # <<>>, NEW m \in DOMAIN todo
    PROVE  Item.part <= todo[m].part
  <1>1. /\ Item = todo[1] /\ 1 \in DOMAIN todo /\ todo[m] \in Items /\ Item \in Items
        /\ todo \in Seq(Items)
    BY ItemIs DEF SInv, TodoOK
  <1>2. Item.part \in Nat /\ todo[m].part \in Nat
    BY <1>1, PartIsNat DEF SInv
  <1>3. m = 1 \/ 1 < m
    BY <1>1
  <1>4. 1 < m => Item.part < todo[m].part \/ Item.part = todo[m].part
    BY <1>1 DEF InOrder
  <1> QED
    BY <1>1, <1>2, <1>3, <1>4

\* Every step keeps to that.
LEMMA NextPassed ==
    ASSUME SInv, InOrder(todo), Passed(parts, todo), [Next]_mergeVars
    PROVE  Passed(parts, todo)'
  <1>0. parts' = parts
    BY StepIs
  <1>1. CASE todo' = todo
    BY <1>0, <1>1 DEF Passed
  <1>2. ASSUME todo # <<>>, NEW first, NEW s \in Path, Fold(first), Inner(first, s),
               NEW k \in DOMAIN parts, NEW p \in DOMAIN parts[k], ~Waits(todo', k, p),
               NEW n \in DOMAIN todo'
        PROVE  k <= todo'[n].part
    <2>1. ~Waits(todo, k, p) \/ k = Item.part
      <3>1. first \in Seq(Items)
        BY <1>2, FoldedTodo
      <3> QED
        BY <1>2, <3>1, StillWaits
    <2>2. \E m \in DOMAIN todo : todo'[n].part = todo[m].part
      <3>1. \/ todo'[n].part = Item.part
            \/ \E m \in DOMAIN todo : m > 1 /\ todo'[n] = todo[m]
        BY <1>2, FoldedTodo
      <3>2. Item = todo[1] /\ 1 \in DOMAIN todo
        BY <1>2, ItemIs DEF SInv
      <3> QED
        BY <3>1, <3>2
    <2>3. PICK m \in DOMAIN todo : todo'[n].part = todo[m].part
      BY <2>2
    <2>4. CASE ~Waits(todo, k, p)
      BY <2>3, <2>4 DEF Passed
    <2>5. CASE k = Item.part
      BY <1>2, <2>3, <2>5, FirstPart
    <2> QED
      BY <2>1, <2>4, <2>5
  <1>3. ASSUME todo # <<>>, NEW first, NEW s \in Path, Fold(first), Inner(first, s)
        PROVE  Passed(parts, todo')
    BY <1>2, <1>3 DEF Passed
  <1> QED
    BY <1>0, <1>1, <1>3, StepFolds

\* A top-level line is folded when everything waits to join the top level.
LEMMA RootItem ==
    ASSUME SInv, todo # <<>>, NEW p \in Path, Len(p) = 1, Below(Item.from, p)
    PROVE  /\ Item.from = p /\ Item.at = <<>>
           /\ \A n \in DOMAIN todo : todo[n].at = <<>>
  <1>1. /\ Item.at \in Path /\ Item.from \in Path /\ Len(Item.from) = Len(Item.at) + 1
        /\ \A n \in DOMAIN todo : todo[n] \in Items /\ Below(todo[n].at, Item.at)
    BY AroundItem, ItemIs DEF SInv, ItemOK
  <1>2. Len(Item.at) \in Nat /\ Len(Item.from) <= Len(p)
    <2>1. Len(Item.from) <= Len(p)
      BY <1>1, BelowIs
    <2> QED
      BY <1>1, <2>1 DEF Path
  <1>3. Len(Item.at) = 0 /\ Len(Item.from) = Len(p)
    BY <1>1, <1>2
  <1>4. Item.from = p
    BY <1>1, <1>3, BelowTwice
  <1>5. \A x \in Path : Len(x) = 0 => x = <<>>
    BY DEF Path
  <1>6. ASSUME NEW n \in DOMAIN todo PROVE todo[n].at = <<>>
    <2>1. todo[n].at \in Path /\ Below(todo[n].at, Item.at)
      BY <1>1 DEF Items
    <2>2. Len(todo[n].at) <= Len(Item.at) /\ Len(todo[n].at) \in Nat
      BY <1>1, <2>1, BelowIs DEF Path
    <2> QED
      BY <1>3, <1>5, <2>1, <2>2
  <1> QED
    BY <1>1, <1>3, <1>4, <1>5, <1>6

-----------------------------------------------------------------------------
(* Stanzas.                                                                *)

\* Two top-level lines of one slot are the same line.
LEMMA OneRoot ==
    ASSUME NEW c, Closed(c), DistinctSlots(c), NEW p \in DOMAIN c, NEW q \in DOMAIN c,
           Len(p) = 1, Len(q) = 1, MergeIdent(c[p]) = MergeIdent(c[q])
    PROVE  p = q
  <1>1. p \in Path /\ p # <<>> /\ q \in Path /\ q # <<>>
    BY DEF Closed
  <1>2. /\ Parent(p) \in Path /\ Len(Parent(p)) = 0
        /\ Parent(q) \in Path /\ Len(Parent(q)) = 0
    <2>1. ASSUME NEW x \in Path, x # <<>>, Len(x) = 1
          PROVE  Parent(x) \in Path /\ Len(Parent(x)) = 0
      <3>1. Parent(x) \in Path /\ Len(Parent(x)) = Len(x) - 1
        BY <2>1, ChildIs
      <3> QED
        BY <2>1, <3>1
    <2> QED
      BY <1>1, <2>1
  <1>3. Parent(p) = Parent(q)
    BY <1>2, SamePath
  <1> QED
    BY <1>3 DEF DistinctSlots, Siblings

\* Nothing is below a leaf.
LEMMA LeafAlone ==
    ASSUME NEW c, Closed(c), \A x \in DOMAIN c : Fits(c, x), NEW p \in DOMAIN c,
           ~IsSection(c[p].def), NEW y \in DOMAIN c, Below(p, y)
    PROVE  y = p
  <1>1. p \in Path /\ y \in Path /\ Len(p) \in Nat \ {0} /\ Len(y) \in Nat
    BY ParentIn DEF Path
  <1>2. SUFFICES ASSUME Len(p) < Len(y) PROVE FALSE
    <2>1. Len(p) <= Len(y)
      BY <1>1, BelowIs
    <2>2. Len(p) = Len(y) => y = p
      BY <1>1, BelowTwice
    <2> QED
      BY <1>1, <1>2, <2>1, <2>2
  <1> DEFINE n == Len(p) + 1
             u == Upto(y, n)
  <1>3. n \in 1..Len(y) /\ n \in 0..Len(y) /\ n # 1 /\ n > 0 /\ n - 1 = Len(p)
    BY <1>1, <1>2
  <1> HIDE DEF n
  <1>4. u \in DOMAIN c /\ Len(u) = n /\ Parent(u) = Upto(y, n - 1)
    BY <1>1, <1>3, UptoIs, UptoOf DEF Closed
  <1>5. Parent(u) = p
    BY <1>1, <1>3, <1>4, BelowUpto
  <1>6. c[u].def \in Schema[c[p].def].kids
    BY <1>3, <1>4, <1>5 DEF Fits
  <1> QED
    BY <1>6 DEF IsSection

\* The subtree of a leaf.
LEMMA LeafStanza ==
    ASSUME NEW c, Closed(c), \A x \in DOMAIN c : Fits(c, x), NEW p \in DOMAIN c,
           ~IsSection(c[p].def)
    PROVE  Subtree(c, p) = {<<SubSeq(p, Len(p) + 1, Len(p)), c[p]>>}
  <1>1. \A x \in DOMAIN c : Below(p, x) <=> x = p
    <2>1. p \in Path
      BY DEF Closed
    <2> QED
      BY <2>1, LeafAlone, BelowTwice
  <1>2. Tree(c, p) = {p}
    BY <1>1 DEF Tree
  <1> QED
    BY <1>2 DEF Subtree

\* Where a line is below the top.
LEMMA PastIs ==
    ASSUME NEW p \in Path, NEW y \in Path, Len(p) <= Len(y)
    PROVE  /\ SubSeq(y, Len(p) + 1, Len(y)) \in Path
           /\ Len(SubSeq(y, Len(p) + 1, Len(y))) = Len(y) - Len(p)
           /\ \A i \in 1..(Len(y) - Len(p)) :
                SubSeq(y, Len(p) + 1, Len(y))[i] = y[Len(p) + i]
  <1>1. Len(p) \in Nat /\ Len(y) \in Nat
    BY DEF Path
  <1> QED
    BY <1>1 DEF Path

\* The line at the top of a subtree is in it.
LEMMA StanzaTop ==
    ASSUME NEW c, Closed(c), NEW p \in DOMAIN c, NEW d, Closed(d), NEW q \in DOMAIN d,
           Subtree(c, p) = Subtree(d, q)
    PROVE  c[p] = d[q]
  <1>1. p \in Path /\ q \in Path /\ Len(p) \in Nat /\ Len(q) \in Nat
    BY DEF Closed, Path
  <1>2. p \in Tree(c, p)
    BY <1>1, BelowTwice DEF Tree
  <1>3. <<SubSeq(p, Len(p) + 1, Len(p)), c[p]>> \in Subtree(d, q)
    BY <1>2 DEF Subtree
  <1>4. PICK x \in Tree(d, q) :
            <<SubSeq(p, Len(p) + 1, Len(p)), c[p]>> = <<SubSeq(x, Len(q) + 1, Len(x)), d[x]>>
    BY <1>3 DEF Subtree
  <1>5. x \in Path /\ Below(q, x) /\ Len(q) <= Len(x) /\ Len(x) \in Nat /\ x \in DOMAIN d
    <2>1. x \in DOMAIN d /\ Below(q, x)
      BY DEF Tree
    <2>2. x \in Path
      BY <2>1 DEF Closed
    <2> QED
      BY <1>1, <2>1, <2>2, BelowIs DEF Path
  <1>6. Len(SubSeq(p, Len(p) + 1, Len(p))) = Len(p) - Len(p)
    BY <1>1, PastIs
  <1>7. Len(SubSeq(x, Len(q) + 1, Len(x))) = Len(x) - Len(q)
    BY <1>1, <1>5, PastIs
  <1>8. SubSeq(p, Len(p) + 1, Len(p)) = SubSeq(x, Len(q) + 1, Len(x)) /\ c[p] = d[x]
    BY <1>4
  <1>9. Len(x) - Len(q) = Len(p) - Len(p)
    BY <1>6, <1>7, <1>8
  <1>10. Len(q) = Len(x)
    BY <1>1, <1>5, <1>9
  <1>11. q = x
    BY <1>1, <1>5, <1>10, BelowTwice
  <1> QED
    BY <1>8, <1>11

\* A subtree whose lines stay is the same.
LEMMA SameStanza ==
    ASSUME NEW c, NEW d, NEW q,
           \A x \in DOMAIN c : Below(q, x) => x \in DOMAIN d /\ d[x] = c[x],
           \A x \in DOMAIN d : Below(q, x) => x \in DOMAIN c
    PROVE  Subtree(d, q) = Subtree(c, q)
  <1>1. Tree(d, q) = Tree(c, q) /\ \A x \in Tree(c, q) : d[x] = c[x]
    BY DEF Tree
  <1> QED
    BY <1>1 DEF Subtree

\* A clone is a copy of the whole subtree.
LEMMA CloneStanza ==
    ASSUME NEW t, NEW q, CloneAt(t, q)
    PROVE  Subtree(output', q) = Subtree(parts[t.part], t.from)
  <1> DEFINE c == parts[t.part]
  <1>1. /\ t.from \in Path /\ q \in Path /\ Len(t.from) = Len(q) /\ Closed(c)
        /\ Len(q) \in Nat
    BY CloneAtIs
  <1>2. ASSUME NEW y \in DOMAIN c, Below(t.from, y)
        PROVE  SubSeq(Rel(t.from, q, y), Len(q) + 1, Len(Rel(t.from, q, y)))
                = SubSeq(y, Len(t.from) + 1, Len(y))
    <2> DEFINE x == Rel(t.from, q, y)
               u == SubSeq(x, Len(q) + 1, Len(x))
               v == SubSeq(y, Len(t.from) + 1, Len(y))
    <2>1. y \in Path /\ Len(y) \in Nat
      BY <1>1 DEF Closed, Path
    <2>2. Len(t.from) <= Len(y)
      BY <1>1, <1>2, <2>1, BelowIs
    <2>3. /\ x \in Path /\ Len(x) = Len(q) + (Len(y) - Len(t.from))
          /\ \A i \in (Len(q) + 1)..Len(x) : x[i] = y[i - Len(q) + Len(t.from)]
      BY <1>1, <2>1, <2>2, RelIs
    <2> HIDE DEF x
    <2>4. Len(x) = Len(y) /\ Len(q) <= Len(x)
      BY <1>1, <2>1, <2>2, <2>3
    <2>5. /\ u \in Path /\ Len(u) = Len(x) - Len(q)
          /\ \A i \in 1..(Len(x) - Len(q)) : u[i] = x[Len(q) + i]
      BY <1>1, <2>3, <2>4, PastIs
    <2>6. /\ v \in Path /\ Len(v) = Len(y) - Len(t.from)
          /\ \A i \in 1..(Len(y) - Len(t.from)) : v[i] = y[Len(t.from) + i]
      BY <1>1, <2>1, <2>2, PastIs
    <2> HIDE DEF u, v
    <2>7. Len(u) = Len(v)
      BY <1>1, <2>4, <2>5, <2>6
    <2>8. ASSUME NEW i \in 1..Len(u) PROVE u[i] = v[i]
      <3>1. /\ i \in 1..(Len(x) - Len(q)) /\ i \in 1..(Len(y) - Len(t.from))
            /\ Len(q) + i \in (Len(q) + 1)..Len(x)
            /\ (Len(q) + i) - Len(q) + Len(t.from) = Len(t.from) + i
        BY <1>1, <2>1, <2>4, <2>5
      <3>2. x[Len(q) + i] = y[(Len(q) + i) - Len(q) + Len(t.from)]
        BY <2>3, <3>1
      <3> QED
        BY <2>5, <2>6, <3>1, <3>2
    <2>9. \A i \in 1..Len(u) : u[i] = v[i]
      BY <2>8
    <2>10. u = v
      BY <2>5, <2>6, <2>7, <2>9, SamePath
    <2> QED
      BY <2>10 DEF u, v, x
  <1>3. ASSUME NEW e \in Subtree(output', q) PROVE e \in Subtree(c, t.from)
    <2>1. PICK x \in DOMAIN output' : Below(q, x) /\
                e = <<SubSeq(x, Len(q) + 1, Len(x)), output'[x]>>
      BY <1>3 DEF Subtree, Tree
    <2>2. PICK y \in DOMAIN c : Below(t.from, y) /\ x = Rel(t.from, q, y)
      BY <2>1, ClonePlaced
    <2>3. output'[x] = c[y]
      BY <2>2, ClonePlaced
    <2>4. e = <<SubSeq(y, Len(t.from) + 1, Len(y)), c[y]>>
      BY <1>2, <2>1, <2>2, <2>3
    <2> QED
      BY <2>2, <2>4 DEF Subtree, Tree
  <1>4. ASSUME NEW e \in Subtree(c, t.from) PROVE e \in Subtree(output', q)
    <2>1. PICK y \in DOMAIN c : Below(t.from, y) /\
                e = <<SubSeq(y, Len(t.from) + 1, Len(y)), c[y]>>
      BY <1>4 DEF Subtree, Tree
    <2> DEFINE x == Rel(t.from, q, y)
    <2>2. x \in DOMAIN output' /\ Below(q, x) /\ output'[x] = c[y]
      BY <2>1, ClonePlaced
    <2>3. e = <<SubSeq(x, Len(q) + 1, Len(x)), output'[x]>>
      BY <1>2, <2>1, <2>2
    <2> HIDE DEF x
    <2> QED
      BY <2>2, <2>3 DEF Subtree, Tree
  <1> QED
    BY <1>3, <1>4

-----------------------------------------------------------------------------
(* Strategies.                                                             *)

\* Line r of part j is in the top-level slot of line p of part k.
Rival(ps, k, p, j, r) ==
    j # k /\ Len(r) = 1 /\ MergeIdent(ps[j][r]) = MergeIdent(ps[k][p])

\* What two lines declare between them.
Between(l, m) == {Schema[l.def].merge, Schema[m.def].merge} \ {"Default"}

\* The first part has the slot, or the last, against each of the others.
OwnsFirst(ps, k, p) ==
    \A j \in DOMAIN ps : \A r \in DOMAIN ps[j] : Rival(ps, k, p, j, r) =>
        k < j /\ Between(ps[k][p], ps[j][r]) = {"KeepFirst"}

OwnsLast(ps, k, p) ==
    \A j \in DOMAIN ps : \A r \in DOMAIN ps[j] : Rival(ps, k, p, j, r) =>
        j < k /\ Between(ps[k][p], ps[j][r]) = {"KeepLast"}

Owns(ps, k, p) == OwnsFirst(ps, k, p) \/ OwnsLast(ps, k, p)

\* No top-level line in slot i has a MergeFunc.
Tame(ps, i) ==
    \A j \in DOMAIN ps : \A r \in DOMAIN ps[j] :
        Len(r) = 1 /\ MergeIdent(ps[j][r]) = i => Schema[ps[j][r].def].merge # "Custom"

\* A line that has been folded opened the slot of output line q, and has its
\* definition if no MergeFunc decides there.
Sourced(ps, items, out, q) ==
    \E j \in DOMAIN ps : \E r \in DOMAIN ps[j] :
        /\ Len(r) = 1 /\ MergeIdent(ps[j][r]) = MergeIdent(out[q]) /\ ~Waits(items, j, r)
        /\ Tame(ps, MergeIdent(out[q])) => LineOK(ps, out[q]) /\ out[q].def = ps[j][r].def

\* The output has the stanza of line p of c, and nothing waits to join it.
HeldBy(items, out, c, p) ==
    \E q \in DOMAIN out :
        /\ Len(q) = 1 /\ MergeIdent(out[q]) = MergeIdent(c[p])
        /\ Subtree(out, q) = Subtree(c, p)
        /\ \A n \in DOMAIN items : ~Below(q, items[n].at)

RootsSourced ==
    \A q \in DOMAIN output : Len(q) = 1 => Sourced(parts, todo, output, q)

OwnersHold ==
    \A k \in DOMAIN parts : \A p \in DOMAIN parts[k] :
        Len(p) = 1 /\ Owns(parts, k, p) =>
            Waits(todo, k, p) \/ HeldBy(todo, output, parts[k], p)

DecisionInv ==
    policy # "Custom" /\ (\A k \in DOMAIN parts : DistinctSlots(parts[k])) =>
        RootsSourced /\ OwnersHold

\* What is declared between two lines decides, whichever is earlier.
LEMMA BetweenDecides ==
    ASSUME NEW l, NEW m, NEW v, Between(l, m) = {v}
    PROVE  /\ DeclaredStrategy(l, m) = v /\ DeclaredStrategy(m, l) = v /\ v # "Default"
           /\ Schema[l.def].merge \in {"Default", v}
           /\ Schema[m.def].merge \in {"Default", v}
  BY Zenon DEF Between, DeclaredStrategy

\* A folded line does not wait.
LEMMA ItemDone ==
    ASSUME SInv, SInv', InOrder(todo), todo # <<>>, NEW first, NEW s \in Path, Fold(first),
           Inner(first, s)
    PROVE  ~Waits(todo', Item.part, Item.from)
  <1>1. SUFFICES ASSUME NEW n \in DOMAIN todo', todo'[n].part = Item.part,
                        Below(todo'[n].from, Item.from)
                 PROVE  FALSE
    BY DEF Waits
  <1>2. /\ Item.at \in Path /\ Item.from \in Path /\ Len(Item.from) = Len(Item.at) + 1
        /\ Len(Item.at) \in Nat /\ Item \in Items /\ Item = todo[1] /\ 1 \in DOMAIN todo
        /\ todo \in Seq(Items)
    BY AroundItem, ItemIs DEF SInv, TodoOK, ItemOK, Path
  <1>3. todo'[n].from \in Path /\ Len(todo'[n].from) = Len(todo'[n].at) + 1
    <2>1. todo'[n] \in Items' /\ Len(todo'[n].from) = Len(todo'[n].at) + 1
      BY DEF SInv, TodoOK, ItemOK
    <2> QED
      BY <2>1 DEF Items
  <1>4. CASE first # <<>> /\ todo'[n].part = Item.part /\ todo'[n].at = s
    <2>1. Len(s) = Len(Item.at) + 1
      BY <1>2, <1>4, ChildIs DEF Inner
    <2>2. Len(todo'[n].from) <= Len(Item.from)
      BY <1>1, <1>2, <1>3, BelowIs
    <2> QED
      BY <1>2, <1>3, <1>4, <2>1, <2>2
  <1>5. ASSUME NEW m \in DOMAIN todo, m > 1, todo'[n] = todo[m] PROVE FALSE
    <2>1. 1 < m /\ todo[m].part = Item.part /\ Item.part \in Nat
      BY <1>1, <1>2, <1>5, PartIsNat DEF SInv
    <2>2. Apart(Item.from, todo[m].from)
      BY <1>2, <2>1 DEF InOrder
    <2> QED
      BY <1>1, <1>5, <2>2 DEF Apart
  <1> QED
    BY <1>4, <1>5, FoldedTodo

\* Every step keeps the sources of the top-level lines.
LEMMA FoldSourced ==
    ASSUME SInv, SInv', InOrder(todo), policy # "Custom", RootsSourced, [Next]_mergeVars,
           todo # <<>>, NEW first, NEW s \in Path, Fold(first), Inner(first, s),
           NEW x \in DOMAIN output', Len(x) = 1
    PROVE  Sourced(parts, todo', output', x)
  <1>0. /\ Item.part \in DOMAIN parts /\ Item.from \in DOMAIN parts[Item.part]
        /\ Item.at \in Path /\ Item.from \in Path /\ Len(Item.from) = Len(Item.at) + 1
        /\ InputsOK /\ ~Waits(todo', Item.part, Item.from)
        /\ \A k \in DOMAIN parts : \A p \in DOMAIN parts[k] : p \in Path
    <2>1. ~Waits(todo', Item.part, Item.from)
      BY ItemDone
    <2> QED
      BY <2>1, AroundItem, PartsAre, ConfigurationIs DEF SInv, ItemOK, Closed
  <1>1. ASSUME x \in DOMAIN output, output'[x] = output[x]
        PROVE  Sourced(parts, todo', output', x)
    <2>1. Sourced(parts, todo, output, x)
      BY <1>1 DEF RootsSourced
    <2>2. PICK j \in DOMAIN parts : \E r \in DOMAIN parts[j] :
            /\ Len(r) = 1 /\ MergeIdent(parts[j][r]) = MergeIdent(output[x]) /\ ~Waits(todo, j, r)
            /\ Tame(parts, MergeIdent(output[x])) =>
                LineOK(parts, output[x]) /\ output[x].def = parts[j][r].def
      BY <2>1 DEF Sourced
    <2>3. PICK r \in DOMAIN parts[j] :
            /\ Len(r) = 1 /\ MergeIdent(parts[j][r]) = MergeIdent(output[x]) /\ ~Waits(todo, j, r)
            /\ Tame(parts, MergeIdent(output[x])) =>
                LineOK(parts, output[x]) /\ output[x].def = parts[j][r].def
      BY <2>2
    <2>4. ~Waits(todo', j, r)
      BY <1>0, <2>3, WaitsLess
    <2> QED
      BY <1>1, <2>3, <2>4 DEF Sourced
  <1>2. ASSUME Len(Item.from) = 1, output'[x] = Line
        PROVE  Sourced(parts, todo', output', x)
    <2>1. Tame(parts, MergeIdent(Line)) => Schema[Line.def].merge # "Custom"
      BY <1>0, <1>2 DEF Tame, Line, Folded
    <2>2. Tame(parts, MergeIdent(Line)) => LineOK(parts, Line)
      BY <1>0, <2>1, PartLineOK DEF Line, Folded
    <2> QED
      BY <1>0, <1>2, <2>2 DEF Sourced, Line, Folded
  <1>3. CASE output' = output
    BY <1>1, <1>3
  <1>4. ASSUME NEW q, StepClone(q) PROVE Sourced(parts, todo', output', x)
    <2>1. CloneAt(Item, q)
      BY <1>4 DEF StepClone
    <2>2. CASE x \in DOMAIN output /\ ~Below(q, x)
      BY <1>1, <2>1, <2>2, ClonePlaced
    <2>3. CASE \E y \in DOMAIN parts[Item.part] : Below(Item.from, y) /\ x = Rel(Item.from, q, y)
      <3>1. PICK y \in DOMAIN parts[Item.part] : Below(Item.from, y) /\ x = Rel(Item.from, q, y)
        BY <2>3
      <3>2. y \in Path /\ Len(y) = 1
        BY <2>1, <3>1, NewAround
      <3>3. Item.from = y
        BY <3>1, <3>2, RootItem
      <3>4. output'[x] = Line
        BY <2>1, <3>1, <3>3, ClonePlaced DEF Line, Folded
      <3> QED
        BY <1>2, <3>2, <3>3, <3>4
    <2> QED
      BY <2>1, <2>2, <2>3, ClonePlaced
  <1>5. CASE StepEdit
    <2>1. /\ Conflict /\ slot \in DOMAIN output /\ slot \in Path
          /\ DOMAIN output' = DOMAIN output /\ output'[slot] = answer.line
          /\ \A y \in DOMAIN output : y # slot => output'[y] = output[y]
          /\ MergeIdent(answer.line) = MergeIdent(Held)
      BY <1>5 DEF StepEdit, Held
    <2>2. CASE x # slot
      BY <1>1, <2>1, <2>2
    <2>3. CASE x = slot
      <3>1. Len(Item.from) = 1
        <4>1. IsChild(Item.at, slot)
          BY <2>1, SlotIs
        <4>2. Len(slot) = Len(Item.at) + 1
          BY <1>0, <2>1, <4>1, ChildIs
        <4> QED
          BY <1>0, <2>3, <4>2
      <3>2. PICK j \in DOMAIN parts : \E r \in DOMAIN parts[j] :
            /\ Len(r) = 1 /\ MergeIdent(parts[j][r]) = MergeIdent(Held) /\ ~Waits(todo, j, r)
            /\ Tame(parts, MergeIdent(Held)) =>
                LineOK(parts, Held) /\ Held.def = parts[j][r].def
        BY <2>1, <2>3 DEF RootsSourced, Sourced, Held
      <3>3. PICK r \in DOMAIN parts[j] :
            /\ Len(r) = 1 /\ MergeIdent(parts[j][r]) = MergeIdent(Held) /\ ~Waits(todo, j, r)
            /\ Tame(parts, MergeIdent(Held)) =>
                LineOK(parts, Held) /\ Held.def = parts[j][r].def
        BY <3>2
      <3>4. ~Waits(todo', j, r)
        BY <1>0, <3>3, WaitsLess
      <3>5. ASSUME Tame(parts, MergeIdent(Held)) => LineOK(parts, answer.line) /\ answer.line.def = Held.def
            PROVE  Sourced(parts, todo', output', x)
        BY <2>1, <2>3, <3>3, <3>4, <3>5 DEF Sourced
      <3>6. CASE ~Tame(parts, MergeIdent(Held))
        BY <3>5, <3>6
      <3>7. CASE Tame(parts, MergeIdent(Held))
        <4>1. MergeIdent(Line) = MergeIdent(Held)
          BY <2>1, SlotIs
        <4>2. Schema[Line.def].merge # "Custom"
          BY <1>0, <3>1, <3>7, <4>1 DEF Tame, Line, Folded
        <4>3. LineOK(parts, Held)
          BY <3>3, <3>7
        <4>4. /\ LineOK(parts, answer.line)
              /\ answer.line = Held \/ answer.line = Line \/ answer.line.def = Held.def
          BY <2>1, <4>2, <4>3, ContestedSlot
        <4>5. CASE answer.line.def = Held.def
          BY <3>5, <4>4, <4>5
        <4>6. CASE answer.line = Line
          BY <1>2, <2>1, <2>3, <3>1, <4>6
        <4> QED
          BY <4>4, <4>5, <4>6
      <3> QED
        BY <3>6, <3>7
    <2> QED
      BY <2>2, <2>3
  <1> QED
    BY <1>3, <1>4, <1>5, StepIs DEF StepQuiet

\* So does the step in which the resolver is called.
LEMMA NextSourced ==
    ASSUME SInv, SInv', InOrder(todo), policy # "Custom", RootsSourced, [Next]_mergeVars
    PROVE  RootsSourced'
  <1>0. parts' = parts
    BY StepIs
  <1>1. CASE todo' = todo /\ output' = output
    BY <1>0, <1>1 DEF RootsSourced
  <1>2. ASSUME todo # <<>>, NEW first, NEW s \in Path, Fold(first), Inner(first, s)
        PROVE  RootsSourced'
    BY <1>0, <1>2, FoldSourced DEF RootsSourced
  <1> QED
    BY <1>1, <1>2, StepFolds

\* A top-level line that is cloned has its slot.
LEMMA CloneHolds ==
    ASSUME SInv, todo # <<>>, Fold(<<>>), NEW q, Site(Item, q), PlaceClone(Item, q),
           Item.at = <<>>, \A n \in DOMAIN todo : todo[n].at = <<>>
    PROVE  HeldBy(todo', output', parts[Item.part], Item.from)
  <1>1. CloneAt(Item, q)
    BY CloneFold
  <1>2. /\ q \in Path /\ Len(q) = 1 /\ ~Below(q, <<>>)
        /\ Item.from \in Path /\ Item.from \in DOMAIN parts[Item.part]
    <2>1. /\ q \in Path /\ Len(q) = Len(Item.at) + 1 /\ ~Below(q, Item.at)
          /\ Item.from \in Path /\ Item.from \in DOMAIN parts[Item.part]
      BY <1>1, CloneAtIs
    <2> QED
      BY <2>1, RootIsPath
  <1>3. q \in DOMAIN output' /\ output'[q] = parts[Item.part][Item.from]
    <2>1. Below(Item.from, Item.from) /\ Rel(Item.from, q, Item.from) = q
      BY <1>2, BelowTwice, RelBack
    <2> QED
      BY <1>1, <1>2, <2>1, ClonePlaced
  <1>4. Subtree(output', q) = Subtree(parts[Item.part], Item.from)
    BY <1>1, CloneStanza
  <1> DEFINE none == <<>>
  <1>5. Inner(none, <<>>) /\ <<>> \in Path /\ none = <<>> /\ Fold(none)
    BY RootIsPath DEF Inner
  <1> HIDE DEF none
  <1>6. \A n \in DOMAIN todo' : todo'[n].at = <<>>
    <2>1. \A n \in DOMAIN todo' :
            \/ /\ none # <<>> /\ todo'[n].part = Item.part /\ todo'[n].at = <<>>
               \/ \E m \in DOMAIN todo : m > 1 /\ todo'[n] = todo[m]
      BY <1>5, FoldedTodo
    <2> QED
      BY <1>5, <2>1
  <1> QED
    BY <1>2, <1>3, <1>4, <1>6 DEF HeldBy

\* No MergeFunc decides on the slot of an owner, and its strategy does.
LEMMA OwnerTames ==
    ASSUME InputsOK, \A n \in DOMAIN parts : DistinctSlots(parts[n]),
           NEW k \in DOMAIN parts, NEW p \in DOMAIN parts[k], Len(p) = 1, Owns(parts, k, p),
           NEW j \in DOMAIN parts, NEW r \in DOMAIN parts[j], Rival(parts, k, p, j, r)
    PROVE  /\ Tame(parts, MergeIdent(parts[k][p]))
           /\ j < k => Between(parts[k][p], parts[j][r]) = {"KeepLast"}
           /\ k < j => Between(parts[k][p], parts[j][r]) = {"KeepFirst"}
  <1>1. k \in Nat /\ j \in Nat /\ \A n \in DOMAIN parts : Closed(parts[n])
    <2>1. parts \in Seq(ToSet(parts))
      BY PartsAre
    <2>2. \A n \in DOMAIN parts : n \in Nat
      BY <2>1
    <2>3. \A n \in DOMAIN parts : Closed(parts[n])
      BY PartsAre, ConfigurationIs
    <2> QED
      BY <2>2, <2>3
  <1>2. ASSUME NEW v \in {"KeepFirst", "KeepLast"},
               \A i \in DOMAIN parts : \A x \in DOMAIN parts[i] :
                    Rival(parts, k, p, i, x) => Between(parts[k][p], parts[i][x]) = {v}
        PROVE  Tame(parts, MergeIdent(parts[k][p]))
    <2>1. SUFFICES ASSUME NEW i \in DOMAIN parts, NEW x \in DOMAIN parts[i], Len(x) = 1,
                          MergeIdent(parts[i][x]) = MergeIdent(parts[k][p])
                   PROVE  Schema[parts[i][x].def].merge # "Custom"
      BY DEF Tame
    <2>2. CASE i # k
      <3>1. Between(parts[k][p], parts[i][x]) = {v}
        BY <1>2, <2>1, <2>2 DEF Rival
      <3>2. Schema[parts[i][x].def].merge \in {"Default", v}
        BY <3>1, BetweenDecides
      <3> QED
        BY <3>2
    <2>3. CASE i = k
      <3>1. x = p
        BY <1>1, <2>1, <2>3, OneRoot
      <3>2. Between(parts[k][p], parts[j][r]) = {v}
        BY <1>2
      <3>3. Schema[parts[k][p].def].merge \in {"Default", v}
        BY <3>2, BetweenDecides
      <3> QED
        BY <2>3, <3>1, <3>3
    <2> QED
      BY <2>2, <2>3
  <1>3. CASE OwnsFirst(parts, k, p)
    <2>1. k < j /\ Between(parts[k][p], parts[j][r]) = {"KeepFirst"}
      BY <1>3 DEF OwnsFirst
    <2>2. Tame(parts, MergeIdent(parts[k][p]))
      BY <1>2, <1>3 DEF OwnsFirst
    <2> QED
      BY <1>1, <2>1, <2>2
  <1>4. CASE OwnsLast(parts, k, p)
    <2>1. j < k /\ Between(parts[k][p], parts[j][r]) = {"KeepLast"}
      BY <1>4 DEF OwnsLast
    <2>2. Tame(parts, MergeIdent(parts[k][p]))
      BY <1>2, <1>4 DEF OwnsLast
    <2> QED
      BY <1>1, <2>1, <2>2
  <1> QED
    BY <1>3, <1>4 DEF Owns

\* A declared strategy is the resolver's answer.
LEMMA StrategyAnswers ==
    ASSUME policy \in {"Declared", "Refuse", "Custom"}, policy # "Custom",
           NEW l, NEW m, NEW a \in Answers(l, m)
    PROVE  /\ DeclaredStrategy(l, m) = "KeepFirst" => a = Earlier(l, "Overridden")
           /\ DeclaredStrategy(l, m) = "KeepLast" => a = Later(m, "Overridden")
  <1>1. CASE DeclaredStrategy(l, m) = "KeepFirst"
    BY <1>1 DEF Answers
  <1>2. CASE DeclaredStrategy(l, m) = "KeepLast"
    BY <1>2 DEF Answers
  <1> QED
    BY <1>1, <1>2

\* An owner that meets an output line comes last.
LEMMA OwnerMeets ==
    ASSUME SInv, Passed(parts, todo), RootsSourced, todo # <<>>, Claimants(Item) # {},
           \A n \in DOMAIN parts : DistinctSlots(parts[n]),
           Len(Item.from) = 1, Owns(parts, Item.part, Item.from)
    PROVE  /\ Slot \in DOMAIN output /\ Slot \in Path /\ Len(Slot) = 1
           /\ IsChild(Item.at, Slot) /\ MergeIdent(output[Slot]) = MergeIdent(Line)
           /\ LineOK(parts, output[Slot])
           /\ DeclaredStrategy(output[Slot], Line) = "KeepLast"
  <1> DEFINE k == Item.part
             p == Item.from
  <1>1. /\ k \in DOMAIN parts /\ p \in DOMAIN parts[k] /\ p \in Path /\ InputsOK
        /\ Item.at \in Path /\ Len(p) = Len(Item.at) + 1 /\ Closed(output)
        /\ Item = todo[1] /\ 1 \in DOMAIN todo
        /\ \A n \in DOMAIN parts : n \in Nat /\ Closed(parts[n])
    <2>1. parts \in Seq(ToSet(parts))
      BY PartsAre DEF SInv
    <2>2. \A n \in DOMAIN parts : n \in Nat
      BY <2>1
    <2>3. \A n \in DOMAIN parts : Closed(parts[n])
      BY PartsAre, ConfigurationIs DEF SInv
    <2> QED
      BY <2>2, <2>3, AroundItem, ItemIs DEF SInv, ItemOK
  <1>2. /\ Slot \in DOMAIN output /\ Slot \in Path /\ IsChild(Item.at, Slot)
        /\ MergeIdent(output[Slot]) = MergeIdent(Line)
    BY <1>1, ClaimantIs DEF Slot, Line
  <1>3. Len(Slot) = 1
    <2>1. Len(Slot) = Len(Item.at) + 1
      BY <1>1, <1>2, ChildIs
    <2> QED
      BY <1>1, <2>1
  <1>4. PICK j \in DOMAIN parts : \E r \in DOMAIN parts[j] :
            /\ Len(r) = 1 /\ MergeIdent(parts[j][r]) = MergeIdent(output[Slot])
            /\ ~Waits(todo, j, r)
            /\ Tame(parts, MergeIdent(output[Slot])) =>
                LineOK(parts, output[Slot]) /\ output[Slot].def = parts[j][r].def
    BY <1>2, <1>3 DEF RootsSourced, Sourced
  <1>5. PICK r \in DOMAIN parts[j] :
            /\ Len(r) = 1 /\ MergeIdent(parts[j][r]) = MergeIdent(output[Slot])
            /\ ~Waits(todo, j, r)
            /\ Tame(parts, MergeIdent(output[Slot])) =>
                LineOK(parts, output[Slot]) /\ output[Slot].def = parts[j][r].def
    BY <1>4
  <1>6. Line = parts[k][p] /\ MergeIdent(parts[j][r]) = MergeIdent(parts[k][p])
    BY <1>2, <1>5 DEF Line, Folded
  <1>7. j # k
    <2>1. ASSUME j = k PROVE FALSE
      <3>1. r = p
        BY <1>1, <1>5, <1>6, <2>1, OneRoot
      <3>2. Waits(todo, k, p)
        BY <1>1, BelowTwice DEF Waits
      <3> QED
        BY <1>5, <2>1, <3>1, <3>2
    <2> QED
      BY <2>1
  <1>8. j < k
    <2>1. j <= todo[1].part
      BY <1>1, <1>5 DEF Passed
    <2> QED
      BY <1>1, <1>7, <2>1
  <1>9. Rival(parts, k, p, j, r)
    BY <1>5, <1>6, <1>7 DEF Rival
  <1> HIDE DEF k, p
  <1>10. Owns(parts, k, p) /\ Len(p) = 1
    BY DEF k, p
  <1>11. /\ Tame(parts, MergeIdent(parts[k][p]))
         /\ Between(parts[k][p], parts[j][r]) = {"KeepLast"}
    BY <1>1, <1>8, <1>9, <1>10, OwnerTames
  <1>12. LineOK(parts, output[Slot]) /\ output[Slot].def = parts[j][r].def
    BY <1>2, <1>5, <1>6, <1>11
  <1>13. Between(Line, output[Slot]) = {"KeepLast"}
    BY <1>6, <1>11, <1>12 DEF Between
  <1>14. DeclaredStrategy(output[Slot], Line) = "KeepLast"
    <2> DEFINE l == Line
               m == output[Slot]
               v == "KeepLast"
    <2>1. Between(l, m) = {v}
      BY <1>13
    <2> HIDE DEF l, m, v
    <2>2. /\ DeclaredStrategy(l, m) = v /\ DeclaredStrategy(m, l) = v /\ v # "Default"
          /\ Schema[l.def].merge \in {"Default", v}
          /\ Schema[m.def].merge \in {"Default", v}
      BY <2>1, BetweenDecides
    <2> QED
      BY <2>2 DEF l, m, v
  <1> QED
    BY <1>2, <1>3, <1>12, <1>14

\* An owner that is folded gets its slot.
LEMMA OwnerTakes ==
    ASSUME SInv, InOrder(todo), Passed(parts, todo), policy # "Custom", RootsSourced,
           \A n \in DOMAIN parts : DistinctSlots(parts[n]), [Next]_mergeVars,
           NEW k \in DOMAIN parts, NEW p \in DOMAIN parts[k], Len(p) = 1, Owns(parts, k, p),
           Waits(todo, k, p), ~Waits(todo', k, p)
    PROVE  HeldBy(todo', output', parts[k], p)
  <1>0. p \in Path /\ \A n \in DOMAIN parts : Closed(parts[n])
    BY PartsAre, ConfigurationIs DEF SInv, Closed
  <1>1. todo' # todo
    OBVIOUS
  <1>2. PICK first : \E s \in Path : todo # <<>> /\ Fold(first) /\ Inner(first, s)
    BY <1>1, StepFolds
  <1>3. todo # <<>> /\ Fold(first) /\ first \in Seq(Items)
    BY <1>2, FoldedTodo
  <1>4. k = Item.part /\ Below(Item.from, p)
    BY <1>3, StillWaits
  <1>5. Item.from = p /\ Item.at = <<>> /\ \A n \in DOMAIN todo : todo[n].at = <<>>
    BY <1>0, <1>3, <1>4, RootItem
  <1>6. Line = parts[k][p]
    BY <1>4, <1>5 DEF Line, Folded
  <1>7. CASE NewSlot
    <2> DEFINE q == Append(Item.at, Len(Kids(output, Item.at)) + 1)
    <2>1. Fold(<<>>) /\ PlaceClone(Item, q)
      BY <1>7 DEF NewSlot
    <2>2. Site(Item, q)
      BY <1>7, NewSlotIs
    <2> HIDE DEF q
    <2>3. HeldBy(todo', output', parts[Item.part], Item.from)
      BY <1>3, <1>5, <2>1, <2>2, CloneHolds
    <2> QED
      BY <1>4, <1>5, <2>3
  <1>8. ASSUME Claimants(Item) # {}
        PROVE  /\ Slot \in DOMAIN output /\ Slot \in Path /\ Len(Slot) = 1
               /\ IsChild(Item.at, Slot) /\ MergeIdent(output[Slot]) = MergeIdent(Line)
               /\ LineOK(parts, output[Slot])
               /\ DeclaredStrategy(output[Slot], Line) = "KeepLast"
    BY <1>3, <1>4, <1>5, <1>8, OwnerMeets
  <1>9. CASE Agree
    <2>1. Claimants(Item) # {} /\ ~Contested(output[Slot], Line) /\ output' = output
      BY <1>9 DEF Agree, Meets
    <2>2. /\ Slot \in DOMAIN output /\ Slot \in Path /\ Len(Slot) = 1
          /\ MergeIdent(output[Slot]) = MergeIdent(Line)
          /\ LineOK(parts, output[Slot])
          /\ DeclaredStrategy(output[Slot], Line) = "KeepLast"
      BY <1>8, <2>1
    <2>3. SameValue(output[Slot], Line) /\ ~IsSection(Line.def)
      BY <2>1, <2>2 DEF Contested
    <2>4. output[Slot] = Line
      <3>1. /\ Line = [def |-> Line.def, f |-> Line.f, block |-> Line.block]
            /\ output[Slot] = [def |-> output[Slot].def, f |-> output[Slot].f,
                               block |-> output[Slot].block]
        BY <1>6, <2>2, PartsAre, ConfigurationIs DEF SInv, LineOK
      <3>2. Line.def = output[Slot].def /\ Line.f = output[Slot].f /\ Line.block = output[Slot].block
        BY <2>3, TextIs DEF SameValue
      <3> QED
        BY <3>1, <3>2
    <2>5. Subtree(output, Slot) = Subtree(parts[k], p)
      <3>1. Closed(output) /\ \A x \in DOMAIN output : Fits(output, x)
        BY DEF SInv, ChildrenBelong, Fits
      <3>2. \A x \in DOMAIN parts[k] : Fits(parts[k], x)
        BY PartsAre, ConfigurationIs DEF SInv, Fits
      <3>3. ~IsSection(output[Slot].def) /\ ~IsSection(parts[k][p].def)
        BY <1>6, <2>3, <2>4
      <3>4. Subtree(output, Slot) = {<<SubSeq(Slot, Len(Slot) + 1, Len(Slot)), output[Slot]>>}
        BY <2>2, <3>1, <3>3, LeafStanza
      <3>5. Subtree(parts[k], p) = {<<SubSeq(p, Len(p) + 1, Len(p)), parts[k][p]>>}
        BY <1>0, <3>2, <3>3, LeafStanza
      <3>6. SubSeq(Slot, Len(Slot) + 1, Len(Slot)) = SubSeq(p, Len(p) + 1, Len(p))
        <4> DEFINE u == SubSeq(Slot, Len(Slot) + 1, Len(Slot))
                   v == SubSeq(p, Len(p) + 1, Len(p))
        <4>1. Len(Slot) <= Len(Slot) /\ Len(p) <= Len(p)
          BY <2>2
        <4>2. u \in Path /\ Len(u) = Len(Slot) - Len(Slot)
          BY <2>2, <4>1, PastIs
        <4>3. v \in Path /\ Len(v) = Len(p) - Len(p)
          BY <1>0, <4>1, PastIs
        <4> HIDE DEF u, v
        <4>4. Len(u) = 0 /\ Len(v) = 0
          BY <2>2, <4>2, <4>3
        <4>5. Len(u) = Len(v) /\ \A i \in 1..Len(u) : u[i] = v[i]
          BY <4>4
        <4>6. u = v
          BY <4>2, <4>3, <4>5, SamePath
        <4> QED
          BY <4>6 DEF u, v
      <3> QED
        BY <1>6, <2>4, <3>4, <3>5, <3>6
    <2>6. \A n \in DOMAIN todo' : todo'[n].at = <<>>
      <3> DEFINE none == <<>>
      <3>1. Inner(none, <<>>) /\ <<>> \in Path /\ none = <<>> /\ Fold(none)
        BY <1>9, <2>3, RootIsPath DEF Inner, Agree
      <3> HIDE DEF none
      <3>2. \A n \in DOMAIN todo' :
            \/ /\ none # <<>> /\ todo'[n].part = Item.part /\ todo'[n].at = <<>>
               \/ \E m \in DOMAIN todo : m > 1 /\ todo'[n] = todo[m]
        BY <1>3, <3>1, FoldedTodo
      <3> QED
        BY <1>5, <3>1, <3>2
    <2>7. ~Below(Slot, <<>>)
      <3>1. Below(Slot, <<>>) => Len(Slot) <= Len(<<>>)
        BY <2>2, RootIsPath, BelowIs
      <3> QED
        BY <2>2, <3>1, RootIsPath
    <2> QED
      BY <1>6, <2>1, <2>2, <2>5, <2>6, <2>7 DEF HeldBy
  <1>10. ASSUME Conflict PROVE answer = Later(Line, "Overridden") /\ Site(Item, slot)
    <2>1. slot = Slot /\ Claimants(Item) # {} /\ answer \in Answers(Held, Line)
      BY <1>10 DEF SInv, ConflictOK
    <2>2. /\ DeclaredStrategy(Held, Line) = "KeepLast"
          /\ Slot \in DOMAIN output /\ Slot \in Path /\ IsChild(Item.at, Slot)
      BY <1>8, <2>1 DEF Held
    <2>3. policy \in {"Declared", "Refuse", "Custom"}
      BY PartsAre DEF SInv
    <2>4. answer = Later(Line, "Overridden")
      BY <2>1, <2>2, <2>3, StrategyAnswers
    <2> QED
      BY <2>1, <2>2, <2>4 DEF Site
  <1>11. CASE TakeLater
    <2>1. Conflict /\ Fold(<<>>) /\ PlaceClone(Item, slot)
      BY <1>11 DEF TakeLater, Decided
    <2>2. Site(Item, slot)
      BY <1>10, <2>1
    <2>3. HeldBy(todo', output', parts[Item.part], Item.from)
      BY <1>3, <1>5, <2>1, <2>2, CloneHolds
    <2> QED
      BY <1>4, <1>5, <2>3
  <1>12. ~Resolve /\ ~UNCHANGED mergeVars
    BY <1>1 DEF Resolve, mergeVars
  <1>13. Conflict => answer.node = "later" /\ answer.outcome = "Overridden"
    BY <1>10 DEF Later, Answer
  <1>14. ~Refused /\ ~RejectFresh /\ ~RefuseChildless /\ ~RefuseMix /\ ~KeepEarlier
         /\ ~TakeFresh /\ ~Combine
    BY <1>13 DEF Refused, RejectFresh, Rejected, RefuseChildless, RefuseMix, KeepEarlier,
                 TakeFresh, Combine, Decided
  <1> QED
    BY <1>7, <1>9, <1>11, <1>12, <1>14 DEF Next, Returned

\* A line next to a top-level one is not below it, and shares no line with it.
LEMMA Elsewhere ==
    ASSUME NEW at \in Path, NEW q \in Path, Len(q) = 1, ~Below(q, at),
           NEW e \in Path, IsChild(at, e), e # q
    PROVE  /\ ~Below(q, e)
           /\ \A x \in Path : Below(q, x) => ~Below(e, x)
  <1>1. Len(e) = Len(at) + 1 /\ Below(at, e) /\ Len(at) \in Nat
    BY ChildIs DEF Path
  <1>2. ASSUME Below(q, e) PROVE FALSE
    <2>1. CASE Len(at) = 0
      <3>1. Len(q) = Len(e)
        BY <1>1, <2>1
      <3> QED
        BY <1>2, <3>1, BelowTwice
    <2>2. CASE Len(q) <= Len(at)
      BY <1>1, <1>2, <2>2, BelowTwice
    <2> QED
      BY <1>1, <2>1, <2>2
  <1>3. ASSUME NEW x \in Path, Below(q, x), Below(e, x) PROVE FALSE
    <2>1. Len(q) <= Len(e)
      BY <1>1
    <2>2. Below(q, e)
      BY <1>3, <2>1, BelowTwice
    <2> QED
      BY <1>2, <2>2
  <1> QED
    BY <1>2, <1>3

\* A step on another slot leaves an owner's alone.
LEMMA OwnerAside ==
    ASSUME SInv, [Next]_mergeVars, todo # <<>>,
           NEW first, NEW s \in Path, Fold(first), Inner(first, s),
           NEW q \in DOMAIN output, Len(q) = 1, \A n \in DOMAIN todo : ~Below(q, todo[n].at),
           ~(Item.at = <<>> /\ MergeIdent(output[q]) = MergeIdent(Line))
    PROVE  /\ q \in DOMAIN output' /\ output'[q] = output[q]
           /\ Subtree(output', q) = Subtree(output, q)
           /\ \A n \in DOMAIN todo' : ~Below(q, todo'[n].at)
  <1>1. /\ q \in Path /\ Item.at \in Path /\ ~Below(q, Item.at) /\ Closed(output)
        /\ Below(q, q) /\ \A x \in DOMAIN output : x \in Path
    BY AroundItem, ItemIs, BelowTwice DEF SInv, Closed
  <1>2. ASSUME NEW e \in DOMAIN output, IsChild(Item.at, e), MergeIdent(output[e]) = MergeIdent(Line)
        PROVE  e # q
    <2>1. ASSUME e = q PROVE FALSE
      <3>1. Len(q) = Len(Item.at) + 1
        BY <1>1, <1>2, <2>1, ChildIs
      <3>2. Len(Item.at) \in Nat
        BY <1>1 DEF Path
      <3> DEFINE n == Len(Item.at)
      <3>3. 1 = n + 1 /\ n \in Nat
        BY <3>1, <3>2
      <3> HIDE DEF n
      <3>4. n = 0
        BY <3>3
      <3>5. \A x \in Path : Len(x) = 0 => x = <<>>
        BY DEF Path
      <3> QED
        BY <1>1, <1>2, <2>1, <3>4, <3>5 DEF n
    <2> QED
      BY <2>1
  <1>3. \A n \in DOMAIN todo' : ~Below(q, todo'[n].at)
    <2>1. first # <<>> => ~Below(q, s)
      <3>1. ASSUME s \in DOMAIN output, IsChild(Item.at, s), MergeIdent(output[s]) = MergeIdent(Line)
            PROVE  ~Below(q, s)
        BY <1>1, <1>2, <3>1, Elsewhere
      <3> QED
        BY <3>1 DEF Inner
    <2>2. \A n \in DOMAIN todo' :
            \/ /\ first # <<>> /\ todo'[n].part = Item.part /\ todo'[n].at = s
               \/ \E m \in DOMAIN todo : m > 1 /\ todo'[n] = todo[m]
      BY FoldedTodo
    <2> QED
      BY <2>1, <2>2
  <1>4. CASE output' = output
    BY <1>3, <1>4
  <1>5. ASSUME NEW e, StepClone(e)
        PROVE  /\ q \in DOMAIN output' /\ output'[q] = output[q]
               /\ Subtree(output', q) = Subtree(output, q)
    <2>1. /\ CloneAt(Item, e) /\ e \in Path /\ IsChild(Item.at, e)
          /\ Item.from \in Path
      BY <1>5, CloneAtIs DEF StepClone, CloneAt, Site
    <2>2. e # q
      BY <1>2, <1>5, <2>1 DEF StepClone
    <2>3. /\ ~Below(q, e)
          /\ \A x \in Path : Below(q, x) => ~Below(e, x)
      BY <1>1, <2>1, <2>2, Elsewhere
    <2>4. \A x \in DOMAIN output : Below(q, x) => x \in DOMAIN output' /\ output'[x] = output[x]
      BY <1>1, <2>1, <2>3, ClonePlaced
    <2>5. ASSUME NEW x \in DOMAIN output', Below(q, x) PROVE x \in DOMAIN output
      <3>1. SUFFICES ASSUME NEW y \in DOMAIN parts[Item.part], Below(Item.from, y),
                            x = Rel(Item.from, e, y)
                     PROVE  FALSE
        BY <2>1, ClonePlaced
      <3>2. x \in Path /\ Below(e, x)
        BY <2>1, <3>1, ClonePlaced
      <3> QED
        BY <2>3, <2>5, <3>2
    <2>6. Subtree(output', q) = Subtree(output, q)
      BY <2>4, <2>5, SameStanza
    <2> QED
      BY <1>1, <2>4, <2>6
  <1>6. CASE StepEdit
    <2>1. /\ Conflict /\ slot \in DOMAIN output /\ slot \in Path
          /\ DOMAIN output' = DOMAIN output
          /\ \A y \in DOMAIN output : y # slot => output'[y] = output[y]
      BY <1>6 DEF StepEdit
    <2>2. IsChild(Item.at, slot) /\ MergeIdent(output[slot]) = MergeIdent(Line)
      BY <2>1, SlotIs DEF Held
    <2>3. slot # q
      BY <1>2, <2>1, <2>2
    <2>4. ~Below(q, slot)
      BY <1>1, <2>1, <2>2, <2>3, Elsewhere
    <2>5. \A x \in DOMAIN output : Below(q, x) => x \in DOMAIN output' /\ output'[x] = output[x]
      BY <2>1, <2>4
    <2>6. \A x \in DOMAIN output' : Below(q, x) => x \in DOMAIN output
      BY <2>1
    <2>7. Subtree(output', q) = Subtree(output, q)
      <3> DEFINE c == output
                 d == output'
      <3>1. /\ \A x \in DOMAIN c : Below(q, x) => x \in DOMAIN d /\ d[x] = c[x]
            /\ \A x \in DOMAIN d : Below(q, x) => x \in DOMAIN c
        BY <2>5, <2>6
      <3> HIDE DEF c, d
      <3>2. Subtree(d, q) = Subtree(c, q)
        BY <3>1, SameStanza
      <3> QED
        BY <3>2 DEF c, d
    <2> QED
      BY <1>1, <1>3, <2>5, <2>7
  <1> QED
    BY <1>3, <1>4, <1>5, <1>6, StepIs DEF StepQuiet

\* An owner that came first keeps its slot when a later part wants it.
LEMMA OwnerFirst ==
    ASSUME SInv, [Next]_mergeVars, Passed(parts, todo), policy # "Custom",
           \A n \in DOMAIN parts : DistinctSlots(parts[n]), DistinctSlots(output),
           todo # <<>>,
           NEW k \in DOMAIN parts, NEW p \in DOMAIN parts[k], Len(p) = 1, Owns(parts, k, p),
           ~Waits(todo, k, p), NEW q \in DOMAIN output, Len(q) = 1,
           output[q] = parts[k][p],
           Item.at = <<>>, MergeIdent(output[q]) = MergeIdent(Line)
    PROVE  output' = output /\ (todo' = todo \/ Fold(<<>>))
  <1>1. /\ Item.part \in DOMAIN parts /\ Item.from \in DOMAIN parts[Item.part]
        /\ Item.from \in Path /\ Len(Item.from) = 1 /\ Line = parts[Item.part][Item.from]
        /\ Item = todo[1] /\ 1 \in DOMAIN todo /\ InputsOK /\ Closed(output)
        /\ \A n \in DOMAIN parts : n \in Nat /\ Closed(parts[n])
    <2>1. parts \in Seq(ToSet(parts))
      BY PartsAre DEF SInv
    <2>2. \A n \in DOMAIN parts : n \in Nat
      BY <2>1
    <2>3. \A n \in DOMAIN parts : Closed(parts[n])
      BY PartsAre, ConfigurationIs DEF SInv
    <2>4. Len(Item.from) = 1
      BY AroundItem, RootIsPath DEF ItemOK
    <2> QED
      BY <2>2, <2>3, <2>4, AroundItem, ItemIs DEF SInv, Line, Folded
  <1>2. Item.part # k
    <2>1. ASSUME Item.part = k PROVE FALSE
      <3>1. Item.from = p
        BY <1>1, <2>1, OneRoot
      <3>2. Waits(todo, k, p)
        BY <1>1, <2>1, <3>1, BelowTwice DEF Waits
      <3> QED
        BY <3>2
    <2> QED
      BY <2>1
  <1>3. k < Item.part
    <2>1. k <= todo[1].part
      BY <1>1 DEF Passed
    <2> QED
      BY <1>1, <1>2, <2>1
  <1>4. DeclaredStrategy(output[q], Line) = "KeepFirst"
    <2> DEFINE j == Item.part
               r == Item.from
               l == output[q]
               m == Line
               v == "KeepFirst"
    <2>1. Rival(parts, k, p, j, r)
      BY <1>1, <1>2 DEF Rival
    <2>2. j \in DOMAIN parts /\ r \in DOMAIN parts[j] /\ k < j
      BY <1>1, <1>3
    <2> HIDE DEF j, r
    <2>3. Between(parts[k][p], parts[j][r]) = {"KeepFirst"}
      BY <1>1, <2>1, <2>2, OwnerTames
    <2>4. Between(l, m) = {v}
      BY <1>1, <2>3 DEF j, r
    <2> HIDE DEF l, m, v
    <2>5. /\ DeclaredStrategy(l, m) = v /\ DeclaredStrategy(m, l) = v /\ v # "Default"
          /\ Schema[l.def].merge \in {"Default", v}
          /\ Schema[m.def].merge \in {"Default", v}
      BY <2>4, BetweenDecides
    <2> QED
      BY <2>5 DEF l, m, v
  <1>5. Claimants(Item) # {} /\ Slot = q
    <2>1. q \in Path /\ q # <<>> /\ IsChild(Item.at, q)
      <3>1. q \in Path /\ q # <<>>
        BY <1>1 DEF Closed
      <3>2. Len(q) = Len(Item.at) + 1 /\ Below(Item.at, q) /\ Item.at \in Path
        BY <3>1, RootIsPath, BelowTwice
      <3> QED
        BY <3>1, <3>2, ChildIs
    <2>2. q \in Claimants(Item)
      BY <2>1 DEF Claimants, Line
    <2>3. /\ Slot \in DOMAIN output /\ Slot \in Path /\ IsChild(Item.at, Slot)
          /\ MergeIdent(output[Slot]) = MergeIdent(Line)
      BY <1>1, <2>2, AroundItem, ClaimantIs DEF Slot, Line
    <2>4. Len(Slot) = 1
      <3>1. Len(Slot) = Len(Item.at) + 1
        BY <2>3, RootIsPath, ChildIs
      <3> QED
        BY <3>1, RootIsPath
    <2> QED
      BY <1>1, <2>2, <2>3, <2>4, OneRoot
  <1>6. CASE Agree
    <2>1. ~IsSection(Line.def)
      BY <1>4, <1>5, <1>6 DEF Agree, Contested
    <2> QED
      BY <1>6, <2>1 DEF Agree
  <1>7. Conflict => answer = Earlier(Held, "Overridden")
    <2>1. SUFFICES ASSUME Conflict PROVE answer = Earlier(Held, "Overridden")
      OBVIOUS
    <2>2. slot = q /\ answer \in Answers(Held, Line) /\ Held = output[q]
      BY <1>5, <2>1 DEF SInv, ConflictOK, Held
    <2>3. policy \in {"Declared", "Refuse", "Custom"}
      BY PartsAre DEF SInv
    <2> QED
      BY <1>4, <2>2, <2>3, StrategyAnswers
  <1>8. Conflict => answer.node = "earlier" /\ answer.outcome = "Overridden"
    BY <1>7 DEF Earlier, Answer
  <1>9. CASE KeepEarlier
    BY <1>9 DEF KeepEarlier
  <1>10. /\ ~Refused /\ ~RejectFresh /\ ~RefuseChildless /\ ~RefuseMix /\ ~TakeLater
         /\ ~TakeFresh /\ ~Combine
    BY <1>8 DEF Refused, RejectFresh, Rejected, RefuseChildless, RefuseMix, TakeLater,
                TakeFresh, Combine, Decided
  <1>11. CASE Resolve \/ UNCHANGED mergeVars
    BY <1>11 DEF Resolve, mergeVars
  <1>12. ~NewSlot
    BY <1>5 DEF NewSlot
  <1> QED
    BY <1>6, <1>9, <1>10, <1>11, <1>12 DEF Next, Returned

\* An owner that has its slot keeps it.
LEMMA OwnerKeeps ==
    ASSUME SInv, [Next]_mergeVars, Passed(parts, todo), policy # "Custom",
           \A n \in DOMAIN parts : DistinctSlots(parts[n]), DistinctSlots(output),
           NEW k \in DOMAIN parts, NEW p \in DOMAIN parts[k], Len(p) = 1, Owns(parts, k, p),
           ~Waits(todo, k, p), HeldBy(todo, output, parts[k], p)
    PROVE  HeldBy(todo', output', parts[k], p)
  <1>1. PICK q \in DOMAIN output :
            /\ Len(q) = 1 /\ MergeIdent(output[q]) = MergeIdent(parts[k][p])
            /\ Subtree(output, q) = Subtree(parts[k], p)
            /\ \A n \in DOMAIN todo : ~Below(q, todo[n].at)
    BY DEF HeldBy
  <1>2. output[q] = parts[k][p]
    <2>1. Closed(output) /\ Closed(parts[k])
      BY PartsAre, ConfigurationIs DEF SInv
    <2> QED
      BY <1>1, <2>1, StanzaTop
  <1>3. CASE todo' = todo /\ output' = output
    BY <1>3
  <1>4. ASSUME todo # <<>>, NEW first, NEW s \in Path, Fold(first), Inner(first, s)
        PROVE  HeldBy(todo', output', parts[k], p)
    <2>1. CASE ~(Item.at = <<>> /\ MergeIdent(output[q]) = MergeIdent(Line))
      <3>1. /\ q \in DOMAIN output' /\ output'[q] = output[q]
            /\ Subtree(output', q) = Subtree(output, q)
            /\ \A n \in DOMAIN todo' : ~Below(q, todo'[n].at)
        BY <1>1, <1>4, <2>1, OwnerAside
      <3> QED
        BY <1>1, <3>1 DEF HeldBy
    <2>2. CASE Item.at = <<>> /\ MergeIdent(output[q]) = MergeIdent(Line)
      <3>0. output' = output /\ (todo' = todo \/ Fold(<<>>))
        BY <1>1, <1>2, <1>4, <2>2, OwnerFirst
      <3>1. SUFFICES ASSUME output' = output, Fold(<<>>)
                     PROVE  HeldBy(todo', output', parts[k], p)
        BY <1>3, <3>0
      <3> DEFINE none == <<>>
      <3>2. Inner(none, <<>>) /\ <<>> \in Path /\ none = <<>> /\ Fold(none)
        BY <3>1, RootIsPath DEF Inner
      <3> HIDE DEF none
      <3>3. \A n \in DOMAIN todo' :
            \/ /\ none # <<>> /\ todo'[n].part = Item.part /\ todo'[n].at = <<>>
               \/ \E m \in DOMAIN todo : m > 1 /\ todo'[n] = todo[m]
        BY <1>4, <3>2, FoldedTodo
      <3>4. \A n \in DOMAIN todo' : ~Below(q, todo'[n].at)
        BY <1>1, <3>2, <3>3
      <3> QED
        BY <1>1, <3>1, <3>4 DEF HeldBy
    <2> QED
      BY <2>1, <2>2
  <1> QED
    BY <1>3, <1>4, StepFolds

\* The sources stay, owners take their slots and keep them.
LEMMA NextDecision ==
    ASSUME SInv, SInv', SlotsInv, InOrder(todo), Passed(parts, todo), DecisionInv, [Next]_mergeVars
    PROVE  DecisionInv'
  <1>0. parts' = parts /\ policy' = policy
    BY StepIs
  <1>1. SUFFICES ASSUME policy # "Custom", \A n \in DOMAIN parts : DistinctSlots(parts[n])
                 PROVE  RootsSourced' /\ OwnersHold'
    BY <1>0 DEF DecisionInv
  <1>2. RootsSourced /\ OwnersHold /\ DistinctSlots(output)
    BY <1>1 DEF DecisionInv, SlotsInv
  <1>3. RootsSourced'
    BY <1>1, <1>2, NextSourced
  <1>4. ASSUME NEW k \in DOMAIN parts, NEW p \in DOMAIN parts[k], Len(p) = 1, Owns(parts, k, p),
               ~Waits(todo', k, p)
        PROVE  HeldBy(todo', output', parts[k], p)
    <2>1. CASE Waits(todo, k, p)
      BY <1>1, <1>2, <1>4, <2>1, OwnerTakes
    <2>2. CASE ~Waits(todo, k, p)
      <3>1. HeldBy(todo, output, parts[k], p)
        BY <1>2, <1>4, <2>2 DEF OwnersHold
      <3> QED
        BY <1>1, <1>2, <1>4, <2>2, <3>1, OwnerKeeps
    <2> QED
      BY <2>1, <2>2
  <1>5. OwnersHold'
    BY <1>0, <1>4 DEF OwnersHold
  <1> QED
    BY <1>3, <1>5

\* At first every line waits and there is no output line.
LEMMA InitDecision == Init => Passed(parts, todo) /\ DecisionInv
  <1> SUFFICES ASSUME Init PROVE Passed(parts, todo) /\ DecisionInv
    OBVIOUS
  <1>1. DOMAIN output = {}
    BY DEF Init
  <1>2. \A k \in DOMAIN parts : \A p \in DOMAIN parts[k] : Waits(todo, k, p)
    BY InitWaits
  <1>3. Passed(parts, todo)
    BY <1>2 DEF Passed
  <1>4. RootsSourced /\ OwnersHold
    BY <1>1, <1>2 DEF RootsSourced, OwnersHold
  <1> QED
    BY <1>3, <1>4 DEF DecisionInv

\* A strategy that is declared against every other part decides for the whole
\* stanza, whichever definition declares it and however many parts follow: the
\* output has the first part's subtree under KeepFirst, the last one's under
\* KeepLast (declaredStrategy, mergeIdent, merge.level).
THEOREM StrategiesDecide == Spec => []StrategyDecides
  <1>1. SInv /\ SlotsInv /\ DecisionInv => StrategyDecides
    <2> SUFFICES ASSUME SInv, SlotsInv, DecisionInv, todo = <<>>, policy # "Custom",
                        \A k \in DOMAIN parts : Single(parts[k]),
                        NEW q \in DOMAIN output, Len(q) = 1, NEW i, i = MergeIdent(output[q]),
                        NEW k \in Bearers(i),
                        \/ \A j \in Bearers(i) \ {k} : k < j /\ Declared(i, k, j) = {"KeepFirst"}
                        \/ \A j \in Bearers(i) \ {k} : j < k /\ Declared(i, k, j) = {"KeepLast"}
                 PROVE  Subtree(output, q) = Stanza(k, i)
      BY DEF StrategyDecides
    <2>1. /\ Closed(output)
          /\ \A n \in DOMAIN parts : Closed(parts[n]) /\ \A p \in DOMAIN parts[n] : parts[n][p].def \in Defs
      BY PartsAre, ConfigurationIs DEF SInv
    <2>2. \A n \in DOMAIN parts : DistinctSlots(parts[n])
      BY <2>1, DistinctIsSingle
    <2>3. OwnersHold /\ DistinctSlots(output)
      BY <2>2 DEF DecisionInv, SlotsInv
    <2>4. ASSUME NEW n \in Bearers(i)
          PROVE  /\ n \in DOMAIN parts /\ RootLine(parts[n], i) \in DOMAIN parts[n]
                 /\ Len(RootLine(parts[n], i)) = 1
                 /\ MergeIdent(parts[n][RootLine(parts[n], i)]) = i
      <3>1. n \in DOMAIN parts /\ \E p \in DOMAIN parts[n] : Len(p) = 1 /\ MergeIdent(parts[n][p]) = i
        BY DEF Bearers
      <3> QED
        BY <3>1 DEF RootLine
    <2> DEFINE p == RootLine(parts[k], i)
    <2>5. k \in DOMAIN parts /\ p \in DOMAIN parts[k] /\ Len(p) = 1 /\ MergeIdent(parts[k][p]) = i
      BY <2>4
    <2>6. ASSUME NEW j \in DOMAIN parts, NEW r \in DOMAIN parts[j], Rival(parts, k, p, j, r)
          PROVE  j \in Bearers(i) \ {k} /\ Declared(i, k, j) = Between(parts[k][p], parts[j][r])
      <3>1. j # k /\ Len(r) = 1 /\ MergeIdent(parts[j][r]) = i
        BY <2>5, <2>6 DEF Rival
      <3>2. j \in Bearers(i)
        BY <3>1 DEF Bearers
      <3>3. /\ RootLine(parts[j], i) \in DOMAIN parts[j] /\ Len(RootLine(parts[j], i)) = 1
            /\ MergeIdent(parts[j][RootLine(parts[j], i)]) = i
        BY <2>4, <3>2
      <3>4. RootLine(parts[j], i) = r
        <4> DEFINE c == parts[j]
                   x == RootLine(c, i)
        <4>1. /\ Closed(c) /\ DistinctSlots(c) /\ x \in DOMAIN c /\ r \in DOMAIN c
              /\ Len(x) = 1 /\ Len(r) = 1 /\ MergeIdent(c[x]) = MergeIdent(c[r])
          BY <2>1, <2>2, <3>1, <3>3
        <4> HIDE DEF c, x
        <4>2. x = r
          BY <4>1, OneRoot
        <4> QED
          BY <4>2 DEF c, x
      <3>5. Declared(i, k, j) = Between(parts[k][p], parts[j][r])
        BY <3>4, Zenon DEF Declared, Between
      <3> QED
        BY <3>1, <3>2, <3>5
    <2>7. Owns(parts, k, p)
      BY <2>6 DEF Owns, OwnsFirst, OwnsLast
    <2>8. Subtree(parts[k], p) = Stanza(k, i)
      BY DEF Stanza
    <2> HIDE DEF p
    <2>9. ~Waits(todo, k, p)
      BY DEF Waits
    <2>10. HeldBy(todo, output, parts[k], p)
      BY <2>3, <2>5, <2>7, <2>9 DEF OwnersHold
    <2>11. PICK x \in DOMAIN output :
            /\ Len(x) = 1 /\ MergeIdent(output[x]) = MergeIdent(parts[k][p])
            /\ Subtree(output, x) = Subtree(parts[k], p)
      BY <2>10 DEF HeldBy
    <2>12. x = q
      BY <2>1, <2>3, <2>5, <2>11, OneRoot
    <2> QED
      BY <2>8, <2>11, <2>12
  <1>2. Init => SInv /\ SlotsInv /\ InOrder(todo) /\ Passed(parts, todo) /\ DecisionInv
    <2>1. Init => SlotsInv
      BY DEF Init, SlotsInv, DistinctSlots
    <2> QED
      BY <2>1, InitSInv, InitInOrder, InitDecision
  <1>3. /\ SInv /\ SlotsInv /\ InOrder(todo) /\ Passed(parts, todo) /\ DecisionInv
        /\ [Next]_mergeVars
        => (SInv /\ SlotsInv /\ InOrder(todo) /\ Passed(parts, todo) /\ DecisionInv)'
    BY NextSInv, NextSlots, NextInOrder, NextPassed, NextDecision
  <1> QED
    BY <1>1, <1>2, <1>3, PTL DEF Spec
=============================================================================
