--------------------------- MODULE TransitProofs ---------------------------
(***************************************************************************)
(* What is on the device while the plan of Diff is being executed, and     *)
(* what is left at the end, for every schema and every pair of             *)
(* configurations in which a line has its place to itself (Tidy).          *)
(*                                                                         *)
(* Lines are compared by their slot paths: two lines of one path displace  *)
(* the same lines, whichever definition spells them.  CollectInv says of   *)
(* the calls and the operations of collect that no two of them are about   *)
(* one path, that each line of either configuration is settled, brought or *)
(* taken by an operation, or still awaited by a call, and that what is     *)
(* negated displaces nothing that is wanted.  DeviceInv says what is on    *)
(* the device in terms of the operations executed so far.                  *)
(***************************************************************************)
EXTENDS PlanProofs

-----------------------------------------------------------------------------
(* Paths.                                                                  *)

\* A prefix, position by position.
LEMMA BelowIs ==
    ASSUME NEW X, NEW u \in Seq(X), NEW v \in Seq(X)
    PROVE  /\ Len(u) \in Nat /\ Len(v) \in Nat
           /\ Below(u, v) <=> Len(u) <= Len(v) /\ \A j \in 1..Len(u) : v[j] = u[j]
  <1>1. Len(u) \in Nat /\ Len(v) \in Nat
    OBVIOUS
  <1>2. ASSUME Len(u) <= Len(v)
        PROVE  SubSeq(v, 1, Len(u)) = u <=> \A j \in 1..Len(u) : v[j] = u[j]
    <2> DEFINE s == SubSeq(v, 1, Len(u))
    <2>1. s \in Seq(X) /\ Len(s) = Len(u) /\ \A j \in 1..Len(u) : s[j] = v[j]
      BY <1>1, <1>2
    <2> HIDE DEF s
    <2>2. ASSUME \A j \in 1..Len(u) : v[j] = u[j] PROVE s = u
      BY <2>1, <2>2, SeqEqual
    <2> QED
      BY <2>1, <2>2 DEF s
  <1> QED
    BY <1>1, <1>2 DEF Below

\* Prefixes are an order, and those of one path are comparable.
LEMMA BelowOrder ==
    ASSUME NEW X, NEW u \in Seq(X), NEW v \in Seq(X), NEW w \in Seq(X)
    PROVE  /\ Below(u, u)
           /\ Below(u, v) /\ Below(v, u) => u = v
           /\ Below(u, v) /\ Below(v, w) => Below(u, w)
           /\ Below(u, w) /\ Below(v, w) => Below(u, v) \/ Below(v, u)
           /\ Below(u, v) /\ u # v => Len(u) < Len(v)
  <1>1. /\ Len(u) \in Nat /\ Len(v) \in Nat /\ Len(w) \in Nat
        /\ Below(u, u)
        /\ Below(u, v) <=> Len(u) <= Len(v) /\ \A j \in 1..Len(u) : v[j] = u[j]
        /\ Below(v, u) <=> Len(v) <= Len(u) /\ \A j \in 1..Len(v) : u[j] = v[j]
        /\ Below(u, w) <=> Len(u) <= Len(w) /\ \A j \in 1..Len(u) : w[j] = u[j]
        /\ Below(v, w) <=> Len(v) <= Len(w) /\ \A j \in 1..Len(v) : w[j] = v[j]
    BY BelowIs
  <1>2. ASSUME Below(u, v), Len(u) = Len(v) PROVE u = v
    BY <1>1, <1>2, SeqEqual
  <1>3. ASSUME Below(u, v), Below(v, w) PROVE Below(u, w)
    <2>1. \A j \in 1..Len(u) : j \in 1..Len(v) /\ w[j] = u[j]
      BY <1>1, <1>3
    <2> QED
      BY <1>1, <1>3, <2>1
  <1>4. ASSUME Below(u, w), Below(v, w) PROVE Below(u, v) \/ Below(v, u)
    <2>1. CASE Len(u) <= Len(v)
      <3>1. \A j \in 1..Len(u) : j \in 1..Len(v) /\ v[j] = u[j]
        BY <1>1, <1>4, <2>1
      <3> QED
        BY <1>1, <2>1, <3>1
    <2>2. CASE Len(v) <= Len(u)
      <3>1. \A j \in 1..Len(v) : j \in 1..Len(u) /\ v[j] = u[j]
        BY <1>1, <1>4, <2>2
      <3> QED
        BY <1>1, <2>2, <3>1
    <2> QED
      BY <1>1, <2>1, <2>2
  <1> QED
    BY <1>1, <1>2, <1>3, <1>4

\* The children of a path.
LEMMA BelowChild ==
    ASSUME NEW X, NEW u \in Seq(X), NEW v \in Seq(X), NEW a \in X, NEW b \in X
    PROVE  /\ Append(v, a) \in Seq(X) /\ Len(Append(v, a)) = Len(v) + 1
           /\ Below(v, Append(v, a)) /\ v # Append(v, a) /\ ~Below(Append(v, a), v)
           /\ Below(u, Append(v, a)) <=> Below(u, v) \/ u = Append(v, a)
           /\ Below(Append(v, a), Append(v, b)) => a = b
           /\ Below(Append(v, a), u) => Below(v, u) /\ u # v
           /\ Append(v, a) # <<>>
  <1> DEFINE s == Append(v, a)
             r == Append(v, b)
  <1>1. /\ s \in Seq(X) /\ Len(s) = Len(v) + 1 /\ s[Len(v) + 1] = a
        /\ \A j \in 1..Len(v) : s[j] = v[j]
        /\ s # <<>>
        /\ r \in Seq(X) /\ Len(r) = Len(v) + 1 /\ r[Len(v) + 1] = b
    BY AppendProperties
  <1> HIDE DEF s, r
  <1>2. /\ Len(u) \in Nat /\ Len(v) \in Nat
        /\ Below(v, s) <=> Len(v) <= Len(s) /\ \A j \in 1..Len(v) : s[j] = v[j]
        /\ Below(s, v) <=> Len(s) <= Len(v) /\ \A j \in 1..Len(s) : v[j] = s[j]
        /\ Below(u, s) <=> Len(u) <= Len(s) /\ \A j \in 1..Len(u) : s[j] = u[j]
        /\ Below(u, v) <=> Len(u) <= Len(v) /\ \A j \in 1..Len(u) : v[j] = u[j]
        /\ Below(v, u) <=> Len(v) <= Len(u) /\ \A j \in 1..Len(v) : u[j] = v[j]
        /\ Below(s, u) <=> Len(s) <= Len(u) /\ \A j \in 1..Len(s) : u[j] = s[j]
        /\ Below(s, r) <=> Len(s) <= Len(r) /\ \A j \in 1..Len(s) : r[j] = s[j]
    <2>1. \A p, q \in Seq(X) :
            /\ Len(p) \in Nat
            /\ Below(p, q) <=> Len(p) <= Len(q) /\ \A j \in 1..Len(p) : q[j] = p[j]
      BY BelowIs
    <2> QED
      BY <1>1, <2>1, Zenon
  <1>3. Below(v, s) /\ ~Below(s, v) /\ v # s
    BY <1>1, <1>2
  <1>4. Below(u, s) <=> Below(u, v) \/ u = s
    <2>1. ASSUME Below(u, s), Len(u) = Len(s) PROVE u = s
      <3>1. \A j \in 1..Len(u) : u[j] = s[j]
        BY <1>2, <2>1
      <3> QED
        BY <1>1, <2>1, <3>1, SeqEqual
    <2>2. ASSUME Below(u, s), Len(u) # Len(s) PROVE Below(u, v)
      <3>1. Len(u) <= Len(v)
        BY <1>1, <1>2, <2>2
      <3>2. \A j \in 1..Len(u) : j \in 1..Len(v) /\ s[j] = u[j]
        BY <1>2, <2>2, <3>1
      <3> QED
        BY <1>1, <1>2, <3>1, <3>2
    <2>3. Below(u, v) => Below(u, s)
      BY <1>1, <1>3, BelowOrder
    <2>4. u = s => Below(u, s)
      BY <1>1, BelowOrder
    <2> QED
      BY <2>1, <2>2, <2>3, <2>4
  <1>5. Below(s, r) => a = b
    BY <1>1, <1>2
  <1>6. Below(s, u) => Below(v, u) /\ u # v
    BY <1>1, <1>2
  <1>7. /\ s \in Seq(X) /\ Len(s) = Len(v) + 1
        /\ Below(v, s) /\ v # s /\ ~Below(s, v)
        /\ Below(u, s) <=> Below(u, v) \/ u = s
        /\ Below(s, r) => a = b
        /\ Below(s, u) => Below(v, u) /\ u # v
        /\ s # <<>>
    BY <1>1, <1>3, <1>4, <1>5, <1>6
  <1> QED
    BY <1>7 DEF s, r

-----------------------------------------------------------------------------
(* Lines by handle.                                                        *)

\* The identities that occur.
Idents == {Id(h) : h \in SomeNode}

\* A handle names a line of its configuration.
LEMMA NodeLine ==
    ASSUME InputsOK, NEW side \in Sides, NEW h \in Nodes(side)
    PROVE  /\ h \in SomeNode /\ h[1] = side /\ h = <<side, h[2]>> /\ h # Nil
           /\ h[2] \in DOMAIN Conf(side) /\ h \in Places(side)
           /\ Configuration(Conf(side)) /\ h[2] # <<>>
           /\ Line(h) = Conf(side)[h[2]]
           /\ Line(h) = [def |-> Line(h).def, f |-> Line(h).f, block |-> Line(h).block]
           /\ DefOf(h) \in Defs /\ Id(h) \in Idents
  <1>1. PICK p \in DOMAIN Conf(side) : h = <<side, p>>
    BY DEF Nodes
  <1>2. h \in SomeNode /\ h \in Places(side)
    BY <1>1 DEF SomeNode, Sides, Places, Nodes
  <1>3. h # Nil
    BY <1>1 DEF Nil, Sides
  <1>4. Configuration(Conf(side))
    BY DEF InputsOK, Conf
  <1>5. /\ p # <<>> /\ Conf(side)[p].def \in Defs
        /\ Conf(side)[p] = [def |-> Conf(side)[p].def, f |-> Conf(side)[p].f,
                            block |-> Conf(side)[p].block]
    BY <1>4 DEF Configuration
  <1>6. Line(h) = Conf(side)[p] /\ h[2] = p /\ h[1] = side
    BY <1>1 DEF Line
  <1>7. DefOf(h) \in Defs /\ Id(h) \in Idents
    BY <1>2, <1>5, <1>6 DEF DefOf, Idents
  <1> QED
    BY <1>1, <1>2, <1>3, <1>4, <1>5, <1>6, <1>7

\* The slot path of a line, and those of the lines above it.
LEMMA NodePath ==
    ASSUME InputsOK, NEW side \in Sides, NEW h \in Nodes(side)
    PROVE  /\ PathOf(h) \in Seq(Idents)
           /\ Len(PathOf(h)) = Len(h[2]) /\ Len(h[2]) \in Nat /\ Len(h[2]) >= 1
           /\ PathOf(h)[Len(PathOf(h))] = Id(h)
           /\ \A n \in 1..Len(h[2]) :
                /\ <<side, SubSeq(h[2], 1, n)>> \in Nodes(side)
                /\ PathOf(<<side, SubSeq(h[2], 1, n)>>) = SubSeq(PathOf(h), 1, n)
                /\ Len(PathOf(<<side, SubSeq(h[2], 1, n)>>)) = n
                /\ Below(PathOf(<<side, SubSeq(h[2], 1, n)>>), PathOf(h))
  <1> DEFINE c == Conf(side)
             p == h[2]
             At(n) == <<side, SubSeq(p, 1, n)>>
  <1>1. /\ h = <<side, p>> /\ p \in DOMAIN c /\ Configuration(c) /\ p # <<>> /\ h[1] = side
    BY NodeLine
  <1>2. /\ p \in Seq(Nat) /\ Len(p) \in Nat /\ DOMAIN p = 1..Len(p)
        /\ \A n \in 1..Len(p) : SubSeq(p, 1, n) \in DOMAIN c
        /\ SlotPath(c, p) = [n \in 1..Len(p) |-> Ident(c[SubSeq(p, 1, n)])]
    <2> HIDE DEF c, p
    <2> QED
      BY <1>1, Ancestors
  <1>3. Len(p) >= 1
    BY <1>1, <1>2
  <1>4. \A n \in 1..Len(p) : At(n) \in Nodes(side) /\ Id(At(n)) = Ident(c[SubSeq(p, 1, n)])
    BY <1>2 DEF Nodes, Id, Line
  <1>5. PathOf(h) = [n \in 1..Len(p) |-> Id(At(n))]
    <2>1. PathOf(h) = SlotPath(c, p)
      BY <1>1 DEF PathOf
    <2> HIDE DEF c, p
    <2> QED
      BY <1>2, <1>4, <2>1
  <1>6. PathOf(h) \in Seq(Idents) /\ Len(PathOf(h)) = Len(p)
    <2>1. \A n \in 1..Len(p) : Id(At(n)) \in Idents
      BY <1>4, NodeLine
    <2> HIDE DEF c, p, At
    <2> QED
      BY <1>2, <1>5, <2>1
  <1>7. At(Len(p)) = h
    BY <1>1, <1>2, SubSeqFull
  <1>8. PathOf(h)[Len(PathOf(h))] = Id(h)
    <2> HIDE DEF c, p, At
    <2> QED
      BY <1>2, <1>3, <1>5, <1>6, <1>7
  <1>9. ASSUME NEW n \in 1..Len(p)
        PROVE  /\ At(n) \in Nodes(side)
               /\ PathOf(At(n)) = SubSeq(PathOf(h), 1, n)
               /\ Len(PathOf(At(n))) = n
               /\ Below(PathOf(At(n)), PathOf(h))
    <2> DEFINE s == SubSeq(p, 1, n)
               r == SubSeq(PathOf(h), 1, n)
               w == PathOf(h)
               v == PathOf(At(n))
    <2>1. /\ s \in Seq(Nat) /\ Len(s) = n /\ s \in DOMAIN c
          /\ \A j \in 1..n : SubSeq(s, 1, j) = SubSeq(p, 1, j)
      BY <1>2
    <2>2. v = SlotPath(c, s)
      BY DEF PathOf
    <2>3. SlotPath(c, s) = [j \in 1..n |-> Ident(c[SubSeq(s, 1, j)])]
      <3> HIDE DEF c, p, s
      <3> QED
        BY <1>1, <2>1, Ancestors
    <2>4. v = [j \in 1..n |-> Id(At(j))]
      <3>1. \A j \in 1..n : Ident(c[SubSeq(s, 1, j)]) = Id(At(j))
        <4>1. \A j \in 1..n : j \in 1..Len(p)
          BY <1>2
        <4>2. \A j \in 1..n : SubSeq(s, 1, j) = SubSeq(p, 1, j)
          BY <2>1
        <4> HIDE DEF s, At, p, c
        <4> QED
          BY <1>4, <4>1, <4>2
      <3> HIDE DEF c, p, s, At, v
      <3> QED
        BY <2>2, <2>3, <3>1
    <2>5. v \in Seq(Idents) /\ Len(v) = n /\ \A j \in 1..n : v[j] = w[j]
      <3>1. \A j \in 1..n : Id(At(j)) \in Idents
        BY <1>2, <1>4, NodeLine
      <3> HIDE DEF c, p, s, At, v, w
      <3> QED
        BY <1>2, <1>5, <2>4, <3>1 DEF w
    <2>6. r \in Seq(Idents) /\ Len(r) = n /\ \A j \in 1..n : r[j] = w[j]
      <3>1. n <= Len(w) /\ w \in Seq(Idents) /\ n \in Nat
        BY <1>2, <1>6
      <3> HIDE DEF w
      <3> QED
        BY <3>1 DEF r, w
    <2> HIDE DEF c, p, s, At, v, w, r
    <2>7. v = r
      BY <2>5, <2>6, SeqEqual
    <2>8. Below(v, w)
      <3>1. w \in Seq(Idents) /\ n <= Len(w)
        BY <1>2, <1>6 DEF w
      <3> QED
        BY <2>5, <3>1, BelowIs
    <2> QED
      BY <1>4, <2>5, <2>7, <2>8 DEF r, v, w
  <1> QED
    BY <1>2, <1>3, <1>6, <1>8, <1>9

\* The entry of a line.
LEMMA NodeEntry ==
    ASSUME InputsOK, NEW side \in Sides, NEW h \in Nodes(side)
    PROVE  /\ EntryOf(h).path = PathOf(h) /\ EntryOf(h).line.def = DefOf(h)
           /\ EntryOf(h) = [path |-> PathOf(h), line |-> Normal(Line(h))]
           /\ EntryOf(h) \in Entries(Conf(side))
  <1>1. /\ h[1] = side /\ h[2] \in DOMAIN Conf(side) /\ Line(h) = Conf(side)[h[2]]
        /\ Line(h) = [def |-> Line(h).def, f |-> Line(h).f, block |-> Line(h).block]
    BY NodeLine
  <1>2. EntryOf(h) = [path |-> PathOf(h), line |-> Normal(Line(h))]
    BY <1>1 DEF EntryOf, Entry, PathOf
  <1> DEFINE l == Line(h)
  <1>3. Normal(l).def = l.def
    <2> HIDE DEF l
    <2>1. l = [def |-> l.def, f |-> l.f, block |-> l.block]
      BY <1>1 DEF l
    <2> QED
      BY <2>1 DEF Normal
  <1>4. EntryOf(h) \in Entries(Conf(side))
    BY <1>1 DEF EntryOf, Entries
  <1> QED
    BY <1>2, <1>3, <1>4 DEF DefOf

\* Every entry of a configuration is that of a line.
LEMMA EntryHasNode ==
    ASSUME InputsOK, NEW side \in Sides, NEW x \in Entries(Conf(side))
    PROVE  \E h \in Nodes(side) : x = EntryOf(h)
  <1>1. PICK p \in DOMAIN Conf(side) : x = Entry(Conf(side), p)
    BY DEF Entries
  <1>2. <<side, p>> \in Nodes(side) /\ EntryOf(<<side, p>>) = x
    BY <1>1 DEF Nodes, EntryOf
  <1> QED
    BY <1>2

\* The parts of an identity.
LEMMA IdentParts ==
    ASSUME NEW x, NEW y, NEW z, NEW v, NEW i
    PROVE  /\ i = [def |-> x, kind |-> y, key |-> <<z>>] =>
                i.def = x /\ i.kind = y /\ i.key[1] = z
           /\ i = [def |-> x, kind |-> y, key |-> <<z, v>>] =>
                i.def = x /\ i.kind = y /\ i.key[1] = z
  OBVIOUS

\* The form an identity has in each category.
LEMMA IdentForm ==
    ASSUME NEW l, l.def \in Defs
    PROVE  /\ CategoryOf(l.def) = "KindedSingle" =>
                /\ KindedSingleDef(l.def) /\ Ident(l).def = 0
                /\ Ident(l).kind = Schema[l.def].kind /\ Ident(l).key[1] = "none"
           /\ CategoryOf(l.def) = "IdempotentSingle" =>
                Ident(l).def = l.def /\ Ident(l).key[1] = "none"
           /\ CategoryOf(l.def) = "Keyed" => Keyed(l.def) /\ Ident(l).key[1] = "key"
           /\ CategoryOf(l.def) = "FullLine" =>
                Ident(l).def = l.def /\ Ident(l).key[1] = "text"
           /\ CategoryOf(l.def) \in {"KindedSingle", "IdempotentSingle", "Keyed", "FullLine"}
           /\ l.def # 0
  <1> DEFINE d == l.def
             c == CategoryOf(d)
             i == Ident(l)
             k == IF Schema[d].kind = "" THEN d ELSE 0
  <1>1. /\ c = "KindedSingle" => KindedSingleDef(d)
        /\ c = "Keyed" => Keyed(d)
        /\ c \in {"KindedSingle", "IdempotentSingle", "Keyed", "FullLine"}
    BY DEF CategoryOf
  <1>2. d # 0
    BY RanksAssumption
  <1>3. c = "KindedSingle" => i = [def |-> 0, kind |-> Schema[d].kind, key |-> <<"none">>]
    BY DEF Ident
  <1>4. c = "IdempotentSingle" => i = [def |-> d, kind |-> "", key |-> <<"none">>]
    BY DEF Ident
  <1>5. c = "Keyed" => i = [def |-> k, kind |-> Schema[d].kind, key |-> <<"key", KeyValue(l)>>]
    BY DEF Ident
  <1>6. c = "FullLine" => i = [def |-> d, kind |-> "", key |-> <<"text", l.f>>]
    BY DEF Ident
  <1> HIDE DEF d, c, i, k
  <1>0. \A x, y, z, v :
            /\ i = [def |-> x, kind |-> y, key |-> <<z>>] =>
                i.def = x /\ i.kind = y /\ i.key[1] = z
            /\ i = [def |-> x, kind |-> y, key |-> <<z, v>>] =>
                i.def = x /\ i.kind = y /\ i.key[1] = z
    BY IdentParts
  <1>7. c = "KindedSingle" => i.def = 0 /\ i.kind = Schema[d].kind /\ i.key[1] = "none"
    BY <1>3, <1>0, Zenon
  <1>8. c = "IdempotentSingle" => i.def = d /\ i.key[1] = "none"
    BY <1>4, <1>0, Zenon
  <1>9. c = "Keyed" => i.key[1] = "key"
    <2> DEFINE v == KeyValue(l)
               y == Schema[d].kind
    <2>1. c = "Keyed" => i = [def |-> k, kind |-> y, key |-> <<"key", v>>]
      BY <1>5
    <2> HIDE DEF v, y
    <2> QED
      BY <2>1, <1>0, Zenon
  <1>10. c = "FullLine" => i.def = d /\ i.key[1] = "text"
    BY <1>6, <1>0, Zenon
  <1> QED
    BY <1>1, <1>2, <1>7, <1>8, <1>9, <1>10 DEF d, c, i

\* Two lines of one identity are spelled by one definition, or share a Kind
\* slot, or are keyed.
LEMMA SameIdent ==
    ASSUME NEW l, l.def \in Defs, NEW m, m.def \in Defs, Ident(l) = Ident(m)
    PROVE  \/ l.def = m.def
           \/ /\ KindedSingleDef(l.def) /\ KindedSingleDef(m.def)
              /\ Schema[l.def].kind = Schema[m.def].kind
           \/ Keyed(l.def) /\ Keyed(m.def)
  <1> DEFINE a == CategoryOf(l.def)
             b == CategoryOf(m.def)
  <1>1. /\ a = "KindedSingle" => Ident(l).def = 0 /\ Ident(l).kind = Schema[l.def].kind
                                 /\ Ident(l).key[1] = "none" /\ KindedSingleDef(l.def)
        /\ a = "IdempotentSingle" => Ident(l).def = l.def /\ Ident(l).key[1] = "none"
        /\ a = "Keyed" => Ident(l).key[1] = "key" /\ Keyed(l.def)
        /\ a = "FullLine" => Ident(l).def = l.def /\ Ident(l).key[1] = "text"
        /\ a \in {"KindedSingle", "IdempotentSingle", "Keyed", "FullLine"}
        /\ l.def # 0
    BY IdentForm
  <1>2. /\ b = "KindedSingle" => Ident(m).def = 0 /\ Ident(m).kind = Schema[m.def].kind
                                 /\ Ident(m).key[1] = "none" /\ KindedSingleDef(m.def)
        /\ b = "IdempotentSingle" => Ident(m).def = m.def /\ Ident(m).key[1] = "none"
        /\ b = "Keyed" => Ident(m).key[1] = "key" /\ Keyed(m.def)
        /\ b = "FullLine" => Ident(m).def = m.def /\ Ident(m).key[1] = "text"
        /\ b \in {"KindedSingle", "IdempotentSingle", "Keyed", "FullLine"}
        /\ m.def # 0
    BY IdentForm
  <1> HIDE DEF a, b
  <1> QED
    BY <1>1, <1>2

\* What the members of a toggle group have in common.
LEMMA ToggleGroup ==
    ASSUME NEW d \in Defs, NEW e \in ToSet(Schema[d].toggles)
    PROVE  /\ e \in Defs /\ d \in ToSet(Schema[e].toggles)
           /\ Schema[e].toggles = Schema[d].toggles
           /\ ~Keyed(d) /\ ~Keyed(e) /\ ~KindedSingleDef(d) /\ ~KindedSingleDef(e)
           /\ SingleOccupancy(d)
  <1>1. Schema[d].toggles # <<>>
    BY DEF ToSet
  <1>2. TogglesBuilds(d)
    BY SchemaAssumption DEF Buildable
  <1>3. /\ d \in ToSet(Schema[d].toggles) /\ e \in Defs /\ ~Keyed(d)
        /\ Schema[e].toggles = Schema[d].toggles /\ Schema[d].card = "ZeroToOne"
    BY <1>1, <1>2 DEF TogglesBuilds
  <1>4. ~Keyed(e)
    <2>1. TogglesBuilds(e)
      BY <1>3, SchemaAssumption DEF Buildable
    <2> QED
      BY <1>1, <1>3, <2>1 DEF TogglesBuilds
  <1> QED
    BY <1>1, <1>3, <1>4 DEF KindedSingleDef, SingleOccupancy

-----------------------------------------------------------------------------
(* Displacement.                                                           *)

\* Writing line g pushes line h out.
Ousts(g, h) == Displaces(EntryOf(g), EntryOf(h))

\* The line that stands directly above.
Over(h) == Front(PathOf(h))

\* Lines of one path share a place.
LEMMA SamePlace ==
    ASSUME InputsOK, NEW g \in SomeNode, NEW h \in SomeNode, PathOf(g) = PathOf(h)
    PROVE  /\ Place(EntryOf(g)) = Place(EntryOf(h)) /\ Id(g) = Id(h)
           /\ \/ DefOf(g) = DefOf(h)
              \/ /\ Keyed(DefOf(g)) \/ KindedSingleDef(DefOf(g))
                 /\ Keyed(DefOf(h)) \/ KindedSingleDef(DefOf(h))
           /\ Ousts(g, h)
  <1>1. PICK a \in Sides, b \in Sides : g \in Nodes(a) /\ h \in Nodes(b)
    BY DEF SomeNode, Sides
  <1>2. /\ PathOf(g)[Len(PathOf(g))] = Id(g) /\ PathOf(h)[Len(PathOf(h))] = Id(h)
    BY <1>1, NodePath
  <1>3. Ident(Line(g)) = Ident(Line(h))
    BY <1>2 DEF Id
  <1>4. Line(g).def \in Defs /\ Line(h).def \in Defs
    BY <1>1, NodeLine DEF DefOf
  <1>5. \/ DefOf(g) = DefOf(h)
        \/ /\ KindedSingleDef(DefOf(g)) /\ KindedSingleDef(DefOf(h))
           /\ Schema[DefOf(g)].kind = Schema[DefOf(h)].kind
        \/ Keyed(DefOf(g)) /\ Keyed(DefOf(h))
    BY <1>3, <1>4, SameIdent DEF DefOf
  <1>6. /\ EntryOf(g).path = PathOf(g) /\ EntryOf(g).line.def = DefOf(g)
        /\ EntryOf(h).path = PathOf(h) /\ EntryOf(h).line.def = DefOf(h)
    BY <1>1, NodeEntry
  <1>7. Place(EntryOf(g)) = Place(EntryOf(h))
    <2>1. CASE DefOf(g) = DefOf(h)
      BY <1>6, <2>1 DEF Place
    <2>2. CASE /\ KindedSingleDef(DefOf(g)) /\ KindedSingleDef(DefOf(h))
               /\ Schema[DefOf(g)].kind = Schema[DefOf(h)].kind
      BY <1>6, <2>2 DEF Place, KindedSingleDef
    <2>3. CASE Keyed(DefOf(g)) /\ Keyed(DefOf(h))
      BY <1>6, <2>3 DEF Place, SlotDef
    <2> QED
      BY <1>5, <2>1, <2>2, <2>3
  <1>8. Ousts(g, h)
    BY <1>7 DEF Ousts, Displaces
  <1> QED
    BY <1>2, <1>5, <1>7, <1>8

\* Displacement works both ways.
LEMMA OustsBothWays ==
    ASSUME InputsOK, NEW g \in SomeNode, NEW h \in SomeNode
    PROVE  Ousts(g, h) <=> Ousts(h, g)
  <1>1. /\ EntryOf(g).line.def = DefOf(g) /\ DefOf(g) \in Defs
        /\ EntryOf(h).line.def = DefOf(h) /\ DefOf(h) \in Defs
    BY NodeEntry, NodeLine DEF SomeNode, Sides
  <1>2. \A d, e \in Defs : e \in ToSet(Schema[d].toggles) => d \in ToSet(Schema[e].toggles)
    BY ToggleGroup
  <1>3. Siblings(EntryOf(g), EntryOf(h)) <=> Siblings(EntryOf(h), EntryOf(g))
    BY DEF Siblings
  <1> QED
    BY <1>1, <1>2, <1>3 DEF Ousts, Displaces

\* Displacement is a matter of paths: another line of the same path is pushed
\* out by the same lines.
LEMMA OustsByPath ==
    ASSUME InputsOK, NEW e \in SomeNode, NEW g \in SomeNode, NEW h \in SomeNode,
           PathOf(g) = PathOf(h), Ousts(e, g)
    PROVE  Ousts(e, h)
  <1>1. /\ EntryOf(e).line.def = DefOf(e) /\ DefOf(e) \in Defs
        /\ EntryOf(g).line.def = DefOf(g) /\ DefOf(g) \in Defs /\ EntryOf(g).path = PathOf(g)
        /\ EntryOf(h).line.def = DefOf(h) /\ EntryOf(h).path = PathOf(h)
    BY NodeEntry, NodeLine DEF SomeNode, Sides
  <1>2. Place(EntryOf(g)) = Place(EntryOf(h))
    BY SamePlace
  <1>3. CASE Place(EntryOf(e)) = Place(EntryOf(g))
    BY <1>2, <1>3 DEF Ousts, Displaces
  <1>4. CASE /\ Siblings(EntryOf(e), EntryOf(g)) /\ DefOf(g) # DefOf(e)
             /\ DefOf(g) \in ToSet(Schema[DefOf(e)].toggles)
    <2>1. ~Keyed(DefOf(g)) /\ ~KindedSingleDef(DefOf(g))
      BY <1>1, <1>4, ToggleGroup
    <2>2. DefOf(g) = DefOf(h)
      BY <2>1, SamePlace
    <2>3. Siblings(EntryOf(e), EntryOf(h))
      BY <1>1, <1>4 DEF Siblings
    <2> QED
      BY <1>1, <1>4, <2>2, <2>3 DEF Ousts, Displaces
  <1> QED
    BY <1>1, <1>3, <1>4 DEF Ousts, Displaces

\* Only siblings push each other out.
LEMMA OustsSiblings ==
    ASSUME InputsOK, NEW g \in SomeNode, NEW h \in SomeNode, Ousts(g, h)
    PROVE  Over(g) = Over(h)
  <1>1. EntryOf(g).path = PathOf(g) /\ EntryOf(h).path = PathOf(h)
    BY NodeEntry DEF SomeNode, Sides
  <1>2. CASE Siblings(EntryOf(g), EntryOf(h))
    BY <1>1, <1>2 DEF Siblings, Over
  <1>3. CASE Place(EntryOf(g)) = Place(EntryOf(h))
    <2> DEFINE d == EntryOf(g).line.def
               e == EntryOf(h).line.def
               k == IF Schema[d].kind = "" THEN d ELSE 0
               l == IF Schema[e].kind = "" THEN e ELSE 0
    <2>1. Place(EntryOf(g)) = IF SlotDef(d) THEN <<Over(g), "slot", Schema[d].kind, k>>
                              ELSE <<PathOf(g)>>
      BY <1>1 DEF Place, Over
    <2>2. Place(EntryOf(h)) = IF SlotDef(e) THEN <<Over(h), "slot", Schema[e].kind, l>>
                              ELSE <<PathOf(h)>>
      BY <1>1 DEF Place, Over
    <2> HIDE DEF d, e, k, l
    <2>3. Len(Place(EntryOf(g))) = IF SlotDef(d) THEN 4 ELSE 1
      BY <2>1
    <2>6. Len(Place(EntryOf(h))) = IF SlotDef(e) THEN 4 ELSE 1
      BY <2>2
    <2>4. CASE SlotDef(d) /\ SlotDef(e)
      <3>1. /\ Place(EntryOf(g)) = <<Over(g), "slot", Schema[d].kind, k>>
            /\ Place(EntryOf(h)) = <<Over(h), "slot", Schema[e].kind, l>>
        BY <2>1, <2>2, <2>4, Zenon
      <3>2. ASSUME NEW s, NEW w, NEW x, NEW y, NEW z, s = <<w, x, y, z>>
            PROVE  s[1] = w
        BY <3>2
      <3>3. Place(EntryOf(g))[1] = Over(g)
        BY <3>1, <3>2
      <3>4. Place(EntryOf(h))[1] = Over(h)
        BY <3>1, <3>2
      <3> QED
        BY <1>3, <3>3, <3>4
    <2>5. CASE ~SlotDef(d) /\ ~SlotDef(e)
      <3>1. Place(EntryOf(g)) = <<PathOf(g)>> /\ Place(EntryOf(h)) = <<PathOf(h)>>
        BY <2>1, <2>2, <2>5
      <3>2. \A x, y : <<x>> = <<y>> => x = y
        <4>1. \A x : <<x>>[1] = x
          OBVIOUS
        <4> QED
          BY <4>1, Zenon
      <3>3. PathOf(g) = PathOf(h)
        BY <1>3, <3>1, <3>2, Zenon
      <3> QED
        BY <3>3 DEF Over
    <2> QED
      BY <1>3, <2>3, <2>4, <2>5, <2>6
  <1> QED
    BY <1>2, <1>3 DEF Ousts, Displaces

-----------------------------------------------------------------------------
(* Configurations in which every line has its place to itself.             *)

\* The slot paths of the lines of one side.
PathsOf(side) == {PathOf(h) : h \in Nodes(side)}

Shown == PathsOf("run")
Wanted == PathsOf("int")

\* Both sides of a tidy plan.
LEMMA TidySides ==
    ASSUME Tidy, NEW side \in Sides
    PROVE  OneEach(Conf(side)) /\ SpelledOnce(Conf(side))
  <1>1. OneEach(Conf(side))
    BY DEF Tidy, Sides, Conf
  <1> QED
    BY <1>1 DEF OneEach, SpelledOnce

\* A slot path leads to one line.
LEMMA PathOne ==
    ASSUME InputsOK, Tidy, NEW side \in Sides, NEW g \in Nodes(side), NEW h \in Nodes(side),
           PathOf(g) = PathOf(h)
    PROVE  g = h
  <1>1. /\ g = <<side, g[2]>> /\ g[1] = side /\ g[2] \in DOMAIN Conf(side)
        /\ h = <<side, h[2]>> /\ h[1] = side /\ h[2] \in DOMAIN Conf(side)
        /\ Configuration(Conf(side))
    BY NodeLine
  <1>2. SlotPath(Conf(side), g[2]) = SlotPath(Conf(side), h[2])
    BY <1>1 DEF PathOf
  <1>3. g[2] = h[2]
    <2>1. SpelledOnce(Conf(side))
      BY TidySides
    <2> QED
      BY <1>1, <1>2, <2>1, PathInjective
  <1> QED
    BY <1>1, <1>3

\* The path of a line ends in its identity, below the place of its parent.
LEMMA NodeOver ==
    ASSUME InputsOK, NEW side \in Sides, NEW h \in Nodes(side)
    PROVE  /\ PathOf(h) = Append(Over(h), Id(h)) /\ PathOf(h) \in Seq(Idents)
           /\ Over(h) \in Seq(Idents) /\ Id(h) \in Idents
           /\ Parent(h[2]) \in DOMAIN Conf(side) \cup {<<>>}
           /\ Over(h) = SlotPath(Conf(side), Parent(h[2]))
           /\ Over(h) = <<>> \/ Over(h) \in PathsOf(side)
  <1> DEFINE p == h[2]
             c == Conf(side)
             w == PathOf(h)
             n == Len(p)
             v == Over(h)
  <1>1. /\ h = <<side, p>> /\ p \in DOMAIN c /\ Configuration(c) /\ Id(h) \in Idents
        /\ h[1] = side
    BY NodeLine
  <1>2. /\ w \in Seq(Idents) /\ Len(w) = n /\ n \in Nat /\ n >= 1 /\ w[n] = Id(h)
        /\ \A k \in 1..n : /\ <<side, SubSeq(p, 1, k)>> \in Nodes(side)
                           /\ PathOf(<<side, SubSeq(p, 1, k)>>) = SubSeq(w, 1, k)
    BY NodePath
  <1>3. /\ p \in Seq(Nat) /\ DOMAIN p = 1..n
        /\ \A k \in 1..n : /\ SubSeq(p, 1, k) \in DOMAIN c
                           /\ Parent(SubSeq(p, 1, k)) = SubSeq(p, 1, k - 1)
    <2> HIDE DEF p, c
    <2> QED
      BY <1>1, Ancestors DEF n
  <1>4. v = SubSeq(w, 1, n - 1) /\ Parent(p) = SubSeq(p, 1, n - 1)
    BY <1>2, <1>3 DEF Front, Over, Parent
  <1>5. v \in Seq(Idents) /\ w = Append(v, Id(h))
    <2> HIDE DEF v, w, p, n
    <2>1. v \in Seq(Idents) /\ Len(v) = n - 1 /\ \A j \in 1..(n - 1) : v[j] = w[j]
      BY <1>2, <1>4
    <2> DEFINE z == Append(v, Id(h))
    <2>2. z \in Seq(Idents) /\ Len(z) = n /\ z[n] = Id(h) /\ \A j \in 1..(n - 1) : z[j] = v[j]
      BY <1>1, <1>2, <2>1, AppendProperties
    <2> HIDE DEF z
    <2>3. \A j \in 1..n : z[j] = w[j]
      BY <1>2, <2>1, <2>2
    <2>4. z = w
      BY <1>2, <2>2, <2>3, SeqEqual
    <2> QED
      BY <2>1, <2>4 DEF z
  <1>6. CASE n = 1
    <2>1. Parent(p) = <<>> /\ v = <<>>
      BY <1>2, <1>3, <1>4, <1>6
    <2>2. SlotPath(c, <<>>) = <<>>
      BY DEF SlotPath
    <2> QED
      BY <1>1, <1>2, <1>5, <2>1, <2>2
  <1>7. CASE n # 1
    <2> DEFINE g == <<side, SubSeq(p, 1, n - 1)>>
    <2>1. n - 1 \in 1..n
      <3>1. n \in Nat /\ n >= 1 /\ n # 1
        BY <1>2, <1>7
      <3> HIDE DEF n
      <3> QED
        BY <3>1
    <2>2. g \in Nodes(side) /\ PathOf(g) = v /\ Parent(p) \in DOMAIN c
      BY <1>2, <1>3, <1>4, <2>1
    <2>3. PathOf(g) = SlotPath(c, Parent(p))
      BY <1>4 DEF PathOf
    <2>4. v \in PathsOf(side)
      BY <2>2 DEF PathsOf
    <2> QED
      BY <1>1, <1>2, <1>5, <2>2, <2>3, <2>4
  <1> QED
    BY <1>6, <1>7

\* What stands above a line of a side is on that side.
LEMMA PathsClosed ==
    ASSUME InputsOK, NEW side \in Sides, NEW u \in PathsOf(side),
           NEW v \in Seq(Idents), v # <<>>, Below(v, u)
    PROVE  v \in PathsOf(side) /\ u \in Seq(Idents) /\ u # <<>>
  <1>1. PICK h \in Nodes(side) : u = PathOf(h)
    BY DEF PathsOf
  <1> DEFINE n == Len(v)
  <1>2. /\ u \in Seq(Idents) /\ Len(u) = Len(h[2]) /\ Len(h[2]) \in Nat /\ Len(h[2]) >= 1
        /\ \A k \in 1..Len(h[2]) :
            /\ <<side, SubSeq(h[2], 1, k)>> \in Nodes(side)
            /\ PathOf(<<side, SubSeq(h[2], 1, k)>>) = SubSeq(u, 1, k)
    BY <1>1, NodePath
  <1>3. n \in 1..Len(h[2]) /\ SubSeq(u, 1, n) = v
    BY <1>2 DEF Below
  <1>4. v \in PathsOf(side)
    BY <1>2, <1>3 DEF PathsOf
  <1> QED
    BY <1>2, <1>4

\* On one side, positions are below each other as slot paths are.
LEMMA BelowNodes ==
    ASSUME InputsOK, Tidy, NEW side \in Sides, NEW h \in Nodes(side), NEW g \in Nodes(side)
    PROVE  Below(PathOf(h), PathOf(g)) <=> Below(h[2], g[2])
  <1> DEFINE n == Len(h[2])
             f == <<side, SubSeq(g[2], 1, n)>>
  <1>1. /\ h = <<side, h[2]>> /\ g = <<side, g[2]>>
    BY NodeLine
  <1>2. Len(PathOf(h)) = n /\ n \in Nat /\ n >= 1
    BY NodePath
  <1>3. /\ Len(PathOf(g)) = Len(g[2]) /\ Len(g[2]) \in Nat
        /\ n <= Len(g[2]) => /\ f \in Nodes(side) /\ PathOf(f) = SubSeq(PathOf(g), 1, n)
    <2>1. /\ Len(PathOf(g)) = Len(g[2]) /\ Len(g[2]) \in Nat
          /\ \A k \in 1..Len(g[2]) :
                /\ <<side, SubSeq(g[2], 1, k)>> \in Nodes(side)
                /\ PathOf(<<side, SubSeq(g[2], 1, k)>>) = SubSeq(PathOf(g), 1, k)
      BY NodePath
    <2>2. n <= Len(g[2]) => n \in 1..Len(g[2])
      BY <1>2, <2>1
    <2> QED
      BY <2>1, <2>2
  <1>4. ASSUME Below(PathOf(h), PathOf(g)) PROVE Below(h[2], g[2])
    <2>1. n <= Len(g[2]) /\ PathOf(f) = PathOf(h)
      BY <1>2, <1>3, <1>4 DEF Below
    <2>2. f = h
      BY <1>3, <2>1, PathOne
    <2>3. SubSeq(g[2], 1, n) = h[2]
      BY <1>1, <2>2
    <2> QED
      BY <2>1, <2>3 DEF Below
  <1>5. ASSUME Below(h[2], g[2]) PROVE Below(PathOf(h), PathOf(g))
    <2>1. n <= Len(g[2]) /\ SubSeq(g[2], 1, n) = h[2]
      BY <1>5 DEF Below
    <2>2. f = h
      BY <1>1, <2>1
    <2> QED
      BY <1>2, <1>3, <2>1, <2>2 DEF Below
  <1> QED
    BY <1>4, <1>5

\* The lines of a subtree are those at the paths below its root.
LEMMA SubNodes ==
    ASSUME InputsOK, Tidy, NEW side \in Sides, NEW h \in Nodes(side)
    PROVE  Sub(h) = {g \in Nodes(side) : Below(PathOf(h), PathOf(g))}
  <1>1. h[1] = side /\ h # Nil /\ h[2] \in DOMAIN Conf(side)
    BY NodeLine
  <1>2. Sub(h) = {<<side, q>> : q \in {r \in DOMAIN Conf(side) : Below(h[2], r)}}
    BY <1>1 DEF Sub, Tree
  <1>3. \A q \in DOMAIN Conf(side) : <<side, q>> \in Nodes(side) /\ <<side, q>>[2] = q
    BY DEF Nodes
  <1>4. \A q \in DOMAIN Conf(side) :
            Below(PathOf(h), PathOf(<<side, q>>)) <=> Below(h[2], q)
    BY <1>3, BelowNodes
  <1> QED
    BY <1>2, <1>4 DEF Nodes

\* Nothing stands below a line that is no section.
LEMMA LeafAlone ==
    ASSUME InputsOK, Tidy, NEW side \in Sides, NEW h \in Nodes(side), NEW g \in Nodes(side),
           ~IsSection(DefOf(h)), Below(PathOf(h), PathOf(g))
    PROVE  g = h
  <1> DEFINE n == Len(h[2])
             c == Conf(side)
             p == g[2]
  <1>1. /\ h = <<side, h[2]>> /\ g = <<side, p>> /\ p \in DOMAIN c /\ Configuration(c)
        /\ Line(h) = c[h[2]]
    BY NodeLine
  <1>2. Below(h[2], p)
    BY BelowNodes
  <1>3. n <= Len(p) /\ SubSeq(p, 1, n) = h[2]
    BY <1>2 DEF Below
  <1>4. n \in Nat /\ n >= 1
    BY NodePath
  <1>5. /\ p \in Seq(Nat) /\ Len(p) \in Nat
        /\ \A k \in 1..Len(p) : /\ SubSeq(p, 1, k) \in DOMAIN c
                                /\ Parent(SubSeq(p, 1, k)) = SubSeq(p, 1, k - 1)
    <2> HIDE DEF c, p
    <2> QED
      BY <1>1, Ancestors
  <1>6. CASE n = Len(p)
    <2>1. SubSeq(p, 1, n) = p
      BY <1>5, <1>6, SubSeqFull
    <2> QED
      BY <1>1, <1>3, <2>1
  <1>7. CASE n < Len(p)
    <2> DEFINE q == SubSeq(p, 1, n + 1)
    <2>1. q \in DOMAIN c /\ Parent(q) = SubSeq(p, 1, n) /\ Len(q) = n + 1
      <3>1. n + 1 \in 1..Len(p) /\ (n + 1) - 1 = n
        BY <1>4, <1>5, <1>7
      <3> QED
        BY <1>4, <1>5, <3>1
    <2>2. c[q].def \in Schema[c[Parent(q)].def].kids
      <3>1. Len(q) # 1
        BY <1>4, <2>1
      <3> HIDE DEF q, c
      <3> QED
        BY <1>1, <2>1, <3>1 DEF Configuration
    <2>3. c[Parent(q)].def = DefOf(h)
      BY <1>1, <1>3, <2>1 DEF DefOf
    <2> QED
      BY <2>2, <2>3 DEF IsSection
  <1> QED
    BY <1>3, <1>4, <1>5, <1>6, <1>7

-----------------------------------------------------------------------------
(* What pushes what out.                                                   *)

\* No two lines of one side push each other out.
LEMMA NoOust ==
    ASSUME InputsOK, Tidy, NEW side \in Sides, NEW g \in Nodes(side), NEW h \in Nodes(side),
           Ousts(g, h)
    PROVE  g = h
  <1> DEFINE c == Conf(side)
  <1>1. /\ g = <<side, g[2]>> /\ g[1] = side /\ g[2] \in DOMAIN c
        /\ h = <<side, h[2]>> /\ h[1] = side /\ h[2] \in DOMAIN c
        /\ Configuration(c) /\ g \in SomeNode /\ h \in SomeNode
    BY NodeLine
  <1>2. Over(g) = Over(h)
    BY <1>1, OustsSiblings
  <1>3. /\ Parent(g[2]) \in DOMAIN c \cup {<<>>} /\ Over(g) = SlotPath(c, Parent(g[2]))
        /\ Parent(h[2]) \in DOMAIN c \cup {<<>>} /\ Over(h) = SlotPath(c, Parent(h[2]))
    BY NodeOver
  <1>4. OneEach(c) /\ SpelledOnce(c)
    BY TidySides
  <1>5. Parent(g[2]) = Parent(h[2])
    <2> HIDE DEF c
    <2> QED
      BY <1>1, <1>2, <1>3, <1>4, PathInjective
  <1>6. g[2] # h[2] => ~Displaces(Entry(c, g[2]), Entry(c, h[2]))
    BY <1>1, <1>4, <1>5 DEF OneEach
  <1>7. EntryOf(g) = Entry(c, g[2]) /\ EntryOf(h) = Entry(c, h[2])
    BY <1>1 DEF EntryOf
  <1> QED
    BY <1>1, <1>6, <1>7 DEF Ousts

\* A line pushes nothing out of the places of its own side but what stands in
\* its own.
LEMMA Pushed ==
    ASSUME InputsOK, Tidy, NEW side \in Sides, NEW g \in Nodes(side), NEW x \in SomeNode,
           Ousts(g, x), PathOf(x) \in PathsOf(side)
    PROVE  PathOf(x) = PathOf(g)
  <1>1. PICK h \in Nodes(side) : PathOf(h) = PathOf(x)
    BY DEF PathsOf
  <1>2. g \in SomeNode /\ h \in SomeNode
    BY NodeLine
  <1>3. Ousts(g, h)
    BY <1>1, <1>2, OustsByPath
  <1> QED
    BY <1>1, <1>3, NoOust

\* A line that pushes out nothing but what stands in its own place.
Firm(g) == \A x \in SomeNode : Ousts(g, x) => PathOf(x) = PathOf(g)

\* A line of one side at a place that both sides have.
LEMMA FirmBoth ==
    ASSUME InputsOK, Tidy, NEW g \in SomeNode, PathOf(g) \in Shown, PathOf(g) \in Wanted
    PROVE  Firm(g)
  <1> SUFFICES ASSUME NEW x \in SomeNode, Ousts(g, x) PROVE PathOf(x) = PathOf(g)
    BY DEF Firm
  <1>1. PICK side \in Sides : x \in Nodes(side)
    BY DEF SomeNode, Sides
  <1>2. PathOf(g) \in PathsOf(side)
    BY DEF Sides, Shown, Wanted
  <1>3. Ousts(x, g)
    BY OustsBothWays
  <1> QED
    BY <1>1, <1>2, <1>3, Pushed

\* A running line that nothing wants in its place, neither its own nor one of
\* a line above it that is not wanted either.
Gone(h) ==
    /\ PathOf(h) \notin Wanted
    /\ \A g \in Nodes("run") :
        Below(PathOf(g), PathOf(h)) /\ PathOf(g) \notin Wanted =>
            \A q \in Nodes("int") : ~Ousts(q, g)

\* Such a line pushes nothing out, and nothing wanted pushes it out.
LEMMA FirmGone ==
    ASSUME InputsOK, Tidy, NEW g \in Nodes("run"), Gone(g)
    PROVE  /\ Firm(g)
           /\ \A q \in Nodes("int") : ~Ousts(q, g) /\ ~Ousts(g, q)
  <1>1. g \in SomeNode /\ "run" \in Sides /\ "int" \in Sides
    BY DEF SomeNode, Sides
  <1>2. Below(PathOf(g), PathOf(g))
    <2>1. PathOf(g) \in Seq(Idents)
      BY <1>1, NodePath
    <2> QED
      BY <2>1, BelowOrder
  <1>3. ASSUME NEW q \in Nodes("int") PROVE ~Ousts(q, g) /\ ~Ousts(g, q)
    <2>1. ~Ousts(q, g)
      BY <1>2, <1>3 DEF Gone
    <2>2. q \in SomeNode
      BY DEF SomeNode
    <2> QED
      BY <1>1, <2>1, <2>2, OustsBothWays
  <1>4. ASSUME NEW x \in SomeNode, Ousts(g, x) PROVE PathOf(x) = PathOf(g)
    <2>1. x \in Nodes("run")
      BY <1>3, <1>4 DEF SomeNode
    <2> QED
      BY <1>1, <1>4, <2>1, NoOust
  <1> QED
    BY <1>3, <1>4 DEF Firm

\* What stands below such a line is such a line.
LEMMA GoneBelow ==
    ASSUME InputsOK, Tidy, NEW g \in Nodes("run"), Gone(g), NEW h \in Nodes("run"),
           Over(h) = PathOf(g)
    PROVE  Gone(h)
  <1>1. "run" \in Sides /\ "int" \in Sides
    BY DEF Sides
  <1>2. /\ PathOf(h) = Append(PathOf(g), Id(h)) /\ PathOf(h) \in Seq(Idents) /\ Id(h) \in Idents
        /\ PathOf(g) \in Seq(Idents) /\ PathOf(g) # <<>>
    <2>1. Len(PathOf(g)) >= 1 /\ PathOf(g) \in Seq(Idents)
      BY <1>1, NodePath
    <2>2. PathOf(g) # <<>>
      BY <2>1
    <2> QED
      BY <1>1, <2>1, <2>2, NodeOver
  <1>3. /\ Below(PathOf(g), PathOf(h))
        /\ \A u \in Seq(Idents) :
            Below(u, PathOf(h)) <=> Below(u, PathOf(g)) \/ u = PathOf(h)
    BY <1>2, BelowChild
  <1>4. PathOf(h) \notin Wanted
    <2> SUFFICES ASSUME PathOf(h) \in Wanted PROVE FALSE
      OBVIOUS
    <2>1. PathOf(g) \in Wanted
      BY <1>1, <1>2, <1>3, PathsClosed DEF Wanted
    <2> QED
      BY <2>1 DEF Gone
  <1>5. ASSUME NEW f \in Nodes("run"), Below(PathOf(f), PathOf(h)), PathOf(f) \notin Wanted,
               NEW q \in Nodes("int")
        PROVE  ~Ousts(q, f)
    <2>1. PathOf(f) \in Seq(Idents)
      BY <1>1, NodePath
    <2>2. CASE Below(PathOf(f), PathOf(g))
      BY <1>5, <2>2 DEF Gone
    <2>3. CASE PathOf(f) = PathOf(h)
      <3> SUFFICES ASSUME Ousts(q, f) PROVE FALSE
        OBVIOUS
      <3>1. Over(q) = Over(f)
        BY <1>1, OustsSiblings DEF SomeNode
      <3>2. Over(f) = PathOf(g)
        BY <2>3 DEF Over
      <3>3. Over(q) = <<>> \/ Over(q) \in PathsOf("int")
        BY <1>1, NodeOver
      <3> QED
        BY <1>2, <3>1, <3>2, <3>3 DEF Gone, Wanted
    <2> QED
      BY <1>3, <1>5, <2>1, <2>2, <2>3
  <1> QED
    BY <1>4, <1>5 DEF Gone

-----------------------------------------------------------------------------
(* A level of two places that pair.                                        *)

\* The slot path of a call.
At(x) == PathOf(x.src)

\* A level whose two places have one slot path.
Level(t) ==
    /\ t \in LevelSet
    /\ PathOf(t.src) = PathOf(t.run)

\* What a slot path may be.
LEMMA PlacePath ==
    ASSUME InputsOK, NEW side \in Sides, NEW a \in Places(side)
    PROVE  /\ PathOf(a) \in Seq(Idents) /\ Len(PathOf(a)) = Len(a[2])
           /\ PathOf(a) = SlotPath(Conf(side), a[2])
           /\ a[2] \in DOMAIN Conf(side) \cup {<<>>}
           /\ PathOf(a) = <<>> \/ PathOf(a) \in PathsOf(side)
  <1>1. a[1] = side /\ a[2] \in DOMAIN Conf(side) \cup {<<>>} /\ a = <<side, a[2]>>
    BY DEF Places
  <1>2. PathOf(a) = SlotPath(Conf(side), a[2])
    BY <1>1 DEF PathOf
  <1>3. CASE a[2] \in DOMAIN Conf(side)
    <2>1. a \in Nodes(side)
      BY <1>1, <1>3 DEF Nodes
    <2>2. PathOf(a) \in Seq(Idents) /\ Len(PathOf(a)) = Len(a[2]) /\ PathOf(a) \in PathsOf(side)
      BY <2>1, NodePath DEF PathsOf
    <2> QED
      BY <1>1, <1>2, <2>2
  <1>4. CASE a[2] = <<>>
    <2>1. SlotPath(Conf(side), <<>>) = <<>>
      BY DEF SlotPath
    <2>2. <<>> \in Seq(Idents)
      OBVIOUS
    <2> QED
      BY <1>1, <1>2, <1>4, <2>1, <2>2
  <1> QED
    BY <1>1, <1>3, <1>4

\* The children of a place are the lines directly below its slot path.
LEMMA KidsByPath ==
    ASSUME InputsOK, Tidy, NEW side \in Sides, NEW a \in Places(side)
    PROVE  /\ KidsOf(a) \in Seq(Nodes(side))
           /\ ToSet(KidsOf(a)) = {h \in Nodes(side) : Over(h) = PathOf(a)}
  <1> DEFINE c == Conf(side)
  <1>1. /\ KidsOf(a) \in Seq(Nodes(side)) /\ a[2] \in DOMAIN c \cup {<<>>}
        /\ \A k \in DOMAIN KidsOf(a) : KidsOf(a)[k] = <<side, Append(a[2], k)>>
        /\ \A q \in DOMAIN c : IsChild(a[2], q) => \E k \in DOMAIN KidsOf(a) : q = Append(a[2], k)
    BY KidsAreNodes
  <1>2. PathOf(a) = SlotPath(c, a[2])
    BY PlacePath
  <1>3. OneEach(c) /\ SpelledOnce(c) /\ Configuration(c)
    BY TidySides DEF InputsOK, Conf, Sides
  <1>4. ASSUME NEW k \in DOMAIN KidsOf(a)
        PROVE  KidsOf(a)[k] \in Nodes(side) /\ Over(KidsOf(a)[k]) = PathOf(a)
    <2>1. KidsOf(a)[k] \in Nodes(side)
      BY <1>1, <1>4, SeqIsSeq
    <2>2. Parent(KidsOf(a)[k][2]) = a[2]
      BY <1>4, PathOfKid
    <2>3. Over(KidsOf(a)[k]) = SlotPath(c, Parent(KidsOf(a)[k][2]))
      BY <2>1, NodeOver
    <2> QED
      BY <1>2, <2>1, <2>2, <2>3
  <1>5. ASSUME NEW h \in Nodes(side), Over(h) = PathOf(a)
        PROVE  \E k \in DOMAIN KidsOf(a) : h = KidsOf(a)[k]
    <2> DEFINE p == h[2]
    <2>1. /\ h = <<side, p>> /\ p \in DOMAIN c
          /\ Parent(p) \in DOMAIN c \cup {<<>>} /\ Over(h) = SlotPath(c, Parent(p))
      BY NodeLine, NodeOver
    <2>2. Parent(p) = a[2]
      <3> HIDE DEF c, p
      <3> QED
        BY <1>1, <1>2, <1>3, <1>5, <2>1, PathInjective
    <2>3. p \in Seq(Nat) /\ Len(p) \in Nat /\ Len(p) >= 1
      <3>1. p \in Seq(Nat) /\ Len(p) \in Nat
        BY <1>3, <2>1, Ancestors
      <3>2. Len(p) >= 1
        BY NodePath
      <3> QED
        BY <3>1, <3>2
    <2>4. IsChild(a[2], p)
      <3>1. Parent(p) = SubSeq(p, 1, Len(p) - 1)
        BY DEF Parent, Front
      <3>2. Len(SubSeq(p, 1, Len(p) - 1)) = Len(p) - 1
        BY <2>3
      <3> HIDE DEF p
      <3>3. Len(a[2]) = Len(p) - 1
        BY <2>2, <3>1, <3>2
      <3> QED
        BY <2>2, <2>3, <3>1, <3>3 DEF IsChild
    <2>5. PICK k \in DOMAIN KidsOf(a) : p = Append(a[2], k)
      BY <1>1, <2>1, <2>4
    <2> QED
      BY <1>1, <2>1, <2>5
  <1>6. ToSet(KidsOf(a)) = {KidsOf(a)[k] : k \in DOMAIN KidsOf(a)}
    BY DEF ToSet
  <1>7. ToSet(KidsOf(a)) = {h \in Nodes(side) : Over(h) = PathOf(a)}
    BY <1>4, <1>5, <1>6
  <1> QED
    BY <1>1, <1>7

\* The lines of a level, on both sides.
LEMMA LevelLines ==
    ASSUME InputsOK, Tidy, NEW t, Level(t)
    PROVE  /\ t.src \in Places("int") /\ t.run \in Places("run")
           /\ At(t) \in Seq(Idents) /\ At(t) = PathOf(t.run)
           /\ At(t) = <<>> \/ At(t) \in Shown \cap Wanted
           /\ Intended(t) \in Seq(Nodes("int")) /\ Running(t) \in Seq(Nodes("run"))
           /\ ToSet(Intended(t)) = {h \in Nodes("int") : Over(h) = At(t)}
           /\ ToSet(Running(t)) = {r \in Nodes("run") : Over(r) = At(t)}
           /\ \A x \in SomeNode : Over(x) = At(t) => PathOf(x) = Append(At(t), Id(x))
  <1>1. "run" \in Sides /\ "int" \in Sides
    BY DEF Sides
  <1>2. t.src \in Places("int") /\ t.run \in Places("run") /\ At(t) = PathOf(t.run)
    BY DEF Level, LevelSet, At
  <1>3. /\ At(t) \in Seq(Idents)
        /\ At(t) = <<>> \/ At(t) \in Wanted
        /\ At(t) = <<>> \/ At(t) \in Shown
    BY <1>1, <1>2, PlacePath DEF At, Wanted, Shown
  <1>4. /\ Intended(t) \in Seq(Nodes("int"))
        /\ ToSet(Intended(t)) = {h \in Nodes("int") : Over(h) = At(t)}
    BY <1>1, <1>2, KidsByPath DEF Intended, At
  <1>5. /\ Running(t) \in Seq(Nodes("run"))
        /\ ToSet(Running(t)) = {r \in Nodes("run") : Over(r) = At(t)}
    BY <1>1, <1>2, KidsByPath DEF Running
  <1>6. \A x \in SomeNode : PathOf(x) = Append(Over(x), Id(x))
    BY <1>1, NodeOver DEF SomeNode
  <1> QED
    BY <1>2, <1>3, <1>4, <1>5, <1>6

\* An intended line pairs with the running line of its path, if there is one.
LEMMA PairByPath ==
    ASSUME InputsOK, Tidy, NEW t, Level(t), NEW h \in ToSet(Intended(t))
    PROVE  /\ h \in Nodes("int") /\ PairOf(t)[h] \in PairSet
           /\ PairOf(t)[h].src = h /\ ~PairOf(t)[h].cleanup
           /\ \/ PairOf(t)[h].run = Nil /\ PathOf(h) \notin Shown
              \/ /\ PairOf(t)[h].run \in ToSet(Running(t)) /\ PairOf(t)[h].run # Nil
                 /\ PathOf(PairOf(t)[h].run) = PathOf(h)
  <1>1. /\ t.src \in Places("int") /\ t.run \in Places("run")
        /\ Intended(t) \in Seq(Nodes("int")) /\ Running(t) \in Seq(Nodes("run"))
        /\ ToSet(Intended(t)) = {x \in Nodes("int") : Over(x) = At(t)}
        /\ ToSet(Running(t)) = {r \in Nodes("run") : Over(r) = At(t)}
        /\ \A x \in SomeNode : Over(x) = At(t) => PathOf(x) = Append(At(t), Id(x))
    BY LevelLines
  <1>2. "run" \in Sides /\ "int" \in Sides /\ SpelledOnce(running)
    <2>1. "run" \in Sides /\ "int" \in Sides
      BY DEF Sides
    <2> QED
      BY <2>1, TidySides DEF Conf
  <1>3. /\ h \in Nodes("int") /\ PathOf(h) = Append(At(t), Id(h))
        /\ PairOf(t)[h] \in PairSet /\ PairOf(t)[h].src = h
    BY <1>1, PairOfTyped DEF SomeNode
  <1>4. CASE \E j \in DOMAIN Running(t) : Id(Running(t)[j]) = Id(h)
    <2>1. PICK j \in DOMAIN Running(t) : Id(Running(t)[j]) = Id(h)
      BY <1>4
    <2> DEFINE r == Running(t)[j]
    <2>2. r \in ToSet(Running(t))
      BY DEF ToSet
    <2>3. r \in Nodes("run") /\ PathOf(r) = PathOf(h)
      BY <1>1, <1>3, <2>1, <2>2 DEF SomeNode
    <2>4. PairOf(t)[h] = [src |-> h, run |-> r, cleanup |-> FALSE]
      BY <1>1, <1>2, <2>1, PairIsTwin
    <2>5. PairOf(t)[h].run = r /\ ~PairOf(t)[h].cleanup
      BY <2>4
    <2> QED
      BY <1>3, <2>2, <2>3, <2>5, NilIsNoNode
  <1>5. CASE ~\E j \in DOMAIN Running(t) : Id(Running(t)[j]) = Id(h)
    <2>1. ToSet(Running(t)) \cap {r \in ToSet(Running(t)) : Id(r) = Id(h)} = {}
      BY <1>5 DEF ToSet
    <2>2. SameId(Running(t), Id(h)) = <<>>
      BY <1>1, <2>1, OnlyNone DEF SameId
    <2>3. PairOf(t)[h] = [src |-> h, run |-> Nil, cleanup |-> FALSE]
      BY <2>2 DEF PairOf
    <2>4. PathOf(h) \notin Shown
      <3> SUFFICES ASSUME PathOf(h) \in Shown PROVE FALSE
        OBVIOUS
      <3>1. PICK r \in Nodes("run") : PathOf(r) = PathOf(h)
        BY DEF Shown, PathsOf
      <3>2. Over(r) = Over(h)
        BY <3>1 DEF Over
      <3>3. Id(r) = Id(h)
        BY <1>3, <3>1, SamePlace DEF SomeNode
      <3>4. r \in ToSet(Running(t))
        BY <1>1, <3>2
      <3> QED
        BY <1>5, <3>3, <3>4 DEF ToSet
    <2> QED
      BY <1>3, <2>3, <2>4
  <1> QED
    BY <1>4, <1>5

\* The pairs of a level are those of all its intended lines.
LEMMA PairingsByPath ==
    ASSUME InputsOK, Tidy, NEW t, Level(t), NEW pairs, pairs = Pairings(t, Kept(t))
    PROVE  /\ pairs \in Seq(PairSet)
           /\ ToSet(pairs) = {PairOf(t)[h] : h \in ToSet(Intended(t))}
           /\ Kept(t) = Intended(t)
  <1>1. t.src \in Places("int") /\ t.run \in Places("run")
    BY LevelLines
  <1>2. SpelledOnce(intended)
    BY TidySides DEF Conf, Sides
  <1>3. Kept(t) = Intended(t)
    BY <1>1, <1>2, KeptAll
  <1>4. /\ pairs \in Seq(PairSet) /\ DOMAIN pairs = DOMAIN Kept(t)
        /\ \A k \in DOMAIN Kept(t) : pairs[k] = PairOf(t)[Kept(t)[k]]
    BY <1>1, PairingsTyped
  <1>5. ToSet(pairs) = {PairOf(t)[Kept(t)[k]] : k \in DOMAIN Kept(t)}
    BY <1>4 DEF ToSet
  <1>6. ToSet(Kept(t)) = {Kept(t)[k] : k \in DOMAIN Kept(t)}
    BY DEF ToSet
  <1> QED
    BY <1>3, <1>4, <1>5, <1>6

\* What goes are the running lines whose path is not wanted.
LEMMA RemovesByPath ==
    ASSUME InputsOK, Tidy, NEW t, Level(t), t.pairs = Pairings(t, Kept(t))
    PROVE  ToSet(Removes(t)) = {r \in ToSet(Running(t)) : PathOf(r) \notin Wanted}
  <1>1. /\ t.src \in Places("int") /\ t.run \in Places("run")
        /\ Intended(t) \in Seq(Nodes("int")) /\ Running(t) \in Seq(Nodes("run"))
        /\ ToSet(Intended(t)) = {x \in Nodes("int") : Over(x) = At(t)}
        /\ ToSet(Running(t)) = {r \in Nodes("run") : Over(r) = At(t)}
        /\ \A x \in SomeNode : Over(x) = At(t) => PathOf(x) = Append(At(t), Id(x))
    BY LevelLines
  <1>2. /\ t.pairs \in Seq(PairSet)
        /\ ToSet(t.pairs) = {PairOf(t)[h] : h \in ToSet(Intended(t))}
    BY PairingsByPath
  <1>3. "run" \in Sides /\ "int" \in Sides /\ SpelledOnce(running)
    <2>1. "run" \in Sides /\ "int" \in Sides
      BY DEF Sides
    <2> QED
      BY <2>1, TidySides DEF Conf
  <1> DEFINE Own(r) == {p \in ToSet(t.pairs) : Id(p.src) = Id(r)}
             Goes(r) ==
                \/ \E p \in Own(r) :
                    p.run # r /\ p.cleanup /\ ~SameValue(Line(r), Line(p.src))
                \/ /\ \A p \in Own(r) : p.run # r /\ ~p.cleanup
                   /\ IF IsFirst(r, Running(t)) THEN Own(r) = {}
                      ELSE /\ CategoryOf(DefOf(r)) = "KindedSingle"
                           /\ Text(Line(r)) # Text(Line(FirstOf(Running(t), Id(r))))
  <1>4. Removes(t) = Only(Running(t), {r \in ToSet(Running(t)) : Goes(r)})
    BY DEF Removes
  <1>5. ToSet(Removes(t)) = {r \in ToSet(Running(t)) : Goes(r)}
    <2> HIDE DEF Goes
    <2> QED
      BY <1>1, <1>4, OnlyElements
  <1>6. ASSUME NEW r \in ToSet(Running(t)), PathOf(r) \notin Wanted PROVE Goes(r)
    <2>1. r \in Nodes("run") /\ PathOf(r) = Append(At(t), Id(r))
      BY <1>1 DEF SomeNode
    <2>2. Own(r) = {}
      <3> SUFFICES ASSUME NEW h \in ToSet(Intended(t)), Id(h) = Id(r) PROVE FALSE
        BY <1>2, PairByPath
      <3>1. h \in Nodes("int") /\ PathOf(h) = PathOf(r)
        BY <1>1, <2>1 DEF SomeNode
      <3> QED
        BY <1>6, <3>1 DEF Wanted, PathsOf
    <2>3. IsFirst(r, Running(t))
      <3>1. PICK j \in DOMAIN Running(t) : r = Running(t)[j]
        BY DEF ToSet
      <3> DEFINE at == {k \in DOMAIN Running(t) : Id(Running(t)[k]) = Id(r)}
      <3>2. \A k \in at : k = j
        BY <1>1, <1>3, <3>1, KidsDiffer DEF Running, Conf
      <3>3. j \in at /\ j \in Nat
        BY <1>1, <3>1
      <3>4. (CHOOSE k \in at : \A i \in at : k <= i) = j
        <4>1. \A i \in at : j <= i
          BY <3>2, <3>3
        <4>2. \E k \in at : \A i \in at : k <= i
          BY <3>3, <4>1
        <4> HIDE DEF at
        <4> QED
          BY <3>2, <4>2
      <3> QED
        BY <3>1, <3>4 DEF IsFirst, FirstOf
    <2> HIDE DEF Own
    <2> QED
      BY <2>2, <2>3
  <1>7. ASSUME NEW r \in ToSet(Running(t)), PathOf(r) \in Wanted PROVE ~Goes(r)
    <2>1. r \in Nodes("run") /\ Over(r) = At(t) /\ r \in SomeNode
      BY <1>1 DEF SomeNode
    <2>2. PICK h \in Nodes("int") : PathOf(h) = PathOf(r)
      BY <1>7 DEF Wanted, PathsOf
    <2>3. h \in ToSet(Intended(t)) /\ Id(h) = Id(r)
      <3>1. Over(h) = Over(r)
        BY <2>2 DEF Over
      <3>2. Id(h) = Id(r)
        BY <2>1, <2>2, SamePlace DEF SomeNode
      <3> QED
        BY <1>1, <2>1, <3>1, <3>2
    <2> DEFINE p == PairOf(t)[h]
    <2>4. p.src = h /\ p.run = r
      <3>1. PathOf(h) \in Shown
        BY <2>1, <2>2 DEF Shown, PathsOf
      <3>2. p.run \in ToSet(Running(t)) /\ PathOf(p.run) = PathOf(h) /\ p.src = h
        BY <2>3, <3>1, PairByPath
      <3>3. p.run \in Nodes("run")
        BY <1>1, <3>2
      <3> QED
        BY <1>3, <2>1, <2>2, <3>2, <3>3, PathOne
    <2>5. p \in Own(r)
      BY <1>2, <2>3, <2>4
    <2>6. \A q \in Own(r) : ~q.cleanup
      BY <1>2, PairByPath
    <2> HIDE DEF p, Own
    <2> QED
      BY <2>4, <2>5, <2>6
  <1> HIDE DEF Goes
  <1> QED
    BY <1>5, <1>6, <1>7

-----------------------------------------------------------------------------
(* The paths that a call is about.                                         *)

Known == Shown \cup Wanted

\* What is known at u and below.
Subtree(u) == {v \in Known : Below(u, v)}

\* The paths of the line that a flip supersedes and of those below it.
Flipped(x) == UNION {Subtree(PathOf(h)) : h \in {x.flip} \ {Nil}}

\* The paths that a call is about.
CallLand(t) ==
    IF IsLevel(t) THEN Subtree(At(t)) \ {At(t)} ELSE Subtree(At(t)) \cup Flipped(t)

\* The lines a call about a line begins with.
Tops(x) == {x.src} \cup ({x.flip} \ {Nil})

\* What is known are paths.
LEMMA KnownPaths ==
    ASSUME InputsOK
    PROVE  Known \subseteq Seq(Idents)
  BY NodePath DEF Known, Shown, Wanted, PathsOf, Sides

\* Siblings have nothing below them in common, and nothing but what is below
\* their parent.
LEMMA SubtreesApart ==
    ASSUME InputsOK, NEW w \in Seq(Idents), NEW a \in Idents, NEW b \in Idents
    PROVE  /\ a # b => Subtree(Append(w, a)) \cap Subtree(Append(w, b)) = {}
           /\ Subtree(Append(w, a)) \subseteq Subtree(w) \ {w}
  <1> DEFINE u == Append(w, a)
             v == Append(w, b)
  <1>1. /\ u \in Seq(Idents) /\ v \in Seq(Idents)
        /\ Below(u, v) => a = b
        /\ Below(v, u) => b = a
        /\ \A x \in Seq(Idents) : Below(u, x) => Below(w, x) /\ x # w
    BY BelowChild
  <1>2. \A x \in Seq(Idents) : Below(u, x) /\ Below(v, x) => Below(u, v) \/ Below(v, u)
    <2> HIDE DEF u, v
    <2> QED
      BY <1>1, BelowOrder
  <1> HIDE DEF u, v
  <1>3. a # b => Subtree(u) \cap Subtree(v) = {}
    BY <1>1, <1>2, KnownPaths DEF Subtree
  <1>4. Subtree(u) \subseteq Subtree(w) \ {w}
    BY <1>1, KnownPaths DEF Subtree
  <1> QED
    BY <1>3, <1>4 DEF u, v

\* What is known below a path is below one of the lines directly under it.
LEMMA KidOver ==
    ASSUME InputsOK, NEW side \in Sides, NEW x \in Nodes(side), NEW w \in Seq(Idents),
           Below(w, PathOf(x)), PathOf(x) # w
    PROVE  \E h \in Nodes(side) : Over(h) = w /\ Below(PathOf(h), PathOf(x))
  <1> DEFINE v == PathOf(x)
             n == Len(w) + 1
             h == <<side, SubSeq(x[2], 1, n)>>
  <1>1. /\ v \in Seq(Idents) /\ Len(v) = Len(x[2]) /\ Len(x[2]) \in Nat
        /\ \A k \in 1..Len(x[2]) :
            /\ <<side, SubSeq(x[2], 1, k)>> \in Nodes(side)
            /\ PathOf(<<side, SubSeq(x[2], 1, k)>>) = SubSeq(v, 1, k)
            /\ Below(PathOf(<<side, SubSeq(x[2], 1, k)>>), v)
    BY NodePath
  <1>2. Len(w) < Len(v) /\ Len(w) \in Nat /\ SubSeq(v, 1, Len(w)) = w
    <2>1. Len(w) < Len(v)
      BY <1>1, BelowOrder
    <2> QED
      BY <2>1 DEF Below
  <1>3. n \in 1..Len(x[2])
    BY <1>1, <1>2
  <1>4. h \in Nodes(side) /\ PathOf(h) = SubSeq(v, 1, n) /\ Below(PathOf(h), v)
    BY <1>1, <1>3
  <1>5. Over(h) = w
    <2>1. /\ Len(SubSeq(v, 1, n)) = n
          /\ \A k \in 1..n : SubSeq(v, 1, n)[k] = v[k]
          /\ SubSeq(v, 1, n) \in Seq(Idents)
      <3>1. n \in 1..Len(v) /\ v \in Seq(Idents)
        BY <1>1, <1>3
      <3> HIDE DEF v, n
      <3> QED
        BY <3>1
    <2>2. Over(h) = SubSeq(PathOf(h), 1, n - 1) /\ n - 1 = Len(w)
      <3>1. Len(PathOf(h)) = n /\ n - 1 = Len(w)
        BY <1>2, <1>4, <2>1
      <3> HIDE DEF h, n
      <3> QED
        BY <3>1 DEF Over, Front
    <2>3. SubSeq(SubSeq(v, 1, n), 1, Len(w)) = SubSeq(v, 1, Len(w))
      <3> DEFINE y == SubSeq(v, 1, n)
      <3>1. y \in Seq(Idents) /\ Len(y) = n /\ \A k \in 1..n : y[k] = v[k]
        BY <2>1
      <3>2. n \in Nat /\ Len(w) <= n /\ Len(w) <= Len(v)
        BY <1>2
      <3> HIDE DEF y, v, n
      <3>3. Len(SubSeq(y, 1, Len(w))) = Len(w) /\ Len(SubSeq(v, 1, Len(w))) = Len(w)
        BY <1>1, <1>2, <3>1, <3>2
      <3>4. \A k \in 1..Len(w) : SubSeq(y, 1, Len(w))[k] = SubSeq(v, 1, Len(w))[k]
        BY <1>1, <1>2, <3>1, <3>2
      <3>5. SubSeq(y, 1, Len(w)) \in Seq(Idents) /\ SubSeq(v, 1, Len(w)) \in Seq(Idents)
        BY <1>1, <1>2, <3>1, <3>2
      <3>6. SubSeq(y, 1, Len(w)) = SubSeq(v, 1, Len(w))
        BY <3>3, <3>4, <3>5, SeqEqual
      <3> QED
        BY <3>6 DEF y
    <2> QED
      BY <1>2, <1>4, <2>2, <2>3
  <1> QED
    BY <1>4, <1>5

\* One line of a level at most belongs to a toggle group.
LEMMA ToggleOne ==
    ASSUME InputsOK, Tidy, NEW side \in Sides, NEW g \in Nodes(side), NEW h \in Nodes(side),
           Over(g) = Over(h), NEW e,
           e \in ToSet(Schema[DefOf(g)].toggles), e \in ToSet(Schema[DefOf(h)].toggles)
    PROVE  g = h
  <1> DEFINE c == Conf(side)
  <1>1. /\ g = <<side, g[2]>> /\ g[2] \in DOMAIN c /\ Line(g) = c[g[2]] /\ DefOf(g) \in Defs
        /\ h = <<side, h[2]>> /\ h[2] \in DOMAIN c /\ Line(h) = c[h[2]] /\ DefOf(h) \in Defs
        /\ Configuration(c)
    BY NodeLine
  <1>2. Parent(g[2]) = Parent(h[2])
    <2>1. /\ Parent(g[2]) \in DOMAIN c \cup {<<>>} /\ Over(g) = SlotPath(c, Parent(g[2]))
          /\ Parent(h[2]) \in DOMAIN c \cup {<<>>} /\ Over(h) = SlotPath(c, Parent(h[2]))
      BY NodeOver
    <2>2. SpelledOnce(c)
      BY TidySides
    <2> HIDE DEF c
    <2> QED
      BY <1>1, <2>1, <2>2, PathInjective
  <1>3. g[2] # h[2] => ~Duplicates(c[g[2]], c[h[2]])
    <2>1. OneEach(c)
      BY TidySides
    <2> QED
      BY <1>1, <1>2, <2>1 DEF OneEach
  <1>4. /\ Schema[DefOf(g)].toggles = Schema[e].toggles
        /\ DefOf(h) \in ToSet(Schema[e].toggles)
        /\ ~Keyed(DefOf(g)) /\ SingleOccupancy(DefOf(g))
    BY <1>1, ToggleGroup
  <1>5. Duplicates(c[g[2]], c[h[2]])
    BY <1>1, <1>4 DEF Duplicates, DefOf
  <1> QED
    BY <1>1, <1>3, <1>5

-----------------------------------------------------------------------------
(* What a level is split into.                                             *)

\* A level that is ready to be split into calls about its lines.
Paired(t) ==
    /\ Level(t)
    /\ t.pairs = Pairings(t, Kept(t))
    /\ t.intents = Intents(t)
    /\ t.removes = Removes(t)

\* Each intended line is realised, or agrees with the running line of its path.
LEMMA IntentsByPath ==
    ASSUME InputsOK, Tidy, NEW t, Paired(t)
    PROVE  /\ \A i \in ToSet(t.intents) :
                /\ i.src \in ToSet(Intended(t)) /\ i.kind # "none"
                /\ \/ i.kind = "add" /\ i.run = Nil /\ PathOf(i.src) \notin Shown
                   \/ /\ i.kind # "add" /\ i.kind = PairKind(i.src, i.run)
                      /\ i.run \in Nodes("run") /\ PathOf(i.run) = PathOf(i.src)
           /\ \A h \in ToSet(Intended(t)) :
                \/ \E i \in ToSet(t.intents) : i.src = h
                \/ \E r \in Nodes("run") : PathOf(r) = PathOf(h) /\ PairKind(h, r) = "none"
  <1>1. /\ Level(t) /\ t.pairs \in Seq(PairSet)
        /\ ToSet(t.pairs) = {PairOf(t)[h] : h \in ToSet(Intended(t))}
        /\ ToSet(Running(t)) \subseteq Nodes("run")
    BY PairingsByPath, LevelLines DEF Paired
  <1> DEFINE all == [k \in DOMAIN t.pairs |-> IntentOf(t.pairs[k])]
             None(i) == i.kind # "none"
  <1>2. ToSet(all) = {IntentOf(p) : p \in ToSet(t.pairs)} /\ all \in Seq(IntentSet)
    <2>1. DOMAIN t.pairs = 1..Len(t.pairs) /\ Len(t.pairs) \in Nat
      BY <1>1
    <2>2. all \in Seq(IntentSet)
      <3>1. \A k \in 1..Len(t.pairs) : IntentOf(t.pairs[k]) \in IntentSet
        BY <1>1, <2>1, IntentOfTyped
      <3> QED
        BY <2>1, <3>1
    <2>3. ToSet(all) = {all[k] : k \in DOMAIN t.pairs} /\ ToSet(t.pairs) = {t.pairs[k] : k \in DOMAIN t.pairs}
      BY DEF ToSet
    <2> QED
      BY <2>2, <2>3
  <1>3. ToSet(t.intents) = {i \in ToSet(all) : i.kind # "none"}
    <2>1. t.intents = Only(all, {i \in ToSet(all) : i.kind # "none"})
      BY DEF Paired, Intents
    <2> HIDE DEF all
    <2>2. ToSet(t.intents) = ToSet(all) \cap {i \in ToSet(all) : i.kind # "none"}
      BY <1>2, <2>1, OnlyElements
    <2> QED
      BY <2>2
  <1> HIDE DEF all
  <1>4. \A h \in ToSet(Intended(t)) :
            LET p == PairOf(t)[h]
            IN  /\ h \in Nodes("int") /\ p \in PairSet /\ p.src = h
                /\ \/ p.run = Nil /\ PathOf(h) \notin Shown
                   \/ p.run \in Nodes("run") /\ p.run # Nil /\ PathOf(p.run) = PathOf(h)
    BY <1>1, PairByPath
  <1>5. \A p \in PairSet :
            /\ IntentOf(p).src = p.src /\ IntentOf(p).run = p.run
            /\ p.run = Nil => IntentOf(p).kind = "add"
            /\ p.run # Nil => IntentOf(p).kind = PairKind(p.src, p.run)
    <2> TAKE p \in PairSet
    <2> DEFINE kd == IF p.run = Nil THEN "add" ELSE PairKind(p.src, p.run)
    <2>1. IntentOf(p) = [src |-> p.src, run |-> p.run, kind |-> kd]
      BY DEF IntentOf
    <2>2. /\ p.run = Nil => kd = "add"
          /\ p.run # Nil => kd = PairKind(p.src, p.run)
      OBVIOUS
    <2> HIDE DEF kd
    <2> QED
      BY <2>1, <2>2
  <1>6. \A p \in PairSet : p.run # Nil => IntentOf(p).kind # "add"
    BY IntentOfTyped, <1>5 DEF IntentSet
  <1>7. ASSUME NEW i \in ToSet(t.intents)
        PROVE  /\ i.src \in ToSet(Intended(t)) /\ i.kind # "none"
               /\ \/ i.kind = "add" /\ i.run = Nil /\ PathOf(i.src) \notin Shown
                  \/ /\ i.kind # "add" /\ i.kind = PairKind(i.src, i.run)
                     /\ i.run \in Nodes("run") /\ PathOf(i.run) = PathOf(i.src)
    <2>1. PICK h \in ToSet(Intended(t)) : i = IntentOf(PairOf(t)[h]) /\ i.kind # "none"
      BY <1>1, <1>2, <1>3
    <2> QED
      BY <1>4, <1>5, <1>6, <2>1
  <1>8. ASSUME NEW h \in ToSet(Intended(t)), ~\E i \in ToSet(t.intents) : i.src = h
        PROVE  \E r \in Nodes("run") : PathOf(r) = PathOf(h) /\ PairKind(h, r) = "none"
    <2> DEFINE p == PairOf(t)[h]
    <2>1. p \in PairSet /\ p.src = h /\ IntentOf(p) \in ToSet(all)
      BY <1>1, <1>2, <1>4
    <2>2. IntentOf(p).src = h
      BY <1>5, <2>1
    <2>3. IntentOf(p).kind = "none"
      BY <1>3, <1>8, <2>1, <2>2
    <2>4. p.run # Nil
      BY <1>5, <2>1, <2>3
    <2> QED
      BY <1>4, <1>5, <2>1, <2>3, <2>4
  <1> QED
    BY <1>7, <1>8

-----------------------------------------------------------------------------
(* Toggles.                                                                *)

\* A toggle group is a sequence of definitions.
LEMMA TogglesTyped ==
    ASSUME NEW d \in Defs
    PROVE  Schema[d].toggles \in Seq(Defs)
  <1>1. TogglesBuilds(d)
    BY SchemaAssumption DEF Buildable
  <1> DEFINE s == Schema[d].toggles
  <1>2. CASE s = <<>>
    BY <1>2
  <1>3. CASE s # <<>>
    <2>1. s \in Seq(ToSet(s)) /\ ToSet(s) \subseteq Defs
      BY <1>1, <1>3 DEF TogglesBuilds
    <2> HIDE DEF s
    <2>2. DOMAIN s = 1..Len(s) /\ Len(s) \in Nat /\ \A k \in 1..Len(s) : s[k] \in Defs
      BY <2>1
    <2>3. s = [k \in 1..Len(s) |-> s[k]]
      BY <2>1
    <2>4. s \in Seq(Defs)
      BY <2>2, <2>3
    <2> QED
      BY <2>4 DEF s
  <1> QED
    BY <1>2, <1>3

\* When dropToggles supersedes a removal, and by what.
LEMMA FlippedByFacts ==
    ASSUME InputsOK, NEW r \in Nodes("run"), NEW t
    PROVE  /\ FlippedBy(t, r) # 0 =>
                /\ FlippedBy(t, r) \in AddedDefs(t) /\ FlippedBy(t, r) # DefOf(r)
                /\ FlippedBy(t, r) \in ToSet(Schema[DefOf(r)].toggles)
                /\ ~ProtectedBelow(r)
           /\ ~ProtectedBelow(r) =>
                \A d \in AddedDefs(t) :
                    d # DefOf(r) /\ d \in ToSet(Schema[DefOf(r)].toggles) => FlippedBy(t, r) # 0
  <1> DEFINE by == Only(Schema[DefOf(r)].toggles, AddedDefs(t) \ {DefOf(r)})
  <1>1. DefOf(r) \in Defs
    BY NodeLine DEF Sides
  <1>2. Schema[DefOf(r)].toggles \in Seq(Defs)
    BY <1>1, TogglesTyped
  <1>3. /\ by \in Seq(Defs)
        /\ ToSet(by) = ToSet(Schema[DefOf(r)].toggles) \cap (AddedDefs(t) \ {DefOf(r)})
    BY <1>2, OnlyElements
  <1>4. FlippedBy(t, r) = IF by = <<>> \/ ProtectedBelow(r) THEN 0 ELSE by[1]
    BY DEF FlippedBy
  <1> HIDE DEF by
  <1>5. by # <<>> => by[1] \in ToSet(by) /\ by[1] \in Defs
    BY <1>3, FirstElement, SeqIsSeq
  <1>6. 0 \notin Defs
    BY RanksAssumption
  <1>7. by = <<>> => ToSet(by) = {}
    BY DEF ToSet
  <1> QED
    BY <1>3, <1>4, <1>5, <1>6, <1>7

\* The line that an added line flips.
LEMMA FlipFacts ==
    ASSUME InputsOK, NEW t, t.removes \in Seq(Nodes("run")), NEW d
    PROVE  /\ Flip(t, d) # Nil =>
                /\ Flip(t, d) \in Nodes("run") /\ Flip(t, d) \in ToSet(t.removes)
                /\ FlippedBy(t, Flip(t, d)) = d
           /\ \A r \in ToSet(t.removes) : FlippedBy(t, r) = d => Flip(t, d) # Nil
           /\ ToSet(Negations(t)) = {r \in ToSet(t.removes) : FlippedBy(t, r) = 0}
  <1> DEFINE F(e) == {r \in ToSet(t.removes) : FlippedBy(t, r) = e}
             rs == Only(t.removes, F(d))
  <1>1. /\ rs \in Seq(Nodes("run"))
        /\ ToSet(rs) = ToSet(t.removes) \cap F(d)
    <2> HIDE DEF F
    <2> QED
      BY OnlyElements
  <1>2. ToSet(Negations(t)) = ToSet(t.removes) \cap F(0)
    <2>1. Negations(t) = Only(t.removes, F(0))
      BY DEF Negations
    <2> HIDE DEF F
    <2> QED
      BY <2>1, OnlyElements
  <1>3. Flip(t, d) = IF rs = <<>> THEN Nil ELSE rs[1]
    BY DEF Flip
  <1> HIDE DEF rs
  <1>4. rs # <<>> => rs[1] \in ToSet(rs) /\ rs[1] \in Nodes("run")
    BY <1>1, FirstElement, SeqIsSeq
  <1>5. rs = <<>> => ToSet(rs) = {}
    BY DEF ToSet
  <1> QED
    BY <1>1, <1>2, <1>3, <1>4, <1>5, NilIsNoNode

-----------------------------------------------------------------------------
(* The calls of a level.                                                   *)

\* c realises the intent i of the level t.
Realises(c, t, i) ==
    /\ c.call = "intent" /\ c.src = i.src /\ c.run = i.run /\ c.kind = i.kind
    /\ c.flip = IF i.kind = "add" THEN Flip(t, DefOf(i.src)) ELSE Nil
    /\ c.secs = t.secs

\* c negates the running line r of the level t.
Negates(c, t, r) ==
    c.call = "removal" /\ c.src = r /\ c.flip = Nil /\ c.secs = t.secs

\* Every call realises an intent of the level or negates one of its lines.
LEMMA ChildCalls ==
    ASSUME InputsOK, NEW t \in LevelSet
    PROVE  /\ \A k \in DOMAIN LevelCalls(t) :
                \/ /\ k \in DOMAIN t.intents /\ t.intents[k] \in ToSet(t.intents)
                   /\ Realises(LevelCalls(t)[k], t, t.intents[k])
                \/ /\ k \in Int /\ Len(t.intents) \in Int
                   /\ k - Len(t.intents) \in DOMAIN Negations(t)
                   /\ Negations(t)[k - Len(t.intents)] \in ToSet(Negations(t))
                   /\ Negates(LevelCalls(t)[k], t, Negations(t)[k - Len(t.intents)])
           /\ \A i \in ToSet(t.intents) :
                \E k \in DOMAIN LevelCalls(t) : Realises(LevelCalls(t)[k], t, i)
           /\ \A r \in ToSet(Negations(t)) :
                \E k \in DOMAIN LevelCalls(t) : Negates(LevelCalls(t)[k], t, r)
  <1> DEFINE a == IntentCalls(t)
             n == Negations(t)
             b == RemovalCalls(n, t.secs, t.key)
             m == Len(t.intents)
  <1>1. /\ LevelCalls(t) = a \o b /\ a \in Seq(IntentCallSet) /\ n \in Seq(Nodes("run"))
    BY LevelCallsTyped
  <1>2. t.secs \in Seq(SomeNode) /\ t.key \in Seq(Int) /\ t.intents \in Seq(IntentSet)
    BY DEF LevelSet
  <1>3. /\ b \in Seq(RemovalCallSet) /\ Len(b) = Len(n)
        /\ \A k \in 1..Len(n) : b[k] =
            Call("removal", n[k], Nil, "remove", Nil, t.secs, RemoveKey(t.key, DefOf(n[k]), k))
    <2> HIDE DEF n
    <2> QED
      BY <1>1, <1>2, RemovalCallsTyped
  <1>4. /\ m \in Nat /\ DOMAIN t.intents = 1..m /\ DOMAIN a = 1..m
    BY <1>2 DEF IntentCalls
  <1>5. /\ Len(n) \in Nat /\ DOMAIN n = 1..Len(n) /\ DOMAIN b = 1..Len(n)
        /\ \A k \in DOMAIN n : n[k] \in ToSet(n)
        /\ \A k \in DOMAIN t.intents : t.intents[k] \in ToSet(t.intents)
    <2> HIDE DEF b, n
    <2> QED
      BY <1>1, <1>3 DEF ToSet
  <1>6. Len(a) = m
    <2> HIDE DEF a, m
    <2> QED
      BY <1>1, <1>4
  <1>7. \A k \in 1..m : Realises(a[k], t, t.intents[k])
    <2> TAKE k \in 1..m
    <2> DEFINE i == t.intents[k]
               fl == IF i.kind = "add" THEN Flip(t, DefOf(i.src)) ELSE Nil
               ky == CreateKey(t.key, DefOf(i.src), k)
    <2>1. a[k] = Call("intent", i.src, i.run, i.kind, fl, t.secs, ky)
      BY <1>4 DEF IntentCalls
    <2> HIDE DEF ky, i
    <2>2. fl = IF i.kind = "add" THEN Flip(t, DefOf(i.src)) ELSE Nil
      OBVIOUS
    <2> HIDE DEF fl, a
    <2>3. /\ a[k].call = "intent" /\ a[k].src = i.src /\ a[k].run = i.run
          /\ a[k].kind = i.kind /\ a[k].flip = fl /\ a[k].secs = t.secs
      BY <2>1 DEF Call
    <2> QED
      BY <2>2, <2>3 DEF Realises, i
  <1>8. \A k \in 1..Len(n) : Negates(b[k], t, n[k])
    <2> TAKE k \in 1..Len(n)
    <2> DEFINE r == n[k]
               ky == RemoveKey(t.key, DefOf(r), k)
    <2>1. b[k] = Call("removal", r, Nil, "remove", Nil, t.secs, ky)
      BY <1>3
    <2> HIDE DEF ky, r, b
    <2>2. b[k].call = "removal" /\ b[k].src = r /\ b[k].flip = Nil /\ b[k].secs = t.secs
      BY <2>1 DEF Call
    <2> QED
      BY <2>2 DEF Negates, r
  <1>9. /\ DOMAIN (a \o b) = 1..(m + Len(n))
        /\ \A k \in 1..m : (a \o b)[k] = a[k]
        /\ \A k \in 1..Len(n) : (a \o b)[m + k] = b[k]
        /\ \A k \in (m + 1)..(m + Len(n)) : (a \o b)[k] = b[k - m]
    <2> HIDE DEF a, b, n, m
    <2>1. a \in Seq(CallSet) /\ b \in Seq(CallSet)
      <3>1. /\ IsSeq(a) /\ \A k \in DOMAIN a : a[k] \in CallSet
            /\ IsSeq(b) /\ \A k \in DOMAIN b : b[k] \in CallSet
        BY <1>1, <1>3, SeqIsSeq DEF CallSet
      <3>2. \A s : IsSeq(s) /\ (\A k \in DOMAIN s : s[k] \in CallSet) => s \in Seq(CallSet)
        BY DEF IsSeq
      <3> QED
        BY <3>1, <3>2
    <2>2. Len(a) = m /\ Len(b) = Len(n) /\ m \in Nat /\ Len(n) \in Nat
      BY <1>3, <1>4, <1>5, <1>6
    <2> HIDE DEF CallSet
    <2> QED
      BY <2>1, <2>2
  <1> HIDE DEF a, b, n, m
  <1>10. \A k \in 1..(m + Len(n)) :
            \/ k \in 1..m
            \/ k \in (m + 1)..(m + Len(n)) /\ k - m \in 1..Len(n) /\ k \in Int
    BY <1>4, <1>5
  <1>11. ASSUME NEW k \in DOMAIN LevelCalls(t)
         PROVE  \/ /\ k \in DOMAIN t.intents /\ t.intents[k] \in ToSet(t.intents)
                   /\ Realises(LevelCalls(t)[k], t, t.intents[k])
                \/ /\ k \in Int /\ m \in Int /\ k - m \in DOMAIN n /\ n[k - m] \in ToSet(n)
                   /\ Negates(LevelCalls(t)[k], t, n[k - m])
    <2>1. CASE k \in 1..m
      BY <1>1, <1>4, <1>5, <1>7, <1>9, <2>1
    <2>2. CASE k \in (m + 1)..(m + Len(n)) /\ k - m \in 1..Len(n) /\ k \in Int
      <3>1. m \in Int
        BY <1>4
      <3> QED
        BY <1>1, <1>5, <1>8, <1>9, <2>2, <3>1
    <2> QED
      BY <1>1, <1>9, <1>10, <2>1, <2>2
  <1>12. ASSUME NEW i \in ToSet(t.intents)
         PROVE  \E k \in DOMAIN LevelCalls(t) : Realises(LevelCalls(t)[k], t, i)
    <2>1. PICK k \in 1..m : i = t.intents[k]
      BY <1>4 DEF ToSet
    <2>2. k \in 1..(m + Len(n))
      BY <1>4, <1>5
    <2> QED
      BY <1>1, <1>7, <1>9, <2>1, <2>2
  <1>13. ASSUME NEW r \in ToSet(n)
         PROVE  \E k \in DOMAIN LevelCalls(t) : Negates(LevelCalls(t)[k], t, r)
    <2>1. PICK k \in 1..Len(n) : r = n[k]
      BY <1>5 DEF ToSet
    <2>2. m + k \in 1..(m + Len(n))
      BY <1>4, <1>5
    <2> QED
      BY <1>1, <1>8, <1>9, <2>1, <2>2
  <1> QED
    BY <1>11, <1>12, <1>13 DEF n, m

-----------------------------------------------------------------------------
(* The calls of a level are about different lines.                         *)

\* The k-th call is about the k-th intended line to be realised, the running
\* line that this one flips, or a running line that is negated.
LEMMA TopKinds ==
    ASSUME InputsOK, Tidy, NEW t, Paired(t),
           NEW k \in DOMAIN LevelCalls(t), NEW h \in Tops(LevelCalls(t)[k])
    PROVE  \/ /\ k \in DOMAIN t.intents /\ h = t.intents[k].src
              /\ h \in ToSet(Intended(t))
           \/ /\ k \in DOMAIN t.intents /\ h \in ToSet(Removes(t))
              /\ t.intents[k].src \in ToSet(Intended(t))
              /\ FlippedBy(t, h) = DefOf(t.intents[k].src)
           \/ /\ k \in Int /\ Len(t.intents) \in Int
              /\ k - Len(t.intents) \in DOMAIN Negations(t)
              /\ h = Negations(t)[k - Len(t.intents)]
              /\ h \in ToSet(Removes(t)) /\ FlippedBy(t, h) = 0
  <1> DEFINE c == LevelCalls(t)[k]
  <1>1. t \in LevelSet /\ t.removes \in Seq(Nodes("run")) /\ t.removes = Removes(t)
    BY DEF Paired, Level, LevelSet
  <1>2. h = c.src \/ (c.flip # Nil /\ h = c.flip)
    BY DEF Tops
  <1>3. CASE /\ k \in DOMAIN t.intents /\ t.intents[k] \in ToSet(t.intents)
             /\ Realises(c, t, t.intents[k])
    <2>1. t.intents[k].src \in ToSet(Intended(t))
      BY <1>3, IntentsByPath
    <2>2. CASE h = c.src
      BY <1>3, <2>1, <2>2 DEF Realises
    <2>3. CASE c.flip # Nil /\ h = c.flip
      <3>1. h = Flip(t, DefOf(t.intents[k].src)) /\ h # Nil
        BY <1>3, <2>3 DEF Realises
      <3>2. h \in ToSet(t.removes) /\ FlippedBy(t, h) = DefOf(t.intents[k].src)
        BY <1>1, <3>1, FlipFacts
      <3> QED
        BY <1>1, <1>3, <2>1, <3>2
    <2> QED
      BY <1>2, <2>2, <2>3
  <1>4. CASE /\ k \in Int /\ Len(t.intents) \in Int
             /\ k - Len(t.intents) \in DOMAIN Negations(t)
             /\ Negations(t)[k - Len(t.intents)] \in ToSet(Negations(t))
             /\ Negates(c, t, Negations(t)[k - Len(t.intents)])
    <2>1. h = Negations(t)[k - Len(t.intents)]
      BY <1>2, <1>4 DEF Negates
    <2>2. h \in ToSet(t.removes) /\ FlippedBy(t, h) = 0
      BY <1>1, <1>4, <2>1, FlipFacts
    <2> QED
      BY <1>1, <1>4, <2>1, <2>2
  <1> QED
    BY <1>1, <1>3, <1>4, ChildCalls

\* What the three kinds of line have in common.
LEMMA TopNodes ==
    ASSUME InputsOK, Tidy, NEW t, Paired(t)
    PROVE  /\ \A h \in ToSet(Intended(t)) :
                /\ h \in Nodes("int") /\ h \in SomeNode /\ h # Nil
                /\ Over(h) = At(t) /\ PathOf(h) \in Wanted /\ DefOf(h) \in Defs
           /\ \A r \in ToSet(Removes(t)) :
                /\ r \in Nodes("run") /\ r \in SomeNode /\ r # Nil
                /\ Over(r) = At(t) /\ PathOf(r) \notin Wanted /\ DefOf(r) \in Defs
           /\ 0 \notin Defs
  <1>1. "run" \in Sides /\ "int" \in Sides
    BY DEF Sides
  <1>2. /\ ToSet(Intended(t)) = {h \in Nodes("int") : Over(h) = At(t)}
        /\ ToSet(Running(t)) = {r \in Nodes("run") : Over(r) = At(t)}
        /\ ToSet(Removes(t)) = {r \in ToSet(Running(t)) : PathOf(r) \notin Wanted}
    BY LevelLines, RemovesByPath DEF Paired
  <1>3. \A h \in SomeNode : DefOf(h) \in Defs /\ h # Nil
    BY <1>1, NodeLine DEF SomeNode
  <1>4. \A h \in Nodes("int") : PathOf(h) \in Wanted
    BY DEF Wanted, PathsOf
  <1>5. 0 \notin Defs
    BY RanksAssumption
  <1> QED
    BY <1>2, <1>3, <1>4, <1>5 DEF SomeNode

\* Two calls of a level have no path in common.
LEMMA ChildTops ==
    ASSUME InputsOK, Tidy, NEW t, Paired(t), Distinct(t)
    PROVE  /\ \A k \in DOMAIN LevelCalls(t) :
                /\ ~IsLevel(LevelCalls(t)[k])
                /\ \A h \in Tops(LevelCalls(t)[k]) : h \in SomeNode /\ Over(h) = At(t)
           /\ \A j, k \in DOMAIN LevelCalls(t) : j # k =>
                \A g \in Tops(LevelCalls(t)[j]), h \in Tops(LevelCalls(t)[k]) :
                    PathOf(g) # PathOf(h)
  <1> DEFINE cs == LevelCalls(t)
             A(k, h) == /\ k \in DOMAIN t.intents /\ h = t.intents[k].src
                        /\ h \in ToSet(Intended(t))
             B(k, h) == /\ k \in DOMAIN t.intents /\ h \in ToSet(Removes(t))
                        /\ t.intents[k].src \in ToSet(Intended(t))
                        /\ FlippedBy(t, h) = DefOf(t.intents[k].src)
             C(k, h) == /\ k \in Int /\ Len(t.intents) \in Int
                        /\ k - Len(t.intents) \in DOMAIN Negations(t)
                        /\ h = Negations(t)[k - Len(t.intents)]
                        /\ h \in ToSet(Removes(t)) /\ FlippedBy(t, h) = 0
  <1>1. \A k \in DOMAIN cs : \A h \in Tops(cs[k]) : A(k, h) \/ B(k, h) \/ C(k, h)
    BY TopKinds
  <1>2. /\ \A h \in ToSet(Intended(t)) :
                /\ h \in Nodes("int") /\ h \in SomeNode /\ h # Nil
                /\ Over(h) = At(t) /\ PathOf(h) \in Wanted /\ DefOf(h) \in Defs
        /\ \A r \in ToSet(Removes(t)) :
                /\ r \in Nodes("run") /\ r \in SomeNode /\ r # Nil
                /\ Over(r) = At(t) /\ PathOf(r) \notin Wanted /\ DefOf(r) \in Defs
        /\ 0 \notin Defs
    BY TopNodes
  <1>3. \A k \in DOMAIN cs : ~IsLevel(cs[k])
    <2>1. t \in LevelSet
      BY DEF Paired, Level
    <2> QED
      BY <2>1, ChildCalls DEF Realises, Negates, IsLevel
  <1>4. \A k \in DOMAIN cs : \A h \in Tops(cs[k]) : h \in SomeNode /\ Over(h) = At(t)
    BY <1>1, <1>2
  <1>5. /\ \A g, h \in Nodes("run") : PathOf(g) = PathOf(h) => g = h
        /\ \A g, h \in Nodes("int") : PathOf(g) = PathOf(h) => g = h
    BY PathOne DEF Sides
  <1>6. ASSUME NEW j, NEW k, NEW g, NEW h, A(j, g), A(k, h), PathOf(g) = PathOf(h)
        PROVE  j = k
    BY <1>2, <1>5, <1>6 DEF Distinct
  <1>7. ASSUME NEW j, NEW k, NEW g, NEW h, A(j, g), B(k, h) \/ C(k, h)
        PROVE  PathOf(g) # PathOf(h)
    BY <1>2, <1>7
  <1>8. ASSUME NEW j, NEW k, NEW g, NEW h, B(j, g), B(k, h), PathOf(g) = PathOf(h)
        PROVE  j = k
    <2>1. g = h /\ DefOf(h) \in Defs /\ g \in Nodes("run")
      BY <1>2, <1>5, <1>8
    <2> DEFINE a == t.intents[j].src
               b == t.intents[k].src
    <2>2. DefOf(a) = DefOf(b) /\ a \in Nodes("int") /\ b \in Nodes("int") /\ Over(a) = Over(b)
      BY <1>2, <1>8, <2>1
    <2>3. DefOf(a) \in ToSet(Schema[DefOf(h)].toggles)
      <3>1. FlippedBy(t, h) # 0 /\ FlippedBy(t, h) = DefOf(a)
        BY <1>2, <1>8, <2>1
      <3> QED
        BY <2>1, <3>1, FlippedByFacts
    <2>4. DefOf(h) \in ToSet(Schema[DefOf(a)].toggles)
      BY <2>1, <2>3, ToggleGroup
    <2>5. a = b
      BY <2>2, <2>4, ToggleOne DEF Sides
    <2> QED
      BY <1>8, <2>5 DEF Distinct
  <1>9. ASSUME NEW j, NEW k, NEW g, NEW h, B(j, g), C(k, h)
        PROVE  PathOf(g) # PathOf(h)
    BY <1>2, <1>5, <1>9
  <1>10. ASSUME NEW j, NEW k, NEW g, NEW h, C(j, g), C(k, h), PathOf(g) = PathOf(h)
         PROVE  j = k
    <2>1. g = h
      BY <1>2, <1>5, <1>10
    <2>2. Injective(Negations(t))
      <3>1. t.removes \in Seq(Nodes("run")) /\ Injective(t.removes)
        BY DEF Paired, Level, LevelSet, Distinct
      <3> DEFINE S == {r \in ToSet(t.removes) : FlippedBy(t, r) = 0}
      <3>2. Negations(t) = Only(t.removes, S)
        BY DEF Negations
      <3> HIDE DEF S
      <3> QED
        BY <3>1, <3>2, OnlyInjective
    <2>3. j - Len(t.intents) = k - Len(t.intents)
      BY <1>10, <2>1, <2>2 DEF Injective
    <2>4. j \in Int /\ k \in Int /\ Len(t.intents) \in Int
      BY <1>10
    <2> QED
      BY <2>3, <2>4
  <1> HIDE DEF A, B, C
  <1>11. ASSUME NEW j \in DOMAIN cs, NEW k \in DOMAIN cs, j # k,
                NEW g \in Tops(cs[j]), NEW h \in Tops(cs[k])
         PROVE  PathOf(g) # PathOf(h)
    <2>1. A(j, g) \/ B(j, g) \/ C(j, g)
      BY <1>1, <1>11
    <2>2. A(k, h) \/ B(k, h) \/ C(k, h)
      BY <1>1, <1>11
    <2> QED
      BY <1>6, <1>7, <1>8, <1>9, <1>10, <1>11, <2>1, <2>2
  <1> QED
    BY <1>3, <1>4, <1>11

\* A call about a line is about what is known at its lines and below.
LEMMA LineLand ==
    ASSUME NEW c, ~IsLevel(c)
    PROVE  CallLand(c) = UNION {Subtree(PathOf(h)) : h \in Tops(c)}
  BY DEF CallLand, Flipped, Tops, At

\* A level is split into calls that have nothing in common.
LEMMA LevelApart ==
    ASSUME InputsOK, Tidy, NEW t, Paired(t), Distinct(t)
    PROVE  /\ \A k \in DOMAIN LevelCalls(t) : CallLand(LevelCalls(t)[k]) \subseteq CallLand(t)
           /\ \A j, k \in DOMAIN LevelCalls(t) : j # k =>
                CallLand(LevelCalls(t)[j]) \cap CallLand(LevelCalls(t)[k]) = {}
  <1> DEFINE cs == LevelCalls(t)
  <1>1. /\ \A k \in DOMAIN cs :
            /\ ~IsLevel(cs[k])
            /\ \A h \in Tops(cs[k]) : h \in SomeNode /\ Over(h) = At(t)
        /\ \A j, k \in DOMAIN cs : j # k =>
            \A g \in Tops(cs[j]), h \in Tops(cs[k]) : PathOf(g) # PathOf(h)
    BY ChildTops
  <1>2. /\ At(t) \in Seq(Idents)
        /\ \A x \in SomeNode : Over(x) = At(t) => PathOf(x) = Append(At(t), Id(x))
    BY LevelLines DEF Paired
  <1>3. \A x \in SomeNode : Id(x) \in Idents
    BY DEF Idents
  <1>4. CallLand(t) = Subtree(At(t)) \ {At(t)}
    BY DEF CallLand, IsLevel, Paired, Level, LevelSet
  <1>5. \A k \in DOMAIN cs : CallLand(cs[k]) = UNION {Subtree(PathOf(h)) : h \in Tops(cs[k])}
    BY <1>1, LineLand
  <1> HIDE DEF cs
  <1>6. ASSUME NEW g \in SomeNode, Over(g) = At(t)
        PROVE  Subtree(PathOf(g)) \subseteq CallLand(t)
    BY <1>2, <1>3, <1>4, <1>6, SubtreesApart
  <1>7. ASSUME NEW g \in SomeNode, Over(g) = At(t), NEW h \in SomeNode, Over(h) = At(t),
               PathOf(g) # PathOf(h)
        PROVE  Subtree(PathOf(g)) \cap Subtree(PathOf(h)) = {}
    <2>1. PathOf(g) = Append(At(t), Id(g)) /\ PathOf(h) = Append(At(t), Id(h)) /\ Id(g) # Id(h)
      BY <1>2, <1>7
    <2> QED
      BY <1>2, <1>3, <2>1, SubtreesApart
  <1>8. ASSUME NEW k \in DOMAIN cs PROVE CallLand(cs[k]) \subseteq CallLand(t)
    BY <1>1, <1>5, <1>6, <1>8
  <1>9. ASSUME NEW j \in DOMAIN cs, NEW k \in DOMAIN cs, j # k
        PROVE  CallLand(cs[j]) \cap CallLand(cs[k]) = {}
    <2>1. \A g \in Tops(cs[j]), h \in Tops(cs[k]) :
            Subtree(PathOf(g)) \cap Subtree(PathOf(h)) = {}
      BY <1>1, <1>7, <1>9
    <2> QED
      BY <1>5, <1>9, <2>1
  <1> QED
    BY <1>8, <1>9 DEF cs

-----------------------------------------------------------------------------
(* Nothing that a level is about is lost.                                  *)

\* What InputsAssumption says of the captures of the two configurations.
Captures == SameCaptures(<<running, intended>>)

\* A line that both sides have as it is.
Settled(h) == EntryOf(h) \in Entries(running) \cap Entries(intended)

\* A line with other fields.
LEMMA OtherFields ==
    ASSUME NEW d, NEW f, NEW b, NEW g
    PROVE  [[def |-> d, f |-> f, block |-> b] EXCEPT !.f = g] = [def |-> d, f |-> g, block |-> b]
  OBVIOUS

\* What Normal makes of a list line.
LEMMA NormalList ==
    ASSUME NEW d, NEW f, NEW b, Schema[d].list # ""
    PROVE  Normal([def |-> d, f |-> f, block |-> b]) =
            [def |-> d,
             f |-> [x \in DOMAIN f |-> IF x = Schema[d].list THEN ToSet(f[x]) ELSE f[x]],
             block |-> b]
  <1> DEFINE l == [def |-> d, f |-> f, block |-> b]
             a == Schema[d].list
             v == ToSet(f[a])
             g == [f EXCEPT ![a] = v]
  <1>1. l.def = d /\ l.f = f /\ l.block = b
    OBVIOUS
  <1>2. Normal(l) = [l EXCEPT !.f = [l.f EXCEPT ![a] = ToSet(l.f[a])]]
    BY <1>1 DEF Normal
  <1>3. Normal(l) = [l EXCEPT !.f = g]
    BY <1>1, <1>2
  <1>4. g = [x \in DOMAIN f |-> IF x = a THEN ToSet(f[x]) ELSE f[x]]
    <2> HIDE DEF a
    <2> QED
      OBVIOUS
  <1> HIDE DEF g
  <1>5. [l EXCEPT !.f = g] = [def |-> d, f |-> g, block |-> b]
    BY OtherFields
  <1> QED
    BY <1>3, <1>4, <1>5

\* Lines with one path and one content have one entry.
LEMMA EntriesAgree ==
    ASSUME InputsOK, NEW h \in Nodes("int"), NEW r \in Nodes("run"), PathOf(h) = PathOf(r),
           Normal(Line(h)) = Normal(Line(r))
    PROVE  EntryOf(h) = EntryOf(r) /\ Settled(h) /\ Settled(r)
  <1>1. EntryOf(h) = EntryOf(r)
    BY NodeEntry DEF Sides
  <1>2. EntryOf(h) \in Entries(intended) /\ EntryOf(r) \in Entries(running)
    BY NodeEntry DEF Sides, Conf
  <1> QED
    BY <1>1, <1>2 DEF Settled

\* A pair that needs nothing holds one line.
LEMMA NoneAgrees ==
    ASSUME InputsOK, Captures, NEW h \in Nodes("int"), NEW r \in Nodes("run"),
           PathOf(h) = PathOf(r), PairKind(h, r) = "none"
    PROVE  /\ EntryOf(h) = EntryOf(r) /\ Settled(h) /\ Settled(r)
           /\ ~IsSection(DefOf(h)) /\ ~IsSection(DefOf(r))
  <1> DEFINE l == Line(h)
             m == Line(r)
             a == Schema[l.def].list
  <1>1. /\ l = [def |-> l.def, f |-> l.f, block |-> l.block] /\ l = intended[h[2]]
        /\ m = [def |-> m.def, f |-> m.f, block |-> m.block] /\ m = running[r[2]]
        /\ h[2] \in DOMAIN intended /\ r[2] \in DOMAIN running
    BY NodeLine DEF Sides, Conf
  <1>2. ~IsSection(l.def) /\ ~IsSection(m.def)
    BY DEF PairKind
  <1>3. SameValue(l, m) \/ ListChange(h, r) = "none"
    BY <1>2 DEF PairKind
  <1>4. CASE SameValue(l, m)
    <2>1. l = m
      <3> HIDE DEF l, m
      <3>1. l.def = m.def /\ l.f = m.f /\ l.block = m.block
        BY <1>4 DEF SameValue, Text
      <3> QED
        BY <1>1, <3>1
    <2>2. Normal(l) = Normal(m)
      BY <2>1
    <2> QED
      BY <1>2, <2>2, EntriesAgree DEF DefOf
  <1>5. CASE ListChange(h, r) = "none"
    <2>1. /\ a # "" /\ l.def = m.def /\ l.block = m.block
          /\ \A x \in DOMAIN l.f \ {a} : l.f[x] = m.f[x]
          /\ ToSet(l.f[a]) = ToSet(m.f[a])
      <3> HIDE DEF l, m
      <3> QED
        BY <1>5 DEF ListChange, l, m
    <2>2. DOMAIN l.f = DOMAIN m.f
      <3> DEFINE cs == <<running, intended>>
      <3>1. 1 \in DOMAIN cs /\ 2 \in DOMAIN cs /\ cs[1] = running /\ cs[2] = intended
        OBVIOUS
      <3> HIDE DEF cs
      <3>2. SameCaptures(cs)
        BY DEF Captures, cs
      <3>3. \A p \in DOMAIN intended, q \in DOMAIN running :
                intended[p].def = running[q].def => DOMAIN intended[p].f = DOMAIN running[q].f
        BY <3>1, <3>2 DEF SameCaptures
      <3> HIDE DEF l, m
      <3> QED
        BY <1>1, <2>1, <3>3
    <2> DEFINE F(f) == [x \in DOMAIN f |-> IF x = a THEN ToSet(f[x]) ELSE f[x]]
    <2>3. F(l.f) = F(m.f)
      <3> HIDE DEF l, m, a
      <3> QED
        BY <2>1, <2>2
    <2>4. /\ Normal(l) = [def |-> l.def, f |-> F(l.f), block |-> l.block]
          /\ Normal(m) = [def |-> l.def, f |-> F(m.f), block |-> l.block]
      <3> HIDE DEF F, l, m
      <3>1. \A f : Normal([def |-> l.def, f |-> f, block |-> l.block])
                    = [def |-> l.def, f |-> F(f), block |-> l.block]
        BY <2>1, NormalList, ZenonT(60) DEF F
      <3> QED
        BY <1>1, <2>1, <3>1, ZenonT(60)
    <2>5. Normal(l) = Normal(m)
      BY <2>3, <2>4
    <2> QED
      BY <1>2, <2>5, EntriesAgree DEF DefOf
  <1> QED
    BY <1>3, <1>4, <1>5

\* Two headers with one text are one line.
LEMMA HeaderAgrees ==
    ASSUME InputsOK, NEW h \in Nodes("int"), NEW r \in Nodes("run"),
           PathOf(h) = PathOf(r), IsSection(DefOf(h)), Text(Line(h)) = Text(Line(r))
    PROVE  EntryOf(h) = EntryOf(r) /\ Settled(h) /\ Settled(r)
  <1> DEFINE l == Line(h)
             m == Line(r)
  <1>1. /\ l = [def |-> l.def, f |-> l.f, block |-> l.block] /\ l = intended[h[2]]
        /\ m = [def |-> m.def, f |-> m.f, block |-> m.block] /\ m = running[r[2]]
        /\ h[2] \in DOMAIN intended /\ r[2] \in DOMAIN running
        /\ Configuration(running) /\ Configuration(intended)
    BY NodeLine DEF Sides, Conf
  <1>2. l.def = m.def /\ l.f = m.f
    <2> HIDE DEF l, m
    <2> QED
      BY DEF Text, l, m
  <1>3. l.block = <<>> /\ m.block = <<>>
    <2>1. IsSection(l.def) /\ IsSection(m.def)
      BY <1>2 DEF DefOf
    <2> HIDE DEF l, m
    <2> QED
      BY <1>1, <2>1 DEF Configuration
  <1>4. l = m
    <2> HIDE DEF l, m
    <2> QED
      BY <1>1, <1>2, <1>3
  <1>5. Normal(l) = Normal(m)
    BY <1>4
  <1> QED
    BY <1>5, EntriesAgree

\* A line of a level is settled, or a call is about it.
LEMMA KidAwaits ==
    ASSUME InputsOK, Tidy, Captures, NEW t, Paired(t), NEW side \in Sides,
           NEW x \in Nodes(side), Over(x) = At(t)
    PROVE  \/ Settled(x) /\ ~IsSection(DefOf(x))
           \/ \E k \in DOMAIN LevelCalls(t) : \E g \in Tops(LevelCalls(t)[k]) :
                PathOf(g) = PathOf(x)
  <1>1. /\ ToSet(Intended(t)) = {h \in Nodes("int") : Over(h) = At(t)}
        /\ ToSet(Running(t)) = {r \in Nodes("run") : Over(r) = At(t)}
        /\ ToSet(Removes(t)) = {r \in ToSet(Running(t)) : PathOf(r) \notin Wanted}
        /\ t \in LevelSet /\ t.removes = Removes(t) /\ t.removes \in Seq(Nodes("run"))
    BY LevelLines, RemovesByPath DEF Paired, Level, LevelSet
  <1> DEFINE Called(h) == \E k \in DOMAIN LevelCalls(t) : \E g \in Tops(LevelCalls(t)[k]) :
                            PathOf(g) = PathOf(h)
  <1>2. ASSUME NEW h \in ToSet(Intended(t))
        PROVE  \/ Called(h)
               \/ \E r \in Nodes("run") : PathOf(r) = PathOf(h) /\ PairKind(h, r) = "none"
    <2>1. CASE \E i \in ToSet(t.intents) : i.src = h
      <3>1. PICK i \in ToSet(t.intents) : i.src = h
        BY <2>1
      <3>2. PICK k \in DOMAIN LevelCalls(t) : Realises(LevelCalls(t)[k], t, i)
        BY <1>1, ChildCalls
      <3>3. h \in Tops(LevelCalls(t)[k])
        BY <3>1, <3>2 DEF Realises, Tops
      <3> QED
        BY <3>3
    <2> QED
      BY <2>1, IntentsByPath
  <1>3. CASE x \in Nodes("int")
    <2>1. CASE Called(x)
      BY <2>1
    <2>2. CASE \E r \in Nodes("run") : PathOf(r) = PathOf(x) /\ PairKind(x, r) = "none"
      BY <1>3, <2>2, NoneAgrees
    <2> QED
      BY <1>1, <1>2, <1>3, <2>1, <2>2
  <1>4. CASE x \in Nodes("run") /\ PathOf(x) \in Wanted
    <2>1. PICK h \in Nodes("int") : PathOf(h) = PathOf(x)
      BY <1>4 DEF Wanted, PathsOf
    <2>2. h \in ToSet(Intended(t))
      BY <1>1, <2>1 DEF Over
    <2>3. CASE Called(h)
      BY <2>1, <2>3
    <2>4. CASE \E r \in Nodes("run") : PathOf(r) = PathOf(h) /\ PairKind(h, r) = "none"
      <3>1. PICK r \in Nodes("run") : PathOf(r) = PathOf(h) /\ PairKind(h, r) = "none"
        BY <2>4
      <3>2. r = x
        BY <1>4, <2>1, <3>1, PathOne DEF Sides
      <3> QED
        BY <3>1, <3>2, NoneAgrees
    <2> QED
      BY <1>2, <2>2, <2>3, <2>4
  <1>5. CASE x \in Nodes("run") /\ PathOf(x) \notin Wanted
    <2>1. x \in ToSet(t.removes) /\ DefOf(x) \in Defs
      BY <1>1, <1>5, NodeLine DEF Sides
    <2>2. CASE FlippedBy(t, x) = 0
      <3>1. x \in ToSet(Negations(t))
        BY <1>1, <2>1, <2>2, FlipFacts
      <3>2. PICK k \in DOMAIN LevelCalls(t) : Negates(LevelCalls(t)[k], t, x)
        BY <1>1, <3>1, ChildCalls
      <3>3. x \in Tops(LevelCalls(t)[k])
        BY <3>2 DEF Negates, Tops
      <3> QED
        BY <3>3
    <2>3. CASE FlippedBy(t, x) # 0
      <3> DEFINE d == FlippedBy(t, x)
      <3>1. d \in AddedDefs(t) /\ d \in ToSet(Schema[DefOf(x)].toggles)
        BY <1>5, <2>3, FlippedByFacts
      <3>2. PICK i \in ToSet(t.intents) : i.kind = "add" /\ DefOf(i.src) = d
        BY <3>1 DEF AddedDefs
      <3> DEFINE r == Flip(t, d)
      <3>3. /\ r # Nil /\ r \in Nodes("run") /\ r \in ToSet(t.removes)
            /\ FlippedBy(t, r) = d
        <4> HIDE DEF d
        <4>1. FlippedBy(t, x) = d
          BY DEF d
        <4> QED
          BY <1>1, <2>1, <4>1, FlipFacts
      <3>4. d \in ToSet(Schema[DefOf(r)].toggles)
        BY <2>3, <3>3, FlippedByFacts
      <3>5. r = x
        <4>1. Over(r) = Over(x)
          BY <1>1, <3>3
        <4> QED
          BY <1>5, <3>1, <3>3, <3>4, <4>1, ToggleOne DEF Sides
      <3>6. PICK k \in DOMAIN LevelCalls(t) : Realises(LevelCalls(t)[k], t, i)
        BY <1>1, <3>2, ChildCalls
      <3>7. LevelCalls(t)[k].flip = x /\ x # Nil
        BY <3>2, <3>3, <3>5, <3>6 DEF Realises
      <3>8. x \in Tops(LevelCalls(t)[k])
        BY <3>7 DEF Tops
      <3> QED
        BY <3>8
    <2> QED
      BY <2>2, <2>3
  <1> QED
    BY <1>3, <1>4, <1>5 DEF Sides

\* Whatever a level is about is settled, or one of its calls is about it.
LEMMA LevelAwaits ==
    ASSUME InputsOK, Tidy, Captures, NEW t, Paired(t), Distinct(t), NEW side \in Sides,
           NEW x \in Nodes(side), PathOf(x) \in CallLand(t)
    PROVE  Settled(x) \/ \E k \in DOMAIN LevelCalls(t) : PathOf(x) \in CallLand(LevelCalls(t)[k])
  <1>1. At(t) \in Seq(Idents)
    BY LevelLines DEF Paired
  <1>2. Below(At(t), PathOf(x)) /\ PathOf(x) # At(t)
    BY DEF CallLand, Subtree, IsLevel, Paired, Level, LevelSet
  <1>3. PICK h \in Nodes(side) : Over(h) = At(t) /\ Below(PathOf(h), PathOf(x))
    BY <1>1, <1>2, KidOver
  <1>4. CASE Settled(h) /\ ~IsSection(DefOf(h))
    <2>1. x = h
      BY <1>3, <1>4, LeafAlone
    <2> QED
      BY <1>4, <2>1
  <1>5. ASSUME NEW k \in DOMAIN LevelCalls(t), NEW g \in Tops(LevelCalls(t)[k]),
               PathOf(g) = PathOf(h)
        PROVE  PathOf(x) \in CallLand(LevelCalls(t)[k])
    <2>1. CallLand(LevelCalls(t)[k]) = UNION {Subtree(PathOf(f)) : f \in Tops(LevelCalls(t)[k])}
      BY ChildTops, LineLand
    <2>2. PathOf(x) \in Known
      BY DEF Known, Shown, Wanted, PathsOf, Sides
    <2> QED
      BY <1>3, <1>5, <2>1, <2>2 DEF Subtree
  <1> QED
    BY <1>3, <1>4, <1>5, KidAwaits

-----------------------------------------------------------------------------
(* What a level negates is in no one's place.                              *)

\* Lines with one place are slots of one Kind or definition, or have one path.
LEMMA PlaceEqual ==
    ASSUME InputsOK, NEW g \in SomeNode, NEW h \in SomeNode, Place(EntryOf(g)) = Place(EntryOf(h))
    PROVE  \/ PathOf(g) = PathOf(h)
           \/ /\ SlotDef(DefOf(g)) /\ SlotDef(DefOf(h))
              /\ Schema[DefOf(g)].kind = Schema[DefOf(h)].kind
              /\ Schema[DefOf(g)].kind = "" => DefOf(g) = DefOf(h)
  <1> DEFINE N(x) == IF Schema[DefOf(x)].kind = "" THEN DefOf(x) ELSE 0
             K(x) == Schema[DefOf(x)].kind
  <1>1. ASSUME NEW x \in SomeNode
        PROVE  /\ SlotDef(DefOf(x)) => Place(EntryOf(x)) = <<Over(x), "slot", K(x), N(x)>>
               /\ ~SlotDef(DefOf(x)) => Place(EntryOf(x)) = <<PathOf(x)>>
    <2>1. EntryOf(x).path = PathOf(x) /\ EntryOf(x).line.def = DefOf(x)
      BY NodeEntry DEF SomeNode, Sides
    <2> QED
      BY <2>1 DEF Place, Over
  <1>2. CASE SlotDef(DefOf(g)) /\ SlotDef(DefOf(h))
    <2>1. K(g) = K(h) /\ N(g) = N(h)
      <3>1. <<Over(g), "slot", K(g), N(g)>> = <<Over(h), "slot", K(h), N(h)>>
        BY <1>1, <1>2
      <3> HIDE DEF K, N
      <3> QED
        BY <3>1
    <2> QED
      BY <1>2, <2>1
  <1>3. CASE ~SlotDef(DefOf(g)) /\ ~SlotDef(DefOf(h))
    <2>1. <<PathOf(g)>> = <<PathOf(h)>>
      BY <1>1, <1>3
    <2>2. PathOf(g) = PathOf(h)
      BY <2>1
    <2> QED
      BY <2>2
  <1>4. CASE SlotDef(DefOf(g)) /\ ~SlotDef(DefOf(h))
    <2>1. <<Over(g), "slot", K(g), N(g)>> = <<PathOf(h)>>
      BY <1>1, <1>4
    <2> HIDE DEF K, N
    <2> QED
      BY <2>1
  <1>5. CASE ~SlotDef(DefOf(g)) /\ SlotDef(DefOf(h))
    <2>1. <<Over(h), "slot", K(h), N(h)>> = <<PathOf(g)>>
      BY <1>1, <1>5
    <2> HIDE DEF K, N
    <2> QED
      BY <2>1
  <1> QED
    BY <1>2, <1>3, <1>4, <1>5

\* What a line that pushes another out has to do with it.
LEMMA OustsMeans ==
    ASSUME InputsOK, NEW g \in SomeNode, NEW h \in SomeNode, Ousts(g, h)
    PROVE  \/ PathOf(g) = PathOf(h)
           \/ /\ SlotDef(DefOf(g)) /\ SlotDef(DefOf(h))
              /\ Schema[DefOf(g)].kind = Schema[DefOf(h)].kind
              /\ Schema[DefOf(g)].kind = "" => DefOf(g) = DefOf(h)
           \/ DefOf(h) # DefOf(g) /\ DefOf(h) \in ToSet(Schema[DefOf(g)].toggles)
  <1>1. /\ EntryOf(g).line.def = DefOf(g) /\ EntryOf(h).line.def = DefOf(h)
    BY NodeEntry DEF SomeNode, Sides
  <1>2. \/ Place(EntryOf(g)) = Place(EntryOf(h))
        \/ DefOf(h) # DefOf(g) /\ DefOf(h) \in ToSet(Schema[DefOf(g)].toggles)
    BY <1>1 DEF Ousts, Displaces
  <1> QED
    BY <1>2, PlaceEqual

\* What goes at a level is in the place of nothing that is wanted, unless that
\* is refused.
LEMMA NegationGone ==
    ASSUME InputsOK, Tidy, NEW t, Paired(t), ~SplitSlot(t), NEW r \in ToSet(Negations(t)),
           ~ProtectedIn(r)
    PROVE  Gone(r) /\ r \in Nodes("run")
  <1>1. "run" \in Sides /\ "int" \in Sides
    BY DEF Sides
  <1>2. /\ t \in LevelSet /\ t.removes = Removes(t) /\ t.removes \in Seq(Nodes("run"))
        /\ Level(t)
    BY DEF Paired, Level, LevelSet
  <1>3. r \in ToSet(Removes(t)) /\ FlippedBy(t, r) = 0
    BY <1>2, FlipFacts
  <1>4. /\ r \in Nodes("run") /\ r \in SomeNode /\ Over(r) = At(t)
        /\ PathOf(r) \notin Wanted /\ DefOf(r) \in Defs
    BY <1>3, TopNodes
  <1>5. /\ At(t) \in Seq(Idents)
        /\ At(t) = <<>> \/ At(t) \in Wanted
        /\ ToSet(Intended(t)) = {h \in Nodes("int") : Over(h) = At(t)}
        /\ \A x \in SomeNode : Over(x) = At(t) => PathOf(x) = Append(At(t), Id(x))
    BY <1>2, LevelLines
  <1>6. ~ProtectedBelow(r)
    BY DEF ProtectedIn, ProtectedBelow
  <1>7. ASSUME NEW g \in Nodes("run"), Below(PathOf(g), PathOf(r)), PathOf(g) \notin Wanted
        PROVE  g = r
    <2>1. PathOf(g) \in Seq(Idents) /\ Len(PathOf(g)) >= 1 /\ Len(PathOf(g)) \in Nat
      BY <1>1, NodePath
    <2>2. Below(PathOf(g), At(t)) \/ PathOf(g) = PathOf(r)
      <3>1. PathOf(r) = Append(At(t), Id(r)) /\ Id(r) \in Idents
        BY <1>4, <1>5 DEF Idents
      <3>2. \A u, v \in Seq(Idents) : \A a \in Idents :
                Below(u, Append(v, a)) => Below(u, v) \/ u = Append(v, a)
        BY BelowChild
      <3>3. Below(PathOf(g), Append(At(t), Id(r)))
        BY <1>7, <3>1
      <3>4. At(t) \in Seq(Idents) /\ PathOf(g) \in Seq(Idents) /\ Id(r) \in Idents
        BY <1>5, <2>1, <3>1
      <3>5. Below(PathOf(g), At(t)) \/ PathOf(g) = Append(At(t), Id(r))
        BY <3>2, <3>3, <3>4
      <3> QED
        BY <3>1, <3>5
    <2>3. ~Below(PathOf(g), At(t))
      <3> SUFFICES ASSUME Below(PathOf(g), At(t)) PROVE FALSE
        OBVIOUS
      <3>1. At(t) # <<>>
        BY <2>1 DEF Below
      <3>2. PathOf(g) # <<>>
        BY <2>1
      <3>3. At(t) \in PathsOf("int")
        BY <1>5, <3>1 DEF Wanted
      <3>4. PathOf(g) \in PathsOf("int")
        BY <1>1, <2>1, <3>2, <3>3, PathsClosed
      <3> QED
        BY <1>7, <3>4 DEF Wanted
    <2> QED
      BY <1>1, <1>4, <2>2, <2>3, PathOne
  <1>8. ASSUME NEW q \in Nodes("int"), Ousts(q, r) PROVE FALSE
    <2>1. q \in SomeNode /\ Over(q) = At(t) /\ PathOf(q) \in Wanted /\ DefOf(q) \in Defs
      <3>1. q \in SomeNode /\ PathOf(q) \in Wanted
        BY DEF SomeNode, Wanted, PathsOf
      <3>2. Over(q) = At(t)
        BY <1>4, <1>8, <3>1, OustsSiblings
      <3> QED
        BY <1>1, <3>1, <3>2, NodeLine
    <2>2. q \in ToSet(Intended(t))
      BY <1>5, <2>1
    <2>3. ASSUME NEW x \in Nodes("run"), PathOf(x) = PathOf(q) PROVE FALSE
      <3>1. x \in SomeNode
        BY DEF SomeNode
      <3>2. Ousts(r, q)
        BY <1>4, <1>8, <2>1, OustsBothWays
      <3>3. Ousts(r, x)
        BY <1>4, <2>1, <2>3, <3>1, <3>2, OustsByPath
      <3>4. r = x
        BY <1>1, <1>4, <3>3, NoOust
      <3> QED
        BY <1>4, <2>1, <2>3, <3>4
    <2>4. PICK i \in ToSet(t.intents) : i.src = q /\ i.kind = "add"
      BY <2>2, <2>3, IntentsByPath
    <2> DEFINE d == DefOf(q)
               e == DefOf(r)
    <2>5. d \in AddedDefs(t)
      BY <2>4 DEF AddedDefs
    <2>6. ASSUME d # e, e \in ToSet(Schema[d].toggles) PROVE FALSE
      <3>1. d \in ToSet(Schema[e].toggles)
        BY <2>1, <2>6, ToggleGroup
      <3> QED
        BY <1>3, <1>4, <1>6, <2>5, <2>6, <3>1, FlippedByFacts
    <2>7. ASSUME d = e, e \in ToSet(Schema[d].toggles) PROVE FALSE
      <3>1. /\ r[2] \in DOMAIN running /\ Line(r) = running[r[2]]
            /\ q[2] \in DOMAIN intended /\ Line(q) = intended[q[2]]
        BY <1>1, <1>4, NodeLine DEF Conf
      <3>2. Schema[e].toggles # <<>>
        BY <2>7 DEF ToSet
      <3>3. SlotPath(running, Parent(r[2])) = At(t) /\ SlotPath(intended, Parent(q[2])) = At(t)
        <4>1. Over(r) = SlotPath(Conf("run"), Parent(r[2])) /\ Over(q) = SlotPath(Conf("int"), Parent(q[2]))
          BY <1>1, <1>4, NodeOver
        <4>2. Conf("run") = running /\ Conf("int") = intended
          BY DEF Conf
        <4> QED
          BY <1>4, <2>1, <4>1, <4>2
      <3>4. Id(r) # Id(q)
        BY <1>4, <1>5, <2>1
      <3> QED
        BY <2>7, <3>1, <3>2, <3>3, <3>4 DEF Tidy, Respells, DefOf, Id
    <2>8. ASSUME SlotDef(d), SlotDef(e), Schema[d].kind = Schema[e].kind,
                 Schema[d].kind = "" => d = e, e \notin ToSet(Schema[d].toggles)
          PROVE  FALSE
      BY <2>4, <2>8 DEF SplitSlot
    <2> HIDE DEF d, e
    <2>9. \/ PathOf(q) = PathOf(r)
          \/ /\ SlotDef(d) /\ SlotDef(e) /\ Schema[d].kind = Schema[e].kind
             /\ Schema[d].kind = "" => d = e
          \/ e # d /\ e \in ToSet(Schema[d].toggles)
      BY <1>4, <1>8, <2>1, OustsMeans DEF d, e
    <2> QED
      BY <1>4, <2>1, <2>6, <2>7, <2>8, <2>9
  <1> QED
    BY <1>4, <1>7, <1>8 DEF Gone

-----------------------------------------------------------------------------
(* What collect knows.                                                     *)

\* The paths that both sides have, and the root.
Both == (Shown \cap Wanted) \cup {<<>>}

\* The path that the lines of a call stand under.
Home(t) == IF IsLevel(t) THEN At(t) ELSE Over(t.src)

\* Sections around u: intended ones that are there, or running ones that go.
HeadersOK(secs, u) ==
    \A h \in ToSet(secs) :
        /\ Below(PathOf(h), u)
        /\ h \in Nodes("int") => PathOf(h) \in Shown
        /\ h \in Nodes("run") => Gone(h)

\* What is flipped is not wanted, and goes when the line is written.
FlipOK(x) ==
    x.flip # Nil =>
        x.flip \in Nodes("run") /\ PathOf(x.flip) \notin Wanted /\ Ousts(x.src, x.flip)

CallOK(t) ==
    /\ HeadersOK(t.secs, Home(t))
    /\ IsLevel(t) =>
        /\ PathOf(t.src) = PathOf(t.run)
        /\ t.call # "level" => t.pairs = Pairings(t, Kept(t))
        /\ t.call = "toggles" => t.intents = Intents(t) /\ t.removes = Removes(t)
    /\ t.call = "intent" =>
        /\ Over(t.src) \in Both /\ FlipOK(t)
        /\ t.kind = "add" => At(t) \notin Shown
        /\ t.kind # "add" =>
            PathOf(t.run) = At(t) /\ t.kind = PairKind(t.src, t.run) /\ t.flip = Nil
    /\ t.call = "removal" => Gone(t.src)

\* The paths that an operation is about: a header that is reissued leaves the
\* lines below it to other operations.
OpLand(o) ==
    IF o.action = "modify" /\ IsSection(DefOf(o.src)) THEN {At(o)}
    ELSE Subtree(At(o)) \cup Flipped(o)

OpOK(o) ==
    /\ HeadersOK(o.secs, Over(o.src)) /\ FlipOK(o)
    /\ o.action \in {"add", "modify", "replace", "remove"}
    /\ o.action = "add" =>
        /\ o.src \in Nodes("int") /\ Over(o.src) \in Both
        /\ o.cmds = <<Cmd("put", o.src, <<>>)>>
    /\ o.action \in {"modify", "replace"} =>
        /\ o.src \in Nodes("int") /\ o.run \in Nodes("run")
        /\ PathOf(o.run) = At(o) /\ o.flip = Nil
    /\ o.action = "modify" =>
        \/ /\ o.cmds = <<Cmd("set", o.src, <<>>)>>
           /\ ~IsSection(DefOf(o.src)) => ~IsSection(DefOf(o.run))
        \/ /\ o.cmds = DeltaCmds(o) /\ ListChange(o.src, o.run) = "delta"
           /\ ~IsSection(DefOf(o.src)) /\ ~IsSection(DefOf(o.run))
    /\ o.action = "replace" => o.cmds = <<Cmd("no", o.run, <<>>), Cmd("put", o.src, <<>>)>>
    /\ o.action = "remove" =>
        /\ o.src \in Nodes("run") /\ Gone(o.src) /\ o.flip = Nil
        /\ o.cmds = <<Cmd("no", o.src, <<>>)>>

\* The paths whose lines an operation writes, and those it clears.
Brings(o, u) == o.action # "remove" /\ u \in OpLand(o) /\ Below(At(o), u)
Takes(o, u) == u \in OpLand(o) /\ (o.action = "add" => u \in Flipped(o))

\* No path is the business of two.
LandsApart(s, os) ==
    /\ \A j, k \in DOMAIN s : j # k => CallLand(s[j]) \cap CallLand(s[k]) = {}
    /\ \A k \in DOMAIN s, i \in DOMAIN os : CallLand(s[k]) \cap OpLand(os[i]) = {}
    /\ \A i, j \in DOMAIN os : i # j => OpLand(os[i]) \cap OpLand(os[j]) = {}

\* Every line is settled, in the hands of a call that waits, or in those of an
\* operation; a ClearOnRemove header may be in none.
Awaited(s, u) == \E k \in DOMAIN s : u \in CallLand(s[k])
Covered(s, os) ==
    /\ \A h \in Nodes("int") :
        Settled(h) \/ Awaited(s, PathOf(h)) \/ \E i \in DOMAIN os : Brings(os[i], PathOf(h))
    /\ \A h \in Nodes("run") :
        \/ Settled(h) \/ Awaited(s, PathOf(h)) \/ Schema[DefOf(h)].clear
        \/ \E i \in DOMAIN os : Takes(os[i], PathOf(h))

Good(s, os) ==
    /\ \A k \in DOMAIN s : CallOK(s[k])
    /\ \A i \in DOMAIN os : OpOK(os[i])
    /\ LandsApart(s, os)
    /\ Covered(s, os)

-----------------------------------------------------------------------------
(* Replacing the head of the worklist.                                     *)

\* The worklist s with the calls cs in place of its head.
Headed(cs, s) == cs \o Tail(s)

\* Where the k-th call stood before calls cs replaced the head.
Before(cs, k) == (k - Len(cs)) + 1

\* A worklist of which the head is replaced.
LEMMA ReplacedCalls ==
    ASSUME NEW X, NEW s \in Seq(X), s # <<>>, NEW cs \in Seq(X)
    PROVE  /\ 1 \in DOMAIN s
           /\ \A k \in DOMAIN Headed(cs, s) :
                \/ k \in DOMAIN cs /\ Headed(cs, s)[k] = cs[k]
                \/ /\ k \notin DOMAIN cs
                   /\ Before(cs, k) \in DOMAIN s \ {1} /\ Headed(cs, s)[k] = s[Before(cs, k)]
           /\ \A j, k \in DOMAIN Headed(cs, s) : Before(cs, j) = Before(cs, k) => j = k
           /\ \A k \in DOMAIN cs : k \in DOMAIN Headed(cs, s) /\ Headed(cs, s)[k] = cs[k]
           /\ \A m \in DOMAIN s \ {1} : \E k \in DOMAIN Headed(cs, s) : Headed(cs, s)[k] = s[m]
  <1> DEFINE new == Headed(cs, s)
  <1>1. /\ Len(s) \in Nat /\ Len(s) >= 1 /\ DOMAIN s = 1..Len(s)
        /\ Len(cs) \in Nat /\ DOMAIN cs = 1..Len(cs)
        /\ Tail(s) \in Seq(X) /\ Len(Tail(s)) = Len(s) - 1
        /\ \A m \in 1..(Len(s) - 1) : Tail(s)[m] = s[m + 1]
    OBVIOUS
  <1>0. new = cs \o Tail(s)
    BY DEF Headed
  <1> HIDE DEF new
  <1>2. /\ DOMAIN new = 1..(Len(cs) + (Len(s) - 1))
        /\ \A k \in 1..Len(cs) : new[k] = cs[k]
        /\ \A k \in (Len(cs) + 1)..(Len(cs) + (Len(s) - 1)) : new[k] = Tail(s)[k - Len(cs)]
    BY <1>0, <1>1
  <1> USE DEF Before
  <1>3. ASSUME NEW k \in DOMAIN new
        PROVE  \/ k \in DOMAIN cs /\ new[k] = cs[k]
               \/ /\ k \notin DOMAIN cs
                  /\ Before(cs, k) \in DOMAIN s \ {1} /\ new[k] = s[Before(cs, k)]
    <2>1. CASE k \in 1..Len(cs)
      BY <1>1, <1>2, <2>1
    <2>2. CASE k \notin 1..Len(cs)
      <3>1. /\ k \in (Len(cs) + 1)..(Len(cs) + (Len(s) - 1)) /\ k \in Int
            /\ k - Len(cs) \in 1..(Len(s) - 1)
        BY <1>1, <1>2, <2>2
      <3>2. new[k] = Tail(s)[k - Len(cs)] /\ Tail(s)[k - Len(cs)] = s[Before(cs, k)]
        BY <1>1, <1>2, <3>1
      <3>3. Before(cs, k) \in DOMAIN s \ {1}
        BY <1>1, <3>1
      <3> QED
        BY <1>1, <2>2, <3>2, <3>3
    <2> QED
      BY <2>1, <2>2
  <1>4. ASSUME NEW m \in DOMAIN s \ {1} PROVE \E k \in DOMAIN new : new[k] = s[m]
    <2> DEFINE k == (m + Len(cs)) - 1
    <2>1. /\ k \in (Len(cs) + 1)..(Len(cs) + (Len(s) - 1)) /\ k - Len(cs) = m - 1
          /\ m - 1 \in 1..(Len(s) - 1) /\ (m - 1) + 1 = m /\ k \in 1..(Len(cs) + (Len(s) - 1))
      BY <1>1
    <2>2. new[k] = s[m]
      BY <1>1, <1>2, <2>1
    <2> QED
      BY <1>2, <2>1, <2>2
  <1>5. \A j, k \in DOMAIN new : Before(cs, j) = Before(cs, k) => j = k
    BY <1>1, <1>2
  <1>6. \A k \in DOMAIN cs : k \in DOMAIN new /\ new[k] = cs[k]
    BY <1>1, <1>2
  <1> HIDE DEF Before
  <1>7. 1 \in DOMAIN s
    BY <1>1
  <1> QED
    BY <1>3, <1>4, <1>5, <1>6, <1>7, Zenon DEF new

\* What the calls that replace t, and the operation that it emits if any, must
\* be about.
Replaces(t, cs, os, more) ==
    /\ \A k \in DOMAIN cs : CallOK(cs[k]) /\ CallLand(cs[k]) \subseteq CallLand(t)
    /\ \A j, k \in DOMAIN cs : j # k => CallLand(cs[j]) \cap CallLand(cs[k]) = {}
    /\ \A o \in more :
        /\ OpOK(o) /\ OpLand(o) \subseteq CallLand(t)
        /\ \A k \in DOMAIN cs : CallLand(cs[k]) \cap OpLand(o) = {}
    /\ \A h \in Nodes("int") : PathOf(h) \in CallLand(t) =>
        Settled(h) \/ Awaited(cs, PathOf(h)) \/ \E o \in more : Brings(o, PathOf(h))
    /\ \A h \in Nodes("run") : PathOf(h) \in CallLand(t) =>
        \/ Settled(h) \/ Awaited(cs, PathOf(h)) \/ Schema[DefOf(h)].clear
        \/ \E o \in more : Takes(o, PathOf(h))

\* The operations, with those that are emitted.
Emitted(os, more, new) == \/ more = {} /\ new = os
                          \/ \E o : more = {o} /\ new = Append(os, o)

\* What collect knows is kept when its head is replaced so.
LEMMA GoodReplaced ==
    ASSUME NEW X, NEW s \in Seq(X), s # <<>>, NEW cs \in Seq(X), NEW os, IsSeq(os),
           NEW more, NEW new, Emitted(os, more, new),
           Good(s, os), Replaces(s[1], cs, os, more)
    PROVE  Good(Headed(cs, s), new)
  <1> DEFINE u == Headed(cs, s)
             t == s[1]
  <1>1. /\ 1 \in DOMAIN s
        /\ \A k \in DOMAIN u :
                \/ k \in DOMAIN cs /\ u[k] = cs[k]
                \/ k \notin DOMAIN cs /\ Before(cs, k) \in DOMAIN s \ {1} /\ u[k] = s[Before(cs, k)]
        /\ \A j, k \in DOMAIN u : Before(cs, j) = Before(cs, k) => j = k
        /\ \A k \in DOMAIN cs : k \in DOMAIN u /\ u[k] = cs[k]
        /\ \A n \in DOMAIN s \ {1} : \E k \in DOMAIN u : u[k] = s[n]
    BY ReplacedCalls
  <1> HIDE DEF u
  <1>2. \A i \in DOMAIN new :
            \/ i \in DOMAIN os /\ new[i] = os[i]
            \/ i \notin DOMAIN os /\ new[i] \in more /\ \A j \in DOMAIN new : j \notin DOMAIN os => j = i
    <2>1. CASE new = os
      BY <2>1
    <2>2. ASSUME NEW o, more = {o}, new = Append(os, o)
          PROVE  \A i \in DOMAIN new :
                    \/ i \in DOMAIN os /\ new[i] = os[i]
                    \/ /\ i \notin DOMAIN os /\ new[i] \in more
                       /\ \A j \in DOMAIN new : j \notin DOMAIN os => j = i
      BY <2>2, IsSeqAppend
    <2> QED
      BY <2>1, <2>2 DEF Emitted
  <1>3. /\ \A i \in DOMAIN os : i \in DOMAIN new /\ new[i] = os[i]
        /\ \A o \in more : \E i \in DOMAIN new : new[i] = o
    <2>1. ASSUME NEW o, more = {o}, new = Append(os, o)
          PROVE  /\ \A i \in DOMAIN os : i \in DOMAIN new /\ new[i] = os[i]
                 /\ \E i \in DOMAIN new : new[i] = o
      <3>1. /\ Len(os) \in Nat /\ DOMAIN os = 1..Len(os)
            /\ DOMAIN new = 1..(Len(os) + 1) /\ new[Len(os) + 1] = o
            /\ \A i \in 1..Len(os) : new[i] = os[i]
        BY <2>1, IsSeqAppend
      <3>2. Len(os) + 1 \in 1..(Len(os) + 1) /\ \A i \in 1..Len(os) : i \in 1..(Len(os) + 1)
        BY <3>1
      <3> QED
        BY <3>1, <3>2
    <2> QED
      BY <2>1 DEF Emitted
  <1>4. \A k \in DOMAIN u : CallOK(u[k])
    BY <1>1 DEF Good, Replaces
  <1>5. \A i \in DOMAIN new : OpOK(new[i])
    BY <1>2 DEF Good, Replaces
  <1>6. LandsApart(u, new)
    <2>1. ASSUME NEW j \in DOMAIN u, NEW k \in DOMAIN u, j # k
          PROVE  CallLand(u[j]) \cap CallLand(u[k]) = {}
      <3>1. /\ \A a, b \in DOMAIN s : a # b => CallLand(s[a]) \cap CallLand(s[b]) = {}
            /\ \A a \in DOMAIN cs : CallLand(cs[a]) \subseteq CallLand(t)
            /\ \A a, b \in DOMAIN cs : a # b => CallLand(cs[a]) \cap CallLand(cs[b]) = {}
        BY DEF Good, LandsApart, Replaces
      <3>2. CASE j \in DOMAIN cs /\ k \in DOMAIN cs
        BY <1>1, <2>1, <3>1, <3>2
      <3>3. CASE j \in DOMAIN cs /\ k \notin DOMAIN cs
        <4>1. Before(cs, k) \in DOMAIN s /\ Before(cs, k) # 1 /\ u[k] = s[Before(cs, k)] /\ u[j] = cs[j]
          BY <1>1, <3>3
        <4>2. CallLand(s[1]) \cap CallLand(s[Before(cs, k)]) = {} /\ CallLand(cs[j]) \subseteq CallLand(s[1])
          BY <1>1, <3>1, <3>3, <4>1
        <4> QED
          BY <4>1, <4>2
      <3>4. CASE j \notin DOMAIN cs /\ k \in DOMAIN cs
        <4>1. Before(cs, j) \in DOMAIN s /\ Before(cs, j) # 1 /\ u[j] = s[Before(cs, j)] /\ u[k] = cs[k]
          BY <1>1, <3>4
        <4>2. CallLand(s[1]) \cap CallLand(s[Before(cs, j)]) = {} /\ CallLand(cs[k]) \subseteq CallLand(s[1])
          BY <1>1, <3>1, <3>4, <4>1
        <4> QED
          BY <4>1, <4>2
      <3>5. CASE j \notin DOMAIN cs /\ k \notin DOMAIN cs
        <4>1. /\ Before(cs, j) \in DOMAIN s /\ u[j] = s[Before(cs, j)] /\ Before(cs, k) \in DOMAIN s /\ u[k] = s[Before(cs, k)]
              /\ Before(cs, j) # Before(cs, k)
          BY <1>1, <2>1, <3>5
        <4> QED
          BY <3>1, <4>1
      <3> QED
        BY <3>2, <3>3, <3>4, <3>5
    <2>2. ASSUME NEW k \in DOMAIN u, NEW i \in DOMAIN new
          PROVE  CallLand(u[k]) \cap OpLand(new[i]) = {}
      <3>1. /\ \A a, b \in DOMAIN s : a # b => CallLand(s[a]) \cap CallLand(s[b]) = {}
            /\ \A a \in DOMAIN s, b \in DOMAIN os : CallLand(s[a]) \cap OpLand(os[b]) = {}
            /\ \A a \in DOMAIN cs : CallLand(cs[a]) \subseteq CallLand(t)
            /\ \A o \in more : /\ OpLand(o) \subseteq CallLand(t)
                               /\ \A a \in DOMAIN cs : CallLand(cs[a]) \cap OpLand(o) = {}
        BY DEF Good, LandsApart, Replaces
      <3>2. \/ CallLand(u[k]) \subseteq CallLand(t) /\ k \in DOMAIN cs /\ u[k] = cs[k]
            \/ Before(cs, k) \in DOMAIN s \ {1} /\ u[k] = s[Before(cs, k)]
        BY <1>1, <3>1
      <3>3. CASE i \in DOMAIN os /\ new[i] = os[i]
        BY <1>1, <3>1, <3>2, <3>3
      <3>4. CASE new[i] \in more
        <4>1. OpLand(new[i]) \subseteq CallLand(t)
          BY <3>1, <3>4
        <4>2. CASE k \in DOMAIN cs /\ u[k] = cs[k]
          BY <3>1, <3>4, <4>2
        <4>3. CASE Before(cs, k) \in DOMAIN s \ {1} /\ u[k] = s[Before(cs, k)]
          <5>1. CallLand(s[1]) \cap CallLand(s[Before(cs, k)]) = {}
            BY <1>1, <3>1, <4>3
          <5> QED
            BY <4>1, <4>3, <5>1
        <4> QED
          BY <3>2, <4>2, <4>3
      <3> QED
        BY <1>2, <3>3, <3>4
    <2>3. ASSUME NEW i \in DOMAIN new, NEW j \in DOMAIN new, i # j
          PROVE  OpLand(new[i]) \cap OpLand(new[j]) = {}
      <3>1. /\ \A a \in DOMAIN s, b \in DOMAIN os : CallLand(s[a]) \cap OpLand(os[b]) = {}
            /\ \A a, b \in DOMAIN os : a # b => OpLand(os[a]) \cap OpLand(os[b]) = {}
            /\ \A o \in more : OpLand(o) \subseteq CallLand(t)
        BY DEF Good, LandsApart, Replaces
      <3>2. \A b \in DOMAIN os, o \in more : OpLand(o) \cap OpLand(os[b]) = {}
        BY <1>1, <3>1
      <3> QED
        BY <1>2, <2>3, <3>1, <3>2
    <2> QED
      BY <2>1, <2>2, <2>3 DEF LandsApart
  <1>7. ASSUME NEW v, Awaited(s, v) PROVE Awaited(u, v) \/ v \in CallLand(t)
    BY <1>1, <1>7 DEF Awaited
  <1>8. ASSUME NEW v, Awaited(cs, v) PROVE Awaited(u, v)
    BY <1>1, <1>8 DEF Awaited
  <1>9. Covered(u, new)
    <2>1. ASSUME NEW h \in Nodes("int")
          PROVE  \/ Settled(h) \/ Awaited(u, PathOf(h))
                 \/ \E i \in DOMAIN new : Brings(new[i], PathOf(h))
      <3>1. \/ Settled(h) \/ Awaited(s, PathOf(h))
            \/ \E i \in DOMAIN os : Brings(os[i], PathOf(h))
        BY DEF Good, Covered
      <3>2. PathOf(h) \in CallLand(t) =>
                Settled(h) \/ Awaited(cs, PathOf(h)) \/ \E o \in more : Brings(o, PathOf(h))
        BY DEF Replaces
      <3> QED
        BY <1>3, <1>7, <1>8, <3>1, <3>2
    <2>2. ASSUME NEW h \in Nodes("run")
          PROVE  \/ Settled(h) \/ Awaited(u, PathOf(h)) \/ Schema[DefOf(h)].clear
                 \/ \E i \in DOMAIN new : Takes(new[i], PathOf(h))
      <3>1. \/ Settled(h) \/ Awaited(s, PathOf(h)) \/ Schema[DefOf(h)].clear
            \/ \E i \in DOMAIN os : Takes(os[i], PathOf(h))
        BY DEF Good, Covered
      <3>2. PathOf(h) \in CallLand(t) =>
                \/ Settled(h) \/ Awaited(cs, PathOf(h)) \/ Schema[DefOf(h)].clear
                \/ \E o \in more : Takes(o, PathOf(h))
        BY DEF Replaces
      <3> QED
        BY <1>3, <1>7, <1>8, <3>1, <3>2
    <2> QED
      BY <2>1, <2>2 DEF Covered
  <1> QED
    BY <1>4, <1>5, <1>6, <1>9 DEF Good, u

-----------------------------------------------------------------------------
(* What a level is replaced by.                                            *)

\* What a level flips at is pushed out by the line that flips it.
LEMMA FlipOusts ==
    ASSUME InputsOK, Tidy, NEW t, Paired(t), NEW i \in ToSet(t.intents),
           NEW r, r = Flip(t, DefOf(i.src)), r # Nil
    PROVE  r \in Nodes("run") /\ PathOf(r) \notin Wanted /\ Ousts(i.src, r)
  <1>1. t.removes \in Seq(Nodes("run")) /\ t.removes = Removes(t)
    BY DEF Paired, Level, LevelSet
  <1>2. r \in Nodes("run") /\ r \in ToSet(Removes(t)) /\ FlippedBy(t, r) = DefOf(i.src)
    BY <1>1, FlipFacts
  <1>3. i.src \in ToSet(Intended(t))
    BY IntentsByPath
  <1>4. /\ i.src \in Nodes("int") /\ i.src \in SomeNode /\ r \in SomeNode
        /\ Over(i.src) = At(t) /\ Over(r) = At(t) /\ PathOf(r) \notin Wanted
        /\ DefOf(i.src) \in Defs /\ DefOf(r) \in Defs /\ 0 \notin Defs
    BY <1>2, <1>3, TopNodes
  <1>5. DefOf(i.src) # DefOf(r) /\ DefOf(i.src) \in ToSet(Schema[DefOf(r)].toggles)
    BY <1>2, <1>4, FlippedByFacts
  <1>6. DefOf(r) \in ToSet(Schema[DefOf(i.src)].toggles)
    BY <1>4, <1>5, ToggleGroup
  <1>7. /\ EntryOf(i.src).path = PathOf(i.src) /\ EntryOf(i.src).line.def = DefOf(i.src)
        /\ EntryOf(r).path = PathOf(r) /\ EntryOf(r).line.def = DefOf(r)
    BY <1>2, <1>4, NodeEntry DEF Sides
  <1>8. Siblings(EntryOf(i.src), EntryOf(r))
    BY <1>4, <1>7 DEF Siblings, Over
  <1>9. Ousts(i.src, r)
    BY <1>5, <1>6, <1>7, <1>8 DEF Ousts, Displaces
  <1> QED
    BY <1>2, <1>4, <1>9

\* The calls of a level are in order, unless Diff refuses the level.
LEMMA ChildOK ==
    ASSUME InputsOK, Tidy, NEW t, Paired(t), CallOK(t), ~SplitSlot(t),
           NEW k \in DOMAIN LevelCalls(t),
           LevelCalls(t)[k].call = "removal" => ~ProtectedIn(LevelCalls(t)[k].src)
    PROVE  CallOK(LevelCalls(t)[k])
  <1> DEFINE c == LevelCalls(t)[k]
  <1>1. t \in LevelSet /\ Level(t)
    BY DEF Paired, Level
  <1>2. /\ IsLevel(t) /\ Home(t) = At(t)
        /\ At(t) = <<>> \/ At(t) \in Shown \cap Wanted
        /\ HeadersOK(t.secs, At(t))
    <2>1. IsLevel(t)
      BY <1>1 DEF LevelSet, IsLevel
    <2>2. At(t) = <<>> \/ At(t) \in Shown \cap Wanted
      BY <1>1, LevelLines
    <2> QED
      BY <2>1, <2>2 DEF Home, CallOK
  <1>3. /\ \A h \in ToSet(Intended(t)) : h \in Nodes("int") /\ Over(h) = At(t)
        /\ \A r \in ToSet(Removes(t)) : r \in Nodes("run") /\ Over(r) = At(t)
    BY TopNodes
  <1>4. \/ \E i \in ToSet(t.intents) : Realises(c, t, i)
        \/ \E r \in ToSet(Negations(t)) : Negates(c, t, r)
    BY <1>1, ChildCalls
  <1> HIDE DEF c
  <1>5. ASSUME NEW i \in ToSet(t.intents), Realises(c, t, i)
        PROVE  CallOK(c)
    <2>1. /\ c.call = "intent" /\ c.src = i.src /\ c.run = i.run /\ c.kind = i.kind
          /\ c.secs = t.secs /\ ~IsLevel(c)
      BY <1>5 DEF Realises, IsLevel
    <2>2. c.flip # Nil => i.kind = "add" /\ c.flip = Flip(t, DefOf(i.src))
      BY <1>5 DEF Realises
    <2>3. /\ i.src \in ToSet(Intended(t))
          /\ \/ i.kind = "add" /\ i.run = Nil /\ PathOf(i.src) \notin Shown
             \/ /\ i.kind # "add" /\ i.kind = PairKind(i.src, i.run)
                /\ i.run \in Nodes("run") /\ PathOf(i.run) = PathOf(i.src)
      BY IntentsByPath
    <2>4. Over(i.src) = At(t)
      BY <1>3, <2>3
    <2>5. FlipOK(c)
      BY <2>1, <2>2, FlipOusts DEF FlipOK
    <2>6. Home(c) = At(t) /\ Over(c.src) \in Both
      BY <1>2, <2>1, <2>4 DEF Home, Both
    <2>7. /\ c.kind = "add" => At(c) \notin Shown
          /\ c.kind # "add" =>
                PathOf(c.run) = At(c) /\ c.kind = PairKind(c.src, c.run) /\ c.flip = Nil
      BY <2>1, <2>2, <2>3 DEF At
    <2> QED
      BY <1>2, <2>1, <2>5, <2>6, <2>7 DEF CallOK
  <1>6. ASSUME NEW r \in ToSet(Negations(t)), Negates(c, t, r)
        PROVE  CallOK(c)
    <2>1. c.call = "removal" /\ c.src = r /\ c.secs = t.secs /\ ~IsLevel(c)
      BY <1>6 DEF Negates, IsLevel
    <2>2. ~ProtectedIn(r)
      BY <2>1 DEF c
    <2>3. Gone(r) /\ r \in Nodes("run")
      BY <2>2, NegationGone
    <2>4. r \in ToSet(Removes(t))
      <3>1. t.removes \in Seq(Nodes("run")) /\ t.removes = Removes(t)
        BY DEF Paired, Level, LevelSet
      <3> QED
        BY <3>1, FlipFacts
    <2>5. Home(c) = At(t)
      BY <1>3, <2>1, <2>4 DEF Home
    <2> QED
      BY <1>2, <2>1, <2>3, <2>5 DEF CallOK
  <1> QED
    BY <1>4, <1>5, <1>6 DEF c

\* A level that advances is about the same lines.
LEMMA LevelStays ==
    ASSUME NEW t, NEW u, IsLevel(t), IsLevel(u), u.src = t.src, CallOK(u), NEW os
    PROVE  Replaces(t, <<u>>, os, {})
  <1>1. CallLand(u) = CallLand(t)
    BY DEF CallLand, At
  <1>2. DOMAIN <<u>> = {1} /\ <<u>>[1] = u
    OBVIOUS
  <1>3. \A v : v \in CallLand(t) => Awaited(<<u>>, v)
    BY <1>1, <1>2 DEF Awaited
  <1> QED
    BY <1>1, <1>2, <1>3 DEF Replaces

\* What a level pairs and realises are its lines, whatever is known of them.
LEMMA LevelReads ==
    ASSUME NEW t, NEW u, u.src = t.src, u.run = t.run
    PROVE  /\ Intended(u) = Intended(t) /\ Running(u) = Running(t)
           /\ Kept(u) = Kept(t)
           /\ \A kept : Pairings(u, kept) = Pairings(t, kept)
           /\ u.pairs = t.pairs => Intents(u) = Intents(t) /\ Removes(u) = Removes(t)
  <1>1. Intended(u) = Intended(t) /\ Running(u) = Running(t)
    BY DEF Intended, Running
  <1>2. Kept(u) = Kept(t) /\ PairOf(u) = PairOf(t)
    BY <1>1 DEF Kept, PairOf
  <1>3. u.pairs = t.pairs => Intents(u) = Intents(t) /\ Removes(u) = Removes(t)
    BY <1>1 DEF Intents, Removes
  <1> QED
    BY <1>1, <1>2, <1>3 DEF Pairings

\* A level that has found its pairs.
LEMMA PairedLevel ==
    ASSUME NEW t \in LevelSet, t.call = "level", CallOK(t), NEW os, NEW u,
           u = [t EXCEPT !.call = "removes", !.pairs = Pairings(t, Kept(t))]
    PROVE  Replaces(t, <<u>>, os, {})
  <1>1. /\ u.call = "removes" /\ u.src = t.src /\ u.run = t.run /\ u.secs = t.secs
        /\ u.pairs = Pairings(t, Kept(t))
    BY DEF LevelSet
  <1>2. IsLevel(t) /\ IsLevel(u)
    BY <1>1 DEF IsLevel
  <1>3. u.pairs = Pairings(u, Kept(u))
    <2>1. \A x, y : x.src = y.src /\ x.run = y.run =>
                Kept(x) = Kept(y) /\ Pairings(x, Kept(y)) = Pairings(y, Kept(y))
      BY LevelReads
    <2>2. Kept(u) = Kept(t) /\ Pairings(u, Kept(t)) = Pairings(t, Kept(t))
      BY <1>1, <2>1
    <2> QED
      BY <1>1, <2>2
  <1>4. Home(u) = Home(t)
    BY <1>1, <1>2 DEF Home, At
  <1>5. HeadersOK(t.secs, Home(t)) /\ PathOf(t.src) = PathOf(t.run)
    BY <1>2 DEF CallOK
  <1>6. CallOK(u)
    BY <1>1, <1>3, <1>4, <1>5 DEF CallOK
  <1> QED
    BY <1>1, <1>2, <1>6, LevelStays

\* A level that knows what is to be done.
LEMMA RealisedLevel ==
    ASSUME NEW t \in LevelSet, t.call = "removes", CallOK(t), NEW os, NEW u,
           u = [t EXCEPT !.call = "toggles", !.intents = Intents(t), !.removes = Removes(t)]
    PROVE  Replaces(t, <<u>>, os, {})
  <1>1. /\ u.call = "toggles" /\ u.src = t.src /\ u.run = t.run /\ u.secs = t.secs
        /\ u.pairs = t.pairs /\ u.intents = Intents(t) /\ u.removes = Removes(t)
    BY DEF LevelSet
  <1>2. IsLevel(t) /\ IsLevel(u)
    BY <1>1 DEF IsLevel
  <1>3. HeadersOK(t.secs, Home(t)) /\ PathOf(t.src) = PathOf(t.run) /\ t.pairs = Pairings(t, Kept(t))
    BY <1>2 DEF CallOK
  <1>4. u.pairs = Pairings(u, Kept(u)) /\ u.intents = Intents(u) /\ u.removes = Removes(u)
    <2>1. \A x, y : x.src = y.src /\ x.run = y.run /\ x.pairs = y.pairs =>
                /\ Kept(x) = Kept(y) /\ Pairings(x, Kept(y)) = Pairings(y, Kept(y))
                /\ Intents(x) = Intents(y) /\ Removes(x) = Removes(y)
      BY LevelReads
    <2>2. /\ Kept(u) = Kept(t) /\ Pairings(u, Kept(t)) = Pairings(t, Kept(t))
          /\ Intents(u) = Intents(t) /\ Removes(u) = Removes(t)
      BY <1>1, <2>1
    <2> QED
      BY <1>1, <1>3, <2>2
  <1>5. Home(u) = Home(t)
    BY <1>1, <1>2 DEF Home, At
  <1>6. CallOK(u)
    BY <1>1, <1>3, <1>4, <1>5 DEF CallOK
  <1> QED
    BY <1>1, <1>2, <1>6, LevelStays

\* A level that is split into calls about its lines.
LEMMA SplitLevel ==
    ASSUME InputsOK, Tidy, Captures, NEW t \in LevelSet, t.call = "toggles", CallOK(t),
           Distinct(t), ~SplitSlot(t), NEW os,
           \A k \in DOMAIN LevelCalls(t) :
                LevelCalls(t)[k].call = "removal" => ~ProtectedIn(LevelCalls(t)[k].src)
    PROVE  Replaces(t, LevelCalls(t), os, {})
  <1>1. Paired(t)
    <2>1. IsLevel(t)
      BY DEF IsLevel
    <2> QED
      BY <2>1 DEF Paired, Level, CallOK
  <1>2. \A k \in DOMAIN LevelCalls(t) : CallOK(LevelCalls(t)[k])
    BY <1>1, ChildOK
  <1>3. /\ \A k \in DOMAIN LevelCalls(t) : CallLand(LevelCalls(t)[k]) \subseteq CallLand(t)
        /\ \A j, k \in DOMAIN LevelCalls(t) : j # k =>
                CallLand(LevelCalls(t)[j]) \cap CallLand(LevelCalls(t)[k]) = {}
    BY <1>1, LevelApart
  <1>4. \A side \in Sides : \A x \in Nodes(side) : PathOf(x) \in CallLand(t) =>
            Settled(x) \/ Awaited(LevelCalls(t), PathOf(x))
    BY <1>1, LevelAwaits DEF Awaited
  <1>5. "run" \in Sides /\ "int" \in Sides
    BY DEF Sides
  <1> QED
    BY <1>2, <1>3, <1>4, <1>5 DEF Replaces

-----------------------------------------------------------------------------
(* What an intent is replaced by.                                          *)

\* What the kind of a pair says of its lines.
LEMMA PairKindMeans ==
    ASSUME NEW h, NEW r
    PROVE  /\ PairKind(h, r) = "section" => DefOf(h) = DefOf(r) /\ IsSection(DefOf(h))
           /\ PairKind(h, r) \in {"modify", "delta"} =>
                ~IsSection(DefOf(h)) /\ ~IsSection(DefOf(r))
           /\ PairKind(h, r) = "delta" => ListChange(h, r) = "delta"
  <1> DEFINE l == Line(h)
             m == Line(r)
             c == ListChange(h, r)
  <1>1. PairKind(h, r) =
            CASE l.def # m.def /\ (IsSection(l.def) \/ IsSection(m.def)) -> "replace"
              [] l.def = m.def /\ IsSection(l.def) ->
                    IF /\ Text(l) # Text(m) /\ ~Schema[l.def].idem
                       /\ CategoryOf(l.def) = "KindedSingle"
                    THEN "replace" ELSE "section"
              [] ~IsSection(l.def) /\ ~IsSection(m.def) ->
                    IF SameValue(l, m) THEN "none"
                    ELSE IF Schema[l.def].idem THEN c ELSE "replace"
    BY DEF PairKind
  <1>2. DefOf(h) = l.def /\ DefOf(r) = m.def
    BY DEF DefOf
  <1> HIDE DEF l, m, c
  <1>3. CASE l.def # m.def /\ (IsSection(l.def) \/ IsSection(m.def))
    <2>1. PairKind(h, r) = "replace"
      BY <1>1, <1>3
    <2> QED
      BY <2>1
  <1>4. CASE l.def = m.def /\ IsSection(l.def)
    <2>1. PairKind(h, r) \in {"replace", "section"}
      BY <1>1, <1>4
    <2> QED
      BY <1>2, <1>4, <2>1
  <1>5. CASE ~IsSection(l.def) /\ ~IsSection(m.def)
    <2>1. PairKind(h, r) \in {"none", "replace"} \/ PairKind(h, r) = c
      BY <1>1, <1>5
    <2>2. c \in {"modify", "none", "delta"}
      BY DEF c, ListChange
    <2>3. PairKind(h, r) # "section" /\ (PairKind(h, r) = "delta" => c = "delta")
      BY <2>1, <2>2
    <2> QED
      BY <1>2, <1>5, <2>3 DEF c
  <1> QED
    BY <1>3, <1>4, <1>5

\* Nothing wanted stands below a line that is flipped.
LEMMA FlippedUnwanted ==
    ASSUME InputsOK, NEW x, FlipOK(x)
    PROVE  Flipped(x) \cap Wanted = {}
  <1> SUFFICES ASSUME NEW u \in Flipped(x), u \in Wanted PROVE FALSE
    OBVIOUS
  <1>1. x.flip # Nil /\ u \in Subtree(PathOf(x.flip))
    BY DEF Flipped
  <1>2. x.flip \in Nodes("run") /\ PathOf(x.flip) \notin Wanted
    BY <1>1 DEF FlipOK
  <1>3. PathOf(x.flip) \in Seq(Idents) /\ PathOf(x.flip) # <<>>
    BY <1>2, NodePath DEF Sides
  <1>4. Below(PathOf(x.flip), u)
    BY <1>1 DEF Subtree
  <1> QED
    BY <1>2, <1>3, <1>4, PathsClosed DEF Wanted, Sides

\* The operation that a call emits is about its lines.
LEMMA OpReads ==
    ASSUME NEW t, NEW action, NEW cmds, NEW o, o = Op(t, action, cmds)
    PROVE  /\ o.src = t.src /\ o.run = t.run /\ o.flip = t.flip /\ o.secs = t.secs
           /\ o.action = action /\ o.cmds = cmds /\ At(o) = At(t) /\ Flipped(o) = Flipped(t)
           /\ o.key = t.key
  <1>1. /\ o.src = t.src /\ o.run = t.run /\ o.flip = t.flip /\ o.secs = t.secs
        /\ o.action = action /\ o.cmds = cmds /\ o.key = t.key
    BY DEF Op
  <1> QED
    BY <1>1 DEF At, Flipped

\* What is known of an intent, and of a removal.
LEMMA LineCall ==
    ASSUME InputsOK, NEW t, t \in IntentCallSet \/ t \in RemovalCallSet, CallOK(t)
    PROVE  /\ ~IsLevel(t) /\ t.src \in SomeNode /\ t.secs \in Seq(SomeNode)
           /\ HeadersOK(t.secs, Over(t.src))
           /\ CallLand(t) = Subtree(At(t)) \cup Flipped(t)
           /\ At(t) \in Known /\ At(t) \in Seq(Idents) /\ At(t) # <<>>
           /\ At(t) \in Subtree(At(t))
           /\ t \in IntentCallSet => t.call = "intent" /\ t.src \in Nodes("int")
           /\ t \in RemovalCallSet => t.call = "removal" /\ t.src \in Nodes("run") /\ t.flip = Nil
  <1>1. /\ t \in IntentCallSet => t.call = "intent" /\ t.src \in Nodes("int")
        /\ t \in RemovalCallSet => t.call = "removal" /\ t.src \in Nodes("run") /\ t.flip = Nil
        /\ t.secs \in Seq(SomeNode)
    BY DEF IntentCallSet, RemovalCallSet
  <1>2. ~IsLevel(t)
    BY <1>1 DEF IsLevel
  <1>3. t.src \in SomeNode
    BY <1>1 DEF SomeNode
  <1>4. At(t) \in Known /\ At(t) \in Seq(Idents) /\ At(t) # <<>>
    <2>1. At(t) \in Known
      BY <1>1, <1>3 DEF At, Known, Shown, Wanted, PathsOf, SomeNode
    <2>2. At(t) \in Seq(Idents) /\ At(t) # <<>>
      <3>1. ASSUME NEW side \in Sides, t.src \in Nodes(side)
            PROVE  At(t) \in Seq(Idents) /\ At(t) # <<>>
        BY <3>1, NodePath DEF At
      <3> QED
        BY <1>3, <3>1 DEF SomeNode, Sides
    <2> QED
      BY <2>1, <2>2
  <1>5. Below(At(t), At(t))
    BY <1>4, BelowOrder
  <1>6. HeadersOK(t.secs, Over(t.src))
    BY <1>2 DEF CallOK, Home
  <1>7. CallLand(t) = Subtree(At(t)) \cup Flipped(t)
    BY <1>2 DEF CallLand
  <1> QED
    BY <1>1, <1>2, <1>3, <1>4, <1>5, <1>6, <1>7 DEF Subtree

\* A call that an operation about the same lines replaces.
LEMMA OpReplaces ==
    ASSUME NEW t, NEW o, NEW os, OpOK(o), OpLand(o) = CallLand(t),
           \A h \in Nodes("int") : PathOf(h) \in CallLand(t) => Brings(o, PathOf(h)),
           \A h \in Nodes("run") : PathOf(h) \in CallLand(t) => Takes(o, PathOf(h))
    PROVE  Replaces(t, <<>>, os, {o})
  <1>1. DOMAIN <<>> = {}
    OBVIOUS
  <1> QED
    BY <1>1 DEF Replaces

\* A line that is added.
LEMMA AddReplaces ==
    ASSUME InputsOK, NEW t \in IntentCallSet, CallOK(t), t.kind = "add", NEW os, NEW o,
           o = Op(t, "add", <<Cmd("put", t.src, <<>>)>>)
    PROVE  Replaces(t, <<>>, os, {o})
  <1>1. /\ o.src = t.src /\ o.flip = t.flip /\ o.secs = t.secs /\ o.action = "add"
        /\ o.cmds = <<Cmd("put", t.src, <<>>)>> /\ At(o) = At(t) /\ Flipped(o) = Flipped(t)
    BY OpReads
  <1>2. /\ ~IsLevel(t) /\ t.src \in SomeNode /\ HeadersOK(t.secs, Over(t.src))
        /\ CallLand(t) = Subtree(At(t)) \cup Flipped(t)
        /\ t.src \in Nodes("int") /\ t.call = "intent"
        /\ At(t) \in Seq(Idents) /\ At(t) # <<>>
    BY LineCall
  <1>3. Over(t.src) \in Both /\ FlipOK(t) /\ At(t) \notin Shown
    BY <1>2 DEF CallOK
  <1>4. FlipOK(o)
    BY <1>1, <1>3 DEF FlipOK
  <1>5. OpOK(o)
    BY <1>1, <1>2, <1>3, <1>4 DEF OpOK
  <1>6. OpLand(o) = CallLand(t)
    BY <1>1, <1>2 DEF OpLand
  <1>7. ASSUME NEW h \in Nodes("int"), PathOf(h) \in CallLand(t) PROVE Brings(o, PathOf(h))
    <2>1. PathOf(h) \in Wanted
      BY DEF Wanted, PathsOf
    <2>2. PathOf(h) \in Subtree(At(t))
      BY <1>2, <1>3, <1>7, <2>1, FlippedUnwanted
    <2> QED
      BY <1>1, <1>6, <1>7, <2>2 DEF Brings, Subtree
  <1>8. ASSUME NEW h \in Nodes("run"), PathOf(h) \in CallLand(t) PROVE Takes(o, PathOf(h))
    <2>1. PathOf(h) \in PathsOf("run")
      BY DEF PathsOf
    <2>2. PathOf(h) \notin Subtree(At(t))
      <3>1. Below(At(t), PathOf(h)) => At(t) \in PathsOf("run")
        BY <1>2, <2>1, PathsClosed DEF Sides
      <3> QED
        BY <1>3, <3>1 DEF Subtree, Shown
    <2> QED
      BY <1>1, <1>2, <1>6, <1>8, <2>2 DEF Takes
  <1> QED
    BY <1>5, <1>6, <1>7, <1>8, OpReplaces

\* A line that pairs and is realised by one operation.
LEMMA PairReplaces ==
    ASSUME InputsOK, NEW t \in IntentCallSet, CallOK(t), t.kind # "add", NEW os, NEW o,
           NEW action \in {"modify", "replace"}, NEW cmds, o = Op(t, action, cmds),
           action = "modify" => ~IsSection(DefOf(t.src)), OpOK(o)
    PROVE  Replaces(t, <<>>, os, {o})
  <1>1. /\ o.src = t.src /\ o.flip = t.flip /\ o.action = action
        /\ At(o) = At(t) /\ Flipped(o) = Flipped(t)
    BY OpReads
  <1>2. /\ CallLand(t) = Subtree(At(t)) \cup Flipped(t) /\ t.call = "intent"
    BY LineCall
  <1>3. t.flip = Nil
    BY <1>2 DEF CallOK
  <1>4. Flipped(t) = {} /\ CallLand(t) = Subtree(At(t))
    BY <1>2, <1>3 DEF Flipped
  <1>5. OpLand(o) = CallLand(t)
    BY <1>1, <1>2 DEF OpLand
  <1>6. \A u \in CallLand(t) : Brings(o, u) /\ Takes(o, u)
    BY <1>1, <1>4, <1>5 DEF Brings, Takes, Subtree
  <1> QED
    BY <1>5, <1>6, OpReplaces

\* An intent that pairs.
LEMMA PairCall ==
    ASSUME InputsOK, NEW t \in IntentCallSet, CallOK(t), t.kind # "add",
           NEW o, NEW action, NEW cmds, o = Op(t, action, cmds)
    PROVE  /\ t.src \in Nodes("int") /\ t.run \in Nodes("run")
           /\ PathOf(t.run) = At(t) /\ t.kind = PairKind(t.src, t.run) /\ t.flip = Nil
           /\ o.src = t.src /\ o.run = t.run /\ o.flip = Nil /\ o.secs = t.secs
           /\ o.action = action /\ o.cmds = cmds /\ At(o) = At(t)
           /\ HeadersOK(o.secs, Over(o.src)) /\ FlipOK(o)
  <1>1. /\ o.src = t.src /\ o.run = t.run /\ o.flip = t.flip /\ o.secs = t.secs
        /\ o.action = action /\ o.cmds = cmds /\ At(o) = At(t)
    BY OpReads
  <1>2. t.src \in Nodes("int") /\ t.call = "intent" /\ HeadersOK(t.secs, Over(t.src))
    BY LineCall
  <1>3. PathOf(t.run) = At(t) /\ t.kind = PairKind(t.src, t.run) /\ t.flip = Nil
    BY <1>2 DEF CallOK
  <1>4. t.run \in Nodes("run")
    BY DEF IntentCallSet, MaybeRun
  <1>5. FlipOK(o)
    BY <1>1, <1>3 DEF FlipOK
  <1> QED
    BY <1>1, <1>2, <1>3, <1>4, <1>5

\* A line that is modified, edited or replaced.
LEMMA ModifyReplaces ==
    ASSUME InputsOK, NEW t \in IntentCallSet, CallOK(t), NEW os
    PROVE  /\ t.kind = "modify" =>
                Replaces(t, <<>>, os, {Op(t, "modify", <<Cmd("set", t.src, <<>>)>>)})
           /\ t.kind = "delta" => Replaces(t, <<>>, os, {Op(t, "modify", DeltaCmds(t))})
           /\ t.kind = "replace" =>
                Replaces(t, <<>>, os,
                    {Op(t, "replace", <<Cmd("no", t.run, <<>>), Cmd("put", t.src, <<>>)>>)})
  <1>1. ASSUME NEW cmds, NEW o, o = Op(t, "modify", cmds), t.kind \in {"modify", "delta"},
               \/ t.kind = "modify" /\ cmds = <<Cmd("set", t.src, <<>>)>>
               \/ t.kind = "delta" /\ cmds = DeltaCmds(t)
        PROVE  Replaces(t, <<>>, os, {o})
    <2>1. t.kind # "add"
      BY <1>1
    <2>2. /\ t.src \in Nodes("int") /\ t.run \in Nodes("run")
          /\ PathOf(t.run) = At(t) /\ t.kind = PairKind(t.src, t.run)
          /\ o.src = t.src /\ o.run = t.run /\ o.flip = Nil /\ o.secs = t.secs
          /\ o.action = "modify" /\ o.cmds = cmds /\ At(o) = At(t)
          /\ HeadersOK(o.secs, Over(o.src)) /\ FlipOK(o)
      BY <1>1, <2>1, PairCall
    <2>3. /\ ~IsSection(DefOf(t.src)) /\ ~IsSection(DefOf(t.run))
          /\ t.kind = "delta" => ListChange(t.src, t.run) = "delta"
      BY <1>1, <2>2, PairKindMeans
    <2>4. DeltaCmds(o) = DeltaCmds(t)
      BY <2>2 DEF DeltaCmds
    <2>5. \/ o.cmds = <<Cmd("set", o.src, <<>>)>>
          \/ o.cmds = DeltaCmds(o) /\ ListChange(o.src, o.run) = "delta"
      BY <1>1, <2>2, <2>3, <2>4
    <2>6. OpOK(o)
      BY <2>2, <2>3, <2>5 DEF OpOK
    <2> QED
      BY <1>1, <2>1, <2>3, <2>6, PairReplaces
  <1>2. ASSUME NEW o, t.kind = "replace",
               o = Op(t, "replace", <<Cmd("no", t.run, <<>>), Cmd("put", t.src, <<>>)>>)
        PROVE  Replaces(t, <<>>, os, {o})
    <2>1. t.kind # "add"
      BY <1>2
    <2>2. /\ t.src \in Nodes("int") /\ t.run \in Nodes("run")
          /\ PathOf(t.run) = At(t)
          /\ o.src = t.src /\ o.run = t.run /\ o.flip = Nil /\ o.secs = t.secs
          /\ o.action = "replace" /\ At(o) = At(t)
          /\ o.cmds = <<Cmd("no", t.run, <<>>), Cmd("put", t.src, <<>>)>>
          /\ HeadersOK(o.secs, Over(o.src)) /\ FlipOK(o)
      BY <1>2, <2>1, PairCall
    <2>3. OpOK(o)
      BY <2>2 DEF OpOK
    <2> QED
      BY <1>2, <2>1, <2>3, PairReplaces
  <1> QED
    BY <1>1, <1>2

-----------------------------------------------------------------------------
(* What a section and a removal are replaced by.                           *)

\* One section more around the lines below it.
LEMMA HeadersAppend ==
    ASSUME InputsOK, NEW secs \in Seq(SomeNode), NEW h \in SomeNode, HeadersOK(secs, Over(h)),
           h \in Nodes("int") => PathOf(h) \in Shown, h \in Nodes("run") => Gone(h)
    PROVE  HeadersOK(Append(secs, h), PathOf(h))
  <1>1. \E side \in Sides : h \in Nodes(side)
    BY DEF SomeNode, Sides
  <1>2. /\ PathOf(h) = Append(Over(h), Id(h)) /\ PathOf(h) \in Seq(Idents)
        /\ Over(h) \in Seq(Idents) /\ Id(h) \in Idents
    BY <1>1, NodeOver
  <1>3. Below(Over(h), PathOf(h)) /\ Below(PathOf(h), PathOf(h))
    <2>1. Below(Over(h), Append(Over(h), Id(h)))
      BY <1>2, BelowChild
    <2>2. Below(PathOf(h), PathOf(h))
      BY <1>2, BelowOrder
    <2> QED
      BY <1>2, <2>1, <2>2
  <1>4. ToSet(Append(secs, h)) \subseteq ToSet(secs) \cup {h} /\ ToSet(secs) \subseteq SomeNode
    <2>1. /\ DOMAIN secs = 1..Len(secs) /\ Len(secs) \in Nat
          /\ DOMAIN Append(secs, h) = 1..(Len(secs) + 1)
          /\ \A k \in 1..Len(secs) : Append(secs, h)[k] = secs[k] /\ secs[k] \in SomeNode
          /\ Append(secs, h)[Len(secs) + 1] = h
      OBVIOUS
    <2>2. \A k \in DOMAIN Append(secs, h) :
            Append(secs, h)[k] = h \/ \E j \in DOMAIN secs : Append(secs, h)[k] = secs[j]
      BY <2>1
    <2>3. ToSet(Append(secs, h)) \subseteq ToSet(secs) \cup {h}
      BY <2>2, Zenon DEF ToSet
    <2>4. ToSet(secs) \subseteq SomeNode
      BY <2>1 DEF ToSet
    <2> QED
      BY <2>3, <2>4
  <1>5. ASSUME NEW g \in ToSet(secs)
        PROVE  /\ Below(PathOf(g), PathOf(h))
               /\ g \in Nodes("int") => PathOf(g) \in Shown
               /\ g \in Nodes("run") => Gone(g)
    <2>1. /\ Below(PathOf(g), Over(h))
          /\ g \in Nodes("int") => PathOf(g) \in Shown
          /\ g \in Nodes("run") => Gone(g)
      BY DEF HeadersOK
    <2>2. \E side \in Sides : g \in Nodes(side)
      BY <1>4 DEF SomeNode, Sides
    <2>3. PathOf(g) \in Seq(Idents)
      BY <2>2, NodePath
    <2>4. Below(PathOf(g), PathOf(h))
      BY <1>2, <1>3, <2>1, <2>3, BelowOrder
    <2> QED
      BY <2>1, <2>4
  <1> QED
    BY <1>3, <1>4, <1>5 DEF HeadersOK

\* A section that pairs.
LEMMA SectionReplaces ==
    ASSUME InputsOK, Tidy, NEW t \in IntentCallSet, CallOK(t), t.kind = "section",
           NEW os, NEW u, u = LevelCall(t.run[2], t.src[2], Append(t.secs, t.src), t.key)
    PROVE  /\ Text(Line(t.src)) = Text(Line(t.run)) => Replaces(t, <<u>>, os, {})
           /\ Replaces(t, <<u>>, os, {Op(t, "modify", <<Cmd("set", t.src, <<>>)>>)})
  <1> DEFINE cmds == <<Cmd("set", t.src, <<>>)>>
             o == Op(t, "modify", cmds)
  <1> HIDE DEF cmds, o
  <1>1. t.kind # "add" /\ o = Op(t, "modify", cmds)
    BY DEF o
  <1>2. /\ t.src \in Nodes("int") /\ t.run \in Nodes("run")
        /\ PathOf(t.run) = At(t) /\ t.kind = PairKind(t.src, t.run) /\ t.flip = Nil
        /\ o.src = t.src /\ o.run = t.run /\ o.flip = Nil /\ o.secs = t.secs
        /\ o.action = "modify" /\ o.cmds = cmds /\ At(o) = At(t)
        /\ HeadersOK(o.secs, Over(o.src)) /\ FlipOK(o)
    BY <1>1, PairCall
  <1>3. DefOf(t.src) = DefOf(t.run) /\ IsSection(DefOf(t.src))
    BY <1>2, PairKindMeans
  <1>4. /\ t.src \in SomeNode /\ t.secs \in Seq(SomeNode) /\ HeadersOK(t.secs, Over(t.src))
        /\ CallLand(t) = Subtree(At(t)) \cup Flipped(t)
        /\ At(t) \in Subtree(At(t))
    BY LineCall
  <1>5. CallLand(t) = Subtree(At(t)) /\ At(t) = PathOf(t.src)
    BY <1>2, <1>4 DEF Flipped, At
  <1>6. /\ u.call = "level" /\ u.src = t.src /\ u.run = t.run /\ u.secs = Append(t.secs, t.src)
        /\ IsLevel(u)
    <2>1. <<"int", t.src[2]>> = t.src /\ <<"run", t.run[2]>> = t.run
      BY <1>2, NodeLine DEF Sides
    <2> QED
      BY <2>1 DEF LevelCall, IsLevel
  <1>7. At(u) = At(t) /\ CallLand(u) = Subtree(At(t)) \ {At(t)} /\ Home(u) = At(t)
    BY <1>6 DEF At, CallLand, Home
  <1>8. HeadersOK(u.secs, At(t))
    <2>1. t.src \notin Nodes("run")
      <3>1. t.src[1] = "int"
        BY <1>2, NodeLine DEF Sides
      <3>2. t.src \in Nodes("run") => t.src[1] = "run"
        BY NodeLine DEF Sides
      <3> QED
        BY <3>1, <3>2
    <2>2. PathOf(t.src) \in Shown
      BY <1>2, <1>5 DEF Shown, PathsOf
    <2> QED
      BY <1>4, <1>5, <1>6, <2>1, <2>2, HeadersAppend
  <1>9. CallOK(u)
    BY <1>2, <1>5, <1>6, <1>7, <1>8 DEF CallOK
  <1>10. OpOK(o)
    BY <1>2, <1>3 DEF OpOK, cmds
  <1>11. OpLand(o) = {At(t)}
    BY <1>2, <1>3 DEF OpLand
  <1>12. /\ DOMAIN <<u>> = {1} /\ <<u>>[1] = u
         /\ \A v : v \in CallLand(t) => Awaited(<<u>>, v) \/ v = At(t)
    BY <1>5, <1>7 DEF Awaited
  <1>13. /\ \A h \in Nodes("int") : PathOf(h) = At(t) => h = t.src
         /\ \A h \in Nodes("run") : PathOf(h) = At(t) => h = t.run
    BY <1>2, <1>5, PathOne DEF Sides
  <1>14. Brings(o, At(t)) /\ Takes(o, At(t))
    <2>1. Below(At(t), At(t))
      BY <1>4 DEF Subtree
    <2> QED
      BY <1>2, <1>11, <2>1 DEF Brings, Takes
  <1>15. Replaces(t, <<u>>, os, {o})
    <2>1. \A k \in DOMAIN <<u>> : /\ CallOK(<<u>>[k]) /\ CallLand(<<u>>[k]) \subseteq CallLand(t)
                                  /\ CallLand(<<u>>[k]) \cap OpLand(o) = {}
      BY <1>5, <1>7, <1>9, <1>11, <1>12
    <2>2. \A j, k \in DOMAIN <<u>> : j = k
      BY <1>12
    <2>3. OpLand(o) \subseteq CallLand(t)
      BY <1>4, <1>5, <1>11
    <2>4. \A h \in Nodes("int") : PathOf(h) \in CallLand(t) =>
                Awaited(<<u>>, PathOf(h)) \/ Brings(o, PathOf(h))
      BY <1>12, <1>14
    <2>5. \A h \in Nodes("run") : PathOf(h) \in CallLand(t) =>
                Awaited(<<u>>, PathOf(h)) \/ Takes(o, PathOf(h))
      BY <1>12, <1>14
    <2> QED
      BY <1>10, <2>1, <2>2, <2>3, <2>4, <2>5 DEF Replaces
  <1>16. ASSUME Text(Line(t.src)) = Text(Line(t.run)) PROVE Replaces(t, <<u>>, os, {})
    <2>1. Settled(t.src) /\ Settled(t.run)
      BY <1>2, <1>3, <1>5, <1>16, HeaderAgrees
    <2>2. \A k \in DOMAIN <<u>> : CallOK(<<u>>[k]) /\ CallLand(<<u>>[k]) \subseteq CallLand(t)
      BY <1>5, <1>7, <1>9, <1>12
    <2>3. \A j, k \in DOMAIN <<u>> : j = k
      BY <1>12
    <2>4. \A h \in Nodes("int") : PathOf(h) \in CallLand(t) =>
                Awaited(<<u>>, PathOf(h)) \/ Settled(h)
      BY <1>12, <1>13, <2>1
    <2>5. \A h \in Nodes("run") : PathOf(h) \in CallLand(t) =>
                Awaited(<<u>>, PathOf(h)) \/ Settled(h)
      BY <1>12, <1>13, <2>1
    <2> QED
      BY <2>2, <2>3, <2>4, <2>5 DEF Replaces
  <1> QED
    BY <1>15, <1>16 DEF o, cmds

\* Nothing wanted stands below a line that goes.
LEMMA GoneUnwanted ==
    ASSUME InputsOK, NEW g \in Nodes("run"), Gone(g)
    PROVE  Subtree(PathOf(g)) \cap Wanted = {}
  <1>1. PathOf(g) \in Seq(Idents) /\ PathOf(g) # <<>>
    BY NodePath DEF Sides
  <1>2. PathOf(g) \notin Wanted
    BY DEF Gone
  <1> QED
    BY <1>1, <1>2, PathsClosed DEF Wanted, Sides, Subtree

\* A line that is removed.
LEMMA RemoveReplaces ==
    ASSUME InputsOK, NEW t \in RemovalCallSet, CallOK(t), NEW os, NEW o,
           o = Op(t, "remove", <<Cmd("no", t.src, <<>>)>>)
    PROVE  Replaces(t, <<>>, os, {o})
  <1>1. /\ o.src = t.src /\ o.flip = t.flip /\ o.secs = t.secs /\ o.action = "remove"
        /\ o.cmds = <<Cmd("no", t.src, <<>>)>> /\ At(o) = At(t) /\ Flipped(o) = Flipped(t)
    BY OpReads
  <1>2. /\ HeadersOK(t.secs, Over(t.src)) /\ CallLand(t) = Subtree(At(t)) \cup Flipped(t)
        /\ t.src \in Nodes("run") /\ t.call = "removal" /\ t.flip = Nil
    BY LineCall
  <1>3. Gone(t.src)
    BY <1>2 DEF CallOK
  <1>4. CallLand(t) = Subtree(At(t)) /\ FlipOK(o)
    BY <1>1, <1>2 DEF Flipped, FlipOK
  <1>5. OpOK(o)
    BY <1>1, <1>2, <1>3, <1>4 DEF OpOK
  <1>6. OpLand(o) = CallLand(t)
    BY <1>1, <1>2 DEF OpLand
  <1>7. \A h \in Nodes("int") : PathOf(h) \notin CallLand(t)
    BY <1>2, <1>3, <1>4, GoneUnwanted DEF At, Wanted, PathsOf
  <1>8. \A h \in Nodes("run") : PathOf(h) \in CallLand(t) => Takes(o, PathOf(h))
    BY <1>1, <1>6 DEF Takes
  <1> QED
    BY <1>5, <1>6, <1>7, <1>8, OpReplaces

\* A header that has no negation: its children go instead.
LEMMA ExpandReplaces ==
    ASSUME InputsOK, Tidy, NEW t \in RemovalCallSet, CallOK(t), Schema[DefOf(t.src)].clear,
           NEW os, NEW cs, cs = RemovalCalls(KidsOf(t.src), Append(t.secs, t.src), t.key)
    PROVE  Replaces(t, cs, os, {})
  <1> DEFINE secs == Append(t.secs, t.src)
             hs == KidsOf(t.src)
  <1>1. /\ HeadersOK(t.secs, Over(t.src)) /\ CallLand(t) = Subtree(At(t)) \cup Flipped(t)
        /\ t.src \in Nodes("run") /\ t.call = "removal" /\ t.flip = Nil
        /\ t.src \in SomeNode /\ t.secs \in Seq(SomeNode)
        /\ At(t) \in Seq(Idents) /\ At(t) = PathOf(t.src)
    BY LineCall DEF At
  <1>2. Gone(t.src)
    BY <1>1 DEF CallOK
  <1>3. CallLand(t) = Subtree(At(t))
    BY <1>1 DEF Flipped
  <1>4. t.src \in Places("run")
    BY <1>1, NodeLine DEF Sides
  <1>5. /\ hs \in Seq(Nodes("run"))
        /\ ToSet(hs) = {h \in Nodes("run") : Over(h) = At(t)}
    BY <1>1, <1>4, KidsByPath DEF Sides
  <1>6. HeadersOK(secs, At(t))
    <2>1. t.src \notin Nodes("int")
      <3>1. t.src[1] = "run"
        BY <1>1, NodeLine DEF Sides
      <3>2. t.src \in Nodes("int") => t.src[1] = "int"
        BY NodeLine DEF Sides
      <3> QED
        BY <3>1, <3>2
    <2> QED
      BY <1>1, <1>2, <2>1, HeadersAppend
  <1>7. /\ DOMAIN cs = DOMAIN hs
        /\ \A k \in DOMAIN cs :
            /\ cs[k].call = "removal" /\ cs[k].src = hs[k] /\ cs[k].flip = Nil
            /\ cs[k].secs = secs
    BY DEF RemovalCalls, Call
  <1> HIDE DEF secs, hs
  <1>8. ASSUME NEW k \in DOMAIN cs
        PROVE  /\ hs[k] \in Nodes("run") /\ Over(hs[k]) = At(t) /\ Id(hs[k]) \in Idents
               /\ PathOf(hs[k]) = Append(At(t), Id(hs[k]))
               /\ CallLand(cs[k]) = Subtree(Append(At(t), Id(hs[k])))
               /\ CallOK(cs[k])
    <2>1. hs[k] \in ToSet(hs)
      BY <1>7 DEF ToSet
    <2>2. hs[k] \in Nodes("run") /\ Over(hs[k]) = At(t)
      BY <1>5, <2>1
    <2>3. PathOf(hs[k]) = Append(At(t), Id(hs[k])) /\ Id(hs[k]) \in Idents
      BY <2>2, NodeOver DEF Sides
    <2>4. ~IsLevel(cs[k]) /\ At(cs[k]) = PathOf(hs[k]) /\ Flipped(cs[k]) = {}
      BY <1>7 DEF IsLevel, At, Flipped
    <2>5. Gone(hs[k])
      BY <1>1, <1>2, <2>2, GoneBelow
    <2>6. Home(cs[k]) = At(t)
      BY <1>7, <2>2, <2>4 DEF Home
    <2>7. CallOK(cs[k])
      BY <1>6, <1>7, <2>4, <2>5, <2>6 DEF CallOK
    <2>8. CallLand(cs[k]) = Subtree(Append(At(t), Id(hs[k])))
      BY <2>3, <2>4 DEF CallLand
    <2> QED
      BY <2>2, <2>3, <2>7, <2>8
  <1>9. ASSUME NEW j \in DOMAIN cs, NEW k \in DOMAIN cs, j # k
        PROVE  CallLand(cs[j]) \cap CallLand(cs[k]) = {}
    <2>1. Id(hs[j]) # Id(hs[k])
      <3>1. SpelledOnce(Conf("run"))
        BY TidySides DEF Sides
      <3>2. j \in DOMAIN KidsOf(t.src) /\ k \in DOMAIN KidsOf(t.src)
        BY <1>7 DEF hs
      <3> QED
        BY <1>4, <1>9, <3>1, <3>2, KidsDiffer DEF Sides, hs
    <2> QED
      BY <1>1, <1>8, <2>1, SubtreesApart
  <1>10. \A k \in DOMAIN cs : CallLand(cs[k]) \subseteq CallLand(t)
    BY <1>1, <1>3, <1>8, SubtreesApart
  <1>11. \A h \in Nodes("int") : PathOf(h) \notin CallLand(t)
    BY <1>1, <1>2, <1>3, GoneUnwanted DEF Wanted, PathsOf
  <1>12. ASSUME NEW h \in Nodes("run"), PathOf(h) \in CallLand(t)
         PROVE  Schema[DefOf(h)].clear \/ Awaited(cs, PathOf(h))
    <2>1. Below(At(t), PathOf(h)) /\ PathOf(h) \in Known
      BY <1>3, <1>12 DEF Subtree
    <2>2. CASE PathOf(h) = At(t)
      <3>1. h = t.src
        BY <1>1, <2>2, PathOne DEF Sides
      <3> QED
        BY <3>1
    <2>3. CASE PathOf(h) # At(t)
      <3>1. PICK x \in Nodes("run") : Over(x) = At(t) /\ Below(PathOf(x), PathOf(h))
        BY <1>1, <2>1, <2>3, KidOver DEF Sides
      <3>2. PICK k \in DOMAIN hs : hs[k] = x
        BY <1>5, <3>1 DEF ToSet
      <3>3. PathOf(h) \in CallLand(cs[k])
        BY <1>7, <1>8, <2>1, <3>1, <3>2 DEF Subtree
      <3> QED
        BY <1>7, <3>3 DEF Awaited
    <2> QED
      BY <2>2, <2>3
  <1> QED
    BY <1>8, <1>9, <1>10, <1>11, <1>12 DEF Replaces

-----------------------------------------------------------------------------
(* What collect knows depends on its inputs alone.                         *)

\* Paths, entries and children do.
LEMMA PathsFixed ==
    ASSUME UNCHANGED <<running, intended>>
    PROVE  /\ Nodes("run")' = Nodes("run") /\ Nodes("int")' = Nodes("int")
           /\ SomeNode' = SomeNode /\ Shown' = Shown /\ Wanted' = Wanted
           /\ Known' = Known /\ Both' = Both
           /\ \A h : /\ PathOf(h)' = PathOf(h) /\ EntryOf(h)' = EntryOf(h) /\ Over(h)' = Over(h)
                     /\ KidsOf(h)' = KidsOf(h) /\ Line(h)' = Line(h) /\ Id(h)' = Id(h)
                     /\ DefOf(h)' = DefOf(h) /\ Sub(h)' = Sub(h)
                     /\ ProtectedIn(h)' = ProtectedIn(h) /\ Settled(h)' = Settled(h)
                     /\ Gone(h)' = Gone(h)
           /\ \A u : Subtree(u)' = Subtree(u)
           /\ \A g, h : Ousts(g, h)' = Ousts(g, h)
           /\ Tidy' = Tidy /\ Captures' = Captures
  <1>1. \A side : Conf(side)' = Conf(side)
    BY DEF Conf
  <1>2. \A side : Nodes(side)' = Nodes(side)
    BY <1>1 DEF Nodes
  <1>3. \A h : PathOf(h)' = PathOf(h) /\ EntryOf(h)' = EntryOf(h) /\ KidsOf(h)' = KidsOf(h)
            /\ Sub(h)' = Sub(h)
    BY <1>1 DEF PathOf, EntryOf, KidsOf, Sub
  <1>4. \A h : Line(h)' = Line(h) /\ Id(h)' = Id(h)
    BY LinesFixed
  <1>5. \A h : DefOf(h)' = DefOf(h)
    BY <1>4 DEF DefOf
  <1>6. \A h : ProtectedIn(h)' = ProtectedIn(h)
    BY <1>3, <1>5 DEF ProtectedIn
  <1>7. \A side : PathsOf(side)' = PathsOf(side)
    BY <1>2, <1>3 DEF PathsOf
  <1>8. Shown' = Shown /\ Wanted' = Wanted
    BY <1>7 DEF Shown, Wanted
  <1>9. Known' = Known /\ Both' = Both
    BY <1>8 DEF Known, Both
  <1>10. \A u : Subtree(u)' = Subtree(u)
    BY <1>9 DEF Subtree
  <1>11. \A h : Over(h)' = Over(h)
    BY <1>3 DEF Over
  <1>12. \A g, h : Ousts(g, h)' = Ousts(g, h)
    BY <1>3 DEF Ousts
  <1>13. \A h : Gone(h)' = Gone(h)
    BY <1>2, <1>3, <1>8, <1>12 DEF Gone
  <1>14. \A h : Settled(h)' = Settled(h)
    BY <1>3 DEF Settled
  <1>15. Tidy' = Tidy
    BY DEF Tidy, Respells
  <1>16. Captures' = Captures
    BY DEF Captures
  <1>17. SomeNode' = SomeNode
    BY <1>2 DEF SomeNode
  <1> QED
    BY <1>2, <1>3, <1>4, <1>5, <1>6, <1>8, <1>9, <1>10, <1>11, <1>12, <1>13, <1>14, <1>15,
       <1>16, <1>17

\* What a level pairs, realises and removes does.
LEMMA LevelsFixed ==
    ASSUME UNCHANGED <<running, intended>>
    PROVE  /\ \A t : /\ Pairings(t, Kept(t))' = Pairings(t, Kept(t))
                     /\ Intents(t)' = Intents(t) /\ Removes(t)' = Removes(t)
                     /\ DeltaCmds(t)' = DeltaCmds(t)
           /\ \A h, r : PairKind(h, r)' = PairKind(h, r) /\ ListChange(h, r)' = ListChange(h, r)
  <1>1. \A h : KidsOf(h)' = KidsOf(h) /\ Line(h)' = Line(h) /\ Id(h)' = Id(h)
               /\ DefOf(h)' = DefOf(h)
    BY PathsFixed
  <1>2. \A t : Running(t)' = Running(t) /\ Intended(t)' = Intended(t)
    BY <1>1 DEF Running, Intended
  <1>3. \A hs, id : SameId(hs, id)' = SameId(hs, id) /\ FirstOf(hs, id)' = FirstOf(hs, id)
    BY <1>1 DEF SameId, FirstOf
  <1>4. \A h, hs : IsFirst(h, hs)' = IsFirst(h, hs)
    BY <1>1, <1>3 DEF IsFirst
  <1>5. \A group, h : Counterpart(group, h)' = Counterpart(group, h)
    BY <1>1 DEF Counterpart
  <1>6. ASSUME NEW t PROVE PairOf(t)' = PairOf(t)
    BY <1>1, <1>2, <1>3, <1>5 DEF PairOf
  <1>7. ASSUME NEW t PROVE Kept(t)' = Kept(t)
    BY <1>2, <1>4 DEF Kept
  <1>8. ASSUME NEW t PROVE Pairings(t, Kept(t))' = Pairings(t, Kept(t))
    BY <1>6, <1>7 DEF Pairings
  <1>9. ASSUME NEW h, NEW r PROVE ListChange(h, r)' = ListChange(h, r)
    <2>1. Line(h)' = Line(h) /\ Line(r)' = Line(r)
      BY <1>1
    <2> QED
      BY <2>1 DEF ListChange
  <1>10. \A h, r : PairKind(h, r)' = PairKind(h, r)
    BY <1>1, <1>9 DEF PairKind
  <1>11. \A p : IntentOf(p)' = IntentOf(p)
    BY <1>10 DEF IntentOf
  <1>12. ASSUME NEW t PROVE Intents(t)' = Intents(t)
    BY <1>11 DEF Intents
  <1>13. ASSUME NEW t PROVE Removes(t)' = Removes(t)
    BY <1>1, <1>2, <1>3, <1>4 DEF Removes
  <1>14. ASSUME NEW t PROVE DeltaCmds(t)' = DeltaCmds(t)
    BY <1>1 DEF DeltaCmds
  <1> QED
    BY <1>8, <1>9, <1>10, <1>12, <1>13, <1>14

\* What is known of calls and of operations does.
LEMMA GoodFixed ==
    ASSUME UNCHANGED <<running, intended>>
    PROVE  /\ \A t : CallOK(t)' = CallOK(t) /\ CallLand(t)' = CallLand(t)
           /\ \A o : OpOK(o)' = OpOK(o) /\ OpLand(o)' = OpLand(o)
           /\ \A o, u : Brings(o, u)' = Brings(o, u) /\ Takes(o, u)' = Takes(o, u)
  <1>1. /\ Nodes("run")' = Nodes("run") /\ Nodes("int")' = Nodes("int")
        /\ Shown' = Shown /\ Wanted' = Wanted /\ Both' = Both
        /\ \A h : PathOf(h)' = PathOf(h) /\ Over(h)' = Over(h) /\ DefOf(h)' = DefOf(h)
                  /\ Gone(h)' = Gone(h)
        /\ \A u : Subtree(u)' = Subtree(u)
        /\ \A g, h : Ousts(g, h)' = Ousts(g, h)
    BY PathsFixed
  <1>2. \A x : At(x)' = At(x) /\ Flipped(x)' = Flipped(x) /\ FlipOK(x)' = FlipOK(x)
    <2>1. \A x : At(x)' = At(x)
      BY <1>1 DEF At
    <2>2. \A x : Flipped(x)' = Flipped(x)
      BY <1>1 DEF Flipped
    <2>3. \A x : FlipOK(x)' = FlipOK(x)
      BY <1>1 DEF FlipOK
    <2> QED
      BY <2>1, <2>2, <2>3
  <1>3. \A secs, u : HeadersOK(secs, u)' = HeadersOK(secs, u)
    BY <1>1 DEF HeadersOK
  <1>4. \A t : Home(t)' = Home(t)
    BY <1>1, <1>2 DEF Home
  <1>5. \A t : CallLand(t)' = CallLand(t)
    BY <1>1, <1>2 DEF CallLand
  <1>6. \A o : OpLand(o)' = OpLand(o)
    BY <1>1, <1>2 DEF OpLand
  <1>7. /\ \A t : /\ Pairings(t, Kept(t))' = Pairings(t, Kept(t))
                  /\ Intents(t)' = Intents(t) /\ Removes(t)' = Removes(t)
                  /\ DeltaCmds(t)' = DeltaCmds(t)
        /\ \A h, r : PairKind(h, r)' = PairKind(h, r) /\ ListChange(h, r)' = ListChange(h, r)
    BY LevelsFixed
  <1>8. ASSUME NEW t PROVE CallOK(t)' = CallOK(t)
    BY <1>1, <1>2, <1>3, <1>4, <1>7 DEF CallOK
  <1>9. ASSUME NEW o PROVE OpOK(o)' = OpOK(o)
    BY <1>1, <1>2, <1>3, <1>7 DEF OpOK
  <1>10. \A o, u : Brings(o, u)' = Brings(o, u)
    BY <1>2, <1>6 DEF Brings
  <1>11. \A o, u : Takes(o, u)' = Takes(o, u)
    BY <1>2, <1>6 DEF Takes
  <1> QED
    BY <1>5, <1>6, <1>8, <1>9, <1>10, <1>11

\* Worklist and operations of the next state, with what was known before.
LEMMA GoodPrimed ==
    ASSUME UNCHANGED <<running, intended>>, NEW s, NEW os, s = todo', os = ops', Good(s, os)
    PROVE  Good(todo, ops)'
  <1>1. /\ Nodes("run")' = Nodes("run") /\ Nodes("int")' = Nodes("int")
        /\ \A h : PathOf(h)' = PathOf(h) /\ Settled(h)' = Settled(h) /\ DefOf(h)' = DefOf(h)
    BY PathsFixed
  <1>2. /\ \A t : CallOK(t)' = CallOK(t) /\ CallLand(t)' = CallLand(t)
        /\ \A o : OpOK(o)' = OpOK(o) /\ OpLand(o)' = OpLand(o)
        /\ \A o, u : Brings(o, u)' = Brings(o, u) /\ Takes(o, u)' = Takes(o, u)
    BY GoodFixed
  <1>3. LandsApart(todo, ops)'
    BY <1>2 DEF Good, LandsApart
  <1>4. ASSUME NEW u, Awaited(s, u) PROVE Awaited(todo, u)'
    BY <1>2, <1>4 DEF Awaited
  <1>5. Covered(todo, ops)'
    BY <1>1, <1>2, <1>4 DEF Good, Covered
  <1> QED
    BY <1>2, <1>3, <1>5 DEF Good

-----------------------------------------------------------------------------
(* The invariant of collect.                                               *)

\* A removal waits that will be refused.
Doomed == \E k \in DOMAIN todo : todo[k].call = "removal" /\ ProtectedIn(todo[k].src)

\* Nothing is refused so far, and nothing that waits is bound to be.
Fine == Tidy /\ errors = {} /\ ~Doomed

\* Whatever Diff reports no Error about is settled, in the hands of one call,
\* or in those of one operation.
CollectInv ==
    /\ Captures
    /\ Fine => Good(todo, ops)
    /\ pc # "collect" => todo = <<>>

\* What the worklist holds after its head is replaced.
LEMMA ReplacedTodo ==
    ASSUME TypeInv, NEW call, Facing(call), NEW cs \in Seq(CallSet), Process(cs)
    PROVE  /\ todo' = Headed(cs, todo) /\ Head(todo) = todo[1] /\ 1 \in DOMAIN todo
           /\ UNCHANGED <<running, intended, baseline, cycle>> /\ pc = "collect" /\ pc' = pc
           /\ \A k \in DOMAIN cs : k \in DOMAIN todo' /\ todo'[k] = cs[k]
           /\ \A m \in DOMAIN todo \ {1} : \E k \in DOMAIN todo' : todo'[k] = todo[m]
  <1>1. /\ todo \in Seq(CallSet) /\ todo # <<>> /\ 1 \in DOMAIN todo /\ Head(todo) = todo[1]
    BY HeadIsFirst
  <1>2. /\ todo' = Headed(cs, todo) /\ pc' = pc
        /\ UNCHANGED <<running, intended, baseline, cycle>>
    BY DEF Process, Headed, inputVars
  <1>3. /\ \A k \in DOMAIN cs : k \in DOMAIN Headed(cs, todo) /\ Headed(cs, todo)[k] = cs[k]
        /\ \A m \in DOMAIN todo \ {1} : \E k \in DOMAIN Headed(cs, todo) :
                Headed(cs, todo)[k] = todo[m]
    BY <1>1, ReplacedCalls
  <1>4. pc = "collect"
    BY DEF Facing
  <1> QED
    BY <1>1, <1>2, <1>3, <1>4

\* A removal that is bound to be refused stays so, or is refused.
LEMMA FineBefore ==
    ASSUME TypeInv, NEW call, Facing(call), NEW cs \in Seq(CallSet), Process(cs),
           errors \subseteq errors', Fine',
           Tidy /\ call = "removal" /\ ProtectedIn(Head(todo).src) =>
            \E k \in DOMAIN cs : cs[k].call = "removal" /\ ProtectedIn(cs[k].src)
    PROVE  /\ Fine
           /\ \A k \in DOMAIN cs : cs[k].call = "removal" => ~ProtectedIn(cs[k].src)
  <1>1. /\ Head(todo) = todo[1] /\ 1 \in DOMAIN todo
        /\ UNCHANGED <<running, intended>>
        /\ \A k \in DOMAIN cs : k \in DOMAIN todo' /\ todo'[k] = cs[k]
        /\ \A m \in DOMAIN todo \ {1} : \E k \in DOMAIN todo' : todo'[k] = todo[m]
    BY ReplacedTodo
  <1>2. Tidy' = Tidy /\ \A h : ProtectedIn(h)' = ProtectedIn(h)
    BY <1>1, PathsFixed
  <1>3. Tidy /\ errors = {}
    BY <1>2 DEF Fine
  <1>4. ASSUME NEW k \in DOMAIN todo' PROVE ~(todo'[k].call = "removal" /\ ProtectedIn(todo'[k].src))
    <2>1. ~Doomed'
      BY DEF Fine
    <2>2. Doomed' <=> \E m \in DOMAIN todo' : todo'[m].call = "removal" /\ ProtectedIn(todo'[m].src)
      BY <1>2 DEF Doomed
    <2> QED
      BY <2>1, <2>2
  <1>5. \A k \in DOMAIN cs : ~(cs[k].call = "removal" /\ ProtectedIn(cs[k].src))
    BY <1>1, <1>4
  <1>6. ~Doomed
    <2>1. SUFFICES ASSUME NEW m \in DOMAIN todo, todo[m].call = "removal",
                          ProtectedIn(todo[m].src)
                   PROVE  FALSE
      BY DEF Doomed
    <2>2. CASE m = 1
      <3>1. call = "removal" /\ ProtectedIn(Head(todo).src)
        BY <1>1, <2>1, <2>2 DEF Facing
      <3> QED
        BY <1>3, <1>5, <3>1
    <2>3. CASE m # 1
      BY <1>1, <1>4, <2>1, <2>3
    <2> QED
      BY <2>2, <2>3
  <1> QED
    BY <1>3, <1>5, <1>6 DEF Fine

\* A step of collect that replaces its head in order.
LEMMA CollectStep ==
    ASSUME TypeInv, CollectInv, NEW call, Facing(call), NEW cs \in Seq(CallSet), Process(cs),
           errors \subseteq errors', NEW more, Emitted(ops, more, ops'),
           Tidy /\ call = "removal" /\ ProtectedIn(Head(todo).src) /\ errors' = {} =>
            \E k \in DOMAIN cs : cs[k].call = "removal" /\ ProtectedIn(cs[k].src),
           /\ InputsOK /\ Tidy /\ Captures /\ CallOK(Head(todo)) /\ errors' = {}
           /\ \A k \in DOMAIN cs : cs[k].call = "removal" => ~ProtectedIn(cs[k].src)
           => Replaces(Head(todo), cs, ops, more)
    PROVE  CollectInv'
  <1>1. /\ todo' = Headed(cs, todo) /\ Head(todo) = todo[1] /\ 1 \in DOMAIN todo
        /\ UNCHANGED <<running, intended>> /\ pc = "collect" /\ pc' = pc
    BY ReplacedTodo
  <1>2. Captures'
    BY <1>1, PathsFixed DEF CollectInv
  <1>3. ASSUME Fine' PROVE Good(todo, ops)'
    <2>1. errors' = {}
      BY <1>3 DEF Fine
    <2>2. /\ Fine
          /\ \A k \in DOMAIN cs : cs[k].call = "removal" => ~ProtectedIn(cs[k].src)
      BY <1>3, <2>1, FineBefore
    <2>3. Good(todo, ops) /\ Captures /\ Tidy /\ InputsOK
      BY <2>2 DEF CollectInv, Fine, TypeInv
    <2>4. CallOK(Head(todo))
      BY <1>1, <2>3 DEF Good
    <2>5. Replaces(todo[1], cs, ops, more)
      BY <1>1, <2>1, <2>2, <2>3, <2>4
    <2>6. todo \in Seq(CallSet) /\ todo # <<>> /\ IsSeq(ops)
      BY HeadIsFirst DEF TypeInv, PlanOK
    <2>7. Good(Headed(cs, todo), ops')
      BY <2>3, <2>5, <2>6, GoodReplaced
    <2> QED
      BY <1>1, <2>7, GoodPrimed
  <1> QED
    BY <1>1, <1>2, <1>3 DEF CollectInv

\* A header without negation that holds what may not go: so does a child.
LEMMA ProtectedKid ==
    ASSUME InputsOK, Tidy, NEW h \in Nodes("run"), ProtectedIn(h), Schema[DefOf(h)].clear
    PROVE  \E k \in DOMAIN KidsOf(h) : ProtectedIn(KidsOf(h)[k])
  <1>1. ~Schema[DefOf(h)].protected
    <2>1. DefOf(h) \in Defs
      BY NodeLine DEF Sides
    <2> QED
      BY <2>1, SchemaAssumption DEF Buildable, ClearOnRemoveBuilds
  <1>2. PICK n \in Sub(h) : Schema[DefOf(n)].protected
    BY DEF ProtectedIn
  <1>3. n \in Nodes("run") /\ Below(PathOf(h), PathOf(n))
    BY <1>2, SubNodes DEF Sides
  <1>4. PathOf(n) # PathOf(h)
    BY <1>1, <1>2, <1>3, PathOne DEF Sides
  <1>5. PathOf(h) \in Seq(Idents) /\ h \in Places("run")
    BY NodePath, NodeLine DEF Sides
  <1>6. PICK x \in Nodes("run") : Over(x) = PathOf(h) /\ Below(PathOf(x), PathOf(n))
    BY <1>3, <1>4, <1>5, KidOver DEF Sides
  <1>7. x \in ToSet(KidsOf(h))
    BY <1>5, <1>6, KidsByPath DEF Sides
  <1>8. n \in Sub(x)
    BY <1>3, <1>6, SubNodes DEF Sides
  <1>9. ProtectedIn(x)
    BY <1>2, <1>8 DEF ProtectedIn
  <1> QED
    BY <1>7, <1>9 DEF ToSet

-----------------------------------------------------------------------------
(* Every step keeps it.                                                    *)

\* Nothing is emitted, or one operation.
LEMMA EmittedIs ==
    ASSUME NEW t
    PROVE  /\ ops' = ops => Emitted(ops, {}, ops')
           /\ \A action, cmds : ops' = Append(ops, Op(t, action, cmds)) =>
                Emitted(ops, {Op(t, action, cmds)}, ops')
  BY DEF Emitted

\* A step that takes an intent or a removal away, having said why or written
\* an operation about its lines.
LEMMA HeadDone ==
    ASSUME TypeInv, CollectInv, NEW call \in {"intent", "removal"}, Facing(call), Process(<<>>),
           errors \subseteq errors', NEW more, Emitted(ops, more, ops'),
           call = "removal" /\ ProtectedIn(Head(todo).src) => errors' # {},
           InputsOK /\ Tidy /\ CallOK(Head(todo)) /\ errors' = {} =>
                Replaces(Head(todo), <<>>, ops, more)
    PROVE  CollectInv'
  <1>1. <<>> \in Seq(CallSet) /\ DOMAIN <<>> = {}
    OBVIOUS
  <1> QED
    BY <1>1, CollectStep

\* A step that goes on with a level or an intent.
LEMMA StepAt ==
    ASSUME TypeInv, CollectInv
    PROVE  \A call, cs, more, t :
            /\ Facing(call) /\ call # "removal" /\ cs \in Seq(CallSet) /\ Process(cs)
            /\ errors \subseteq errors' /\ Emitted(ops, more, ops') /\ t = Head(todo)
            /\ (/\ InputsOK /\ Tidy /\ Captures /\ CallOK(t) /\ errors' = {}
                /\ \A k \in DOMAIN cs : cs[k].call = "removal" => ~ProtectedIn(cs[k].src))
               => Replaces(t, cs, ops, more)
            => CollectInv'
  BY CollectStep

\* collect, one step per action.
LEMMA CollectKeeps ==
    ASSUME TypeInv, KeyInv, CollectInv, Collect
    PROVE  CollectInv'
  <1> DEFINE t == Head(todo)
  <1>0. \A X : \A x \in X : <<x>> \in Seq(X)
    OBVIOUS
  <1>1. CASE PairLevel
    <2> DEFINE u == [t EXCEPT !.call = "removes", !.pairs = Pairings(t, Kept(t))]
    <2>1. /\ Facing("level") /\ ops' = ops /\ Process(<<u>>)
          /\ errors \subseteq errors'
      BY <1>1 DEF PairLevel
    <2>2. u \in CallSet /\ t \in LevelSet /\ t.call = "level"
      BY <2>1, LevelAdvances, HeadTyped
    <2>3. CallOK(t) => Replaces(t, <<u>>, ops, {})
      BY <2>2, PairedLevel
    <2>4. <<u>> \in Seq(CallSet) /\ Emitted(ops, {}, ops')
      BY <1>0, <2>1, <2>2, EmittedIs
    <2> HIDE DEF u, t
    <2> QED
      BY <2>1, <2>3, <2>4, StepAt DEF t
  <1>2. CASE FindRemoves
    <2> DEFINE u == [t EXCEPT !.call = "toggles", !.intents = Intents(t), !.removes = Removes(t)]
    <2>1. /\ Facing("removes") /\ ops' = ops /\ Process(<<u>>)
          /\ errors \subseteq errors'
      BY <1>2 DEF FindRemoves
    <2>2. u \in CallSet /\ t \in LevelSet /\ t.call = "removes"
      BY <2>1, LevelAdvances, HeadTyped
    <2>3. CallOK(t) => Replaces(t, <<u>>, ops, {})
      BY <2>2, RealisedLevel
    <2>4. <<u>> \in Seq(CallSet) /\ Emitted(ops, {}, ops')
      BY <1>0, <2>1, <2>2, EmittedIs
    <2> HIDE DEF u, t
    <2> QED
      BY <2>1, <2>3, <2>4, StepAt DEF t
  <1>3. CASE DropToggles
    <2>1. /\ Facing("toggles") /\ ops' = ops /\ Process(LevelCalls(t))
          /\ errors \subseteq errors'
          /\ SplitSlot(t) => errors' # {}
      BY <1>3 DEF DropToggles
    <2>2. t \in LevelSet /\ t.call = "toggles" /\ IsLevel(t) /\ InputsOK
      BY <2>1, HeadTyped DEF IsLevel, TypeInv
    <2>3. Distinct(t)
      BY <2>1, <2>2, HeadPlaced
    <2>4. LevelCalls(t) \in Seq(CallSet) /\ Emitted(ops, {}, ops')
      BY <2>1, <2>2, LevelCallsTyped, EmittedIs
    <2> HIDE DEF t
    <2>5. ASSUME Tidy, Captures, CallOK(t), errors' = {},
                 \A k \in DOMAIN LevelCalls(t) :
                    LevelCalls(t)[k].call = "removal" => ~ProtectedIn(LevelCalls(t)[k].src)
          PROVE  Replaces(t, LevelCalls(t), ops, {})
      BY <2>1, <2>2, <2>3, <2>5, SplitLevel, Zenon
    <2> DEFINE cs == LevelCalls(t)
    <2> HIDE DEF cs
    <2>6. /\ Process(cs) /\ cs \in Seq(CallSet)
          /\ /\ InputsOK /\ Tidy /\ Captures /\ CallOK(t) /\ errors' = {}
             /\ \A k \in DOMAIN cs : cs[k].call = "removal" => ~ProtectedIn(cs[k].src)
             => Replaces(t, cs, ops, {})
      BY <2>1, <2>4, <2>5, Zenon DEF cs
    <2> QED
      BY <2>1, <2>4, <2>6, StepAt DEF t
  <1>4. CASE AddLine
    <2> DEFINE o == Op(t, "add", <<Cmd("put", t.src, <<>>)>>)
    <2>1. /\ Facing("intent") /\ t.kind = "add" /\ Process(<<>>) /\ errors' = errors
          /\ ops' = Append(ops, o)
      BY <1>4 DEF AddLine, Accepted, Emits
    <2>2. t \in IntentCallSet
      BY <2>1, HeadTyped
    <2>3. InputsOK /\ CallOK(t) => Replaces(t, <<>>, ops, {o})
      BY <2>1, <2>2, AddReplaces
    <2>4. Emitted(ops, {o}, ops')
      BY <2>1, EmittedIs
    <2> HIDE DEF o, t
    <2> QED
      BY <2>1, <2>3, <2>4, HeadDone DEF t
  <1>5. CASE ModifyLine \/ DeltaLine \/ ReplaceLine
    <2> DEFINE m == Op(t, "modify", <<Cmd("set", t.src, <<>>)>>)
               d == Op(t, "modify", DeltaCmds(t))
               r == Op(t, "replace", <<Cmd("no", t.run, <<>>), Cmd("put", t.src, <<>>)>>)
    <2>1. /\ Facing("intent") /\ Process(<<>>) /\ errors' = errors
          /\ \/ t.kind = "modify" /\ ops' = Append(ops, m)
             \/ t.kind = "delta" /\ ops' = Append(ops, d)
             \/ t.kind = "replace" /\ ops' = Append(ops, r)
      BY <1>5 DEF ModifyLine, DeltaLine, ReplaceLine, Accepted, Emits
    <2>2. t \in IntentCallSet
      BY <2>1, HeadTyped
    <2>3. InputsOK /\ CallOK(t) =>
            /\ t.kind = "modify" => Replaces(t, <<>>, ops, {m})
            /\ t.kind = "delta" => Replaces(t, <<>>, ops, {d})
            /\ t.kind = "replace" => Replaces(t, <<>>, ops, {r})
      BY <2>2, ModifyReplaces
    <2> HIDE DEF m, d, r
    <2>4. PICK o : /\ InputsOK /\ CallOK(t) => Replaces(t, <<>>, ops, {o})
                   /\ ops' = Append(ops, o)
      BY <2>1, <2>3
    <2>5. Emitted(ops, {o}, ops')
      BY <2>4 DEF Emitted
    <2> HIDE DEF t
    <2> QED
      BY <2>1, <2>4, <2>5, HeadDone DEF t
  <1>6. CASE EnterSection
    <2> DEFINE u == LevelCall(t.run[2], t.src[2], Append(t.secs, t.src), t.key)
               o == Op(t, "modify", <<Cmd("set", t.src, <<>>)>>)
    <2>1. /\ Facing("intent") /\ t.kind = "section" /\ Process(<<u>>) /\ errors' = errors
          /\ \/ Text(Line(t.src)) = Text(Line(t.run)) /\ ops' = ops
             \/ ops' = Append(ops, o)
      BY <1>6 DEF EnterSection, Accepted, Emits
    <2>2. t \in IntentCallSet /\ InputsOK
      BY <2>1, HeadTyped DEF TypeInv
    <2>3. <<u>> \in Seq(CallSet)
      BY <1>0, <2>1, <2>2, SectionCalls
    <2>4. Tidy /\ CallOK(t) =>
            /\ Text(Line(t.src)) = Text(Line(t.run)) => Replaces(t, <<u>>, ops, {})
            /\ Replaces(t, <<u>>, ops, {o})
      BY <2>1, <2>2, SectionReplaces
    <2> HIDE DEF u, o
    <2>5. PICK more : /\ Tidy /\ CallOK(t) => Replaces(t, <<u>>, ops, more)
                      /\ Emitted(ops, more, ops')
      <3>1. CASE Text(Line(t.src)) = Text(Line(t.run)) /\ ops' = ops
        BY <2>4, <3>1 DEF Emitted
      <3>2. CASE ops' = Append(ops, o)
        BY <2>4, <3>2 DEF Emitted
      <3> QED
        BY <2>1, <3>1, <3>2
    <2> HIDE DEF t
    <2> QED
      BY <2>1, <2>3, <2>5, StepAt DEF t
  <1>7. CASE RefuseIntent
    <2>1. Facing("intent") /\ Process(<<>>) /\ ops' = ops /\ errors' # {} /\ errors \subseteq errors'
      BY <1>7 DEF RefuseIntent
    <2>2. Emitted(ops, {}, ops')
      BY <2>1, EmittedIs
    <2> QED
      BY <2>1, <2>2, HeadDone
  <1>8. CASE ExpandRemoval
    <2> DEFINE cs == RemovalCalls(KidsOf(t.src), Append(t.secs, t.src), t.key)
    <2>1. /\ Facing("removal") /\ ops' = ops /\ errors' = errors /\ Process(cs)
          /\ Schema[DefOf(t.src)].clear
      BY <1>8 DEF ExpandRemoval
    <2>2. t \in RemovalCallSet /\ InputsOK /\ t.src \in Nodes("run")
      BY <2>1, HeadTyped DEF TypeInv, RemovalCallSet
    <2>3. cs \in Seq(CallSet)
      BY <2>2, SectionCalls
    <2>4. Tidy /\ CallOK(t) => Replaces(t, cs, ops, {})
      BY <2>1, <2>2, ExpandReplaces
    <2>5. DOMAIN cs = DOMAIN KidsOf(t.src)
          /\ \A k \in DOMAIN cs : cs[k].call = "removal" /\ cs[k].src = KidsOf(t.src)[k]
      BY DEF RemovalCalls, Call
    <2> HIDE DEF cs
    <2>6. ASSUME Tidy, ProtectedIn(t.src)
          PROVE  \E k \in DOMAIN cs : cs[k].call = "removal" /\ ProtectedIn(cs[k].src)
      <3>1. \E k \in DOMAIN KidsOf(t.src) : ProtectedIn(KidsOf(t.src)[k])
        BY <2>1, <2>2, <2>6, ProtectedKid
      <3> QED
        BY <2>5, <3>1
    <2>7. Emitted(ops, {}, ops')
      BY <2>1, EmittedIs
    <2> HIDE DEF t
    <2> QED
      BY <2>1, <2>3, <2>4, <2>6, <2>7, CollectStep DEF t
  <1>9. CASE RefuseExpansion \/ RefuseDelete
    <2>1. Facing("removal") /\ Process(<<>>) /\ ops' = ops /\ errors' # {} /\ errors \subseteq errors'
      BY <1>9 DEF RefuseExpansion, RefuseDelete
    <2>2. Emitted(ops, {}, ops')
      BY <2>1, EmittedIs
    <2> QED
      BY <2>1, <2>2, HeadDone
  <1>10. CASE RemoveLine
    <2> DEFINE o == Op(t, "remove", <<Cmd("no", t.src, <<>>)>>)
    <2>1. /\ Facing("removal") /\ Process(<<>>) /\ errors' = errors /\ ~ProtectedIn(t.src)
          /\ ops' = Append(ops, o)
      BY <1>10 DEF RemoveLine, Emits
    <2>2. t \in RemovalCallSet
      BY <2>1, HeadTyped
    <2>3. InputsOK /\ CallOK(t) => Replaces(t, <<>>, ops, {o})
      BY <2>2, RemoveReplaces
    <2>4. Emitted(ops, {o}, ops')
      BY <2>1, EmittedIs
    <2> HIDE DEF o, t
    <2> QED
      BY <2>1, <2>3, <2>4, HeadDone DEF t
  <1>11. CASE CheckBaselineRemovals
    <2>1. /\ UNCHANGED <<running, intended>> /\ todo' = todo /\ ops' = ops /\ todo = <<>>
          /\ errors \subseteq errors'
      BY <1>11 DEF CheckBaselineRemovals, inputVars
    <2>2. /\ Captures' = Captures /\ Tidy' = Tidy
          /\ \A h : ProtectedIn(h)' = ProtectedIn(h)
      BY <2>1, PathsFixed
    <2>3. ASSUME Fine' PROVE Good(todo, ops)'
      <3>1. ~Doomed
        BY <2>1 DEF Doomed
      <3>2. Fine
        BY <2>1, <2>2, <2>3, <3>1 DEF Fine
      <3>3. Good(todo, ops)
        BY <3>2 DEF CollectInv
      <3> QED
        BY <2>1, <3>3, GoodPrimed
    <2> QED
      BY <2>1, <2>2, <2>3 DEF CollectInv
  <1> QED
    BY <1>1, <1>2, <1>3, <1>4, <1>5, <1>6, <1>7, <1>8, <1>9, <1>10, <1>11 DEF Collect

\* The steps after collect.
LEMMA AfterCollect ==
    ASSUME [DeviceNext]_<<vars, deviceVars>>, ~Collect
    PROVE  /\ UNCHANGED <<running, intended, todo, ops>> /\ errors \subseteq errors'
           /\ pc' # "collect" => pc # "collect"
  <1>1. CASE DeriveEdges
    BY <1>1 DEF DeriveEdges, DeriveSlotCleanupEdges, DeriveRefEdges, DeriveMoveEdges,
           DeriveRequireEdges, DeriveExclusionEdges, CountIndegrees, Derive, inputVars
  <1>2. CASE Scheduling
    <2>1. UNCHANGED <<running, intended, todo, errors>>
      BY <1>2 DEF Scheduling, inputVars
    <2>2. ASSUME NEW i \in Ops, \/ Sched!Emit(i) \/ Sched!Stall(i)
                                \/ Sched!ExtendWalk(i) \/ Sched!BreakOnCycle(i)
          PROVE  ops' = ops /\ pc \in {"emit", "walk"}
      BY <2>2 DEF Sched!Emit, Sched!Stall, Sched!ExtendWalk, Sched!BreakOnCycle
    <2>3. ASSUME Sched!Finish PROVE ops' = ops /\ pc = "emit"
      BY <2>3 DEF Sched!Finish
    <2> QED
      BY <1>2, <2>1, <2>2, <2>3 DEF Scheduling
  <1>3. CASE AbortPlan
    <2>1. PICK i \in Ops : Sched!AbortOnCycle(i)
      BY <1>3 DEF AbortPlan
    <2>2. ops' = ops /\ pc \in {"emit", "walk"}
      BY <2>1 DEF Sched!AbortOnCycle
    <2> QED
      BY <1>3, <2>2 DEF AbortPlan, inputVars
  <1>4. CASE Materialize
    BY <1>4 DEF Materialize, inputVars
  <1>5. CASE Apply \/ Returned \/ UNCHANGED <<vars, deviceVars>>
    BY <1>5 DEF Apply, Returned, vars, inputVars, schedVars
  <1> QED
    BY <1>1, <1>2, <1>3, <1>4, <1>5 DEF DeviceNext, Diff, DiffNext

\* Every step of the device keeps it.
LEMMA NextCollect ==
    TypeInv /\ KeyInv /\ CollectInv /\ [DeviceNext]_<<vars, deviceVars>> => CollectInv'
  <1> SUFFICES ASSUME TypeInv, KeyInv, CollectInv, [DeviceNext]_<<vars, deviceVars>>
               PROVE  CollectInv'
    OBVIOUS
  <1>1. CASE Collect
    BY <1>1, CollectKeeps
  <1>2. CASE ~Collect
    <2>1. /\ UNCHANGED <<running, intended, todo, ops>> /\ errors \subseteq errors'
          /\ pc' # "collect" => pc # "collect"
      BY <1>2, AfterCollect
    <2>2. /\ Captures' = Captures /\ Tidy' = Tidy
          /\ \A h : ProtectedIn(h)' = ProtectedIn(h)
      BY <2>1, PathsFixed
    <2>3. ASSUME Fine' PROVE Good(todo, ops)'
      <3>1. Doomed' = Doomed
        BY <2>1, <2>2 DEF Doomed
      <3>2. Fine
        BY <2>1, <2>2, <2>3, <3>1 DEF Fine
      <3>3. Good(todo, ops)
        BY <3>2 DEF CollectInv
      <3> QED
        BY <2>1, <3>3, GoodPrimed
    <2> QED
      BY <2>1, <2>2, <2>3 DEF CollectInv
  <1> QED
    BY <1>1, <1>2

\* The two roots are about everything.
LEMMA InitCollect == DeviceInit => CollectInv
  <1> SUFFICES ASSUME DeviceInit PROVE CollectInv
    OBVIOUS
  <1> DEFINE t == LevelCall(<<>>, <<>>, <<>>, <<>>)
  <1>1. InputsOK
    BY InitTyped DEF TypeInv
  <1>2. Captures /\ pc = "collect" /\ todo = <<t>> /\ ops = <<>>
    <2>1. PICK i \in Inputs : running = i.running /\ intended = i.intended
      BY DEF DeviceInit, Init
    <2>2. SameCaptures(<<i.running, i.intended>>)
      BY InputsAssumption
    <2> QED
      BY <2>1, <2>2 DEF Captures, DeviceInit, Init
  <1>3. /\ t.call = "level" /\ t.src = <<"int", <<>>>> /\ t.run = <<"run", <<>>>> /\ t.secs = <<>>
        /\ IsLevel(t)
    BY DEF LevelCall, IsLevel
  <1> HIDE DEF t
  <1>4. PathOf(t.src) = <<>> /\ PathOf(t.run) = <<>>
    <2>1. <<"int", <<>>>> \in Places("int") /\ <<"run", <<>>>> \in Places("run")
      BY DEF Places
    <2>2. /\ PathOf(<<"int", <<>>>>) \in Seq(Idents) /\ Len(PathOf(<<"int", <<>>>>)) = 0
          /\ PathOf(<<"run", <<>>>>) \in Seq(Idents) /\ Len(PathOf(<<"run", <<>>>>)) = 0
      BY <1>1, <2>1, PlacePath DEF Sides
    <2> QED
      BY <1>3, <2>2, EmptySeq
  <1>5. At(t) = <<>> /\ Home(t) = <<>>
    BY <1>3, <1>4 DEF At, Home
  <1>6. CallOK(t)
    <2>1. HeadersOK(t.secs, Home(t))
      BY <1>3 DEF HeadersOK, ToSet
    <2> QED
      BY <1>3, <1>4, <2>1 DEF CallOK
  <1>7. Known \subseteq CallLand(t)
    <2>1. ASSUME NEW u \in Known PROVE u # <<>> /\ Below(<<>>, u)
      <3>1. PICK side \in Sides : \E h \in Nodes(side) : u = PathOf(h)
        BY DEF Known, Shown, Wanted, PathsOf, Sides
      <3>2. u \in Seq(Idents) /\ Len(u) >= 1
        BY <1>1, <3>1, NodePath
      <3>3. SubSeq(u, 1, 0) = <<>>
        BY <3>2
      <3> QED
        BY <3>2, <3>3 DEF Below
    <2> QED
      BY <1>3, <1>5, <2>1 DEF CallLand, Subtree
  <1>8. DOMAIN <<t>> = {1} /\ <<t>>[1] = t /\ DOMAIN <<>> = {}
    OBVIOUS
  <1>9. \A side \in Sides : \A h \in Nodes(side) : Awaited(<<t>>, PathOf(h))
    <2>1. \A side \in Sides : \A h \in Nodes(side) : PathOf(h) \in Known
      BY DEF Known, Shown, Wanted, PathsOf, Sides
    <2> QED
      BY <1>7, <1>8, <2>1 DEF Awaited
  <1>10. Good(<<t>>, <<>>)
    <2>1. LandsApart(<<t>>, <<>>)
      BY <1>8 DEF LandsApart
    <2>2. Covered(<<t>>, <<>>)
      BY <1>9 DEF Covered, Sides
    <2> QED
      BY <1>6, <1>8, <2>1, <2>2 DEF Good
  <1> QED
    BY <1>2, <1>10 DEF CollectInv

-----------------------------------------------------------------------------
(* What stands on the device.                                              *)

\* The lines that may stand there: those of either side.
Stock == Entries(running) \cup Entries(intended)

\* A line of D stands at u.
Stands(D, u) == \E x \in D : x.path = u

\* One line to a path, below lines that are there.
Housed(D) ==
    /\ D \subseteq Stock
    /\ \A x, y \in D : x.path = y.path => x = y
    /\ \A x \in D : \A v \in Seq(Idents) : v # <<>> /\ Below(v, x.path) => Stands(D, v)

\* D without what stands at u and below.
Cut(D, u) == {x \in D : ~Below(u, x.path)}

\* D with line h for what stands at its path.
Swap(D, h) == {x \in D : x.path # PathOf(h)} \cup {EntryOf(h)}

\* What may stand there is the entry of a line.
LEMMA StockNode ==
    ASSUME InputsOK, NEW x \in Stock
    PROVE  \E g \in SomeNode :
            /\ x = EntryOf(g) /\ x.path = PathOf(g)
            /\ PathOf(g) \in Seq(Idents) /\ PathOf(g) # <<>>
            /\ x \notin Entries(intended) \/ x.path \notin Wanted => g \in Nodes("run")
  <1>1. PICK side \in Sides : x \in Entries(Conf(side))
    BY DEF Stock, Sides, Conf
  <1>2. PICK g \in Nodes(side) : x = EntryOf(g)
    BY <1>1, EntryHasNode
  <1>3. /\ EntryOf(g).path = PathOf(g) /\ EntryOf(g) \in Entries(Conf(side))
        /\ PathOf(g) \in Seq(Idents) /\ Len(PathOf(g)) >= 1
    BY <1>2, NodeEntry, NodePath
  <1>4. PathOf(g) # <<>>
    BY <1>3
  <1>5. side = "run" \/ side = "int"
    BY DEF Sides
  <1>6. g \in SomeNode
    BY <1>5 DEF SomeNode
  <1>7. side = "int" => x \in Entries(intended) /\ x.path \in Wanted
    BY <1>2, <1>3 DEF Conf, Wanted, PathsOf
  <1> QED
    BY <1>2, <1>3, <1>4, <1>5, <1>6, <1>7

\* The entry of a line may stand there.
LEMMA NodeStock ==
    ASSUME InputsOK, NEW h \in SomeNode
    PROVE  /\ EntryOf(h) \in Stock /\ EntryOf(h).path = PathOf(h)
           /\ PathOf(h) \in Seq(Idents) /\ PathOf(h) # <<>> /\ PathOf(h) \in Known
           /\ h \in Nodes("int") => EntryOf(h) \in Entries(intended) /\ PathOf(h) \in Wanted
           /\ h \in Nodes("run") => EntryOf(h) \in Entries(running) /\ PathOf(h) \in Shown
  <1>1. PICK side \in Sides : h \in Nodes(side)
    BY DEF SomeNode, Sides
  <1>2. \A s \in Sides : h \in Nodes(s) => EntryOf(h) \in Entries(Conf(s)) /\ PathOf(h) \in PathsOf(s)
    BY NodeEntry DEF PathsOf
  <1>3. /\ EntryOf(h).path = PathOf(h)
        /\ PathOf(h) \in Seq(Idents) /\ Len(PathOf(h)) >= 1
    BY <1>1, NodeEntry, NodePath
  <1>4. PathOf(h) # <<>>
    BY <1>3
  <1>5. h \in Nodes("int") => EntryOf(h) \in Entries(intended) /\ PathOf(h) \in Wanted
    BY <1>2 DEF Sides, Conf, Wanted
  <1>6. h \in Nodes("run") => EntryOf(h) \in Entries(running) /\ PathOf(h) \in Shown
    BY <1>2 DEF Sides, Conf, Shown
  <1> QED
    BY <1>3, <1>4, <1>5, <1>6 DEF SomeNode, Stock, Known

\* Where each path has one line, what goes with R is what stands below it.
LEMMA WithoutIs ==
    ASSUME InputsOK, NEW D, Housed(D), NEW R, R \subseteq D
    PROVE  Without(D, R) = {x \in D : \A r \in R : ~Below(r.path, x.path)}
  <1>1. \A x \in D : Below(x.path, x.path)
    BY StockNode, BelowOrder DEF Housed
  <1>2. \A r \in R : ~\E y \in D \ R : y.path = r.path
    BY DEF Housed
  <1>3. \A x \in D : x \notin R => \A r \in R : r.path # x.path
    BY DEF Housed
  <1>4. ASSUME NEW x \in D, x \notin R, \A r \in R : Below(r.path, x.path) /\ r.path # x.path
                                     => \E y \in D \ R : y.path = r.path,
               NEW r \in R, Below(r.path, x.path)
        PROVE FALSE
    BY <1>2, <1>3, <1>4
  <1>5. ASSUME NEW x \in D, \A r \in R : ~Below(r.path, x.path)
        PROVE  x \notin R
    BY <1>1, <1>5
  <1> QED
    BY <1>4, <1>5 DEF Without

\* What the entries E push out, but for what they take the path of.
Cleared(D, E) == {r \in D : /\ \E e \in E : Displaces(e, r)
                            /\ \A f \in E : f.path # r.path}

\* Writing E leaves what stands at other paths and not below what is cleared.
LEMMA PutIs ==
    ASSUME InputsOK, NEW D, Housed(D), NEW E, E \subseteq Stock
    PROVE  Put(D, E) = {x \in D : /\ \A e \in E : e.path # x.path
                                  /\ \A r \in Cleared(D, E) : ~Below(r.path, x.path)} \cup E
  <1> DEFINE gone == {x \in D : \E e \in E : Displaces(e, x)}
             kept == {x \in gone : \E e \in E : e.path = x.path}
  <1>1. \A e \in E, x \in D : e.path = x.path => Displaces(e, x)
    <2>1. ASSUME NEW e \in E, NEW x \in D, e.path = x.path PROVE Displaces(e, x)
      <3>1. PICK g \in SomeNode : e = EntryOf(g) /\ e.path = PathOf(g)
        BY StockNode
      <3>2. PICK h \in SomeNode : x = EntryOf(h) /\ x.path = PathOf(h)
        BY StockNode DEF Housed
      <3>3. Ousts(g, h)
        BY <2>1, <3>1, <3>2, SamePlace
      <3> QED
        BY <3>1, <3>2, <3>3 DEF Ousts
    <2> QED
      BY <2>1
  <1>2. gone \ kept = Cleared(D, E)
    BY DEF Cleared
  <1>3. \A x \in D : x \notin kept <=> \A e \in E : e.path # x.path
    BY <1>1
  <1>4. Cleared(D, E) \subseteq D
    BY DEF Cleared
  <1>5. Without(D, Cleared(D, E)) = {x \in D : \A r \in Cleared(D, E) : ~Below(r.path, x.path)}
    BY <1>4, WithoutIs
  <1>6. Put(D, E) = (Without(D, gone \ kept) \ kept) \cup E
    BY DEF Put
  <1> HIDE DEF gone, kept
  <1> QED
    BY <1>2, <1>3, <1>5, <1>6

\* A firm line takes the path it has, and nothing else goes.
LEMMA PutFirm ==
    ASSUME InputsOK, NEW D, Housed(D), NEW h \in SomeNode, Firm(h)
    PROVE  Put(D, {EntryOf(h)}) = Swap(D, h)
  <1>1. EntryOf(h) \in Stock /\ EntryOf(h).path = PathOf(h)
    BY NodeStock
  <1>2. Cleared(D, {EntryOf(h)}) = {}
    <2>1. ASSUME NEW r \in D, Displaces(EntryOf(h), r) PROVE EntryOf(h).path = r.path
      <3>1. PICK g \in SomeNode : r = EntryOf(g) /\ r.path = PathOf(g)
        BY StockNode DEF Housed
      <3>2. Ousts(h, g)
        BY <2>1, <3>1 DEF Ousts
      <3> QED
        BY <1>1, <3>1, <3>2 DEF Firm
    <2> QED
      BY <2>1 DEF Cleared
  <1> DEFINE E == {EntryOf(h)}
  <1>3. E \subseteq Stock /\ Cleared(D, E) = {} /\ \A x : (\A e \in E : e.path # x.path) <=> x.path # PathOf(h)
    BY <1>1, <1>2
  <1> HIDE DEF E
  <1>4. Put(D, E) = {x \in D : /\ \A e \in E : e.path # x.path
                               /\ \A r \in Cleared(D, E) : ~Below(r.path, x.path)} \cup E
    BY <1>3, PutIs
  <1>5. Put(D, E) = {x \in D : x.path # PathOf(h)} \cup E
    BY <1>3, <1>4
  <1> QED
    BY <1>5 DEF Swap, E

\* Negating a firm line clears its path and what is below, whether the slot is
\* matched or the line, if what stands there is that line.
LEMMA NoFirm ==
    ASSUME InputsOK, NEW D, Housed(D), NEW h \in SomeNode, Firm(h),
           \A x \in D : x.path = PathOf(h) => x = EntryOf(h), NEW by \in {"slot", "line"}
    PROVE  No(D, EntryOf(h), by) = Cut(D, PathOf(h))
  <1> DEFINE R == IF by = "slot" THEN {x \in D : Place(x) = Place(EntryOf(h))}
                  ELSE {x \in D : x = EntryOf(h)}
  <1>1. EntryOf(h).path = PathOf(h)
    BY NodeStock
  <1>2. R = {x \in D : x.path = PathOf(h)}
    <2>1. ASSUME NEW x \in D
          PROVE  Place(x) = Place(EntryOf(h)) <=> x.path = PathOf(h)
      <3>1. PICK g \in SomeNode : x = EntryOf(g) /\ x.path = PathOf(g)
        BY StockNode DEF Housed
      <3>2. ASSUME Place(x) = Place(EntryOf(h)) PROVE x.path = PathOf(h)
        <4>1. Ousts(h, g)
          BY <3>1, <3>2 DEF Ousts, Displaces
        <4> QED
          BY <3>1, <4>1 DEF Firm
      <3>3. ASSUME x.path = PathOf(h) PROVE Place(x) = Place(EntryOf(h))
        BY <3>1, <3>3, SamePlace
      <3> QED
        BY <3>2, <3>3
    <2>2. \A x \in D : x = EntryOf(h) <=> x.path = PathOf(h)
      BY <1>1
    <2> QED
      BY <2>1, <2>2
  <1>3. No(D, EntryOf(h), by) = Without(D, R)
    BY DEF No
  <1> HIDE DEF R
  <1>4. R \subseteq D
    BY <1>2
  <1>5. Without(D, R) = {x \in D : \A r \in R : ~Below(r.path, x.path)}
    BY <1>4, WithoutIs
  <1>6. ASSUME NEW x \in D, Below(PathOf(h), x.path)
        PROVE  \E r \in R : Below(r.path, x.path)
    <2>1. Stands(D, PathOf(h))
      BY <1>6, NodeStock DEF Housed
    <2> QED
      BY <1>2, <1>6, <2>1 DEF Stands
  <1>7. ASSUME NEW x \in D, ~Below(PathOf(h), x.path), NEW r \in R
        PROVE  ~Below(r.path, x.path)
    BY <1>2, <1>7
  <1> QED
    BY <1>3, <1>5, <1>6, <1>7 DEF Cut

-----------------------------------------------------------------------------
(* What is on the device while the plan is executed.                       *)

\* The sections that operations are about to open, and that no plan would
\* create again, are there.
Standing(D) == \A i \in Ops : \A h \in ToSet(ops[i].secs) \cap Nodes("run") : EntryOf(h) \in D

\* What holds on the device at all times.
Base(D) ==
    /\ Housed(D)
    /\ \A u \in Shown \cap Wanted : Stands(D, u)
    /\ Standing(D)

\* The operation is about the very line that runs.
Reads(o) == o.action = "replace" \/ (o.action = "modify" /\ ~IsSection(DefOf(o.src)))

\* Every operation that writes line g is among S, and there is one, unless the
\* line is to stay as it is.
Written(g, S) ==
    /\ Settled(g) \/ \E j \in Ops : Brings(ops[j], PathOf(g))
    /\ \A j \in Ops : Brings(ops[j], PathOf(g)) => j \in S

\* What holds when the operations S were executed: what the others are about
\* is still there, what was to be written is there and what was to go is not.
Rest(D, S) ==
    /\ \A j \in Ops \ S : Reads(ops[j]) => EntryOf(ops[j].run) \in D
    /\ \A g \in Nodes("int") : Written(g, S) => EntryOf(g) \in D
    /\ \A x \in D \ Entries(intended) : \A j \in S : ~Takes(ops[j], x.path)

\* What collect knows at the end.
Final == Good(<<>>, ops)

\* An operation is about the path of its line.
LEMMA OpHeld ==
    ASSUME InputsOK, Tidy, NEW o, OpOK(o)
    PROVE  /\ o.src \in SomeNode /\ At(o) \in Known /\ At(o) \in Seq(Idents) /\ At(o) # <<>>
           /\ At(o) \in OpLand(o) /\ At(o) = PathOf(o.src)
           /\ o.action # "modify" => OpLand(o) = Subtree(At(o)) \cup Flipped(o)
           /\ o.action = "modify" => OpLand(o) = {At(o)}
           /\ Reads(o) => Subtree(At(o)) \subseteq OpLand(o)
           /\ o.action # "add" => Flipped(o) = {}
           /\ o.action \in {"modify", "replace"} =>
                /\ o.src \in Nodes("int") /\ o.run \in Nodes("run") /\ PathOf(o.run) = At(o)
                /\ At(o) \in Shown \cap Wanted
  <1>1. o.action \in {"add", "modify", "replace", "remove"}
    BY DEF OpOK
  <1>2. o.src \in SomeNode /\ At(o) = PathOf(o.src)
    BY <1>1 DEF OpOK, SomeNode, At
  <1>3. At(o) \in Known /\ At(o) \in Seq(Idents) /\ At(o) # <<>>
    BY <1>2, NodeStock
  <1>4. At(o) \in Subtree(At(o))
    BY <1>3, BelowOrder DEF Subtree
  <1>5. o.action # "add" => o.flip = Nil
    BY <1>1 DEF OpOK
  <1>6. o.action # "add" => Flipped(o) = {}
    BY <1>5 DEF Flipped
  <1>7. o.action \in {"modify", "replace"} =>
            /\ o.src \in Nodes("int") /\ o.run \in Nodes("run") /\ PathOf(o.run) = At(o)
            /\ At(o) \in Shown \cap Wanted
    <2>1. o.action \in {"modify", "replace"} =>
            o.src \in Nodes("int") /\ o.run \in Nodes("run") /\ PathOf(o.run) = At(o)
      BY DEF OpOK
    <2>2. \A n \in SomeNode : (n \in Nodes("int") => PathOf(n) \in Wanted)
                              /\ (n \in Nodes("run") => PathOf(n) \in Shown)
      BY NodeStock
    <2> QED
      BY <1>2, <2>1, <2>2 DEF SomeNode
  <1>8. o.action # "modify" => OpLand(o) = Subtree(At(o)) \cup Flipped(o)
    BY DEF OpLand
  <1>9. o.action = "modify" => OpLand(o) = {At(o)}
    <2>1. CASE o.action = "modify" /\ IsSection(DefOf(o.src))
      BY <2>1 DEF OpLand
    <2>2. CASE o.action = "modify" /\ ~IsSection(DefOf(o.src))
      <3>1. ~IsSection(DefOf(o.run))
        BY <2>2 DEF OpOK
      <3>2. OpLand(o) = Subtree(At(o))
        BY <1>6, <2>2 DEF OpLand
      <3>3. ASSUME NEW v \in Subtree(At(o)) PROVE v = At(o)
        <4>1. v \in Known /\ Below(At(o), v)
          BY DEF Subtree
        <4>2. PICK side \in Sides : \E g \in Nodes(side) : v = PathOf(g)
          BY <4>1 DEF Known, Shown, Wanted, PathsOf, Sides
        <4>3. PICK g \in Nodes(side) : v = PathOf(g)
          BY <4>2
        <4>4. CASE side = "int"
          BY <1>2, <1>7, <2>2, <4>1, <4>3, <4>4, LeafAlone DEF Sides
        <4>5. CASE side = "run"
          BY <1>2, <1>7, <2>2, <3>1, <4>1, <4>3, <4>5, LeafAlone DEF Sides
        <4> QED
          BY <4>4, <4>5 DEF Sides
      <3> QED
        BY <1>4, <3>2, <3>3
    <2> QED
      BY <2>1, <2>2
  <1>10. At(o) \in OpLand(o)
    BY <1>4, <1>8, <1>9
  <1>11. Reads(o) => Subtree(At(o)) \subseteq OpLand(o)
    BY DEF Reads, OpLand
  <1> QED
    BY <1>2, <1>3, <1>6, <1>7, <1>8, <1>9, <1>10, <1>11

\* What collect knows of the operations.
LEMMA FinalOps ==
    ASSUME Final
    PROVE  /\ \A i \in Ops : OpOK(ops[i])
           /\ \A i, j \in Ops : \A u : u \in OpLand(ops[i]) /\ u \in OpLand(ops[j]) => i = j
  BY DEF Final, Good, LandsApart, Ops

\* The line h written where both sides have a line.
LEMMA SwapKeeps ==
    ASSUME InputsOK, Tidy, Final, NEW D, Base(D), NEW S, Rest(D, S), NEW X, S \subseteq X,
           NEW h \in Nodes("int"), PathOf(h) \in Shown,
           \A j \in Ops \ X : Reads(ops[j]) => At(ops[j]) # PathOf(h),
           \A j \in X \ S : OpLand(ops[j]) = {PathOf(h)}
    PROVE  Base(Swap(D, h)) /\ Rest(Swap(D, h), X)
  <1> DEFINE N == Swap(D, h)
  <1>1. /\ h \in SomeNode /\ EntryOf(h).path = PathOf(h) /\ EntryOf(h) \in Stock
        /\ EntryOf(h) \in Entries(intended) /\ PathOf(h) \in Wanted
    BY NodeStock DEF SomeNode
  <1>2. /\ \A x : x \in N <=> (x \in D /\ x.path # PathOf(h)) \/ x = EntryOf(h)
        /\ \A u : Stands(D, u) => Stands(N, u)
    BY <1>1 DEF Swap, Stands
  <1>3. Stands(D, PathOf(h))
    BY <1>1 DEF Base
  <1> HIDE DEF N
  <1>4. Housed(N)
    <2>1. N \subseteq Stock
      BY <1>1, <1>2 DEF Base, Housed
    <2>2. \A x, y \in N : x.path = y.path => x = y
      BY <1>1, <1>2 DEF Base, Housed
    <2>3. ASSUME NEW x \in N, NEW v \in Seq(Idents), v # <<>>, Below(v, x.path)
          PROVE  Stands(N, v)
      <3>1. PICK y \in D : y.path = x.path
        BY <1>1, <1>2, <1>3 DEF Stands
      <3>2. Stands(D, v)
        BY <2>3, <3>1 DEF Base, Housed
      <3> QED
        BY <1>2, <3>2
    <2> QED
      BY <2>1, <2>2, <2>3 DEF Housed
  <1>5. Standing(N)
    <2>1. ASSUME NEW i \in Ops, NEW g \in ToSet(ops[i].secs) \cap Nodes("run")
          PROVE  EntryOf(g) \in N
      <3>1. EntryOf(g) \in D
        BY DEF Base, Standing
      <3>2. OpOK(ops[i])
        BY FinalOps
      <3>3. Gone(g)
        BY <3>2 DEF OpOK, HeadersOK
      <3>4. PathOf(g) # PathOf(h) /\ EntryOf(g).path = PathOf(g)
        BY <1>1, <3>3, NodeStock DEF Gone, SomeNode
      <3> QED
        BY <1>2, <3>1, <3>4
    <2> QED
      BY <2>1 DEF Standing
  <1>6. Base(N)
    BY <1>2, <1>4, <1>5 DEF Base
  <1>7. ASSUME NEW j \in Ops \ X, Reads(ops[j]) PROVE EntryOf(ops[j].run) \in N
    <2>1. EntryOf(ops[j].run) \in D /\ At(ops[j]) # PathOf(h)
      BY <1>7 DEF Rest
    <2>2. OpOK(ops[j]) /\ ops[j].action \in {"modify", "replace"}
      BY <1>7, FinalOps DEF Reads
    <2>3. PathOf(ops[j].run) = At(ops[j]) /\ ops[j].run \in SomeNode
      BY <2>2, OpHeld DEF SomeNode
    <2>4. EntryOf(ops[j].run).path = PathOf(ops[j].run)
      BY <2>3, NodeStock
    <2> QED
      BY <1>2, <2>1, <2>3, <2>4
  <1>8. ASSUME NEW g \in Nodes("int"), Written(g, X) PROVE EntryOf(g) \in N
    <2>1. CASE PathOf(g) = PathOf(h)
      <3>1. g = h
        BY <2>1, PathOne DEF Sides
      <3> QED
        BY <1>2, <3>1
    <2>2. CASE PathOf(g) # PathOf(h)
      <3>1. \A j \in X \ S : ~Brings(ops[j], PathOf(g))
        BY <2>2 DEF Brings
      <3>2. Written(g, S)
        BY <1>8, <3>1 DEF Written
      <3>3. EntryOf(g) \in D /\ EntryOf(g).path = PathOf(g)
        BY <3>2, NodeStock DEF Rest, SomeNode
      <3> QED
        BY <1>2, <2>2, <3>3
    <2> QED
      BY <2>1, <2>2
  <1>9. ASSUME NEW x \in N \ Entries(intended), NEW j \in X PROVE ~Takes(ops[j], x.path)
    <2>1. x \in D \ Entries(intended) /\ x.path # PathOf(h)
      BY <1>1, <1>2, <1>9
    <2>2. CASE j \in S
      BY <2>1, <2>2 DEF Rest
    <2>3. CASE j \notin S
      <3>1. OpLand(ops[j]) = {PathOf(h)}
        BY <2>3
      <3> QED
        BY <2>1, <3>1 DEF Takes
    <2> QED
      BY <2>2, <2>3
  <1>10. Rest(N, X)
    BY <1>7, <1>8, <1>9 DEF Rest
  <1> QED
    BY <1>6, <1>10 DEF N

-----------------------------------------------------------------------------
(* Opening sections.                                                       *)

\* The sections of an operation are above its line.
LEMMA AboveOp ==
    ASSUME InputsOK, NEW o, o.src \in SomeNode, HeadersOK(o.secs, Over(o.src)),
           NEW h \in ToSet(o.secs) \cap SomeNode
    PROVE  Below(PathOf(h), At(o)) /\ PathOf(h) # At(o)
  <1>1. PICK side \in Sides : o.src \in Nodes(side)
    BY DEF SomeNode, Sides
  <1>2. /\ PathOf(o.src) = Append(Over(o.src), Id(o.src)) /\ Over(o.src) \in Seq(Idents)
        /\ Id(o.src) \in Idents
    BY <1>1, NodeOver
  <1>3. PathOf(h) \in Seq(Idents) /\ Below(PathOf(h), Over(o.src))
    BY NodeStock DEF HeadersOK
  <1>4. /\ Below(PathOf(h), Append(Over(o.src), Id(o.src)))
        /\ ~Below(Append(Over(o.src), Id(o.src)), Over(o.src))
    BY <1>2, <1>3, BelowChild
  <1> QED
    BY <1>2, <1>3, <1>4 DEF At

\* A line that stands below what an operation reads, or removes, belongs to it.
LEMMA LandBelow ==
    ASSUME InputsOK, Tidy, Final, NEW i \in Ops, NEW j \in Ops,
           Reads(ops[j]) \/ ops[j].action = "remove", Below(At(ops[j]), At(ops[i]))
    PROVE  i = j
  <1>1. OpOK(ops[i]) /\ OpOK(ops[j])
    BY FinalOps
  <1>2. At(ops[i]) \in Known /\ At(ops[i]) \in OpLand(ops[i])
    BY <1>1, OpHeld
  <1>3. Subtree(At(ops[j])) \subseteq OpLand(ops[j])
    BY <1>1, OpHeld
  <1>4. At(ops[i]) \in OpLand(ops[j])
    BY <1>2, <1>3 DEF Subtree
  <1> QED
    BY <1>2, <1>4, FinalOps

\* A section that is written where it stands changes nothing that matters.
LEMMA HeaderKeeps ==
    ASSUME InputsOK, Tidy, Final, NEW D, Base(D), NEW S, Rest(D, S),
           NEW i \in Ops, NEW h \in ToSet(ops[i].secs) \cap SomeNode
    PROVE  Base(Put(D, {EntryOf(h)})) /\ Rest(Put(D, {EntryOf(h)}), S)
  <1>1. OpOK(ops[i]) /\ ops[i].src \in SomeNode /\ HeadersOK(ops[i].secs, Over(ops[i].src))
    BY FinalOps, OpHeld DEF OpOK
  <1>2. CASE h \in Nodes("run")
    <2>1. Gone(h)
      BY <1>1, <1>2 DEF HeadersOK
    <2>2. Firm(h)
      BY <1>2, <2>1, FirmGone
    <2>3. Put(D, {EntryOf(h)}) = Swap(D, h)
      BY <2>2, PutFirm DEF Base
    <2>4. EntryOf(h) \in D /\ EntryOf(h).path = PathOf(h)
      BY <1>2, NodeStock DEF Base, Standing
    <2>5. \A x \in D : x.path = PathOf(h) => x = EntryOf(h)
      BY <2>4 DEF Base, Housed
    <2>6. Swap(D, h) = D
      BY <2>4, <2>5 DEF Swap
    <2> QED
      BY <2>3, <2>6
  <1>3. CASE h \in Nodes("int")
    <2>1. PathOf(h) \in Shown /\ PathOf(h) \in Wanted
      BY <1>1, <1>3, NodeStock DEF HeadersOK
    <2>2. Firm(h)
      BY <2>1, FirmBoth
    <2>3. Put(D, {EntryOf(h)}) = Swap(D, h)
      BY <2>2, PutFirm DEF Base
    <2>4. Below(PathOf(h), At(ops[i])) /\ PathOf(h) # At(ops[i])
      BY <1>1, AboveOp
    <2>5. ASSUME NEW j \in Ops \ S, Reads(ops[j]) PROVE At(ops[j]) # PathOf(h)
      BY <2>4, <2>5, LandBelow
    <2>6. Base(Swap(D, h)) /\ Rest(Swap(D, h), S)
      BY <1>3, <2>1, <2>5, SwapKeeps
    <2> QED
      BY <2>3, <2>6
  <1> QED
    BY <1>2, <1>3 DEF SomeNode

-----------------------------------------------------------------------------
(* Clearing.                                                               *)

\* What holds before operation i writes its lines, and after it cleared them.
Cleaned(D, S, i) ==
    /\ Housed(D) /\ Standing(D)
    /\ \A v \in Shown \cap Wanted : ~Below(At(ops[i]), v) => Stands(D, v)
    /\ \A j \in Ops \ (S \cup {i}) : Reads(ops[j]) => EntryOf(ops[j].run) \in D
    /\ \A g \in Nodes("int") :
        Written(g, S) /\ ~Below(At(ops[i]), PathOf(g)) => EntryOf(g) \in D
    /\ \A x \in D \ Entries(intended) : \A j \in S \cup {i} :
        Takes(ops[j], x.path) => j = i /\ ops[i].action = "add"

\* Nothing need be cleared for what is added.
LEMMA AddClean ==
    ASSUME NEW D, Base(D), NEW S, Rest(D, S), NEW i \in Ops, ops[i].action = "add"
    PROVE  Cleaned(D, S, i)
  BY DEF Base, Rest, Cleaned

\* What an operation negates and what is below it is gone, and nothing else.
LEMMA CutKeeps ==
    ASSUME InputsOK, Tidy, Final, NEW D, Base(D), NEW S, Rest(D, S),
           NEW i \in Ops, ops[i].action \in {"replace", "remove"}
    PROVE  Cleaned(Cut(D, At(ops[i])), S, i)
  <1> DEFINE u == At(ops[i])
             N == Cut(D, u)
  <1>1. /\ OpOK(ops[i]) /\ u \in Seq(Idents) /\ u # <<>>
        /\ OpLand(ops[i]) = Subtree(u)
    <2>1. OpOK(ops[i])
      BY FinalOps
    <2>2. /\ OpLand(ops[i]) = Subtree(u) \cup Flipped(ops[i]) /\ Flipped(ops[i]) = {}
          /\ u \in Seq(Idents) /\ u # <<>>
      BY <2>1, OpHeld
    <2> QED
      BY <2>1, <2>2
  <1>2. \A x : x \in N <=> x \in D /\ ~Below(u, x.path)
    BY DEF Cut
  <1>3. \A x \in D : x.path \in Seq(Idents) /\ x.path \in Known
    <2>1. ASSUME NEW x \in D PROVE x.path \in Seq(Idents) /\ x.path \in Known
      <3>1. x \in Stock
        BY DEF Base, Housed
      <3>2. PICK g \in SomeNode : x.path = PathOf(g)
        BY <3>1, StockNode
      <3> QED
        BY <3>2, NodeStock
    <2> QED
      BY <2>1
  <1> HIDE DEF N, u
  <1>4. \A v \in Seq(Idents) : Stands(D, v) /\ ~Below(u, v) => Stands(N, v)
    BY <1>2 DEF Stands
  <1>5. Housed(N)
    <2>1. ASSUME NEW x \in N, NEW v \in Seq(Idents), v # <<>>, Below(v, x.path)
          PROVE  Stands(N, v)
      <3>1. x \in D /\ x.path \in Seq(Idents) /\ ~Below(u, x.path)
        BY <1>2, <1>3
      <3>2. ~Below(u, v)
        BY <1>1, <2>1, <3>1, BelowOrder
      <3>3. Stands(D, v)
        BY <2>1, <3>1 DEF Base, Housed
      <3> QED
        BY <1>4, <3>2, <3>3
    <2> QED
      BY <1>2, <2>1 DEF Base, Housed
  <1>6. Standing(N)
    <2>1. ASSUME NEW j \in Ops, NEW g \in ToSet(ops[j].secs) \cap Nodes("run")
          PROVE  EntryOf(g) \in N
      <3>1. EntryOf(g) \in D /\ g \in SomeNode
        BY DEF Base, Standing, SomeNode
      <3>2. EntryOf(g).path = PathOf(g) /\ PathOf(g) \in Seq(Idents)
        BY <3>1, NodeStock
      <3>3. OpOK(ops[j]) /\ ops[j].src \in SomeNode /\ HeadersOK(ops[j].secs, Over(ops[j].src))
            /\ At(ops[j]) \in Seq(Idents)
        BY FinalOps, OpHeld DEF OpOK
      <3>4. Below(PathOf(g), At(ops[j])) /\ PathOf(g) # At(ops[j])
        BY <3>1, <3>3, AboveOp
      <3>5. ASSUME Below(u, PathOf(g)) PROVE FALSE
        <4>1. Below(u, At(ops[j])) /\ (At(ops[j]) = u => FALSE)
          <5>1. Below(u, At(ops[j]))
            BY <1>1, <3>2, <3>3, <3>4, <3>5, BelowOrder
          <5>2. At(ops[j]) = u => PathOf(g) = u
            BY <1>1, <3>2, <3>4, <3>5, BelowOrder
          <5> QED
            BY <3>4, <5>1, <5>2
        <4>2. i = j
          BY <4>1, LandBelow DEF u, Reads
        <4> QED
          BY <4>1, <4>2 DEF u
      <3> QED
        BY <1>2, <3>1, <3>2, <3>5
    <2> QED
      BY <2>1 DEF Standing
  <1>7. ASSUME NEW v \in Shown \cap Wanted, ~Below(u, v) PROVE Stands(N, v)
    <2>1. Stands(D, v)
      BY DEF Base
    <2> QED
      BY <1>2, <1>7, <2>1 DEF Stands
  <1>8. ASSUME NEW j \in Ops \ (S \cup {i}), Reads(ops[j]) PROVE EntryOf(ops[j].run) \in N
    <2>1. EntryOf(ops[j].run) \in D
      BY <1>8 DEF Rest
    <2>2. OpOK(ops[j]) /\ ops[j].action \in {"modify", "replace"}
      BY <1>8, FinalOps DEF Reads
    <2>3. PathOf(ops[j].run) = At(ops[j]) /\ ops[j].run \in SomeNode
      BY <2>2, OpHeld DEF SomeNode
    <2>4. EntryOf(ops[j].run).path = At(ops[j])
      BY <2>3, NodeStock
    <2>5. ~Below(u, At(ops[j]))
      BY LandBelow DEF u, Reads
    <2> QED
      BY <1>2, <2>1, <2>4, <2>5
  <1>9. ASSUME NEW g \in Nodes("int"), Written(g, S), ~Below(u, PathOf(g))
        PROVE  EntryOf(g) \in N
    BY <1>2, <1>9, NodeStock DEF Rest, SomeNode
  <1>10. ASSUME NEW x \in N \ Entries(intended), NEW j \in S \cup {i}, Takes(ops[j], x.path)
         PROVE  FALSE
    <2>1. x \in D /\ ~Below(u, x.path)
      BY <1>2
    <2>2. CASE j \in S
      BY <1>10, <2>1, <2>2 DEF Rest
    <2>3. CASE j = i
      BY <1>1, <1>10, <2>1, <2>3 DEF Takes, Subtree, u
    <2> QED
      BY <2>2, <2>3
  <1> QED
    BY <1>5, <1>6, <1>7, <1>8, <1>9, <1>10 DEF Cleaned, N, u

\* A removal has done what it must when its line is cleared.
LEMMA RemoveKeeps ==
    ASSUME InputsOK, Tidy, Final, NEW D, NEW S, NEW i \in Ops, Cleaned(D, S, i),
           ops[i].action = "remove"
    PROVE  Base(D) /\ Rest(D, S \cup {i})
  <1> DEFINE u == At(ops[i])
  <1>1. OpOK(ops[i]) /\ u \in Seq(Idents) /\ u # <<>> /\ u = PathOf(ops[i].src)
    BY FinalOps, OpHeld
  <1>2. u \notin Wanted
    BY <1>1 DEF OpOK, Gone
  <1> HIDE DEF u
  <1>3. \A v \in Wanted : ~Below(u, v)
    BY <1>1, <1>2, PathsClosed DEF Wanted, Sides
  <1>4. \A j \in Ops, v \in Wanted : Brings(ops[j], v) => j # i
    BY DEF Brings
  <1>5. \A g \in Nodes("int") : PathOf(g) \in Wanted
    BY DEF Wanted, PathsOf
  <1>6. ASSUME NEW g \in Nodes("int"), Written(g, S \cup {i}) PROVE EntryOf(g) \in D
    <2>1. Written(g, S)
      BY <1>4, <1>5, <1>6 DEF Written
    <2> QED
      BY <1>3, <1>5, <2>1 DEF Cleaned, u
  <1>7. \A v \in Shown \cap Wanted : Stands(D, v)
    BY <1>3 DEF Cleaned, u
  <1>8. \A x \in D \ Entries(intended) : \A j \in S \cup {i} : ~Takes(ops[j], x.path)
    BY DEF Cleaned
  <1>9. Base(D)
    BY <1>7 DEF Base, Cleaned
  <1>10. \A j \in Ops \ (S \cup {i}) : Reads(ops[j]) => EntryOf(ops[j].run) \in D
    BY DEF Cleaned
  <1> QED
    BY <1>6, <1>8, <1>9, <1>10 DEF Rest

-----------------------------------------------------------------------------
(* Writing a line with what is below it.                                   *)

\* What is written for a line is the intended lines at its path and below.
LEMMA WholeLine ==
    ASSUME InputsOK, Tidy, NEW h \in Nodes("int"), NEW E, E = EntriesIn(h)
    PROVE  /\ E \subseteq Stock /\ E \subseteq Entries(intended)
           /\ \A e \in E : \E g \in Nodes("int") :
                e = EntryOf(g) /\ e.path = PathOf(g) /\ Below(PathOf(h), PathOf(g))
           /\ \A g \in Nodes("int") : Below(PathOf(h), PathOf(g)) => EntryOf(g) \in E
           /\ \A x, y \in E : x.path = y.path => x = y
  <1>1. E = {EntryOf(n) : n \in Sub(h)}
    BY DEF EntriesIn, EntryOf
  <1>2. Sub(h) = {g \in Nodes("int") : Below(PathOf(h), PathOf(g))}
    BY SubNodes DEF Sides
  <1>3. \A g \in Nodes("int") :
            EntryOf(g).path = PathOf(g) /\ EntryOf(g) \in Stock /\ EntryOf(g) \in Entries(intended)
    BY NodeStock DEF SomeNode
  <1>4. \A e \in E : \E g \in Nodes("int") :
            e = EntryOf(g) /\ e.path = PathOf(g) /\ Below(PathOf(h), PathOf(g))
    BY <1>1, <1>2, <1>3
  <1>5. \A f, g \in Nodes("int") : PathOf(f) = PathOf(g) => f = g
    BY PathOne DEF Sides
  <1> QED
    BY <1>1, <1>2, <1>3, <1>4, <1>5

\* What it clears is a running line that nothing wants, with a wanted line
\* that pushes it out.
LEMMA ClearedUnwanted ==
    ASSUME InputsOK, Tidy, NEW D, Housed(D), NEW h \in Nodes("int"),
           NEW r \in Cleared(D, EntriesIn(h))
    PROVE  /\ r \in D /\ r.path \notin Wanted
           /\ \E q \in Nodes("run"), n \in Nodes("int") : PathOf(q) = r.path /\ Ousts(n, q)
  <1> DEFINE E == EntriesIn(h)
  <1>1. r \in D /\ (\A f \in E : f.path # r.path) /\ \E e \in E : Displaces(e, r)
    BY DEF Cleared
  <1>2. PICK e \in E : Displaces(e, r)
    BY <1>1
  <1>3. PICK n \in Nodes("int") : e = EntryOf(n) /\ e.path = PathOf(n)
    BY <1>2, WholeLine
  <1>4. r \in Stock
    BY <1>1 DEF Housed
  <1>5. PICK q \in SomeNode : /\ r = EntryOf(q) /\ r.path = PathOf(q)
                              /\ r.path \notin Wanted => q \in Nodes("run")
    BY <1>4, StockNode
  <1>6. Ousts(n, q)
    BY <1>2, <1>3, <1>5 DEF Ousts
  <1>7. PathOf(q) # PathOf(n)
    BY <1>1, <1>2, <1>3, <1>5
  <1>8. r.path \notin Wanted
    BY <1>5, <1>6, <1>7, Pushed DEF Wanted, Sides
  <1> QED
    BY <1>1, <1>5, <1>6, <1>8

\* What remains when a line is written: wanted lines elsewhere, and running
\* lines that are in no one's place.
LEMMA PutLeaves ==
    ASSUME InputsOK, Tidy, NEW D, Housed(D), NEW h \in Nodes("int"), NEW N, N = Put(D, EntriesIn(h))
    PROVE  /\ \A x \in N : x \in EntriesIn(h)
                \/ /\ x \in D /\ (\A e \in EntriesIn(h) : e.path # x.path)
                   /\ \A r \in Cleared(D, EntriesIn(h)) : ~Below(r.path, x.path)
           /\ EntriesIn(h) \subseteq N
           /\ \A x \in D : x.path \in Wanted /\ ~Below(PathOf(h), x.path) => x \in N
           /\ \A x \in D : x.path \in Wanted => Stands(N, x.path)
           /\ \A g \in Nodes("run") : Gone(g) /\ EntryOf(g) \in D => EntryOf(g) \in N
  <1> DEFINE E == EntriesIn(h)
  <1>1. E \subseteq Stock
    BY WholeLine
  <1> HIDE DEF E
  <1>2. Put(D, E) = {x \in D : /\ \A e \in E : e.path # x.path
                               /\ \A r \in Cleared(D, E) : ~Below(r.path, x.path)} \cup E
    BY <1>1, PutIs
  <1>3. \A x : x \in N <=> \/ x \in E
                           \/ /\ x \in D /\ (\A e \in E : e.path # x.path)
                              /\ \A r \in Cleared(D, E) : ~Below(r.path, x.path)
    BY <1>2 DEF E
  <1>4. \A x \in D : x.path \in Seq(Idents) /\ x.path # <<>>
    BY StockNode DEF Housed
  <1>5. ASSUME NEW x \in D, x.path \in Wanted, NEW r \in Cleared(D, E)
        PROVE  ~Below(r.path, x.path)
    <2>1. r \in D /\ r.path \notin Wanted
      BY ClearedUnwanted DEF E
    <2> QED
      BY <1>4, <1>5, <2>1, PathsClosed DEF Wanted, Sides
  <1>6. \A e \in E : Below(PathOf(h), e.path)
    BY WholeLine DEF E
  <1>7. ASSUME NEW x \in D, x.path \in Wanted, ~Below(PathOf(h), x.path) PROVE x \in N
    BY <1>3, <1>5, <1>6, <1>7
  <1>8. ASSUME NEW x \in D, x.path \in Wanted PROVE Stands(N, x.path)
    <2>1. CASE \E e \in E : e.path = x.path
      BY <1>3, <2>1 DEF Stands
    <2>2. CASE \A e \in E : e.path # x.path
      BY <1>3, <1>5, <1>8, <2>2 DEF Stands
    <2> QED
      BY <2>1, <2>2
  <1>9. ASSUME NEW g \in Nodes("run"), Gone(g), EntryOf(g) \in D PROVE EntryOf(g) \in N
    <2>1. EntryOf(g).path = PathOf(g) /\ PathOf(g) \notin Wanted
      BY <1>9, NodeStock DEF SomeNode, Gone
    <2>2. \A e \in E : e.path \in Wanted
      BY WholeLine DEF E, Wanted, PathsOf
    <2>3. ASSUME NEW r \in Cleared(D, E), Below(r.path, PathOf(g)) PROVE FALSE
      <3>1. r.path \notin Wanted
        BY ClearedUnwanted DEF E
      <3>2. PICK q \in Nodes("run") : \E n \in Nodes("int") : PathOf(q) = r.path /\ Ousts(n, q)
        BY ClearedUnwanted DEF E
      <3> QED
        BY <1>9, <2>3, <3>1, <3>2 DEF Gone
    <2> QED
      BY <1>3, <1>9, <2>1, <2>2, <2>3
  <1> QED
    BY <1>3, <1>7, <1>8, <1>9 DEF E

\* One line to a path, below lines that are there.
LEMMA PutHoused ==
    ASSUME InputsOK, Tidy, NEW D, Housed(D), NEW h \in Nodes("int"), Over(h) \in Both,
           \A v \in Shown \cap Wanted : ~Below(PathOf(h), v) => Stands(D, v)
    PROVE  /\ Housed(Put(D, EntriesIn(h)))
           /\ \A v \in Shown \cap Wanted : Stands(Put(D, EntriesIn(h)), v)
  <1> DEFINE E == EntriesIn(h)
             N == Put(D, E)
  <1>1. /\ \A x \in N : x \in E \/ /\ x \in D /\ (\A e \in E : e.path # x.path)
                                   /\ \A r \in Cleared(D, E) : ~Below(r.path, x.path)
        /\ E \subseteq N
        /\ \A x \in D : x.path \in Wanted => Stands(N, x.path)
        /\ \A x : x \in D /\ (\A r \in Cleared(D, E) : ~Below(r.path, x.path))
            => Stands(N, x.path)
    <2>1. /\ \A x \in N : x \in E \/ /\ x \in D /\ (\A e \in E : e.path # x.path)
                                     /\ \A r \in Cleared(D, E) : ~Below(r.path, x.path)
          /\ E \subseteq N
          /\ \A x \in D : x.path \in Wanted => Stands(N, x.path)
      BY PutLeaves
    <2>2. E \subseteq Stock
      BY WholeLine
    <2>3. N = {x \in D : /\ \A e \in E : e.path # x.path
                         /\ \A r \in Cleared(D, E) : ~Below(r.path, x.path)} \cup E
      BY <2>2, PutIs
    <2> HIDE DEF N, E
    <2>4. ASSUME NEW x \in D, \A r \in Cleared(D, E) : ~Below(r.path, x.path)
          PROVE  Stands(N, x.path)
      BY <2>3, <2>4 DEF Stands
    <2> QED
      BY <2>1, <2>4
  <1>2. /\ E \subseteq Stock
        /\ \A e \in E : \E g \in Nodes("int") :
                e = EntryOf(g) /\ e.path = PathOf(g) /\ Below(PathOf(h), PathOf(g))
        /\ \A g \in Nodes("int") : Below(PathOf(h), PathOf(g)) => EntryOf(g) \in E
        /\ \A x, y \in E : x.path = y.path => x = y
    BY WholeLine
  <1>3. /\ PathOf(h) \in Seq(Idents) /\ PathOf(h) # <<>>
        /\ PathOf(h) = Append(Over(h), Id(h)) /\ Over(h) \in Seq(Idents) /\ Id(h) \in Idents
    BY NodeStock, NodeOver DEF SomeNode, Sides
  <1>4. \A g \in Nodes("int") : /\ EntryOf(g).path = PathOf(g) /\ PathOf(g) \in Wanted
                                /\ PathOf(g) \in Seq(Idents)
    BY NodeStock DEF SomeNode
  <1>5. \A x \in D : x.path \in Seq(Idents)
    BY StockNode DEF Housed
  <1>6. \A r \in Cleared(D, E) : r \in D
    BY DEF Cleared
  <1> HIDE DEF N, E
  \* A wanted path at h or below has its line among those written.
  <1>7. \A v \in Wanted : Below(PathOf(h), v) => Stands(N, v)
    <2>1. ASSUME NEW v \in Wanted, Below(PathOf(h), v) PROVE Stands(N, v)
      <3>1. PICK g \in Nodes("int") : v = PathOf(g)
        BY DEF Wanted, PathsOf
      <3> QED
        BY <1>1, <1>2, <1>4, <2>1, <3>1 DEF Stands
    <2> QED
      BY <2>1
  <1>8. \A v \in Shown \cap Wanted : Stands(N, v)
    <2>1. ASSUME NEW v \in Shown \cap Wanted, ~Below(PathOf(h), v) PROVE Stands(N, v)
      <3>1. PICK x \in D : x.path = v
        BY <2>1 DEF Stands
      <3> QED
        BY <1>1, <3>1
    <2> QED
      BY <1>7, <2>1
  <1>9. ASSUME NEW x \in N, NEW v \in Seq(Idents), v # <<>>, Below(v, x.path)
        PROVE  Stands(N, v)
    <2>1. CASE x \in E
      <3>1. PICK g \in Nodes("int") : x.path = PathOf(g) /\ Below(PathOf(h), PathOf(g))
        BY <1>2, <2>1
      <3>2. PathOf(g) \in Wanted /\ PathOf(g) \in Seq(Idents)
        BY <1>4
      <3>3. v \in Wanted
        BY <1>9, <3>1, <3>2, PathsClosed DEF Wanted, Sides
      <3>4. Below(v, PathOf(h)) \/ Below(PathOf(h), v)
        <4>1. /\ v \in Seq(Idents) /\ PathOf(h) \in Seq(Idents) /\ PathOf(g) \in Seq(Idents)
              /\ Below(v, PathOf(g)) /\ Below(PathOf(h), PathOf(g))
          BY <1>3, <1>9, <3>1, <3>2
        <4> QED
          BY <4>1, BelowOrder
      <3>5. CASE Below(PathOf(h), v)
        BY <1>7, <3>3, <3>5
      <3>6. CASE ~Below(PathOf(h), v)
        <4>1. Below(PathOf(h), PathOf(h))
          BY <1>3, BelowOrder
        <4>2. Below(v, Over(h)) \/ v = Append(Over(h), Id(h))
          BY <1>3, <1>9, <3>4, <3>6, BelowChild
        <4>3. Below(v, Over(h))
          BY <1>3, <3>6, <4>1, <4>2
        <4>4. Over(h) # <<>>
          <5>1. Len(v) <= Len(Over(h)) /\ Len(v) \in Nat
            BY <1>3, <1>9, <4>3, BelowIs
          <5>2. Len(v) # 0
            BY <1>9, EmptySeq
          <5> QED
            BY <5>1, <5>2
        <4>5. v \in Shown
          BY <1>9, <4>3, <4>4, PathsClosed DEF Both, Shown, Sides
        <4> QED
          BY <1>8, <3>3, <4>5
      <3> QED
        BY <3>5, <3>6
    <2>2. CASE x \in D /\ \A r \in Cleared(D, E) : ~Below(r.path, x.path)
      <3>1. PICK y \in D : y.path = v
        BY <1>9, <2>2 DEF Housed, Stands
      <3>2. ASSUME NEW r \in Cleared(D, E), Below(r.path, y.path) PROVE FALSE
        BY <1>5, <1>6, <1>9, <2>2, <3>1, <3>2, BelowOrder
      <3> QED
        BY <1>1, <3>1, <3>2
    <2> QED
      BY <1>1, <1>9, <2>1, <2>2
  <1>10. \A x, y \in N : x.path = y.path => x = y
    BY <1>1, <1>2 DEF Housed
  <1>11. N \subseteq Stock
    BY <1>1, <1>2 DEF Housed
  <1>12. Housed(N)
    BY <1>9, <1>10, <1>11 DEF Housed
  <1> QED
    BY <1>8, <1>12 DEF N, E

\* An operation that writes its line with what is below it.
LEMMA PutKeeps ==
    ASSUME InputsOK, Tidy, Final, NEW D, NEW S, NEW i \in Ops, Cleaned(D, S, i),
           ops[i].action \in {"add", "replace"}
    PROVE  /\ Base(Put(D, EntriesIn(ops[i].src)))
           /\ Rest(Put(D, EntriesIn(ops[i].src)), S \cup {i})
  <1> DEFINE o == ops[i]
             h == o.src
             u == At(o)
             E == EntriesIn(h)
             N == Put(D, E)
  <1>1. OpOK(o)
    BY FinalOps
  <1>2. h \in Nodes("int") /\ u = PathOf(h) /\ u \in Seq(Idents) /\ u # <<>>
        /\ OpLand(o) = Subtree(u) \cup Flipped(o) /\ Housed(D)
    <2>1. OpLand(o) = Subtree(u) \cup Flipped(o) /\ u = PathOf(h) /\ u \in Seq(Idents) /\ u # <<>>
      BY <1>1, OpHeld
    <2> QED
      BY <1>1, <2>1 DEF OpOK, Cleaned
  <1>3. Over(h) \in Both
    <2>1. CASE o.action = "add"
      BY <1>1, <2>1 DEF OpOK
    <2>2. CASE o.action = "replace"
      <3>1. o.run \in Nodes("run") /\ PathOf(o.run) = PathOf(h)
        BY <1>1, <1>2, <2>2 DEF OpOK
      <3>2. Over(h) = <<>> \/ Over(h) \in Wanted
        BY <1>2, NodeOver DEF Sides, Wanted
      <3>3. Over(o.run) = <<>> \/ Over(o.run) \in Shown
        BY <3>1, NodeOver DEF Sides, Shown
      <3>4. Over(o.run) = Over(h)
        BY <3>1 DEF Over
      <3> QED
        BY <3>2, <3>3, <3>4 DEF Both
    <2> QED
      BY <2>1, <2>2
  <1>4. Housed(N) /\ \A v \in Shown \cap Wanted : Stands(N, v)
    BY <1>2, <1>3, PutHoused DEF Cleaned
  <1>5. /\ \A x \in N : x \in E \/ /\ x \in D /\ (\A e \in E : e.path # x.path)
                                   /\ \A r \in Cleared(D, E) : ~Below(r.path, x.path)
        /\ E \subseteq N
        /\ \A x \in D : x.path \in Wanted /\ ~Below(u, x.path) => x \in N
        /\ \A g \in Nodes("run") : Gone(g) /\ EntryOf(g) \in D => EntryOf(g) \in N
    BY <1>2, PutLeaves
  <1>6. /\ E \subseteq Entries(intended)
        /\ \A e \in E : \E g \in Nodes("int") : e.path = PathOf(g)
        /\ \A g \in Nodes("int") : Below(u, PathOf(g)) => EntryOf(g) \in E
    BY <1>2, WholeLine
  <1>7. EntryOf(h) \in E
    BY <1>2, <1>6, BelowOrder
  <1> HIDE DEF N, E, u, h, o
  <1>8. Standing(N)
    <2>1. ASSUME NEW j \in Ops, NEW g \in ToSet(ops[j].secs) \cap Nodes("run")
          PROVE  EntryOf(g) \in N
      <3>1. EntryOf(g) \in D
        BY DEF Cleaned, Standing
      <3>2. OpOK(ops[j])
        BY FinalOps
      <3>3. Gone(g)
        BY <3>2 DEF OpOK, HeadersOK
      <3> QED
        BY <1>5, <3>1, <3>3
    <2> QED
      BY <2>1 DEF Standing
  <1>9. ASSUME NEW j \in Ops \ (S \cup {i}), Reads(ops[j]) PROVE EntryOf(ops[j].run) \in N
    <2>1. EntryOf(ops[j].run) \in D
      BY <1>9 DEF Cleaned
    <2>2. OpOK(ops[j]) /\ ops[j].action \in {"modify", "replace"}
      BY <1>9, FinalOps DEF Reads
    <2>3. /\ PathOf(ops[j].run) = At(ops[j]) /\ ops[j].run \in SomeNode
          /\ At(ops[j]) \in Wanted /\ At(ops[j]) \in Known /\ At(ops[j]) \in OpLand(ops[j])
      BY <2>2, OpHeld DEF SomeNode
    <2>4. EntryOf(ops[j].run).path = At(ops[j])
      BY <2>3, NodeStock
    <2>5. ASSUME Below(u, At(ops[j])) PROVE FALSE
      <3>1. At(ops[j]) \in OpLand(o)
        BY <1>2, <2>3, <2>5 DEF Subtree
      <3> QED
        BY <2>3, <3>1, FinalOps DEF o
    <2> QED
      BY <1>5, <2>1, <2>3, <2>4, <2>5
  <1>10. ASSUME NEW g \in Nodes("int"), Written(g, S \cup {i}) PROVE EntryOf(g) \in N
    <2>1. EntryOf(g).path = PathOf(g) /\ PathOf(g) \in Wanted
      BY NodeStock DEF SomeNode
    <2>2. CASE Below(u, PathOf(g))
      BY <1>5, <1>6, <2>2
    <2>3. CASE ~Below(u, PathOf(g))
      <3>1. ~Brings(o, PathOf(g))
        BY <2>3 DEF Brings, u
      <3>2. Written(g, S)
        BY <1>10, <3>1 DEF Written, o
      <3>3. EntryOf(g) \in D
        BY <2>3, <3>2 DEF Cleaned, u, o
      <3> QED
        BY <1>5, <2>1, <2>3, <3>3
    <2> QED
      BY <2>2, <2>3
  <1>11. ASSUME NEW x \in N \ Entries(intended), NEW j \in S \cup {i}, Takes(ops[j], x.path)
         PROVE  FALSE
    <2>1. x \in D /\ \A r \in Cleared(D, E) : ~Below(r.path, x.path)
      BY <1>5, <1>6, <1>11
    <2>2. j = i /\ o.action = "add" /\ Takes(o, x.path)
      BY <1>11, <2>1 DEF Cleaned, o
    <2>3. x.path \in Flipped(o)
      BY <2>2 DEF Takes
    <2>4. o.flip # Nil /\ Below(PathOf(o.flip), x.path)
      BY <2>3 DEF Flipped, Subtree
    <2>5. o.flip \in Nodes("run") /\ PathOf(o.flip) \notin Wanted /\ Ousts(h, o.flip)
      BY <1>1, <2>4 DEF OpOK, FlipOK, h
    <2>6. PathOf(o.flip) \in Seq(Idents) /\ PathOf(o.flip) # <<>> /\ o.flip \in SomeNode
      BY <2>5, NodeStock DEF SomeNode
    <2>7. PICK y \in D : y.path = PathOf(o.flip)
      BY <1>2, <2>1, <2>4, <2>6 DEF Housed, Stands
    <2>8. PICK q \in SomeNode : y = EntryOf(q) /\ y.path = PathOf(q)
      BY <1>2, <2>7, StockNode DEF Housed
    <2>9. Ousts(h, q)
      BY <1>2, <2>5, <2>6, <2>7, <2>8, OustsByPath DEF SomeNode
    <2>10. \A e \in E : e.path # y.path
      BY <1>6, <2>5, <2>7 DEF Wanted, PathsOf
    <2>11. y \in Cleared(D, E)
      BY <1>7, <2>7, <2>8, <2>9, <2>10 DEF Cleared, Ousts
    <2> QED
      BY <2>1, <2>4, <2>7, <2>11
  <1>12. Base(N)
    BY <1>4, <1>8 DEF Base
  <1>13. Rest(N, S \cup {i})
    BY <1>9, <1>10, <1>11 DEF Rest
  <1> QED
    BY <1>12, <1>13 DEF N, E, h, o

-----------------------------------------------------------------------------
(* Executing commands.                                                     *)

\* What the device holds after n commands.
ExecuteStep(F, D, cs, by, n) == IF n = 0 THEN D ELSE Execute(F[n - 1], cs[n], by)

\* A table of it exists for all commands.
LEMMA ExecuteTable ==
    ASSUME NEW X, NEW cs \in Seq(X), NEW D, NEW by
    PROVE  \E F : F = [n \in 0..Len(cs) |-> ExecuteStep(F, D, cs, by, n)]
  <1> DEFINE Table(m) == \E F : F = [n \in 0..m |-> ExecuteStep(F, D, cs, by, n)]
             T == {m \in Nat : Table(m)}
  <1>1. 0 \in T
    <2> DEFINE F == [n \in 0..0 |-> D]
    <2>1. F = [n \in 0..0 |-> ExecuteStep(F, D, cs, by, n)]
      BY DEF ExecuteStep
    <2> QED
      BY <2>1
  <1>2. ASSUME NEW m \in 0..(Len(cs) - 1), m \in T PROVE m + 1 \in T
    <2>1. PICK F : F = [n \in 0..m |-> ExecuteStep(F, D, cs, by, n)]
      BY <1>2
    <2> DEFINE G == [n \in 0..(m + 1) |->
                        IF n = m + 1 THEN ExecuteStep(F, D, cs, by, m + 1) ELSE F[n]]
    <2>2. m \in Nat
      OBVIOUS
    <2>3. ASSUME NEW n \in 0..(m + 1) PROVE G[n] = ExecuteStep(G, D, cs, by, n)
      <3>1. n # 0 => n - 1 \in 0..m /\ G[n - 1] = F[n - 1]
        BY <2>2
      <3>2. n # m + 1 => G[n] = ExecuteStep(F, D, cs, by, n)
        BY <2>1, <2>2
      <3>3. G[n] = ExecuteStep(F, D, cs, by, n)
        BY <3>2
      <3> HIDE DEF G
      <3> QED
        BY <3>1, <3>3 DEF ExecuteStep
    <2>4. G = [n \in 0..(m + 1) |-> ExecuteStep(G, D, cs, by, n)]
      <3>1. G = [n \in 0..(m + 1) |-> G[n]]
        OBVIOUS
      <3> HIDE DEF G
      <3> QED
        BY <2>3, <3>1
    <2>5. Table(m + 1)
      <3> HIDE DEF G
      <3> QED
        BY <2>4
    <2> QED
      BY <2>2, <2>5
  <1>3. Len(cs) \in Nat
    OBVIOUS
  <1>4. \A m \in 0..Len(cs) : m \in T
    <2> HIDE DEF T
    <2> QED
      BY <1>1, <1>2, <1>3, UpToInduction
  <1> QED
    BY <1>3, <1>4

\* And ExecuteAll is its last entry.
LEMMA ExecuteRuns ==
    ASSUME NEW X, NEW cs \in Seq(X), NEW D, NEW by
    PROVE  \E F : /\ ExecuteAll(D, cs, by) = F[Len(cs)]
                  /\ F[0] = D
                  /\ \A n \in 1..Len(cs) : F[n] = Execute(F[n - 1], cs[n], by)
  <1> DEFINE F == CHOOSE F : F = [n \in 0..Len(cs) |-> ExecuteStep(F, D, cs, by, n)]
  <1>1. F = [n \in 0..Len(cs) |-> ExecuteStep(F, D, cs, by, n)]
    BY ExecuteTable
  <1>2. ExecuteAll(D, cs, by) = F[Len(cs)]
    BY DEF ExecuteAll, ExecuteStep
  <1> HIDE DEF F
  <1>3. F[0] = D
    BY <1>1 DEF ExecuteStep
  <1>4. ASSUME NEW n \in 1..Len(cs) PROVE F[n] = Execute(F[n - 1], cs[n], by)
    <2>1. n \in 0..Len(cs) /\ n # 0
      OBVIOUS
    <2> QED
      BY <1>1, <2>1 DEF ExecuteStep
  <1> QED
    BY <1>2, <1>3, <1>4

\* One command.
LEMMA ExecuteOne ==
    ASSUME NEW D, NEW by, NEW c
    PROVE  ExecuteAll(D, <<c>>, by) = Execute(D, c, by)
  <1> DEFINE cs == <<c>>
  <1>1. cs \in Seq({c}) /\ Len(cs) = 1 /\ cs[1] = c
    OBVIOUS
  <1> HIDE DEF cs
  <1>2. PICK F : /\ ExecuteAll(D, cs, by) = F[Len(cs)]
                 /\ F[0] = D
                 /\ \A n \in 1..Len(cs) : F[n] = Execute(F[n - 1], cs[n], by)
    BY <1>1, ExecuteRuns
  <1>3. F[1] = Execute(F[0], cs[1], by)
    BY <1>1, <1>2
  <1> QED
    BY <1>1, <1>2, <1>3 DEF cs

\* Two commands.
LEMMA ExecuteTwo ==
    ASSUME NEW D, NEW by, NEW c, NEW d
    PROVE  ExecuteAll(D, <<c, d>>, by) = Execute(Execute(D, c, by), d, by)
  <1> DEFINE cs == <<c, d>>
  <1>1. cs \in Seq({c, d}) /\ Len(cs) = 2 /\ cs[1] = c /\ cs[2] = d
    OBVIOUS
  <1> HIDE DEF cs
  <1>2. PICK X : cs \in Seq(X)
    BY <1>1
  <1>3. PICK F : /\ ExecuteAll(D, cs, by) = F[Len(cs)]
                 /\ F[0] = D
                 /\ \A n \in 1..Len(cs) : F[n] = Execute(F[n - 1], cs[n], by)
    BY <1>2, ExecuteRuns
  <1>4. 1 \in 1..Len(cs) /\ 2 \in 1..Len(cs) /\ 1 - 1 = 0 /\ 2 - 1 = 1
    BY <1>1
  <1>5. F[1] = Execute(F[0], cs[1], by)
    BY <1>3, <1>4
  <1>6. F[2] = Execute(F[1], cs[2], by)
    BY <1>3, <1>4
  <1> QED
    BY <1>1, <1>3, <1>5, <1>6 DEF cs

\* Writing a line with what is below it.
LEMMA PutCmd ==
    ASSUME NEW D, NEW by, NEW h, NEW items
    PROVE  Execute(D, Cmd("put", h, items), by) = Put(D, EntriesIn(h))
  BY DEF Execute, Cmd

\* Writing a line.
LEMMA SetCmd ==
    ASSUME NEW D, NEW by, NEW h, NEW items
    PROVE  Execute(D, Cmd("set", h, items), by) = Put(D, {EntryOf(h)})
  BY DEF Execute, Cmd, EntryOf

\* Negating a line.
LEMMA NoCmd ==
    ASSUME NEW D, NEW by, NEW h, NEW items
    PROVE  Execute(D, Cmd("no", h, items), by) = No(D, EntryOf(h), by)
  BY DEF Execute, Cmd, EntryOf

\* Adding elements to a list.
LEMMA GrowCmd ==
    ASSUME NEW D, NEW by, NEW h, NEW items
    PROVE  Execute(D, Cmd("listadd", h, items), by) = EditList(D, h, "listadd", items)
  BY DEF Execute, Cmd

\* Taking elements from a list.
LEMMA ShrinkCmd ==
    ASSUME NEW D, NEW by, NEW h, NEW items
    PROVE  Execute(D, Cmd("listremove", h, items), by) = EditList(D, h, "listremove", items)
  BY DEF Execute, Cmd

\* The sections of an operation are opened one by one.
LEMMA OpenKeeps ==
    ASSUME InputsOK, Tidy, Final, NEW D, Base(D), NEW S, Rest(D, S),
           NEW i \in Ops, NEW hs \in Seq(SomeNode), ToSet(hs) \subseteq ToSet(ops[i].secs)
    PROVE  Base(Open(D, hs)) /\ Rest(Open(D, hs), S)
  <1> DEFINE cs == [k \in DOMAIN hs |-> Cmd("set", hs[k], <<>>)]
  <1>1. /\ Len(cs) = Len(hs) /\ Len(hs) \in Nat /\ DOMAIN hs = 1..Len(hs)
        /\ cs \in Seq({Cmd("set", h, <<>>) : h \in SomeNode})
    OBVIOUS
  <1>2. Open(D, hs) = ExecuteAll(D, cs, "slot")
    BY DEF Open
  <1>3. \A n \in 1..Len(hs) : cs[n] = Cmd("set", hs[n], <<>>) /\ hs[n] \in ToSet(ops[i].secs) \cap SomeNode
    <2>1. ASSUME NEW n \in 1..Len(hs) PROVE hs[n] \in ToSet(ops[i].secs) \cap SomeNode
      <3>1. hs[n] \in SomeNode
        OBVIOUS
      <3>2. hs[n] \in ToSet(hs)
        BY <1>1, Zenon DEF ToSet
      <3> QED
        BY <3>1, <3>2
    <2> QED
      BY <1>1, <2>1
  <1> HIDE DEF cs
  <1>4. PICK F : /\ ExecuteAll(D, cs, "slot") = F[Len(cs)]
                 /\ F[0] = D
                 /\ \A n \in 1..Len(cs) : F[n] = Execute(F[n - 1], cs[n], "slot")
    BY <1>1, ExecuteRuns
  <1> DEFINE T == {n \in Nat : Base(F[n]) /\ Rest(F[n], S)}
  <1>5. 0 \in T
    BY <1>4
  <1>6. ASSUME NEW n \in 0..(Len(hs) - 1), n \in T PROVE n + 1 \in T
    <2>1. n + 1 \in 1..Len(hs) /\ (n + 1) - 1 = n /\ n + 1 \in Nat
      BY <1>1
    <2>2. F[n + 1] = Execute(F[n], cs[n + 1], "slot")
      BY <1>1, <1>4, <2>1
    <2>3. cs[n + 1] = Cmd("set", hs[n + 1], <<>>) /\ hs[n + 1] \in ToSet(ops[i].secs) \cap SomeNode
      BY <1>3, <2>1
    <2> DEFINE h == hs[n + 1]
               E == F[n]
    <2>4. Base(E) /\ Rest(E, S)
      BY <1>6
    <2>5. F[n + 1] = Execute(E, Cmd("set", h, <<>>), "slot") /\ h \in ToSet(ops[i].secs) \cap SomeNode
      BY <2>2, <2>3
    <2> HIDE DEF h, E
    <2>7. F[n + 1] = Put(E, {EntryOf(h)})
      BY <2>5, SetCmd
    <2>6. Base(F[n + 1]) /\ Rest(F[n + 1], S)
      BY <2>4, <2>5, <2>7, HeaderKeeps
    <2> QED
      BY <2>1, <2>6
  <1>7. \A n \in 0..Len(hs) : n \in T
    <2> HIDE DEF T
    <2> QED
      BY <1>1, <1>5, <1>6, UpToInduction
  <1> QED
    BY <1>1, <1>2, <1>4, <1>7

-----------------------------------------------------------------------------
(* List edits.                                                             *)

\* A pair that is edited: one definition, and fields that differ in the list.
LEMMA DeltaMeans ==
    ASSUME InputsOK, Captures, NEW h \in Nodes("int"), NEW r \in Nodes("run"),
           ListChange(h, r) = "delta", NEW a, a = Schema[DefOf(h)].list
    PROVE  /\ a # "" /\ DefOf(h) = DefOf(r) /\ Line(h).block = Line(r).block
           /\ DOMAIN Line(h).f = DOMAIN Line(r).f /\ a \in DOMAIN Line(h).f
           /\ \A x \in DOMAIN Line(h).f \ {a} : Line(h).f[x] = Line(r).f[x]
           /\ IsSeq(Line(h).f[a]) /\ IsSeq(Line(r).f[a])
           /\ ToSet(Line(h).f[a]) # ToSet(Line(r).f[a])
  <1> DEFINE l == Line(h)
             m == Line(r)
  <1>1. /\ a # "" /\ l.def = m.def /\ l.block = m.block
        /\ \A x \in DOMAIN l.f \ {a} : l.f[x] = m.f[x]
        /\ ToSet(l.f[a]) # ToSet(m.f[a])
    <2>1. a = Schema[l.def].list
      BY DEF DefOf
    <2> HIDE DEF l, m
    <2> QED
      BY <2>1 DEF ListChange, l, m
  <1>2. /\ l = intended[h[2]] /\ m = running[r[2]]
        /\ h[2] \in DOMAIN intended /\ r[2] \in DOMAIN running
    BY NodeLine DEF Sides, Conf
  <1>3. DOMAIN l.f = DOMAIN m.f
    <2> DEFINE cs == <<running, intended>>
    <2>1. 1 \in DOMAIN cs /\ 2 \in DOMAIN cs /\ cs[1] = running /\ cs[2] = intended
      OBVIOUS
    <2> HIDE DEF cs
    <2>2. SameCaptures(cs)
      BY DEF Captures, cs
    <2>3. \A p \in DOMAIN intended, q \in DOMAIN running :
              intended[p].def = running[q].def => DOMAIN intended[p].f = DOMAIN running[q].f
      BY <2>1, <2>2 DEF SameCaptures
    <2> HIDE DEF l, m
    <2> QED
      BY <1>1, <1>2, <2>3
  <1>4. ASSUME NEW c, Configuration(c), NEW p \in DOMAIN c, Schema[c[p].def].list = a
        PROVE  a \in DOMAIN c[p].f /\ IsSeq(c[p].f[a])
    BY <1>1, <1>4 DEF Configuration, IsSeq
  <1>5. Configuration(intended) /\ Configuration(running)
    BY DEF InputsOK
  <1>6. Schema[l.def].list = a /\ Schema[m.def].list = a
    BY <1>1 DEF DefOf
  <1>7. a \in DOMAIN l.f /\ IsSeq(l.f[a]) /\ IsSeq(m.f[a])
    <2> HIDE DEF l, m
    <2> QED
      BY <1>2, <1>4, <1>5, <1>6
  <1> QED
    BY <1>1, <1>3, <1>7 DEF DefOf

\* The entry of a line of definition d at u with the list v.
Listed(u, d, g, a, b, v) ==
    [path |-> u, line |-> [def |-> d, f |-> [x \in DOMAIN g |-> IF x = a THEN v ELSE g[x]],
                           block |-> b]]

\* The list of an entry, and the entry with another one.
ListOf(x, a) == x.line.f[a]

Relisted(x, a, w) == [x EXCEPT !.line.f[a] = w]

\* An entry of this form with another list is of this form.
LEMMA ListedEdit ==
    ASSUME NEW u, NEW d, NEW g, NEW a, a \in DOMAIN g, NEW b, NEW v, NEW w
    PROVE  /\ Listed(u, d, g, a, b, v).path = u
           /\ ListOf(Listed(u, d, g, a, b, v), a) = v
           /\ Relisted(Listed(u, d, g, a, b, v), a, w) = Listed(u, d, g, a, b, w)
  <1> DEFINE F(z) == [x \in DOMAIN g |-> IF x = a THEN z ELSE g[x]]
             L(z) == [def |-> d, f |-> F(z), block |-> b]
             E(z) == [path |-> u, line |-> L(z)]
  <1>1. [F(v) EXCEPT ![a] = w] = F(w) /\ F(v)[a] = v
    OBVIOUS
  <1> HIDE DEF F
  <1>2. [L(v) EXCEPT !.f[a] = w] = L(w)
    <2>1. [L(v) EXCEPT !.f[a] = w] = [L(v) EXCEPT !.f = [F(v) EXCEPT ![a] = w]]
      OBVIOUS
    <2> QED
      BY <1>1, <2>1, OtherFields
  <1>3. L(v).f[a] = v
    BY <1>1
  <1> HIDE DEF L
  <1>4. [E(v) EXCEPT !.line.f[a] = w] = E(w)
    <2>1. [E(v) EXCEPT !.line.f[a] = w] = [E(v) EXCEPT !.line = [L(v) EXCEPT !.f[a] = w]]
      OBVIOUS
    <2>2. [E(v) EXCEPT !.line = L(w)] = E(w)
      OBVIOUS
    <2> QED
      BY <1>2, <2>1, <2>2
  <1>5. E(v).line.f[a] = v /\ E(v).path = u
    BY <1>3
  <1>6. \A z : Listed(u, d, g, a, b, z) = E(z)
    BY DEF Listed, L, F
  <1> HIDE DEF E
  <1> QED
    BY <1>4, <1>5, <1>6 DEF ListOf, Relisted

-----------------------------------------------------------------------------
(* An edited list is the intended one.                                     *)

\* B has nothing at the path of h, and a is the list of a line like g there.
ListSpot(h, B, a, g) ==
    /\ \A x \in B : x.path # PathOf(h)
    /\ a = Schema[DefOf(h)].list /\ a \in DOMAIN g

\* B and the entry of h with the list v.
Holding(h, B, a, g, d, b, v) == B \cup {Listed(PathOf(h), d, g, a, b, v)}

\* Elements are added to the list of the entry.
LEMMA ListGrows ==
    ASSUME NEW h, NEW B, NEW a, NEW g, ListSpot(h, B, a, g), NEW d, NEW b, NEW v, NEW items, NEW by
    PROVE  Execute(Holding(h, B, a, g, d, b, v), Cmd("listadd", h, items), by)
            = Holding(h, B, a, g, d, b, v \cup ToSet(items))
  <1> DEFINE y == Listed(PathOf(h), d, g, a, b, v)
             z == Listed(PathOf(h), d, g, a, b, v \cup ToSet(items))
             X == B \cup {y}
             u == PathOf(h)
  <1>a. (\A x \in B : x.path # u) /\ a = Schema[DefOf(h)].list /\ a \in DOMAIN g
    BY DEF ListSpot
  <1>b. y.path = u /\ ListOf(y, a) = v /\ Relisted(y, a, v \cup ToSet(items)) = z
    BY <1>a, ListedEdit
  <1>c. X = B \cup {y} /\ u = PathOf(h)
    OBVIOUS
  <1>d. Holding(h, B, a, g, d, b, v) = X
    BY DEF Holding
  <1>e. Holding(h, B, a, g, d, b, v \cup ToSet(items)) = B \cup {z}
    BY DEF Holding
  <1> HIDE DEF y, z, X, u
  <1> DEFINE Edit(x) == IF x.path # u THEN x ELSE Relisted(x, a, ListOf(x, a) \cup ToSet(items))
  <1>1. EditList(X, h, "listadd", items) = {Edit(x) : x \in X}
    BY <1>a, <1>c DEF EditList, Relisted, ListOf
  <1>2. \A x \in B : Edit(x) = x
    BY <1>a
  <1>3. Edit(y) = z
    BY <1>b
  <1> HIDE DEF Edit
  <1>4. {Edit(x) : x \in X} = B \cup {z}
    <2>1. ASSUME NEW w \in {Edit(x) : x \in X} PROVE w \in B \cup {z}
      <3>1. PICK x \in X : w = Edit(x)
        BY <2>1
      <3> QED
        BY <1>2, <1>3, <1>c, <3>1
    <2>2. ASSUME NEW w \in B PROVE w \in {Edit(x) : x \in X}
      <3>1. w \in X /\ w = Edit(w)
        BY <1>2, <1>c
      <3> QED
        BY <3>1
    <2>3. z \in {Edit(x) : x \in X}
      <3>1. y \in X
        BY <1>c
      <3> QED
        BY <1>3, <3>1
    <2> QED
      BY <2>1, <2>2, <2>3
  <1>5. Execute(X, Cmd("listadd", h, items), by) = EditList(X, h, "listadd", items)
    BY GrowCmd
  <1> QED
    BY <1>1, <1>4, <1>5, <1>d, <1>e

\* Elements are taken from it.
LEMMA ListShrinks ==
    ASSUME NEW h, NEW B, NEW a, NEW g, ListSpot(h, B, a, g), NEW d, NEW b, NEW v, NEW items, NEW by
    PROVE  Execute(Holding(h, B, a, g, d, b, v), Cmd("listremove", h, items), by)
            = Holding(h, B, a, g, d, b, v \ ToSet(items))
  <1> DEFINE y == Listed(PathOf(h), d, g, a, b, v)
             z == Listed(PathOf(h), d, g, a, b, v \ ToSet(items))
             X == B \cup {y}
             u == PathOf(h)
  <1>a. (\A x \in B : x.path # u) /\ a = Schema[DefOf(h)].list /\ a \in DOMAIN g
    BY DEF ListSpot
  <1>b. y.path = u /\ ListOf(y, a) = v /\ Relisted(y, a, v \ ToSet(items)) = z
    BY <1>a, ListedEdit
  <1>c. X = B \cup {y} /\ u = PathOf(h)
    OBVIOUS
  <1>d. Holding(h, B, a, g, d, b, v) = X
    BY DEF Holding
  <1>e. Holding(h, B, a, g, d, b, v \ ToSet(items)) = B \cup {z}
    BY DEF Holding
  <1> HIDE DEF y, z, X, u
  <1> DEFINE Edit(x) == IF x.path # u THEN x ELSE Relisted(x, a, ListOf(x, a) \ ToSet(items))
  <1>1. EditList(X, h, "listremove", items) = {Edit(x) : x \in X}
    BY <1>a, <1>c DEF EditList, Relisted, ListOf
  <1>2. \A x \in B : Edit(x) = x
    BY <1>a
  <1>3. Edit(y) = z
    BY <1>b
  <1> HIDE DEF Edit
  <1>4. {Edit(x) : x \in X} = B \cup {z}
    <2>1. ASSUME NEW w \in {Edit(x) : x \in X} PROVE w \in B \cup {z}
      <3>1. PICK x \in X : w = Edit(x)
        BY <2>1
      <3> QED
        BY <1>2, <1>3, <1>c, <3>1
    <2>2. ASSUME NEW w \in B PROVE w \in {Edit(x) : x \in X}
      <3>1. w \in X /\ w = Edit(w)
        BY <1>2, <1>c
      <3> QED
        BY <3>1
    <2>3. z \in {Edit(x) : x \in X}
      <3>1. y \in X
        BY <1>c
      <3> QED
        BY <1>3, <3>1
    <2> QED
      BY <2>1, <2>2, <2>3
  <1>5. Execute(X, Cmd("listremove", h, items), by) = EditList(X, h, "listremove", items)
    BY ShrinkCmd
  <1> QED
    BY <1>1, <1>4, <1>5, <1>d, <1>e

\* The elements that one list has and the other has not.
LEMMA LackingIs ==
    ASSUME NEW v, IsSeq(v), NEW w, NEW s, s = Lacking(v, w)
    PROVE  /\ ToSet(s) = ToSet(v) \ ToSet(w)
           /\ s = <<>> <=> ToSet(v) \subseteq ToSet(w)
  <1> DEFINE T == ToSet(v) \ ToSet(w)
  <1> HIDE DEF T
  <1>1. v \in Seq(ToSet(v))
    BY DEF IsSeq
  <1>2. s = Only(v, T)
    BY DEF Lacking, T
  <1>3. s \in Seq(ToSet(v)) /\ ToSet(s) = ToSet(v) \cap T
    BY <1>1, <1>2, OnlyElements
  <1>4. ASSUME s # <<>> PROVE s[1] \in ToSet(s)
    <2>1. 1 \in DOMAIN s
      BY <1>3, <1>4
    <2> QED
      BY <2>1, Zenon DEF ToSet
  <1>5. ASSUME s = <<>> PROVE ToSet(s) = {}
    BY <1>5 DEF ToSet
  <1> QED
    BY <1>3, <1>4, <1>5 DEF T

\* Two parts of which one may be left out.
LEMMA OneOfTwo ==
    ASSUME NEW c, NEW d
    PROVE  /\ <<>> \o <<d>> = <<d>>
           /\ <<c>> \o <<>> = <<c>>
           /\ <<c>> \o <<d>> = <<c, d>>
  <1>1. <<>> \o <<d>> = <<d>> /\ <<c>> \o <<>> = <<c>>
    OBVIOUS
  <1> DEFINE S == {c, d}
             s == <<c>>
             t == <<d>>
             q == <<c, d>>
  <1>2. s \in Seq(S) /\ t \in Seq(S) /\ q \in Seq(S)
    OBVIOUS
  <1>3. Len(s) = 1 /\ Len(t) = 1 /\ Len(q) = 2 /\ s[1] = c /\ t[1] = d /\ q[1] = c /\ q[2] = d
    OBVIOUS
  <1> HIDE DEF S, s, t, q
  <1>4. /\ s \o t \in Seq(S)
        /\ Len(s \o t) = 2 /\ (s \o t)[1] = c /\ (s \o t)[2] = d
    BY <1>2, <1>3, ConcatProperties
  <1>5. s \o t = q
    BY <1>2, <1>3, <1>4, SeqEqual
  <1> QED
    BY <1>1, <1>5 DEF s, t, q

\* What an edit takes from the list and what it adds.
TakenOff(o) ==
    LET a == Schema[DefOf(o.src)].list IN Lacking(Line(o.run).f[a], Line(o.src).f[a])

PutOn(o) ==
    LET a == Schema[DefOf(o.src)].list IN Lacking(Line(o.src).f[a], Line(o.run).f[a])

OffCmd(o) == Cmd("listremove", o.src, TakenOff(o))

OnCmd(o) == Cmd("listadd", o.src, PutOn(o))

\* The commands of an edit.
LEMMA DeltaParts ==
    ASSUME NEW o
    PROVE  /\ TakenOff(o) = <<>> /\ PutOn(o) # <<>> => DeltaCmds(o) = <<OnCmd(o)>>
           /\ TakenOff(o) # <<>> /\ PutOn(o) = <<>> => DeltaCmds(o) = <<OffCmd(o)>>
           /\ TakenOff(o) # <<>> /\ PutOn(o) # <<>> => DeltaCmds(o) = <<OffCmd(o), OnCmd(o)>>
  <1> DEFINE off == TakenOff(o)
             on == PutOn(o)
             no == OffCmd(o)
             yes == OnCmd(o)
  <1>1. DeltaCmds(o) = (IF off = <<>> THEN <<>> ELSE <<no>>) \o (IF on = <<>> THEN <<>> ELSE <<yes>>)
    BY DEF DeltaCmds, TakenOff, PutOn, OffCmd, OnCmd
  <1> HIDE DEF off, on, no, yes
  <1>2. CASE off = <<>> /\ on # <<>>
    <2>1. DeltaCmds(o) = <<>> \o <<yes>>
      BY <1>1, <1>2, Zenon
    <2>2. <<>> \o <<yes>> = <<yes>>
      BY OneOfTwo, Zenon
    <2> QED
      BY <1>2, <2>1, <2>2 DEF off, on, no, yes
  <1>3. CASE off # <<>> /\ on = <<>>
    <2>1. DeltaCmds(o) = <<no>> \o <<>>
      BY <1>1, <1>3, Zenon
    <2>2. <<no>> \o <<>> = <<no>>
      BY OneOfTwo, Zenon
    <2> QED
      BY <1>3, <2>1, <2>2 DEF off, on, no, yes
  <1>4. CASE off # <<>> /\ on # <<>>
    <2>1. DeltaCmds(o) = <<no>> \o <<yes>>
      BY <1>1, <1>4, Zenon
    <2>2. <<no>> \o <<yes>> = <<no, yes>>
      BY OneOfTwo, Zenon
    <2> QED
      BY <1>4, <2>1, <2>2 DEF off, on, no, yes
  <1> QED
    BY <1>2, <1>3, <1>4 DEF off, on, no, yes

\* The list of the running line, and of the intended one.
ListBefore(o) == Line(o.run).f[Schema[DefOf(o.src)].list]

ListAfter(o) == Line(o.src).f[Schema[DefOf(o.src)].list]

\* The commands of an edit turn one list into the other.
LEMMA DeltaRuns ==
    ASSUME NEW o, NEW B, NEW a, NEW g, ListSpot(o.src, B, a, g), NEW d, NEW b,
           IsSeq(ListBefore(o)), IsSeq(ListAfter(o)), ToSet(ListAfter(o)) # ToSet(ListBefore(o)), NEW by
    PROVE  ExecuteAll(Holding(o.src, B, a, g, d, b, ToSet(ListBefore(o))), DeltaCmds(o), by)
            = Holding(o.src, B, a, g, d, b, ToSet(ListAfter(o)))
  <1> DEFINE h == o.src
             new == ListAfter(o)
             old == ListBefore(o)
             off == TakenOff(o)
             on == PutOn(o)
             no == OffCmd(o)
             yes == OnCmd(o)
             H(v) == Holding(h, B, a, g, d, b, v)
             D == H(ToSet(old))
  <1>2. /\ off = Lacking(old, new) /\ on = Lacking(new, old)
        /\ no = Cmd("listremove", h, off) /\ yes = Cmd("listadd", h, on)
    BY DEF TakenOff, PutOn, OffCmd, OnCmd, ListBefore, ListAfter
  <1>0. IsSeq(new) /\ IsSeq(old) /\ ToSet(new) # ToSet(old)
    OBVIOUS
  <1> HIDE DEF off, on, no, yes
  <1>3. \A v : Execute(H(v), no, by) = H(v \ ToSet(off))
    BY <1>2, ListShrinks
  <1>4. \A v : Execute(H(v), yes, by) = H(v \cup ToSet(on))
    BY <1>2, ListGrows
  <1>5. D = H(ToSet(old))
    OBVIOUS
  <1>6. SUFFICES ExecuteAll(D, DeltaCmds(o), by) = H(ToSet(new))
    OBVIOUS
  <1> HIDE DEF H, D, new, old
  <1>7. /\ ToSet(off) = ToSet(old) \ ToSet(new)
        /\ off = <<>> <=> ToSet(old) \subseteq ToSet(new)
    BY <1>0, <1>2, LackingIs
  <1>8. /\ ToSet(on) = ToSet(new) \ ToSet(old)
        /\ on = <<>> <=> ToSet(new) \subseteq ToSet(old)
    BY <1>0, <1>2, LackingIs
  <1>9. /\ off = <<>> /\ on # <<>> => DeltaCmds(o) = <<yes>>
        /\ off # <<>> /\ on = <<>> => DeltaCmds(o) = <<no>>
        /\ off # <<>> /\ on # <<>> => DeltaCmds(o) = <<no, yes>>
    BY DeltaParts DEF off, on, no, yes
  <1>10. CASE off = <<>> /\ on # <<>>
    <2>1. ToSet(old) \cup ToSet(on) = ToSet(new)
      BY <1>0, <1>7, <1>8, <1>10
    <2>2. ExecuteAll(D, <<yes>>, by) = Execute(D, yes, by)
      BY ExecuteOne
    <2> QED
      BY <1>4, <1>5, <1>9, <1>10, <2>1, <2>2
  <1>11. CASE off # <<>> /\ on = <<>>
    <2>1. ToSet(old) \ ToSet(off) = ToSet(new)
      BY <1>7, <1>8, <1>11
    <2>2. ExecuteAll(D, <<no>>, by) = Execute(D, no, by)
      BY ExecuteOne
    <2> QED
      BY <1>3, <1>5, <1>9, <1>11, <2>1, <2>2
  <1>12. CASE off # <<>> /\ on # <<>>
    <2>1. (ToSet(old) \ ToSet(off)) \cup ToSet(on) = ToSet(new)
      BY <1>7, <1>8
    <2>2. ExecuteAll(D, <<no, yes>>, by) = Execute(Execute(D, no, by), yes, by)
      BY ExecuteTwo
    <2>3. Execute(D, no, by) = H(ToSet(old) \ ToSet(off))
      BY <1>3, <1>5
    <2>4. Execute(Execute(D, no, by), yes, by) = H((ToSet(old) \ ToSet(off)) \cup ToSet(on))
      BY <1>4, <2>3
    <2> QED
      BY <1>9, <1>12, <2>1, <2>2, <2>4
  <1>13. off # <<>> \/ on # <<>>
    BY <1>0, <1>7, <1>8
  <1> QED
    BY <1>10, <1>11, <1>12, <1>13

\* The entry of a line whose definition has a list a.
LEMMA ListedEntry ==
    ASSUME InputsOK, NEW h \in SomeNode, NEW a, a = Schema[DefOf(h)].list, a # "", NEW g,
           DOMAIN g = DOMAIN Line(h).f, \A x \in DOMAIN g \ {a} : g[x] = Line(h).f[x]
    PROVE  EntryOf(h) = Listed(PathOf(h), DefOf(h), g, a, Line(h).block, ToSet(Line(h).f[a]))
  <1> DEFINE d == DefOf(h)
             f == Line(h).f
             b == Line(h).block
             F == [x \in DOMAIN f |-> IF x = Schema[d].list THEN ToSet(f[x]) ELSE f[x]]
             G == [x \in DOMAIN g |-> IF x = a THEN ToSet(f[a]) ELSE g[x]]
  <1>1. Line(h) = [def |-> d, f |-> f, block |-> b] /\ EntryOf(h) = [path |-> PathOf(h), line |-> Normal(Line(h))]
    BY NodeLine, NodeEntry DEF DefOf, SomeNode, Sides
  <1>2. Listed(PathOf(h), d, g, a, b, ToSet(f[a])) = [path |-> PathOf(h), line |-> [def |-> d, f |-> G, block |-> b]]
    BY DEF Listed
  <1>3. F = G
    OBVIOUS
  <1>4. Schema[d].list # ""
    OBVIOUS
  <1>5. Normal([def |-> d, f |-> f, block |-> b]) = [def |-> d, f |-> F, block |-> b]
    BY <1>4, NormalList, Zenon
  <1> HIDE DEF d, f, b, F, G
  <1> QED
    BY <1>1, <1>2, <1>3, <1>5 DEF d, f, b

\* The commands of an edit leave the intended line where the running one was.
LEMMA DeltaIs ==
    ASSUME InputsOK, Captures, NEW o, o.src \in Nodes("int"), o.run \in Nodes("run"),
           ListChange(o.src, o.run) = "delta", PathOf(o.run) = PathOf(o.src),
           NEW D, Housed(D), EntryOf(o.run) \in D, NEW by
    PROVE  ExecuteAll(D, DeltaCmds(o), by) = Swap(D, o.src)
  <1> DEFINE h == o.src
             r == o.run
             a == Schema[DefOf(h)].list
             u == PathOf(h)
             g == Line(h).f
             d == DefOf(h)
             b == Line(h).block
             new == Line(h).f[a]
             old == Line(r).f[a]
             B == {x \in D : x.path # u}
  <1>1. /\ a # "" /\ DefOf(h) = DefOf(r) /\ Line(h).block = Line(r).block
        /\ DOMAIN Line(h).f = DOMAIN Line(r).f /\ a \in DOMAIN Line(h).f
        /\ \A x \in DOMAIN Line(h).f \ {a} : Line(h).f[x] = Line(r).f[x]
        /\ IsSeq(Line(h).f[a]) /\ IsSeq(Line(r).f[a])
        /\ ToSet(Line(h).f[a]) # ToSet(Line(r).f[a])
    BY DeltaMeans, ZenonT(60)
  <1>2. h \in SomeNode /\ r \in SomeNode
    BY DEF SomeNode, Sides
  <1>3. EntryOf(h) = Listed(PathOf(h), DefOf(h), g, a, Line(h).block, ToSet(new))
    <2>1. DOMAIN g = DOMAIN Line(h).f /\ (\A x \in DOMAIN g \ {a} : g[x] = Line(h).f[x])
      OBVIOUS
    <2> HIDE DEF g
    <2> QED
      BY <1>1, <1>2, <2>1, ListedEntry, ZenonT(60)
  <1>4. EntryOf(r) = Listed(PathOf(r), DefOf(r), g, a, Line(r).block, ToSet(old))
    <2>1. DOMAIN g = DOMAIN Line(r).f /\ (\A x \in DOMAIN g \ {a} : g[x] = Line(r).f[x])
      BY <1>1
    <2>2. a = Schema[DefOf(r)].list
      BY <1>1
    <2> HIDE DEF g, a
    <2> QED
      BY <1>1, <1>2, <2>1, <2>2, ListedEntry, ZenonT(60)
  <1>5. \A x \in D : x.path = u => x = EntryOf(r)
    <2>1. EntryOf(r).path = u
      BY <1>2, NodeStock
    <2> QED
      BY <2>1 DEF Housed
  <1>6. D = B \cup {EntryOf(r)} /\ Swap(D, h) = B \cup {EntryOf(h)} /\ \A x \in B : x.path # u
    BY <1>5 DEF Swap
  <1>7. ListSpot(h, B, a, g)
    BY <1>1, <1>6 DEF ListSpot
  <1>8. ExecuteAll(Holding(h, B, a, g, d, b, ToSet(old)), DeltaCmds(o), by)
            = Holding(h, B, a, g, d, b, ToSet(new))
    <2>1. ToSet(new) = ToSet(ListAfter(o)) /\ ToSet(old) = ToSet(ListBefore(o))
      BY DEF ListAfter, ListBefore
    <2>2. IsSeq(ListAfter(o)) /\ IsSeq(ListBefore(o)) /\ ToSet(ListAfter(o)) # ToSet(ListBefore(o))
      BY <1>1 DEF ListAfter, ListBefore
    <2> HIDE DEF B, a, g, d, b, new, old
    <2>3. ExecuteAll(Holding(h, B, a, g, d, b, ToSet(ListBefore(o))), DeltaCmds(o), by)
            = Holding(h, B, a, g, d, b, ToSet(ListAfter(o)))
      BY <1>7, <2>2, DeltaRuns
    <2> QED
      BY <2>1, <2>3
  <1>9. D = Holding(h, B, a, g, d, b, ToSet(old))
    <2>1. EntryOf(r) = Listed(PathOf(h), d, g, a, b, ToSet(old))
      BY <1>1, <1>4
    <2> HIDE DEF B
    <2> QED
      BY <1>6, <2>1 DEF Holding
  <1>10. Swap(D, h) = Holding(h, B, a, g, d, b, ToSet(new))
    <2> HIDE DEF B
    <2> QED
      BY <1>3, <1>6 DEF Holding
  <1> HIDE DEF B, a, g, d, b, new, old
  <1> QED
    BY <1>8, <1>9, <1>10 DEF h

-----------------------------------------------------------------------------
(* Executing an operation.                                                 *)

\* What an operation is, by its action.
LEMMA OpMeans ==
    ASSUME NEW o, OpOK(o)
    PROVE  /\ o.action = "add" => o.cmds = <<Cmd("put", o.src, <<>>)>>
           /\ o.action = "replace" => o.cmds = <<Cmd("no", o.run, <<>>), Cmd("put", o.src, <<>>)>>
           /\ o.action = "remove" =>
                o.cmds = <<Cmd("no", o.src, <<>>)>> /\ o.src \in Nodes("run") /\ Gone(o.src)
           /\ o.action = "modify" =>
                \/ o.cmds = <<Cmd("set", o.src, <<>>)>>
                \/ /\ o.cmds = DeltaCmds(o) /\ ListChange(o.src, o.run) = "delta"
                   /\ ~IsSection(DefOf(o.src))
           /\ o.action \in {"add", "modify", "replace", "remove"}
  BY DEF OpOK

\* The running line that an operation reads is what stands at its path.
LEMMA ReadStands ==
    ASSUME InputsOK, Tidy, Final, NEW D, Base(D), NEW S, Rest(D, S), NEW i \in Ops \ S,
           Reads(ops[i])
    PROVE  /\ EntryOf(ops[i].run) \in D /\ ops[i].run \in SomeNode
           /\ PathOf(ops[i].run) = At(ops[i]) /\ Firm(ops[i].run)
           /\ \A x \in D : x.path = PathOf(ops[i].run) => x = EntryOf(ops[i].run)
  <1> DEFINE o == ops[i]
             r == o.run
  <1>1. OpOK(o)
    BY FinalOps
  <1>2. o.action \in {"modify", "replace"}
    BY DEF Reads
  <1>3. EntryOf(r) \in D
    BY DEF Rest
  <1> HIDE DEF o
  <1>4. r \in Nodes("run") /\ PathOf(r) = At(o) /\ At(o) \in Shown /\ At(o) \in Wanted
    BY <1>1, <1>2, OpHeld
  <1>5. r \in SomeNode
    BY <1>4, NodeLine DEF Sides
  <1>6. EntryOf(r).path = PathOf(r)
    BY <1>5, NodeStock
  <1>7. Firm(r)
    BY <1>4, <1>5, FirmBoth
  <1>8. \A x \in D : x.path = PathOf(r) => x = EntryOf(r)
    BY <1>3, <1>6 DEF Base, Housed
  <1> QED
    BY <1>3, <1>4, <1>5, <1>7, <1>8 DEF o

\* What stands at the path of a running line that goes is that line.
LEMMA GoneStands ==
    ASSUME InputsOK, Tidy, NEW D, Housed(D), NEW g \in Nodes("run"), Gone(g)
    PROVE  \A x \in D : x.path = PathOf(g) => x = EntryOf(g)
  <1> SUFFICES ASSUME NEW x \in D, x.path = PathOf(g)
               PROVE  x = EntryOf(g)
    OBVIOUS
  <1>1. x \in Stock
    BY DEF Housed
  <1>2. PathOf(g) \notin Wanted
    BY DEF Gone
  <1>3. PICK q \in SomeNode :
            /\ x = EntryOf(q) /\ x.path = PathOf(q)
            /\ x \notin Entries(intended) \/ x.path \notin Wanted => q \in Nodes("run")
    BY <1>1, StockNode
  <1>4. q \in Nodes("run")
    BY <1>2, <1>3
  <1>5. q = g
    BY <1>3, <1>4, PathOne DEF Sides
  <1> QED
    BY <1>3, <1>5

\* An added line is written with what is below it.
LEMMA ExecuteAdd ==
    ASSUME InputsOK, Tidy, Final, NEW D, Base(D), NEW S, Rest(D, S), NEW i \in Ops \ S,
           ops[i].action = "add", NEW by, NEW N, N = ExecuteAll(D, ops[i].cmds, by)
    PROVE  Base(N) /\ Rest(N, S \cup {i})
  <1>1. OpOK(ops[i])
    BY FinalOps
  <1>2. N = Put(D, EntriesIn(ops[i].src))
    <2>1. ops[i].cmds = <<Cmd("put", ops[i].src, <<>>)>>
      BY <1>1, OpMeans
    <2> DEFINE c == Cmd("put", ops[i].src, <<>>)
    <2>2. ExecuteAll(D, <<c>>, by) = Execute(D, c, by)
      BY ExecuteOne
    <2>3. Execute(D, c, by) = Put(D, EntriesIn(ops[i].src))
      BY PutCmd
    <2> HIDE DEF c
    <2> QED
      BY <2>1, <2>2, <2>3 DEF c
  <1>3. Cleaned(D, S, i)
    BY AddClean
  <1> QED
    BY <1>2, <1>3, PutKeeps

\* A replaced line is cleared first.
LEMMA ExecuteReplace ==
    ASSUME InputsOK, Tidy, Final, NEW D, Base(D), NEW S, Rest(D, S), NEW i \in Ops \ S,
           ops[i].action = "replace", NEW by \in {"slot", "line"},
           NEW N, N = ExecuteAll(D, ops[i].cmds, by)
    PROVE  Base(N) /\ Rest(N, S \cup {i})
  <1>1. OpOK(ops[i])
    BY FinalOps
  <1>2. No(D, EntryOf(ops[i].run), by) = Cut(D, At(ops[i]))
    <2>1. Reads(ops[i]) /\ Housed(D)
      BY DEF Reads, Base
    <2>2. /\ ops[i].run \in SomeNode /\ PathOf(ops[i].run) = At(ops[i]) /\ Firm(ops[i].run)
          /\ \A x \in D : x.path = PathOf(ops[i].run) => x = EntryOf(ops[i].run)
      BY <2>1, ReadStands
    <2> DEFINE r == ops[i].run
    <2> HIDE DEF r
    <2>3. No(D, EntryOf(r), by) = Cut(D, PathOf(r))
      BY <2>1, <2>2, NoFirm DEF r
    <2> QED
      BY <2>2, <2>3 DEF r
  <1>3. N = Put(Cut(D, At(ops[i])), EntriesIn(ops[i].src))
    <2>1. ops[i].cmds = <<Cmd("no", ops[i].run, <<>>), Cmd("put", ops[i].src, <<>>)>>
      BY <1>1, OpMeans
    <2> DEFINE c == Cmd("no", ops[i].run, <<>>)
               d == Cmd("put", ops[i].src, <<>>)
               M == Cut(D, At(ops[i]))
    <2>2. ExecuteAll(D, <<c, d>>, by) = Execute(Execute(D, c, by), d, by)
      BY ExecuteTwo
    <2>3. Execute(D, c, by) = No(D, EntryOf(ops[i].run), by)
      BY NoCmd
    <2>4. Execute(M, d, by) = Put(M, EntriesIn(ops[i].src))
      BY PutCmd
    <2>5. ops[i].cmds = <<c, d>> /\ M = Cut(D, At(ops[i]))
      BY <2>1
    <2> HIDE DEF c, d, M
    <2> QED
      BY <1>2, <2>2, <2>3, <2>4, <2>5
  <1>4. Cleaned(Cut(D, At(ops[i])), S, i)
    BY CutKeeps
  <1> QED
    BY <1>3, <1>4, PutKeeps

\* A removed line is cleared.
LEMMA ExecuteRemove ==
    ASSUME InputsOK, Tidy, Final, NEW D, Base(D), NEW S, Rest(D, S), NEW i \in Ops \ S,
           ops[i].action = "remove", NEW by \in {"slot", "line"},
           NEW N, N = ExecuteAll(D, ops[i].cmds, by)
    PROVE  Base(N) /\ Rest(N, S \cup {i})
  <1> DEFINE g == ops[i].src
  <1>1. /\ g \in Nodes("run") /\ Gone(g) /\ ops[i].cmds = <<Cmd("no", g, <<>>)>>
        /\ At(ops[i]) = PathOf(g)
    BY FinalOps, OpMeans, OpHeld
  <1>2. Housed(D)
    BY DEF Base
  <1> HIDE DEF g
  <1>3. g \in SomeNode /\ Firm(g)
    BY <1>1, FirmGone, NodeLine DEF Sides
  <1>4. \A x \in D : x.path = PathOf(g) => x = EntryOf(g)
    BY <1>1, <1>2, GoneStands
  <1>5. No(D, EntryOf(g), by) = Cut(D, PathOf(g))
    BY <1>2, <1>3, <1>4, NoFirm
  <1>6. N = Cut(D, At(ops[i]))
    <2> DEFINE c == Cmd("no", g, <<>>)
    <2>1. ExecuteAll(D, <<c>>, by) = Execute(D, c, by)
      BY ExecuteOne
    <2>2. Execute(D, c, by) = No(D, EntryOf(g), by)
      BY NoCmd
    <2> HIDE DEF c
    <2> QED
      BY <1>1, <1>5, <2>1, <2>2 DEF c
  <1>7. Cleaned(N, S, i)
    BY <1>6, CutKeeps
  <1> QED
    BY <1>7, RemoveKeeps

\* The line of a modification stands at the path of the operation alone.
LEMMA ModifySwaps ==
    ASSUME InputsOK, Tidy, Final, NEW D, Base(D), NEW S, Rest(D, S), NEW i \in Ops \ S,
           ops[i].action = "modify"
    PROVE  Base(Swap(D, ops[i].src)) /\ Rest(Swap(D, ops[i].src), S \cup {i})
  <1> DEFINE h == ops[i].src
             X == S \cup {i}
  <1>1. \A j \in Ops : OpOK(ops[j])
    BY FinalOps
  <1>2. /\ h \in Nodes("int") /\ At(ops[i]) = PathOf(h) /\ PathOf(h) \in Shown
        /\ OpLand(ops[i]) = {PathOf(h)}
    BY <1>1, OpHeld
  <1> HIDE DEF h
  <1>3. \A j \in Ops \ X : Reads(ops[j]) => At(ops[j]) # PathOf(h)
    <2>1. SUFFICES ASSUME NEW j \in Ops, j # i, At(ops[j]) = PathOf(h) PROVE FALSE
      OBVIOUS
    <2>2. At(ops[j]) \in OpLand(ops[j])
      BY <1>1, OpHeld
    <2>3. PathOf(h) \in OpLand(ops[i]) /\ PathOf(h) \in OpLand(ops[j])
      BY <1>2, <2>1, <2>2
    <2> QED
      BY <2>1, <2>3, FinalOps
  <1>4. \A j \in X \ S : OpLand(ops[j]) = {PathOf(h)}
    BY <1>2
  <1>5. S \subseteq X
    OBVIOUS
  <1> HIDE DEF X
  <1>6. Base(Swap(D, h)) /\ Rest(Swap(D, h), X)
    BY <1>2, <1>3, <1>4, <1>5, SwapKeeps
  <1> QED
    BY <1>6 DEF h, X

\* A modified line takes its place, written or edited.
LEMMA ExecuteModify ==
    ASSUME InputsOK, Tidy, Captures, Final, NEW D, Base(D), NEW S, Rest(D, S),
           NEW i \in Ops \ S, ops[i].action = "modify", NEW by,
           NEW N, N = ExecuteAll(D, ops[i].cmds, by)
    PROVE  Base(N) /\ Rest(N, S \cup {i})
  <1> DEFINE o == ops[i]
  <1>1. OpOK(o)
    BY FinalOps
  <1>2. /\ \/ o.cmds = <<Cmd("set", o.src, <<>>)>>
           \/ /\ o.cmds = DeltaCmds(o) /\ ListChange(o.src, o.run) = "delta"
              /\ ~IsSection(DefOf(o.src))
        /\ o.src \in Nodes("int") /\ o.run \in Nodes("run")
        /\ PathOf(o.src) = At(o) /\ PathOf(o.run) = At(o)
        /\ At(o) \in Shown /\ At(o) \in Wanted
    BY <1>1, OpMeans, OpHeld
  <1>3. Housed(D)
    BY DEF Base
  <1>4. CASE o.cmds = <<Cmd("set", o.src, <<>>)>>
    <2> DEFINE h == o.src
               c == Cmd("set", h, <<>>)
    <2>1. h \in SomeNode
      BY <1>2, NodeLine DEF Sides
    <2>2. Firm(h)
      BY <1>2, <2>1, FirmBoth
    <2>3. ExecuteAll(D, <<c>>, by) = Execute(D, c, by)
      BY ExecuteOne
    <2>4. Execute(D, c, by) = Put(D, {EntryOf(h)})
      BY SetCmd
    <2>5. o.cmds = <<c>>
      BY <1>4
    <2> HIDE DEF h, c
    <2>6. Put(D, {EntryOf(h)}) = Swap(D, h)
      BY <1>3, <2>1, <2>2, PutFirm
    <2>7. N = Swap(D, h)
      BY <2>3, <2>4, <2>5, <2>6
    <2> QED
      BY <2>7, ModifySwaps DEF h
  <1>5. CASE o.cmds = DeltaCmds(o) /\ ListChange(o.src, o.run) = "delta" /\ ~IsSection(DefOf(o.src))
    <2>1. EntryOf(o.run) \in D
      BY <1>5, ReadStands DEF Reads
    <2> HIDE DEF o
    <2>2. ExecuteAll(D, DeltaCmds(o), by) = Swap(D, o.src)
      BY <1>2, <1>3, <1>5, <2>1, DeltaIs
    <2>3. N = Swap(D, o.src)
      BY <1>5, <2>2 DEF o
    <2> QED
      BY <2>3, ModifySwaps DEF o
  <1> QED
    BY <1>2, <1>4, <1>5

\* An operation that is executed keeps what holds on the device.
LEMMA OpStep ==
    ASSUME InputsOK, Tidy, Captures, Final, NEW D, Base(D), NEW S, Rest(D, S),
           NEW i \in Ops \ S, NEW by \in {"slot", "line"},
           NEW N, N = ExecuteAll(D, ops[i].cmds, by)
    PROVE  Base(N) /\ Rest(N, S \cup {i})
  <1>1. ops[i].action \in {"add", "modify", "replace", "remove"}
    BY FinalOps, OpMeans
  <1>2. CASE ops[i].action = "add"
    BY <1>2, ExecuteAdd
  <1>3. CASE ops[i].action = "replace"
    BY <1>3, ExecuteReplace
  <1>4. CASE ops[i].action = "remove"
    BY <1>4, ExecuteRemove
  <1>5. CASE ops[i].action = "modify"
    BY <1>5, ExecuteModify
  <1> QED
    BY <1>1, <1>2, <1>3, <1>4, <1>5

-----------------------------------------------------------------------------
(* The device, from the start.                                             *)

\* The operations that were executed.
DoneOps == {artifact[k].op : k \in 1..applied}

\* What is written of an operation are its commands.
CmdsOK == \A k \in DOMAIN artifact : artifact[k].cmds = ops[artifact[k].op].cmds

\* The device starts with the running lines, and the operations executed have
\* done what they were to do.
DeviceInv ==
    /\ CmdsOK
    /\ applied = 0 => device = Entries(running)
    /\ applied > 0 /\ errors = {} /\ Tidy => Base(device) /\ Rest(device, DoneOps)

\* The running configuration is where the plan starts.
LEMMA StartHolds ==
    ASSUME InputsOK, Tidy, Final, NEW D, D = Entries(running)
    PROVE  Base(D) /\ Rest(D, {})
  <1>1. D = Entries(Conf("run"))
    BY DEF Conf
  <1>2. \A x \in D : \E h \in Nodes("run") : x = EntryOf(h) /\ x.path = PathOf(h)
    <2>1. ASSUME NEW x \in D PROVE \E h \in Nodes("run") : x = EntryOf(h) /\ x.path = PathOf(h)
      <3>1. PICK h \in Nodes("run") : x = EntryOf(h)
        BY <1>1, EntryHasNode DEF Sides
      <3>2. EntryOf(h).path = PathOf(h)
        BY NodeEntry DEF Sides
      <3> QED
        BY <3>1, <3>2
    <2> QED
      BY <2>1
  <1>3. \A h \in Nodes("run") : EntryOf(h) \in D /\ EntryOf(h).path = PathOf(h)
    BY <1>1, NodeEntry DEF Sides
  <1>4. \A u \in Shown : Stands(D, u)
    BY <1>3 DEF Shown, PathsOf, Stands
  <1>5. Housed(D)
    <2>1. D \subseteq Stock
      BY DEF Stock
    <2>2. ASSUME NEW x \in D, NEW y \in D, x.path = y.path PROVE x = y
      <3>1. PICK g \in Nodes("run") : x = EntryOf(g) /\ x.path = PathOf(g)
        BY <1>2
      <3>2. PICK h \in Nodes("run") : y = EntryOf(h) /\ y.path = PathOf(h)
        BY <1>2
      <3>3. g = h
        BY <2>2, <3>1, <3>2, PathOne DEF Sides
      <3> QED
        BY <3>1, <3>2, <3>3
    <2>3. ASSUME NEW x \in D, NEW v \in Seq(Idents), v # <<>>, Below(v, x.path) PROVE Stands(D, v)
      <3>1. x.path \in PathsOf("run")
        BY <1>2 DEF PathsOf
      <3>2. v \in PathsOf("run")
        BY <2>3, <3>1, PathsClosed DEF Sides
      <3> QED
        BY <1>4, <3>2 DEF Shown
    <2> QED
      BY <2>1, <2>2, <2>3 DEF Housed
  <1>6. Standing(D)
    BY <1>3 DEF Standing
  <1>7. \A j \in Ops : Reads(ops[j]) => ops[j].run \in Nodes("run")
    <2>1. ASSUME NEW j \in Ops, Reads(ops[j]) PROVE ops[j].run \in Nodes("run")
      <3>1. ops[j].action \in {"modify", "replace"}
        BY <2>1 DEF Reads
      <3> QED
        BY <3>1, FinalOps, OpHeld
    <2> QED
      BY <2>1
  <1>8. ASSUME NEW g \in Nodes("int"), Written(g, {}) PROVE EntryOf(g) \in D
    <2>1. Settled(g)
      BY <1>8 DEF Written
    <2> QED
      BY <2>1 DEF Settled
  <1>9. Rest(D, {})
    BY <1>3, <1>7, <1>8 DEF Rest
  <1> QED
    BY <1>4, <1>5, <1>6, <1>9 DEF Base

\* Once the plan is written collect knows where every line is.
LEMMA PlanFinal ==
    ASSUME TypeInv, CollectInv, pc # "collect", errors = {}, Tidy
    PROVE  InputsOK /\ Captures /\ Final
  <1>1. todo = <<>> /\ Captures
    BY DEF CollectInv
  <1>2. ~Doomed
    BY <1>1 DEF Doomed
  <1>3. Good(todo, ops)
    BY <1>2 DEF CollectInv, Fine
  <1> QED
    BY <1>1, <1>3 DEF Final, TypeInv

\* What holds of the device while the plan is executed.
LEMMA NowHolds ==
    ASSUME TypeInv, CollectInv, DeviceInv, Complete, errors = {}, Tidy
    PROVE  Base(device) /\ Rest(device, DoneOps)
  <1>1. CASE applied > 0
    BY <1>1 DEF DeviceInv
  <1>2. CASE applied = 0
    <2>1. InputsOK /\ Final
      BY PlanFinal DEF Complete
    <2>2. device = Entries(running)
      BY <1>2 DEF DeviceInv
    <2>3. DoneOps = {}
      BY <1>2 DEF DoneOps
    <2> QED
      BY <2>1, <2>2, <2>3, StartHolds
  <1>3. applied \in Nat
    BY DEF TypeInv, SessionOK
  <1> QED
    BY <1>1, <1>2, <1>3

-----------------------------------------------------------------------------
(* A step of the session.                                                  *)

\* What is known of a device depends on the plan and the inputs alone.
LEMMA DevicePrimed ==
    ASSUME UNCHANGED <<running, intended, ops>>, NEW D, D = device', NEW S, S = DoneOps',
           Base(D), Rest(D, S)
    PROVE  (Base(device) /\ Rest(device, DoneOps))'
  <1>1. /\ Nodes("run")' = Nodes("run") /\ Nodes("int")' = Nodes("int")
        /\ Shown' = Shown /\ Wanted' = Wanted /\ SomeNode' = SomeNode
        /\ \A h : /\ EntryOf(h)' = EntryOf(h) /\ PathOf(h)' = PathOf(h)
                  /\ Settled(h)' = Settled(h) /\ DefOf(h)' = DefOf(h) /\ Id(h)' = Id(h)
    BY PathsFixed
  <1>2. \A o, u : Brings(o, u)' = Brings(o, u) /\ Takes(o, u)' = Takes(o, u)
    BY GoodFixed
  <1>3. Idents' = Idents
    BY <1>1 DEF Idents
  <1>4. Entries(intended)' = Entries(intended) /\ Stock' = Stock
    BY DEF Stock, Entries, Entry, SlotPath
  <1>5. \A u : Stands(device, u)' <=> Stands(D, u)
    BY DEF Stands
  <1>6. Housed(device)'
    BY <1>3, <1>4, <1>5 DEF Base, Housed
  <1>7. Standing(device)'
    BY <1>1 DEF Base, Standing, Ops
  <1>8. Base(device)'
    BY <1>1, <1>5, <1>6, <1>7 DEF Base
  <1>9. \A o : Reads(o)' = Reads(o)
    BY <1>1 DEF Reads
  <1>10. \A g : Written(g, DoneOps)' = Written(g, S)
    BY <1>1, <1>2 DEF Written, Ops
  <1>11. Rest(device, DoneOps)'
    BY <1>1, <1>2, <1>4, <1>9, <1>10 DEF Rest, Ops
  <1> QED
    BY <1>8, <1>11

\* What the next operation of the artifact is.
LEMMA NextOp ==
    ASSUME OrderedInv, DeviceInv, Apply, NEW a, a = artifact[applied + 1]
    PROVE  /\ a.op \in Ops \ DoneOps /\ a.cmds = ops[a.op].cmds
           /\ a.open \in Seq(SomeNode) /\ ToSet(a.open) \subseteq ToSet(ops[a.op].secs)
           /\ DoneOps' = DoneOps \cup {a.op}
           /\ UNCHANGED vars /\ applied' = applied + 1 /\ applied \in Nat
  <1> DEFINE n == applied + 1
  <1>1. Complete /\ applied < Len(artifact) /\ UNCHANGED vars /\ applied' = n
    BY DEF Apply
  <1>2. TypeInv
    BY DEF OrderedInv, PlanInv
  <1>3. /\ DOMAIN artifact = DOMAIN out /\ DOMAIN out = 1..Len(out) /\ Len(out) \in Nat
        /\ \A k \in DOMAIN out : artifact[k].op = out[k] /\ out[k] \in Ops
        /\ \A j, k \in DOMAIN out : out[j] = out[k] => j = k
    BY <1>1, ExecutedAsScheduled
  <1>4. applied \in Nat /\ Len(artifact) = Len(out)
    BY <1>1, <1>2 DEF TypeInv, SessionOK, Complete
  <1>5. n \in DOMAIN out /\ n \in Nat /\ 1..applied \subseteq DOMAIN out /\ n \notin 1..applied
        /\ 1..n = (1..applied) \cup {n}
    BY <1>1, <1>3, <1>4
  <1>6. a.op \in Ops /\ a.op \notin DoneOps
    BY <1>3, <1>5 DEF DoneOps
  <1>7. a.cmds = ops[a.op].cmds
    BY <1>3, <1>5 DEF DeviceInv, CmdsOK
  <1>8. a.op = out[n] /\ a.open = SubSeq(SecsOf(n), a.keep + 1, Len(SecsOf(n)))
        /\ a.keep = Sched!Affinity(SecsOf(n - 1), SecsOf(n))
    BY <1>2, <1>3, <1>5 DEF TypeInv, PlanOK, EntryOK
  <1>9. SecsOf(n) = ops[a.op].secs
    BY <1>4, <1>8 DEF SecsOf
  <1>10. SecsOf(n - 1) \in Seq(SomeNode) /\ SecsOf(n) \in Seq(SomeNode)
    <2>1. n - 1 \in 0..Len(out) /\ n \in 0..Len(out)
      BY <1>3, <1>4, <1>5
    <2> QED
      BY <1>2, <2>1, SecsTyped DEF TypeInv
  <1>11. a.keep \in Nat
    BY <1>8, <1>10, AffinityShared
  <1>12. a.open \in Seq(SomeNode) /\ ToSet(a.open) \subseteq ToSet(SecsOf(n))
    <2> DEFINE s == SecsOf(n)
               m == a.keep
    <2>1. s \in Seq(SomeNode) /\ m \in Nat /\ a.open = SubSeq(s, m + 1, Len(s))
      BY <1>8, <1>10, <1>11
    <2> HIDE DEF s, m
    <2>2. a.open \in Seq(SomeNode) /\ \A k \in DOMAIN a.open : a.open[k] \in ToSet(s)
      <3>1. a.open \in Seq(SomeNode)
        BY <2>1
      <3>2. ASSUME NEW k \in DOMAIN a.open PROVE a.open[k] \in ToSet(s)
        <4>1. a.open[k] = s[m + k] /\ m + k \in DOMAIN s
          BY <2>1
        <4> QED
          BY <4>1, Zenon DEF ToSet
      <3> QED
        BY <3>1, <3>2
    <2> QED
      BY <2>2, Zenon DEF ToSet, s
  <1>13. DoneOps' = DoneOps \cup {a.op}
    <2>1. artifact' = artifact
      BY <1>1 DEF vars
    <2>2. DoneOps' = {artifact[k].op : k \in 1..n}
      BY <1>1, <2>1 DEF DoneOps
    <2> HIDE DEF n
    <2>3. {artifact[k].op : k \in 1..n} = {artifact[k].op : k \in 1..applied} \cup {artifact[n].op}
      BY <1>5
    <2> QED
      BY <2>2, <2>3 DEF DoneOps, n
  <1> QED
    BY <1>1, <1>4, <1>6, <1>7, <1>9, <1>12, <1>13

\* An operation that the device executes keeps what holds there.
LEMMA ApplyHolds ==
    ASSUME OrderedInv, CollectInv, DeviceInv, Apply
    PROVE  DeviceInv'
  <1> DEFINE a == artifact[applied + 1]
             i == a.op
             S == DoneOps
             X == DoneOps \cup {i}
  <1>1. /\ i \in Ops \ S /\ a.cmds = ops[i].cmds
        /\ a.open \in Seq(SomeNode) /\ ToSet(a.open) \subseteq ToSet(ops[i].secs)
        /\ DoneOps' = X /\ UNCHANGED vars /\ applied' = applied + 1 /\ applied \in Nat
    BY NextOp
  <1>2. PICK by \in {"slot", "line"} : device' = ExecuteAll(Open(device, a.open), a.cmds, by)
    BY DEF Apply
  <1>3. TypeInv /\ Complete
    BY DEF Apply, OrderedInv, PlanInv
  <1>4. UNCHANGED <<running, intended, ops, artifact, errors>>
    BY <1>1 DEF vars, inputVars, schedVars
  <1>5. CmdsOK'
    BY <1>4 DEF DeviceInv, CmdsOK
  <1>6. ASSUME errors = {}, Tidy PROVE (Base(device) /\ Rest(device, DoneOps))'
    <2> DEFINE M == Open(device, a.open)
               N == ExecuteAll(M, ops[i].cmds, by)
    <2>1. InputsOK /\ Captures /\ Final
      BY <1>3, <1>6, PlanFinal DEF Complete
    <2>2. Base(device) /\ Rest(device, S)
      BY <1>3, <1>6, NowHolds
    <2>3. Base(M) /\ Rest(M, S)
      <3> HIDE DEF a, i, S
      <3> QED
        BY <1>1, <1>6, <2>1, <2>2, OpenKeeps
    <2>4. device' = N
      BY <1>1, <1>2
    <2>5. N = ExecuteAll(M, ops[i].cmds, by)
      OBVIOUS
    <2> HIDE DEF a, i, S, X, M, N
    <2>6. Base(N) /\ Rest(N, S \cup {i})
      BY <1>1, <1>2, <1>6, <2>1, <2>3, <2>5, OpStep
    <2>7. X = DoneOps' /\ X = S \cup {i} /\ N = device'
      BY <1>1, <2>4 DEF X, S
    <2> QED
      BY <1>4, <2>6, <2>7, DevicePrimed
  <1>7. Tidy' = Tidy
    BY <1>4, PathsFixed
  <1>8. applied' > 0
    BY <1>1
  <1> QED
    BY <1>4, <1>5, <1>6, <1>7, <1>8 DEF DeviceInv

-----------------------------------------------------------------------------
(* Every other step.                                                       *)

\* Diff does nothing any more once its plan is written.
LEMMA DiffBusy ==
    ASSUME Diff, TypeInv
    PROVE  ~Complete /\ UNCHANGED <<device, applied>>
  <1>1. DiffNext /\ UNCHANGED <<device, applied>>
    BY DEF Diff, deviceVars
  <1>2. CASE Collect
    <2>1. pc = "collect"
      BY <1>2 DEF Collect, PairLevel, FindRemoves, DropToggles, AddLine, ModifyLine,
                  DeltaLine, ReplaceLine, EnterSection, RefuseIntent, ExpandRemoval,
                  RefuseExpansion, RefuseDelete, RemoveLine, CheckBaselineRemovals, Accepted, Facing
    <2> QED
      BY <1>1, <2>1 DEF Complete
  <1>3. CASE DeriveEdges
    <2>1. pc # "done"
      BY <1>3 DEF DeriveEdges, DeriveSlotCleanupEdges, DeriveRefEdges, DeriveMoveEdges,
                  DeriveRequireEdges, DeriveExclusionEdges, Derive, CountIndegrees
    <2> QED
      BY <1>1, <2>1 DEF Complete
  <1>4. CASE Scheduling \/ AbortPlan
    <2>1. pc # "done"
      BY <1>4 DEF Scheduling, AbortPlan, Sched!Emit, Sched!Stall, Sched!ExtendWalk,
                  Sched!BreakOnCycle, Sched!Finish, Sched!AbortOnCycle
    <2> QED
      BY <1>1, <2>1 DEF Complete
  <1>5. CASE Materialize
    <2>1. Len(artifact) # Len(out)
      <3>1. Len(artifact) < Len(out) /\ Len(artifact) \in Nat /\ Len(out) \in Nat
        BY <1>5 DEF Materialize, TypeInv, PlanOK, IsSeq
      <3> QED
        BY <3>1
    <2> QED
      BY <1>1, <2>1 DEF Complete
  <1> QED
    BY <1>1, <1>2, <1>3, <1>4, <1>5 DEF DiffNext

\* Only collect writes operations.
LEMMA OpsWritten ==
    ASSUME Diff, ~Collect
    PROVE  UNCHANGED <<running, intended, ops>>
  BY AfterCollect DEF DeviceNext

\* What Diff writes of an operation are its commands.
LEMMA DiffHolds ==
    ASSUME Diff, TypeInv, DeviceInv
    PROVE  DeviceInv'
  <1>1. applied = 0 /\ applied' = 0 /\ device' = device /\ device = Entries(running)
    BY DiffBusy, NothingApplied DEF DeviceInv
  <1>2. CASE Collect
    <2>1. pc = "collect" /\ UNCHANGED <<running, artifact>>
      BY <1>2 DEF Collect, PairLevel, FindRemoves, DropToggles, AddLine, ModifyLine,
                  DeltaLine, ReplaceLine, EnterSection, RefuseIntent, ExpandRemoval,
                  RefuseExpansion, RefuseDelete, RemoveLine, CheckBaselineRemovals, Accepted, Facing,
                  Process, inputVars
    <2>2. artifact' = <<>>
      BY <2>1 DEF TypeInv, PlanOK
    <2>3. Entries(running)' = Entries(running)
      BY <2>1 DEF Entries, Entry, SlotPath
    <2>4. CmdsOK'
      BY <2>2 DEF CmdsOK
    <2> QED
      BY <1>1, <2>3, <2>4 DEF DeviceInv
  <1>3. CASE ~Collect
    <2>1. UNCHANGED <<running, ops>>
      BY <1>3, OpsWritten
    <2>2. Entries(running)' = Entries(running)
      BY <2>1 DEF Entries, Entry, SlotPath
    <2>3. CmdsOK'
      <3>1. CASE Materialize
        <4> DEFINE e == MaterializeEntry(out[Len(artifact) + 1])
        <4>1. artifact' = Append(artifact, e)
          BY <3>1 DEF Materialize
        <4>2. e.cmds = ops[e.op].cmds
          BY DEF MaterializeEntry
        <4>3. IsSeq(artifact) /\ CmdsOK
          BY DEF TypeInv, PlanOK, DeviceInv
        <4> HIDE DEF e
        <4>4. /\ Len(artifact) \in Nat /\ DOMAIN artifact = 1..Len(artifact)
              /\ DOMAIN artifact' = 1..(Len(artifact) + 1)
              /\ \A k \in 1..Len(artifact) : artifact'[k] = artifact[k]
              /\ artifact'[Len(artifact) + 1] = e
          BY <4>1, <4>3, IsSeqAppend
        <4>5. ASSUME NEW k \in DOMAIN artifact' PROVE artifact'[k].cmds = ops[artifact'[k].op].cmds
          <5>1. k \in 1..Len(artifact) \/ k = Len(artifact) + 1
            BY <4>4
          <5> QED
            BY <4>2, <4>3, <4>4, <5>1 DEF CmdsOK
        <4> QED
          BY <2>1, <4>5 DEF CmdsOK
      <3>2. CASE ~Materialize
        <4>1. UNCHANGED artifact
          BY <1>3, <3>2 DEF Diff, DiffNext, DeriveEdges, DeriveSlotCleanupEdges, DeriveRefEdges,
             DeriveMoveEdges, DeriveRequireEdges, DeriveExclusionEdges, Derive, CountIndegrees,
             Scheduling, AbortPlan
        <4> QED
          BY <2>1, <4>1 DEF DeviceInv, CmdsOK
      <3> QED
        BY <3>1, <3>2
    <2> QED
      BY <1>1, <2>2, <2>3 DEF DeviceInv
  <1> QED
    BY <1>2, <1>3

\* A step that changes nothing.
LEMMA StutterHolds ==
    ASSUME DeviceInv, UNCHANGED <<vars, deviceVars>>
    PROVE  DeviceInv'
  <1>1. UNCHANGED <<running, intended, ops, artifact, errors, device, applied>>
    BY DEF vars, inputVars, schedVars, deviceVars
  <1>2. CmdsOK'
    BY <1>1 DEF DeviceInv, CmdsOK
  <1>3. Entries(running)' = Entries(running) /\ DoneOps' = DoneOps /\ Tidy' = Tidy
    BY <1>1, PathsFixed DEF Entries, Entry, SlotPath, DoneOps
  <1>4. ASSUME applied > 0, errors = {}, Tidy PROVE (Base(device) /\ Rest(device, DoneOps))'
    <2> DEFINE D == device
               S == DoneOps
    <2>1. Base(D) /\ Rest(D, S)
      BY <1>4 DEF DeviceInv
    <2>2. D = device' /\ S = DoneOps'
      BY <1>1, <1>3
    <2> HIDE DEF D, S
    <2> QED
      BY <1>1, <2>1, <2>2, DevicePrimed
  <1> QED
    BY <1>1, <1>2, <1>3, <1>4 DEF DeviceInv

\* Every step keeps it.
LEMMA NextDevice ==
    ASSUME OrderedInv, CollectInv, DeviceInv, [DeviceNext]_<<vars, deviceVars>>
    PROVE  DeviceInv'
  <1>1. TypeInv
    BY DEF OrderedInv, PlanInv
  <1>2. CASE Diff
    BY <1>1, <1>2, DiffHolds
  <1>3. CASE Apply
    BY <1>3, ApplyHolds
  <1>4. CASE Returned \/ UNCHANGED <<vars, deviceVars>>
    BY <1>4, StutterHolds DEF Returned
  <1> QED
    BY <1>2, <1>3, <1>4 DEF DeviceNext

-----------------------------------------------------------------------------
(* The theorems.                                                           *)

\* Everything that is known of Diff and of the device.
WholeInv == OrderedInv /\ CollectInv /\ DeviceInv

\* Before a step is taken there is nothing to show but the running lines.
LEMMA InitWhole == DeviceInit => WholeInv
  <1> SUFFICES ASSUME DeviceInit PROVE WholeInv
    OBVIOUS
  <1>1. DeviceInv
    <2>1. applied = 0 /\ artifact = <<>> /\ device = Entries(running)
      BY DEF DeviceInit, Init
    <2>2. CmdsOK
      BY <2>1 DEF CmdsOK
    <2> QED
      BY <2>1, <2>2 DEF DeviceInv
  <1>2. OrderedInv
    <2>1. OrderInv
      BY DEF DeviceInit, Init, OrderInv, Planned
    <2> QED
      BY <2>1, InitTyped, InitGraph, InitKeys DEF OrderedInv, PlanInv
  <1> QED
    BY <1>1, <1>2, InitCollect DEF WholeInv

\* Every step keeps all of it.
LEMMA NextWhole == WholeInv /\ [DeviceNext]_<<vars, deviceVars>> => WholeInv'
  <1> SUFFICES ASSUME WholeInv, [DeviceNext]_<<vars, deviceVars>> PROVE WholeInv'
    OBVIOUS
  <1>1. OrderedInv /\ TypeInv /\ GraphInv /\ KeyInv /\ OrderInv /\ CollectInv /\ DeviceInv
    BY DEF WholeInv, OrderedInv, PlanInv
  <1>2. OrderedInv'
    BY <1>1, NextTyped, NextGraph, NextKeys, NextOrder DEF OrderedInv, PlanInv
  <1>3. CollectInv'
    BY <1>1, NextCollect
  <1>4. DeviceInv'
    BY <1>1, NextDevice
  <1> QED
    BY <1>2, <1>3, <1>4 DEF WholeInv

\* The plan and the device stay in step: the calls and operations of collect
\* share no path, and what was executed is on the device and nothing undid it.
THEOREM DeviceFollowsPlan == DeviceSpec => []WholeInv
  <1>1. DeviceInit => WholeInv
    BY InitWhole
  <1>2. WholeInv /\ [DeviceNext]_<<vars, deviceVars>> => WholeInv'
    BY NextWhole
  <1> QED
    BY <1>1, <1>2, PTL DEF DeviceSpec

\* What collect reports no Error about is in the plan, once: every intended
\* line stands already or is written by an operation, every running line stays,
\* is cleared by an operation or is a header without negation, and no slot path
\* is the business of two operations.
PlannedOnce ==
    pc # "collect" /\ errors = {} /\ Tidy =>
        /\ \A h \in Nodes("int") : Settled(h) \/ \E i \in Ops : Brings(ops[i], PathOf(h))
        /\ \A h \in Nodes("run") :
            Settled(h) \/ Schema[DefOf(h)].clear \/ \E i \in Ops : Takes(ops[i], PathOf(h))
        /\ \A i, j \in Ops : i # j => OpLand(ops[i]) \cap OpLand(ops[j]) = {}

\* collect forgets no difference and handles none twice (PlannedOnce).
THEOREM EveryDifferencePlannedOnce == DeviceSpec => []PlannedOnce
  <1>1. WholeInv => PlannedOnce
    <2> SUFFICES ASSUME WholeInv, pc # "collect", errors = {}, Tidy
                 PROVE  /\ \A h \in Nodes("int") :
                            Settled(h) \/ \E i \in Ops : Brings(ops[i], PathOf(h))
                        /\ \A h \in Nodes("run") :
                            \/ Settled(h) \/ Schema[DefOf(h)].clear
                            \/ \E i \in Ops : Takes(ops[i], PathOf(h))
                        /\ \A i, j \in Ops : i # j => OpLand(ops[i]) \cap OpLand(ops[j]) = {}
      BY DEF PlannedOnce
    <2>1. Final
      BY PlanFinal DEF WholeInv, OrderedInv, PlanInv
    <2>2. Covered(<<>>, ops) /\ LandsApart(<<>>, ops)
      BY <2>1 DEF Final, Good
    <2>3. \A u : ~Awaited(<<>>, u)
      BY DEF Awaited
    <2> QED
      BY <2>2, <2>3 DEF Covered, LandsApart, Ops
  <1> QED
    BY <1>1, DeviceFollowsPlan, PTL

\* When the whole plan is executed every operation was.
LEMMA AllDone ==
    ASSUME OrderedInv, Applied
    PROVE  DoneOps = Ops
  <1>1. Complete /\ applied = Len(artifact)
    BY DEF Applied
  <1>2. /\ DOMAIN artifact = DOMAIN out /\ DOMAIN out = 1..Len(out)
        /\ \A k \in DOMAIN out : artifact[k].op = out[k] /\ out[k] \in Ops
        /\ \A i \in Ops : \E k \in DOMAIN out : out[k] = i
    BY <1>1, ExecutedAsScheduled
  <1>3. 1..applied = DOMAIN out
    BY <1>1, <1>2 DEF Complete
  <1> QED
    BY <1>2, <1>3 DEF DoneOps

\* A tidy plan without Errors that is executed to its end, in any order that
\* the edges and the scheduler's affinity allow and whatever a negation matches
\* on the device, leaves the intended lines and nothing else but headers that
\* have no negation (Converges): no operation undoes what another one did.
THEOREM TidyPlansConverge == DeviceSpec => [](Tidy => Converges)
  <1>1. WholeInv => (Tidy => Converges)
    <2> SUFFICES ASSUME WholeInv, Tidy, Applied, errors = {}
                 PROVE  /\ Entries(intended) \subseteq device
                        /\ \A x \in device \ Entries(intended) :
                            Schema[x.line.def].clear /\ x \in Entries(running)
      BY DEF Converges
    <2>1. OrderedInv /\ TypeInv /\ CollectInv /\ DeviceInv /\ Complete /\ pc # "collect"
      BY DEF WholeInv, OrderedInv, PlanInv, Applied, Complete
    <2>2. InputsOK /\ Final
      BY <2>1, PlanFinal
    <2>3. Base(device) /\ Rest(device, Ops)
      BY <2>1, NowHolds, AllDone
    <2>4. /\ \A h \in Nodes("int") : Settled(h) \/ \E i \in Ops : Brings(ops[i], PathOf(h))
          /\ \A h \in Nodes("run") :
                Settled(h) \/ Schema[DefOf(h)].clear \/ \E i \in Ops : Takes(ops[i], PathOf(h))
      <3>1. Covered(<<>>, ops)
        BY <2>2 DEF Final, Good
      <3>2. \A u : ~Awaited(<<>>, u)
        BY DEF Awaited
      <3> QED
        BY <3>1, <3>2 DEF Covered, Ops
    <2>5. ASSUME NEW x \in Entries(intended) PROVE x \in device
      <3>1. PICK g \in Nodes("int") : x = EntryOf(g)
        BY <2>2, EntryHasNode DEF Sides, Conf
      <3>2. Written(g, Ops)
        BY <2>4 DEF Written
      <3> QED
        BY <2>3, <3>1, <3>2 DEF Rest
    <2>6. ASSUME NEW x \in device \ Entries(intended)
          PROVE  Schema[x.line.def].clear /\ x \in Entries(running)
      <3>1. x \in Entries(running)
        BY <2>3, <2>6 DEF Base, Housed, Stock
      <3>2. PICK h \in Nodes("run") : x = EntryOf(h)
        BY <2>2, <3>1, EntryHasNode DEF Sides, Conf
      <3>3. x.path = PathOf(h) /\ x.line.def = DefOf(h)
        BY <2>2, <3>2, NodeEntry DEF Sides
      <3>4. ~Settled(h)
        BY <2>6, <3>2 DEF Settled
      <3>5. \A i \in Ops : ~Takes(ops[i], PathOf(h))
        BY <2>3, <2>6, <3>3 DEF Rest
      <3> QED
        BY <2>4, <3>1, <3>3, <3>4, <3>5
    <2> QED
      BY <2>5, <2>6
  <1> QED
    BY <1>1, DeviceFollowsPlan, PTL

\* No order of operations empties a slot that stays, or leaves a line that
\* neither configuration has (NoSlotLost).
THEOREM SlotsStayFilled == DeviceSpec => []NoSlotLost
  <1>1. WholeInv => NoSlotLost
    <2> SUFFICES ASSUME WholeInv, InTransit, errors = {}, Tidy
                 PROVE  /\ device \subseteq Entries(running) \cup Entries(intended)
                        /\ \A x, y \in device : x.path = y.path => x = y
                        /\ \A x \in Entries(running), y \in Entries(intended) :
                            x.path = y.path => \E z \in device : z.path = x.path
      BY DEF NoSlotLost
    <2>1. OrderedInv /\ TypeInv /\ CollectInv /\ DeviceInv /\ InputsOK
      BY DEF WholeInv, OrderedInv, PlanInv, TypeInv
    <2>2. Base(device)
      BY <2>1 DEF DeviceInv, InTransit
    <2>3. ASSUME NEW x \in Entries(running), NEW y \in Entries(intended), x.path = y.path
          PROVE  \E z \in device : z.path = x.path
      <3>1. PICK g \in Nodes("run") : x = EntryOf(g)
        BY <2>1, EntryHasNode DEF Sides, Conf
      <3>2. PICK h \in Nodes("int") : y = EntryOf(h)
        BY <2>1, EntryHasNode DEF Sides, Conf
      <3>3. x.path = PathOf(g) /\ y.path = PathOf(h)
        BY <2>1, <3>1, <3>2, NodeEntry DEF Sides
      <3>4. x.path \in Shown /\ x.path \in Wanted
        BY <2>3, <3>3 DEF Shown, Wanted, PathsOf
      <3> QED
        BY <2>2, <3>4 DEF Base, Stands
    <2> QED
      BY <2>2, <2>3 DEF Base, Housed, Stock
  <1> QED
    BY <1>1, DeviceFollowsPlan, PTL
=============================================================================
