------------------------------ MODULE Grammar ------------------------------
(***************************************************************************)
(* The command grammar of package schema, configuration trees, and the     *)
(* pairing identity of internal/ident.                                     *)
(*                                                                         *)
(* A schema is the sequence of its definitions in Walk order, so that the  *)
(* number of a definition is its declaration rank (buildOrderIndex).  A    *)
(* definition is a record:                                                 *)
(*   kids, card, keys, kind, tags, rels      the builder's declarations    *)
(*   adopted                                 Root and Adopt declare it     *)
(*   idem, protected, clear                  MarkIdempotent, Protect,      *)
(*                                           ClearOnRemove                 *)
(*   toggles                                 the whole group, declaring    *)
(*                                           side first                    *)
(*   list, delta                             List arg ("" for none),       *)
(*                                           ListDelta declared            *)
(*   unique, namespace, anchor, device       the exclusive name            *)
(*   merge                                   the merge strategy            *)
(* A relation is [type, label, from, target] with type "ref", "requires"   *)
(* or "excludes".                                                          *)
(*                                                                         *)
(* A line is [def, f, block]: its definition, captured fields and raw      *)
(* block.  Its text is what Render makes of def and f, so two lines have   *)
(* the same text exactly when def and f agree.  A configuration maps       *)
(* paths, sequences of child positions, to lines; the root <<>> is not in  *)
(* its domain.  Lines no definition matches are left out.                  *)
(***************************************************************************)
EXTENDS Integers, Sequences, FiniteSets, SequencesExt

CONSTANT Schema

Defs == DOMAIN Schema

\* The elements of s that are in S, in the order of s: a loop that skips.
Only(s, S) ==
    LET Upto[n \in 0..Len(s)] ==
            IF n = 0 THEN <<>>
            ELSE IF s[n] \in S THEN Append(Upto[n - 1], s[n])
            ELSE Upto[n - 1]
    IN  Upto[Len(s)]

\* The definitions a root-level line may have: those that are no child of
\* another definition, and the root definitions that a section adopts too.
Roots ==
    (Defs \ UNION {Schema[d].kids : d \in Defs}) \cup {d \in Defs : Schema[d].adopted}

-----------------------------------------------------------------------------
(* Labels, categories and identities.                                      *)

Labels(d) ==
    Schema[d].tags \cup (IF Schema[d].kind = "" THEN {} ELSE {Schema[d].kind})

HasLabel(d, name) == name # "" /\ name \in Labels(d)

Keyed(d) == Schema[d].keys # <<>>

SingleOccupancy(d) == Schema[d].card \in {"ZeroToOne", "One"}

SlotDef(d) == ~Keyed(d) /\ ~Schema[d].clear /\ SingleOccupancy(d)

KindedSingleDef(d) ==
    SlotDef(d) /\ Schema[d].kind # "" /\ Schema[d].toggles = <<>>

CategoryOf(d) ==
    CASE Keyed(d)           -> "Keyed"
      [] KindedSingleDef(d) -> "KindedSingle"
      [] OTHER -> IF Schema[d].idem /\ SingleOccupancy(d) THEN "IdempotentSingle"
                  ELSE "FullLine"

Text(l) == <<l.def, l.f>>

SameValue(l, m) == Text(l) = Text(m) /\ l.block = m.block

KeyValue(l) == [k \in DOMAIN Schema[l.def].keys |-> l.f[Schema[l.def].keys[k]]]

\* What two lines at one level must share to be the same object.
Ident(l) ==
    LET kind == Schema[l.def].kind
        Is(d, k, key) == [def |-> d, kind |-> k, key |-> key]
    IN  CASE CategoryOf(l.def) = "KindedSingle" -> Is(0, kind, <<"none">>)
          [] CategoryOf(l.def) = "IdempotentSingle" -> Is(l.def, "", <<"none">>)
          [] CategoryOf(l.def) = "Keyed" ->
                Is(IF kind = "" THEN l.def ELSE 0, kind, <<"key", KeyValue(l)>>)
          [] OTHER -> Is(l.def, "", <<"text", l.f>>)

IsSection(d) == Schema[d].kids # {}

-----------------------------------------------------------------------------
(* Configuration trees.                                                    *)

Parent(p) == Front(p)

IsChild(p, q) == Len(q) = Len(p) + 1 /\ SubSeq(q, 1, Len(p)) = p

\* The children of p in order.
Kids(c, p) ==
    [k \in 1..Cardinality({q \in DOMAIN c : IsChild(p, q)}) |-> Append(p, k)]

Below(p, q) == Len(p) <= Len(q) /\ SubSeq(q, 1, Len(p)) = p

\* The subtree of p, with p.
Tree(c, p) == {q \in DOMAIN c : Below(p, q)}

\* What NewConfig, AddChild and the grammar's guards leave: the ancestors of a
\* line are lines and children are numbered from 1; a line stands where its
\* definition may occur; a section has no raw block (setBlock) and a list line
\* has its list.
Configuration(c) ==
    /\ IsFiniteSet(DOMAIN c) /\ DOMAIN c \subseteq Seq(Nat) \ {<<>>}
    /\ \A p \in DOMAIN c :
        LET l == c[p]
        IN  /\ \A k \in 1..Len(p) : SubSeq(p, 1, k) \in DOMAIN c
            /\ l.def \in Defs /\ l = [def |-> l.def, f |-> l.f, block |-> l.block]
            /\ l.def \in IF Len(p) = 1 THEN Roots ELSE Schema[c[Parent(p)].def].kids
            /\ IsSection(l.def) => l.block = <<>>
            /\ Schema[l.def].list # "" =>
                /\ Schema[l.def].list \in DOMAIN l.f
                /\ l.f[Schema[l.def].list] \in Seq(ToSet(l.f[Schema[l.def].list]))
    /\ \A p \in DOMAIN c \cup {<<>>} :
        {q \in DOMAIN c : IsChild(p, q)} = ToSet(Kids(c, p))

\* A template captures the same fields on every line that it matches.
SameCaptures(cs) ==
    \A k, j \in DOMAIN cs : \A p \in DOMAIN cs[k], q \in DOMAIN cs[j] :
        cs[k][p].def = cs[j][q].def => DOMAIN cs[k][p].f = DOMAIN cs[j][q].f

\* The identities from the root down to p: where p sits, whatever its order.
SlotPath(c, p) == [k \in DOMAIN p |-> Ident(c[SubSeq(p, 1, k)])]

-----------------------------------------------------------------------------
(* Lists and exclusive names.                                              *)

\* A list value is the sequence of elements it resolves to; a spelling that
\* does not resolve contains the element "?".
Malformed(v) == "?" \in ToSet(v)

ExclusiveArgs(d) ==
    IF Schema[d].unique # <<>> THEN Schema[d].unique ELSE Schema[d].keys

ExclusiveLabel(d) ==
    IF Schema[d].namespace # "" THEN Schema[d].namespace ELSE Schema[d].kind

\* The owner of an anchored or per-owner name: the slot path of the ancestor.
AnchorOwner(c, p, a) ==
    LET over == {k \in 1..(Len(p) - 1) : c[SubSeq(p, 1, k)].def = a}
        k    == CHOOSE k \in over : \A j \in over : j <= k
    IN  IF over = {} THEN <<>> ELSE SlotPath(c, SubSeq(p, 1, k))

Owner(c, p, extent) ==
    LET d == Schema[c[p].def]
    IN  CASE d.anchor # 0 -> AnchorOwner(c, p, d.anchor)
          [] d.anchor = 0 /\ (d.device \/ d.namespace # "") -> <<>>
          [] OTHER -> IF extent = "PerOwner" THEN SlotPath(c, Parent(p)) ELSE <<>>

\* Whether p claims an exclusive name, and the name: its scope, its key with
\* the list argument left out, and the members of the list.
ClaimsName(c, p) ==
    /\ Keyed(c[p].def)
    /\ LET list == Schema[c[p].def].list
       IN  list # "" /\ list \in ToSet(ExclusiveArgs(c[p].def))
           => ~Malformed(c[p].f[list])

ExclusiveName(c, p, extent) ==
    LET d      == c[p].def
        list   == Schema[d].list
        args   == ExclusiveArgs(d)
        isList == list # "" /\ list \in ToSet(args)
        Other(a) == a # list
    IN  [label   |-> ExclusiveLabel(d),
         def     |-> IF ExclusiveLabel(d) = "" THEN d ELSE 0,
         owner   |-> Owner(c, p, extent),
         key     |-> LET as == SelectSeq(args, Other)
                     IN  [k \in DOMAIN as |-> c[p].f[as[k]]],
         isList  |-> isList,
         members |-> IF isList THEN ToSet(c[p].f[list]) ELSE {}]

SameSpace(n, m) ==
    n.label = m.label /\ n.def = m.def /\ n.owner = m.owner /\ n.key = m.key

\* Two names of one space contest each other.
Contest(n, m) ==
    /\ SameSpace(n, m)
    /\ \/ n.isList /\ m.isList /\ n.members \cap m.members # {}
       \/ ~n.isList /\ ~m.isList

-----------------------------------------------------------------------------
(* What a grammar builder accepts.                                         *)

\* The panics of the builder methods, one operator per method.
ClearOnRemoveBuilds(r) == r.clear => ~r.protected /\ r.list = ""

ListBuilds(r) ==
    /\ r.list # "" => r.idem /\ r.kids = {} /\ r.list \notin ToSet(r.keys)
    /\ r.delta => r.list # ""

ScopeBuilds(r) == r.anchor # 0 => ~r.device

TogglesBuilds(d) ==
    LET group == ToSet(Schema[d].toggles)
    IN  Schema[d].toggles # <<>> =>
        /\ Schema[d].toggles \in Seq(group) /\ d \in group /\ group \subseteq Defs
        /\ Len(Schema[d].toggles) > 1 /\ IsInjective(Schema[d].toggles)
        /\ ~Keyed(d) /\ Schema[d].card = "ZeroToOne"
        /\ \A m \in group : Schema[m].toggles = Schema[d].toggles
        /\ \A m, n \in group :
            Schema[m].merge # "Default" /\ Schema[n].merge # "Default" => m = n

Buildable ==
    \A d \in Defs :
        /\ Schema[d].kids \subseteq Defs
        /\ ClearOnRemoveBuilds(Schema[d]) /\ ListBuilds(Schema[d])
        /\ ScopeBuilds(Schema[d]) /\ TogglesBuilds(d)

\* Every path from a root to d passes the anchor: d is not reached without it.
UnderAnchor(d, a) ==
    LET Reached[n \in 0..Cardinality(Defs)] ==
            IF n = 0 THEN Roots \ {a}
            ELSE LET R == Reached[n - 1]
                 IN  R \cup UNION {Schema[e].kids \ {a} : e \in R}
    IN  d \notin Reached[Cardinality(Defs)]

TagsValid(d) == \A t \in Schema[d].tags : \A e \in Defs : Schema[e].kind # t

RelationValid(rel) ==
    /\ rel.label # ""
    /\ rel.from = "" <=> rel.target = ""
    /\ \E e \in Defs : HasLabel(e, rel.label)
    /\ rel.target # "" => \E e \in Defs :
        HasLabel(e, rel.label) /\ rel.target \in ToSet(Schema[e].keys)

ScopeValid(d) ==
    /\ Schema[d].anchor # 0 => UnderAnchor(d, Schema[d].anchor)
    /\ ~Keyed(d) =>
        Schema[d].anchor = 0 /\ ~Schema[d].device /\ Schema[d].unique = <<>>

NamespaceValid(d) ==
    LET name == Schema[d].namespace
    IN  /\ name # "" =>
            /\ HasLabel(d, name) /\ Keyed(d)
            /\ \E e \in Defs \ {d} : Keyed(e) /\ Schema[e].namespace = name
        /\ Keyed(d) => \A e \in Defs :
            Keyed(e) /\ HasLabel(d, Schema[e].namespace)
            => name = Schema[e].namespace

\* Schema.ValidateRelations reports nothing.
RelationsValid ==
    \A d \in Defs :
        /\ TagsValid(d) /\ ScopeValid(d) /\ NamespaceValid(d)
        /\ \A rel \in Schema[d].rels : RelationValid(rel)

\* The definitions of one exclusive name space agree on what a name is.
ShapeOf(d) ==
    LET args == ExclusiveArgs(d)
        list == Schema[d].list
    IN  [arity  |-> Len(args),
         lists  |-> {k \in DOMAIN args : list # "" /\ args[k] = list},
         anchor |-> Schema[d].anchor,
         device |-> Schema[d].anchor = 0
                    /\ (Schema[d].device \/ Schema[d].namespace # "")]

SpacesAgree ==
    \A d, e \in {x \in Defs : Keyed(x) /\ ExclusiveLabel(x) # ""} :
        /\ ExclusiveLabel(d) = ExclusiveLabel(e)
        /\ \E x \in Defs :
            /\ Keyed(x) /\ ExclusiveLabel(x) = ExclusiveLabel(d)
            /\ Schema[x].namespace # "" \/ Schema[x].anchor # 0 \/ Schema[x].device
        => ShapeOf(d) = ShapeOf(e)

ASSUME RanksAssumption == Len(Schema) \in Nat /\ Defs = 1..Len(Schema)

ASSUME SchemaAssumption == Buildable /\ RelationsValid /\ SpacesAgree
=============================================================================
