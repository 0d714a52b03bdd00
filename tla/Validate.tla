------------------------------ MODULE Validate ------------------------------
(***************************************************************************)
(* Two checks of package validate over a whole configuration: what         *)
(* FragmentCheck requires of one level at a time, and what CommitCheck     *)
(* requires of the assembled tree.  They say which configurations the      *)
(* rest of the engine may rely on.  Required definitions (ImportCheck),    *)
(* value types and block bodies are left out.                              *)
(***************************************************************************)
EXTENDS Grammar

-----------------------------------------------------------------------------
(* FragmentCheck.                                                          *)

\* Two lines of one level that FragmentCheck reports as duplicates.
Duplicates(l, m) ==
    \/ Keyed(l.def) /\ Keyed(m.def) /\ Ident(l) = Ident(m)
    \/ l.def = m.def /\ ~Keyed(l.def) /\ SingleOccupancy(l.def)
    \/ KindedSingleDef(l.def) /\ KindedSingleDef(m.def) /\ Ident(l) = Ident(m)
    \/ l.def # m.def /\ m.def \in ToSet(Schema[l.def].toggles)

FragmentClean(c) ==
    \A p, q \in DOMAIN c :
        p # q /\ Parent(p) = Parent(q) => ~Duplicates(c[p], c[q])

-----------------------------------------------------------------------------
(* CommitCheck.                                                            *)

RelValues(l, rel) ==
    CASE rel.from = "" -> {""}
      [] rel.from # "" /\ Schema[l.def].list = rel.from ->
            {v \in ToSet(l.f[rel.from]) : ~Malformed(l.f[rel.from])}
      [] OTHER -> {l.f[rel.from]}

\* Whether a line provides what a relation asks for.
Provides(l, rel, v) ==
    /\ HasLabel(l.def, rel.label)
    /\ rel.from # "" =>
        rel.target \in ToSet(Schema[l.def].keys) /\ l.f[rel.target] = v

\* The relation of line p holds in the lines of S, a set of lines.
Satisfied(l, rel, S) ==
    \A v \in RelValues(l, rel) : \E m \in S : Provides(m, rel, v)

Present(d) == {rel \in Schema[d].rels : rel.type # "excludes"}

Excluders(d) == {rel \in Schema[d].rels : rel.type = "excludes"}

RelationsHold(c, base) ==
    LET lines == {c[p] : p \in DOMAIN c} \cup {base[p] : p \in DOMAIN base}
    IN  \A p \in DOMAIN c :
        /\ \A rel \in Present(c[p].def) : Satisfied(c[p], rel, lines)
        /\ \A rel \in Excluders(c[p].def) : \A q \in DOMAIN c :
            q # p /\ Parent(q) = Parent(p) => ~HasLabel(c[q].def, rel.label)

\* Two claims restate one object.
SameObject(c, p, d, q) ==
    /\ c[p].def = d[q].def
    /\ SlotPath(c, Parent(p)) = SlotPath(d, Parent(q))
    /\ KeyValue(c[p]) = KeyValue(d[q])

\* A claim of c and one of d contest a name.
Collide(c, p, d, q) ==
    /\ ClaimsName(c, p) /\ ClaimsName(d, q)
    /\ ~SameObject(c, p, d, q)
    /\ Contest(ExclusiveName(c, p, "PerOwner"), ExclusiveName(d, q, "PerOwner"))

NamesFree(c, base) ==
    \A d \in {c, base} : \A p \in DOMAIN c, q \in DOMAIN d : ~Collide(c, p, d, q)

CommitClean(c, base) == RelationsHold(c, base) /\ NamesFree(c, base)
=============================================================================
