----------------------------- MODULE MCBuilder -----------------------------
(***************************************************************************)
(* Vendor packages that declare two or three definitions.                  *)
(***************************************************************************)
EXTENDS Builder, TLC

CONSTANTS x, y, comma, space1, narrow, wide

\* "wide" expands under both separators, "narrow" under the comma only.
Both == {comma, space1}
Ranges == {narrow, wide}
Expands == {<<narrow, comma>>, <<wide, comma>>, <<wide, space1>>}

\* Raw blocks, sections, removal and the rewrites of Fold.
ShapeMethods ==
    {"Child", "Block", "SectionExit", "ClearOnRemove", "Protect", "Negate",
     "Key", "List", "ListDelta", "ListContinues", "Members", "RespellAs"}

\* What toggle members share.
GroupMethods == {"Card", "Key", "Merge", "Toggles"}

\* What a list and a name are read against.
WordMethods ==
    {"List", "ListSep", "ListKeywords", "ScopedBy", "ScopedByDevice", "Namespace"}

DeclaredBy(methods, size) ==
    {[methods |-> methods, defs |-> S] : S \in {T \in SUBSET Defs : Cardinality(T) = size}}

Vendors == DeclaredBy(ShapeMethods, 2) \cup DeclaredBy(GroupMethods, 3)
               \cup DeclaredBy(WordMethods, 2)

\* Lists that continue one another.
Chainers == DeclaredBy({"List", "ListContinues"}, 3)

Alike == Permutations(Defs)
=============================================================================
