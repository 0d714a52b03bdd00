------------------------------- MODULE Merge -------------------------------
(***************************************************************************)
(* merge.Merge: folds the parts, in order, into one output tree.  A line   *)
(* of a part finds the output line that claims the same merge slot, and a  *)
(* resolver decides what becomes of a contested slot.                      *)
(*                                                                         *)
(* One step folds one line of a part, two if the slot is contested: the    *)
(* resolver's answer, and what becomes of it.  The recursion into sections *)
(* is the worklist todo, in the order in which level() visits the lines.   *)
(***************************************************************************)
EXTENDS Grammar

CONSTANTS
    Merges,      \* the [parts, policy] of the calls: the configurations that are
                 \* merged, the resolver "Declared", "Refuse" or a caller's "Custom"
    FreshLines   \* the lines a MergeFunc may build

ASSUME MergeAssumption ==
    \A m \in Merges :
        /\ m.policy \in {"Declared", "Refuse", "Custom"}
        /\ m.parts \in Seq(ToSet(m.parts)) /\ SameCaptures(m.parts)
        /\ \A k \in DOMAIN m.parts : Configuration(m.parts[k])

VARIABLES
    parts, policy,   \* the inputs of Merge, never assigned
    todo,            \* the part lines left to fold: [at, part, from]
    slot, answer,    \* the output line that is contested, the resolver's answer
    output,          \* the output tree, a configuration
    origin,          \* per output line, the part it is attributed to
    log              \* the diagnostics

mergeVars == <<parts, policy, todo, slot, answer, output, origin, log>>

-----------------------------------------------------------------------------
(* Slots.                                                                  *)

ToggleCanonical(d) ==
    IF Schema[d].toggles = <<>> THEN d ELSE Schema[d].toggles[2]

MergeIdent(l) ==
    IF /\ ~Keyed(l.def) /\ Schema[l.def].card = "ZeroToOne"
       /\ CategoryOf(l.def) # "KindedSingle"
    THEN [def |-> ToggleCanonical(l.def), kind |-> "", key |-> <<"none">>]
    ELSE Ident(l)

MergePath(c, p) == [k \in DOMAIN p |-> MergeIdent(c[SubSeq(p, 1, k)])]

\* The line being folded, and the output lines that claim its slot.
Folded(t) == parts[t.part][t.from]

Claimants(t) ==
    {q \in DOMAIN output :
        IsChild(t.at, q) /\ MergeIdent(output[q]) = MergeIdent(Folded(t))}

\* The first claimant keeps the slot.
Claimant(t) == CHOOSE q \in Claimants(t) : \A r \in Claimants(t) : Last(q) <= Last(r)

LevelItems(at, part, p) ==
    LET ks == Kids(parts[part], p)
    IN  [j \in DOMAIN ks |-> [at |-> at, part |-> part, from |-> ks[j]]]

-----------------------------------------------------------------------------
(* Resolvers.                                                              *)

\* Seeded fault: only the earlier definition is asked.
StrategyOfEarlier(earlier, later) == Schema[earlier.def].merge

\* The earlier definition's strategy, unless it has none.
DeclaredStrategy(earlier, later) ==
    IF Schema[earlier.def].merge # "Default" THEN Schema[earlier.def].merge
    ELSE Schema[later.def].merge

SameList(l, m) ==
    LET a == Schema[l.def].list
    IN  /\ l.def = m.def /\ l.block = m.block /\ a # ""
        /\ ~Malformed(l.f[a]) /\ ~Malformed(m.f[a])
        /\ \A x \in DOMAIN l.f \ {a} : l.f[x] = m.f[x]

\* The canonical spelling of a set of elements is the same for equal sets.
Union(l, m) ==
    LET a == Schema[l.def].list
    IN  [l EXCEPT !.f[a] = SetToSeq(ToSet(l.f[a]) \cup ToSet(m.f[a]))]

\* A resolver's answer: which line, the outcome, and whether a fresh line
\* renders from its fields, binds its definition and is in no other tree.
Answer(node, line, outcome, sound) ==
    [node |-> node, line |-> line, outcome |-> outcome, sound |-> sound]

\* No resolver has been asked.
NoAnswer == [node |-> "none"]

Earlier(l, outcome) == Answer("earlier", l, outcome, TRUE)
Later(m, outcome) == Answer("later", m, outcome, TRUE)

\* A MergeFunc or a caller's resolver may answer anything but an unknown
\* outcome or a nil node, which panic.
CustomAnswers(l, m) ==
    {Earlier(l, "Refused")}
        \cup {Earlier(l, o) : o \in {"Overridden", "Combined"}}
        \cup {Later(m, o) : o \in {"Overridden", "Combined"}}
        \cup {Answer("fresh", n, o, s) :
                n \in FreshLines, o \in {"Overridden", "Combined"}, s \in BOOLEAN}

UnionAnswer(l, m) ==
    IF ToSet(l.f[Schema[l.def].list]) \cup ToSet(m.f[Schema[m.def].list]) = {}
    THEN Earlier(l, "Combined")
    ELSE Answer("fresh", Union(l, m), "Combined", TRUE)

Undeclared(l, m) ==
    CASE policy = "Refuse" -> Earlier(l, "Refused")
      [] policy = "Declared" ->
            Later(m, IF l.def = m.def /\ IsSection(m.def) THEN "Combined"
                     ELSE "Overridden")

Answers(l, m) ==
    LET declared == DeclaredStrategy(l, m)
    IN  CASE policy = "Custom"      -> CustomAnswers(l, m)
          [] declared = "KeepFirst" -> {Earlier(l, "Overridden")}
          [] declared = "KeepLast"  -> {Later(m, "Overridden")}
          [] declared = "Custom"    -> CustomAnswers(l, m)
          [] OTHER -> {IF SameList(l, m) THEN UnionAnswer(l, m) ELSE Undeclared(l, m)}

\* Seeded fault: the slot of a fresh line is not compared.
FreshAnySlot(t, a) ==
    /\ a.sound
    /\ a.line.def \in IF t.at = <<>> THEN Roots ELSE Schema[output[t.at].def].kids

\* freshNodeValid: the fresh line keeps the slot and its definition can occur
\* at this level.
FreshValid(t, a) ==
    /\ a.sound
    /\ MergeIdent(a.line) = MergeIdent(Folded(t))
    /\ a.line.def \in IF t.at = <<>> THEN Roots ELSE Schema[output[t.at].def].kids

-----------------------------------------------------------------------------
(* Edits of the output tree.                                               *)

\* The subtree of the folded line, moved to q.
Moved(t, q) ==
    {q \o SubSeq(x, Len(t.from) + 1, Len(x)) : x \in Tree(parts[t.part], t.from)}

Source(t, q, x) == t.from \o SubSeq(x, Len(q) + 1, Len(x))

\* The subtree at q, if any, gives way to a clone of the folded line's.
PlaceClone(t, q) ==
    LET rest == DOMAIN output \ Tree(output, q)
    IN  /\ output' = [x \in rest \cup Moved(t, q) |->
                        IF x \in rest THEN output[x]
                        ELSE parts[t.part][Source(t, q, x)]]
        /\ origin' = [x \in rest \cup Moved(t, q) |->
                        IF x \in rest THEN origin[x] ELSE t.part]

\* A diagnostic names its slot and the texts of some lines.
Note(sev, t, lines) ==
    [sev |-> sev, slot |-> MergePath(parts[t.part], t.from),
     named |-> {Text(l) : l \in lines}]

\* Equal values agree, unless a strategy owns the whole section.
Contested(l, m) ==
    \/ ~SameValue(l, m)
    \/ DeclaredStrategy(l, m) # "Default" /\ IsSection(m.def)

-----------------------------------------------------------------------------
(* The fold.                                                               *)

Init ==
    /\ \E m \in Merges : parts = m.parts /\ policy = m.policy
    /\ todo = FlattenSeq([k \in DOMAIN parts |-> LevelItems(<<>>, k, <<>>)])
    /\ slot = <<>> /\ answer = NoAnswer
    /\ output = <<>>
    /\ origin = <<>>
    /\ log = {}

\* The next line, the output line that claims its slot, and the value of a
\* contested slot.
Item == Head(todo)
Line == Folded(Item)
Slot == Claimant(Item)
Held == output[slot]

Conflict == answer # NoAnswer

\* The line meets an output line, and the resolver has not been asked.
Meets == ~Conflict /\ todo # <<>> /\ Claimants(Item) # {}

\* The line is done; the items of first come next.
Fold(first) ==
    /\ todo' = first \o Tail(todo)
    /\ slot' = <<>> /\ answer' = NoAnswer
    /\ UNCHANGED <<parts, policy>>

\* Seeded fault: an agreed section is not descended into.
NotShared == <<>>

\* The lines below the folded line meet those of the output line.
Shared == LevelItems(Slot, Item.part, Item.from)

\* Nothing claims the slot: the line joins the level with all it contains.
NewSlot ==
    /\ todo # <<>> /\ Claimants(Item) = {}
    /\ Fold(<<>>)
    /\ PlaceClone(Item, Append(Item.at, Len(Kids(output, Item.at)) + 1))
    /\ UNCHANGED log

Agree ==
    /\ Meets /\ ~Contested(output[Slot], Line)
    /\ Fold(IF IsSection(Line.def) THEN Shared ELSE <<>>)
    /\ UNCHANGED <<output, origin, log>>

\* The resolver is called on a contested slot.
Resolve ==
    /\ Meets
    /\ slot' = Slot
    /\ Contested(output[slot'], Line)
    /\ answer' \in Answers(output[slot'], Line)
    /\ UNCHANGED <<parts, policy, todo, output, origin, log>>

Logs(sev, lines) == log' = log \cup {Note(sev, Item, lines)}

SectionSlot == IsSection(Held.def) \/ IsSection(Line.def)

\* A fresh line that slot() rejects before it looks at the outcome.
Rejected == answer.node = "fresh" /\ ~FreshValid(Item, answer)

\* A sound answer with the given outcome.
Decided(outcome) == Conflict /\ answer.outcome = outcome /\ ~Rejected

\* An error about some lines that leaves the earlier stanza whole.
KeepsEarlier(named) ==
    /\ Fold(<<>>)
    /\ Logs("error", named)
    /\ UNCHANGED <<output, origin>>

Refused == Decided("Refused") /\ KeepsEarlier({Held, Line})

\* The other errors have the path of the later line and no other text.
RejectFresh == Conflict /\ Rejected /\ KeepsEarlier({Line})

\* A fresh line has no children, so it may not replace a section.
RefuseChildless ==
    /\ Decided("Overridden") /\ answer.node = "fresh" /\ SectionSlot
    /\ KeepsEarlier({Line})

\* Seeded fault: the definition of the answer is not compared.
MixesInputs == SectionSlot /\ Held.def # Line.def /\ answer.line.def # Line.def

\* Children of different definitions cannot share a section header.
Mixes == SectionSlot /\ (Held.def # Line.def \/ answer.line.def # Held.def)

RefuseMix == Decided("Combined") /\ Mixes /\ KeepsEarlier({Line})

KeepEarlier ==
    /\ Decided("Overridden") /\ answer.node = "earlier"
    /\ Fold(<<>>)
    /\ Logs("warning", {Line})
    /\ UNCHANGED <<output, origin>>

TakeLater ==
    /\ Decided("Overridden") /\ answer.node = "later"
    /\ Fold(<<>>)
    /\ Logs("warning", {Held, Line})
    /\ PlaceClone(Item, slot)

TakeFresh ==
    /\ Decided("Overridden") /\ answer.node = "fresh" /\ ~SectionSlot
    /\ Fold(<<>>)
    /\ output' = [output EXCEPT ![slot] = answer.line]
    /\ origin' = [origin EXCEPT ![slot] = Item.part]
    /\ Logs("warning", {Held, Line})

Changed == Text(answer.line) # Text(Held)

\* Seeded fault: a changed section header is not reported.
CombineNotesOfLeaves ==
    IF Changed /\ ~IsSection(Line.def) THEN {Note("warning", Item, {Held, Line})}
    ELSE {}

\* combine reports values that were joined, and a later leaf left out.
CombineNotes ==
    CASE Changed -> {Note("warning", Item, {Held, Line})}
      [] /\ ~Changed
         /\ answer.node = "earlier" /\ ~IsSection(Line.def)
         /\ Text(Line) # Text(Held) -> {Note("warning", Item, {Line})}
      [] OTHER -> {}

\* Seeded fault: a combined line stays attributed to the earlier part.
OriginOfEarlier == origin[slot]

CombinedOrigin == IF Changed THEN Item.part ELSE origin[slot]

\* The output line takes the answer's value; a shared section is merged.
Combine ==
    /\ Decided("Combined") /\ ~Mixes
    /\ log' = log \cup CombineNotes
    /\ output' = [output EXCEPT ![slot] = answer.line]
    /\ origin' = [origin EXCEPT ![slot] = CombinedOrigin]
    /\ Fold(IF IsSection(Line.def) /\ Held.def = Line.def THEN Shared ELSE <<>>)

\* Merge has returned.
Returned == todo = <<>> /\ UNCHANGED mergeVars

Next ==
    \/ NewSlot \/ Agree \/ Resolve \/ Refused \/ RejectFresh \/ RefuseChildless
    \/ RefuseMix \/ KeepEarlier \/ TakeLater \/ TakeFresh \/ Combine \/ Returned

Spec == Init /\ [][Next]_mergeVars
-----------------------------------------------------------------------------
(* Properties.                                                             *)

Siblings(p, q) == p # q /\ Parent(p) = Parent(q)

ToggleGroup(d) == {d} \cup ToSet(Schema[d].toggles)

\* Two lines that a device cannot hold next to each other: the same object,
\* two values of a single-occupancy definition, two sides of a toggle.
SameObject(l, m) ==
    \/ Ident(l) = Ident(m)
    \/ /\ ~Keyed(l.def) /\ ~Keyed(m.def)
       /\ Schema[l.def].card = "ZeroToOne" /\ m.def \in ToggleGroup(l.def)

Single(c) ==
    \A p, q \in DOMAIN c : Siblings(p, q) => ~SameObject(c[p], c[q])

\* Parts without duplicates merge into an output without duplicates, whatever
\* the resolvers answer: later parts find the slot that earlier ones opened,
\* also after a line was replaced, combined or spelled another way
\* (merge.level's byIdent, mergeIdent, freshNodeValid).
OneLinePerSlot == (\A k \in DOMAIN parts : Single(parts[k])) => Single(output)

\* Every output line stands where its definition may occur: merging sections
\* never puts a line below a header of another definition (merge.combine).
ChildrenBelong ==
    \A q \in DOMAIN output :
        output[q].def \in
            IF Len(q) = 1 THEN Roots ELSE Schema[output[Parent(q)].def].kids

\* Only the declared strategies decide: nobody's MergeFunc or resolver does.
Declarative ==
    /\ policy # "Custom"
    /\ \A k \in DOMAIN parts : \A p \in DOMAIN parts[k] :
        Schema[parts[k][p].def].merge # "Custom"

\* Text t is that of line l, or a list with all of its elements.
Carries(t, l) ==
    LET a == Schema[l.def].list
    IN  \/ t = Text(l)
        \/ /\ a # "" /\ t[1] = l.def
           /\ \A x \in DOMAIN l.f \ {a} : l.f[x] = t[2][x]
           /\ ToSet(l.f[a]) \subseteq ToSet(t[2][a])

\* Whether the output has the value of part line p, alone or in a union.
Holds(k, p) ==
    \E q \in DOMAIN output :
        /\ MergePath(output, q) = MergePath(parts[k], p)
        /\ output[q].block = parts[k][p].block
        /\ Carries(Text(output[q]), parts[k][p])

\* Whether a diagnostic names part line p or a section around it.
Reported(k, p) ==
    \E n \in log : \E j \in 1..Len(p) :
        /\ n.slot = MergePath(parts[k], SubSeq(p, 1, j))
        /\ \E t \in n.named : Carries(t, parts[k][SubSeq(p, 1, j)])

Pending(k, p) ==
    \E j \in DOMAIN todo : todo[j].part = k /\ Below(todo[j].from, p)

\* No line of any part disappears in silence: once folded it is in the output
\* or a diagnostic names it or a section that holds it, even when a third part
\* overrides what the first two agreed on.  Under the declared strategies and
\* Refuse (merge.slot, merge.combine, UnionLists).
NothingLostSilently ==
    Declarative => \A k \in DOMAIN parts : \A p \in DOMAIN parts[k] :
        Pending(k, p) \/ Holds(k, p) \/ Reported(k, p)

\* The part a line is attributed to has a line in that slot, and it has that
\* text or a list that the output line includes: diagnostics that say "part 1"
\* mean it (merger.origin).
OriginNamesSource ==
    /\ DOMAIN origin = DOMAIN output
    /\ Declarative => \A q \in DOMAIN output :
        \E p \in DOMAIN parts[origin[q]] :
            /\ MergePath(parts[origin[q]], p) = MergePath(output, q)
            /\ Carries(Text(output[q]), parts[origin[q]][p])

\* The parts with a top-level line in slot i, and their lines there.
Bearers(i) ==
    {k \in DOMAIN parts : \E p \in DOMAIN parts[k] :
        Len(p) = 1 /\ MergeIdent(parts[k][p]) = i}

RootLine(c, i) ==
    CHOOSE p \in DOMAIN c : Len(p) = 1 /\ MergeIdent(c[p]) = i

Subtree(c, p) ==
    {<<SubSeq(x, Len(p) + 1, Len(x)), c[x]>> : x \in Tree(c, p)}

Stanza(k, i) == Subtree(parts[k], RootLine(parts[k], i))

\* What the lines of two parts in slot i declare between them.
Declared(i, k, j) ==
    {Schema[parts[n][RootLine(parts[n], i)].def].merge : n \in {k, j}} \ {"Default"}

\* A strategy decides for the whole stanza, whichever side of a toggle declares
\* it and however many parts follow: the first part has the slot if against each
\* of the others KeepFirst is declared, the last if KeepLast is
\* (declaredStrategy, mergeIdent, merge.level).
StrategyDecides ==
    /\ todo = <<>> /\ policy # "Custom"
    /\ \A k \in DOMAIN parts : Single(parts[k])
    =>
        \A q \in DOMAIN output :
            LET i == MergeIdent(output[q])
            IN  Len(q) = 1 =>
                \A k \in Bearers(i) :
                    \/ \A j \in Bearers(i) \ {k} : k < j /\ Declared(i, k, j) = {"KeepFirst"}
                    \/ \A j \in Bearers(i) \ {k} : j < k /\ Declared(i, k, j) = {"KeepLast"}
                    => Subtree(output, q) = Stanza(k, i)

\* No two parts have different values for a slot, and no strategy owns a
\* section that two of them have.
Agreed ==
    \A k, j \in DOMAIN parts : \A p \in DOMAIN parts[k], q \in DOMAIN parts[j] :
        <<k, p>> # <<j, q>> /\ MergePath(parts[k], p) = MergePath(parts[j], q)
        => /\ SameValue(parts[k][p], parts[j][q])
           /\ Schema[parts[k][p].def].merge = "Default"

\* Parts that agree merge without a word into exactly their lines
\* (merge.level).
AgreementIsSilent ==
    Agreed /\ todo = <<>> =>
        /\ log = {}
        /\ {<<MergePath(output, q), output[q]>> : q \in DOMAIN output} =
            UNION {{<<MergePath(parts[k], p), parts[k][p]>> : p \in DOMAIN parts[k]} :
                    k \in DOMAIN parts}

\* A contested leaf that keeps the earlier value has a diagnostic that names
\* the later one.  docs/design.md:127: "Returning `earlier` for different leaf
\* values reports a Warning because the later value is absent."
EarlierIsReported ==
    [][Conflict /\ ~SectionSlot /\ ~SameValue(Held, Line) /\ output'[slot] = Held =>
        \E n \in log' : /\ n.slot = MergePath(parts[Item.part], Item.from)
                        /\ Text(Line) \in n.named]_mergeVars
=============================================================================
